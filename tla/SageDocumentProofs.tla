------------------------- MODULE SageDocumentProofs -------------------------
(***************************************************************************)
(* The document of the XML writer, for every AST: each node of the file    *)
(* has exactly one element, in its place, and no directive is lost.        *)
(*                                                                         *)
(* The proof follows the traversal.  At any moment the nodes visit() will  *)
(* be called on are partly behind it (Visited) and partly to come          *)
(* (ToCome); kids holds exactly the items of those whose element has begun *)
(* (Begun), and all the items of those whose activation is over.           *)
(***************************************************************************)
EXTENDS SageDocument, SageVisitorProofs, FiniteSetTheorems

-----------------------------------------------------------------------------
(* The inductive invariant.                                                *)

\* The nodes the loops of an activation will call visit() on.
Coming(f) ==
  IF f.pc = "enter" THEN Callees(f.node)
  ELSE (Range(f.todo) \cup IF f.pc = "succ" THEN Range(ast.inode[f.node]) ELSE {}) \ {NULL}

Pending == UNION {Coming(frames[i]) : i \in 1..Len(frames)}
ToCome  == Closure(Pending, Calls)
Visited == Reached \ ToCome

Entering(n) == frames # <<>> /\ Top.pc = "enter" /\ Top.node = n

\* The nodes whose element, or its start tag, is written.
Begun == {n \in Visited : n \notin ast.foreign /\ ~Skipped(n) /\ ~Entering(n)}

\* Those of them whose activation is over.
Finished(n) == n \in Begun /\ \A i \in 1..Len(frames) : frames[i].node # n

\* The list an activation goes through, and how far it is.
List(f)      == IF f.pc = "inode" THEN ast.inode[f.node] ELSE Successors(f.node)
IsRest(t, s) == Len(t) <= Len(s) /\ \A i \in 1..Len(t) : t[i] = s[Len(s) - Len(t) + i]

\* The element that is innermost when h elements are open.
ElementAt(h) == IF h = 0 THEN Doc ELSE open[h]

\* The call stack is a path of visited nodes, no node twice.
StackVisited  == \A i \in 1..Len(frames) : frames[i].node \in Visited
StackDistinct == \A i, j \in 1..Len(frames) : frames[i].node = frames[j].node => i = j
StackPhase ==
  \A i \in 1..Len(frames) : frames[i].pc # "enter" =>
    /\ frames[i].node \notin ast.foreign
    /\ frames[i].pc = "skip" <=> Skipped(frames[i].node)
StackTodo ==
  \A i \in 1..Len(frames) :
    frames[i].pc # "enter" => IsRest(frames[i].todo, List(frames[i]))
StackCalled ==
  \A i \in 1..(Len(frames) - 1) : frames[i + 1].node \in Range(List(frames[i])) \ {NULL}

\* An activation writes into the element its node belongs in.
StackInside == \A i \in 1..Len(frames) : frames[i].node \in Inside(ElementAt(frames[i].base))

\* Every open element is that of an activation, and the last item of the
\* element around it.
OpenOwned ==
  \A h \in 1..Len(open) : \E i \in 1..Len(frames) :
    Opened(frames[i]) /\ Height(frames[i]) = h /\ frames[i].node = open[h]
Ends(e, item) == kids[e] # <<>> /\ kids[e][Len(kids[e])] = item
OpenLast ==
  \A i \in 1..Len(frames) :
    Opened(frames[i]) => Ends(ElementAt(frames[i].base), <<"element", frames[i].node>>)

CallPath == StackVisited /\ StackDistinct /\ StackPhase /\ StackTodo /\ StackCalled /\ StackInside
CallStack == CallPath /\ OpenOwned /\ OpenLast

\* No item is written twice, and none before its time or in another place.
KidsDistinct ==
  \A e \in Node \cup {Doc} : \A i, j \in 1..Len(kids[e]) : kids[e][i] = kids[e][j] => i = j
Belongs(e, k, n) ==
  /\ n \in Begun
  /\ k = "element" => n \in Inside(e)
  /\ k = "before" => IF n = ast.global THEN e = n ELSE n \in Inside(e)
  /\ k = "after" => Finished(n) /\ n \in Inside(e)
  /\ k = "inside" => Finished(n) /\ e = n
  /\ k = "info" => Finished(n) /\ e = n /\ n \in ast.info
KidsBelong ==
  \A e \in Node \cup {Doc} : \A i \in 1..Len(kids[e]) : \A k \in ItemKind, n \in Node :
    kids[e][i] = <<k, n>> => Belongs(e, k, n)
KidsNone == \A n \in Node \ Begun : kids[n] = <<>>

\* The items a node has in the element around it, and those in its own.
Around(e, n) ==
  \E p \in 1..Len(kids[e]) :
    /\ kids[e][p] = <<"element", n>>
    /\ "before" \in ast.pragma[n] /\ n # ast.global => p > 1 /\ kids[e][p - 1] = <<"before", n>>
    /\ "after" \in ast.pragma[n] /\ Finished(n) =>
         p < Len(kids[e]) /\ kids[e][p + 1] = <<"after", n>>
Own(n) ==
  /\ "before" \in ast.pragma[n] /\ n = ast.global =>
       kids[n] # <<>> /\ kids[n][1] = <<"before", n>>
  /\ "inside" \in ast.pragma[n] /\ Finished(n) => Ends(n, <<"inside", n>>)
  /\ n \in ast.info /\ Finished(n) => \E q \in 1..Len(kids[n]) : kids[n][q] = <<"info", n>>
ItemsKept ==
  \A n \in Begun : Own(n) /\ \A e \in Node \cup {Doc} : n \in Inside(e) => Around(e, n)

SuccessorsFirst ==
  \A n \in Node : \A s \in Range(Successors(n)), t \in Range(ast.inode[n]) :
    \A i \in At(n, "element", s), j \in At(n, "element", t) : i < j

Document == KidsDistinct /\ KidsBelong /\ KidsNone /\ ItemsKept /\ SuccessorsFirst

DInv == IInv /\ CallStack /\ Document

-----------------------------------------------------------------------------
(* Lemmas on the reference definitions.                                    *)

\* A closure contains its base and is closed.
LEMMA ClosureFacts ==
  ASSUME NEW S \in SUBSET Node, NEW next \in [Node -> SUBSET Node]
  PROVE  /\ Closure(S, next) \in SUBSET Node
         /\ S \subseteq Closure(S, next)
         /\ \A m \in Closure(S, next) : next[m] \subseteq Closure(S, next)
  <1>1. Closure(S, next) \in SUBSET Node /\ S \subseteq Closure(S, next)
    BY DEF Closure
  <1>2. ASSUME NEW m \in Closure(S, next), NEW n \in next[m]
        PROVE  n \in Closure(S, next)
    <2>1. n \in Node /\ m \in Node
      BY <1>1, <1>2
    <2>2. ASSUME NEW C \in SUBSET Node, S \subseteq C, \A k \in C : next[k] \subseteq C
          PROVE  n \in C
      <3>1. m \in C
        BY <2>2 DEF Closure
      <3>2. QED
        BY <2>2, <3>1
    <2>3. QED
      BY <2>1, <2>2 DEF Closure
  <1>3. QED
    BY <1>1, <1>2

\* It is the smallest such set.
LEMMA ClosureLeast ==
  ASSUME NEW S \in SUBSET Node, NEW next \in [Node -> SUBSET Node],
         NEW C \in SUBSET Node, S \subseteq C, \A m \in C : next[m] \subseteq C
  PROVE  Closure(S, next) \subseteq C
  BY DEF Closure

\* Whatever is in a closure is in its base or follows from a member.
LEMMA ClosureOrigin ==
  ASSUME NEW S \in SUBSET Node, NEW next \in [Node -> SUBSET Node],
         NEW n \in Closure(S, next), n \notin S
  PROVE  \E m \in Closure(S, next) : n \in next[m]
  <1> DEFINE K == Closure(S, next)
             C == {c \in K : c \in S \/ \E m \in K : c \in next[m]}
  <1>1. K \in SUBSET Node /\ S \subseteq K /\ \A m \in K : next[m] \subseteq K
    BY ClosureFacts
  <1> HIDE DEF K
  <1>2. C \in SUBSET Node /\ S \subseteq C /\ \A m \in C : next[m] \subseteq C
    BY <1>1
  <1> HIDE DEF C
  <1>3. K \subseteq C
    BY <1>2, ClosureLeast DEF K
  <1>4. n \in C
    BY <1>3 DEF K
  <1>5. QED
    BY <1>4 DEF C, K

\* The nodes of a list.
LEMMA RangeFacts ==
  ASSUME NEW S, NEW s \in Seq(S)
  PROVE  /\ Len(s) \in Nat
         /\ \A i \in 1..Len(s) : s[i] \in Range(s) /\ s[i] \in S
         /\ \A x \in Range(s) : x \in S /\ \E i \in 1..Len(s) : s[i] = x
  <1>1. DOMAIN s = 1..Len(s) /\ Len(s) \in Nat /\ \A i \in 1..Len(s) : s[i] \in S
    BY LenProperties, ElementOfSeq
  <1>2. QED
    BY <1>1 DEF Range

\* The two loops of visit(n), and Places, which joins them.
LEMMA PlacesFacts ==
  ASSUME ast \in Asts, NEW n \in Node
  PROVE  /\ Len(Places(ast, n)) = Len(Successors(n)) + Len(ast.inode[n])
         /\ \A i \in 1..Len(Successors(n)) : Places(ast, n)[i] = Successors(n)[i]
         /\ \A i \in 1..Len(ast.inode[n]) :
              Places(ast, n)[Len(Successors(n)) + i] = ast.inode[n][i]
  <1>1. Successors(n) \in Seq(Node \cup {NULL}) /\ ast.inode[n] \in Seq(Node \cup {NULL})
    BY AstFacts
  <1>2. Places(ast, n) = Successors(n) \o ast.inode[n]
    BY DEF Places, Successors
  <1>3. Len(Successors(n)) \in Nat /\ Len(ast.inode[n]) \in Nat
    BY <1>1, LenProperties
  <1>4. \A i \in 1..Len(ast.inode[n]) :
          /\ Len(Successors(n)) + i \in 1..(Len(Successors(n)) + Len(ast.inode[n]))
          /\ ~(Len(Successors(n)) + i <= Len(Successors(n)))
          /\ (Len(Successors(n)) + i) - Len(Successors(n)) = i
    BY <1>3
  <1>5. QED
    BY <1>1, <1>2, <1>3, <1>4, ConcatProperties

\* A node hangs from one slot of one list of one node.
LEMMA OneSlot ==
  ASSUME ast \in Asts, NEW m \in Node, NEW n \in Node
  PROVE  /\ \A i \in 1..Len(Successors(m)), j \in 1..Len(Successors(n)) :
              Successors(m)[i] = Successors(n)[j] /\ Successors(m)[i] # NULL => m = n /\ i = j
         /\ \A i \in 1..Len(ast.inode[m]), j \in 1..Len(ast.inode[n]) :
              ast.inode[m][i] = ast.inode[n][j] /\ ast.inode[m][i] # NULL => m = n /\ i = j
         /\ \A i \in 1..Len(Successors(m)), j \in 1..Len(ast.inode[n]) :
              Successors(m)[i] = ast.inode[n][j] => Successors(m)[i] = NULL
         /\ \A i \in 1..Len(Successors(m)) : Successors(m)[i] # ast.root
         /\ \A i \in 1..Len(ast.inode[m]) : ast.inode[m][i] # ast.root
  <1> DEFINE a(k) == Len(Successors(k))
             b(k) == Len(ast.inode[k])
             P(k) == Places(ast, k)
  <1>1. \A k \in Node : a(k) \in Nat /\ b(k) \in Nat
    BY AstFacts, LenProperties
  <1>2. \A k \in Node : /\ Len(P(k)) = a(k) + b(k)
                        /\ \A i \in 1..a(k) : P(k)[i] = Successors(k)[i]
                        /\ \A i \in 1..b(k) : P(k)[a(k) + i] = ast.inode[k][i]
    BY PlacesFacts
  <1>3. /\ \A i \in 1..Len(P(m)) : P(m)[i] # ast.root
        /\ \A i \in 1..Len(P(m)), j \in 1..Len(P(n)) :
              P(m)[i] = P(n)[j] /\ P(m)[i] # NULL => m = n /\ i = j
    BY TreeAssumption
  <1> HIDE DEF a, b, P
  <1>4. \A k \in Node : /\ \A i \in 1..a(k) : i \in 1..Len(P(k))
                        /\ \A i \in 1..b(k) : a(k) + i \in 1..Len(P(k))
    <2> SUFFICES ASSUME NEW k \in Node
                 PROVE  /\ \A i \in 1..a(k) : i \in 1..Len(P(k))
                        /\ \A i \in 1..b(k) : a(k) + i \in 1..Len(P(k))
      OBVIOUS
    <2>1. a(k) \in Nat /\ b(k) \in Nat /\ Len(P(k)) = a(k) + b(k)
      BY <1>1, <1>2
    <2>2. QED
      BY <2>1
  <1>5. \A i \in 1..a(m), j \in 1..a(n) :
          Successors(m)[i] = Successors(n)[j] /\ Successors(m)[i] # NULL => m = n /\ i = j
    BY <1>2, <1>3, <1>4
  <1>6. \A i \in 1..b(m), j \in 1..b(n) :
          ast.inode[m][i] = ast.inode[n][j] /\ ast.inode[m][i] # NULL => m = n /\ i = j
    <2> SUFFICES ASSUME NEW i \in 1..b(m), NEW j \in 1..b(n),
                        ast.inode[m][i] = ast.inode[n][j], ast.inode[m][i] # NULL
                 PROVE  m = n /\ i = j
      OBVIOUS
    <2>1. m = n /\ a(m) + i = a(n) + j
      BY <1>2, <1>3, <1>4
    <2>2. QED
      BY <1>1, <2>1
  <1>7. \A i \in 1..a(m), j \in 1..b(n) :
          Successors(m)[i] = ast.inode[n][j] => Successors(m)[i] = NULL
    <2> SUFFICES ASSUME NEW i \in 1..a(m), NEW j \in 1..b(n),
                        Successors(m)[i] = ast.inode[n][j], Successors(m)[i] # NULL
                 PROVE  FALSE
      OBVIOUS
    <2>1. m = n /\ i = a(n) + j
      BY <1>2, <1>3, <1>4
    <2>2. QED
      BY <1>1, <2>1
  <1>8. /\ \A i \in 1..a(m) : Successors(m)[i] # ast.root
        /\ \A i \in 1..b(m) : ast.inode[m][i] # ast.root
    BY <1>2, <1>3, <1>4
  <1>9. QED
    BY <1>5, <1>6, <1>7, <1>8 DEF a, b

\* The same of the sets of their nodes.
LEMMA OneCaller ==
  ASSUME ast \in Asts
  PROVE  /\ Calls \in [Node -> SUBSET Node] /\ Through \in [Node -> SUBSET Node]
         /\ \A m \in Node : /\ ast.root \notin Callees(m)
                            /\ Calls[m] = Callees(m)
                            /\ Through[m] = IF Skipped(m) THEN Callees(m) ELSE {}
         /\ \A m, n \in Node : \A x \in Callees(m) : x \in Callees(n) => m = n
         /\ \A m, n \in Node : \A x \in Range(Successors(m)) \ {NULL} :
              /\ x \notin Range(ast.inode[n])
              /\ x \in Callees(n) => m = n
  <1>1. \A m \in Node : /\ Successors(m) \in Seq(Node \cup {NULL})
                        /\ ast.inode[m] \in Seq(Node \cup {NULL})
    BY AstFacts
  <1>2. \A m \in Node :
          /\ \A x \in Range(Successors(m)) :
               x \in Node \cup {NULL} /\ \E i \in 1..Len(Successors(m)) : Successors(m)[i] = x
          /\ \A x \in Range(ast.inode[m]) :
               x \in Node \cup {NULL} /\ \E i \in 1..Len(ast.inode[m]) : ast.inode[m][i] = x
    <2>1. \A m \in Node : \A x \in Range(Successors(m)) :
            x \in Node \cup {NULL} /\ \E i \in 1..Len(Successors(m)) : Successors(m)[i] = x
      BY <1>1, RangeFacts
    <2>2. \A m \in Node : \A x \in Range(ast.inode[m]) :
            x \in Node \cup {NULL} /\ \E i \in 1..Len(ast.inode[m]) : ast.inode[m][i] = x
      BY <1>1, RangeFacts
    <2>3. QED
      BY <2>1, <2>2
  <1>3. \A m \in Node : /\ Callees(m) \subseteq Node
                        /\ Callees(m) \subseteq Range(Successors(m)) \cup Range(ast.inode[m])
                        /\ NULL \notin Callees(m)
    BY <1>2 DEF Callees
  <1>4. \A m \in Node : ast.root \notin Callees(m)
    <2> SUFFICES ASSUME NEW m \in Node
                 PROVE  ast.root \notin Callees(m)
      OBVIOUS
    <2>1. /\ \A i \in 1..Len(Successors(m)) : Successors(m)[i] # ast.root
          /\ \A i \in 1..Len(ast.inode[m]) : ast.inode[m][i] # ast.root
      BY OneSlot
    <2>2. ast.root \notin Range(Successors(m))
      BY <1>2, <2>1
    <2>3. ast.root \notin Range(ast.inode[m])
      BY <1>2, <2>1
    <2>4. QED
      BY <1>3, <2>2, <2>3
  <1>5. \A m, n \in Node : \A x \in Range(Successors(m)) \ {NULL} : x \notin Range(ast.inode[n])
    <2> SUFFICES ASSUME NEW m \in Node, NEW n \in Node, NEW x \in Range(Successors(m)) \ {NULL},
                        x \in Range(ast.inode[n])
                 PROVE  FALSE
      OBVIOUS
    <2>1. PICK i \in 1..Len(Successors(m)) : Successors(m)[i] = x
      BY <1>2
    <2>2. PICK j \in 1..Len(ast.inode[n]) : ast.inode[n][j] = x
      BY <1>2
    <2>3. QED
      BY <2>1, <2>2, OneSlot
  <1>6. \A m, n \in Node : \A x \in Range(Successors(m)) \ {NULL} :
          x \in Range(Successors(n)) => m = n
    <2> SUFFICES ASSUME NEW m \in Node, NEW n \in Node, NEW x \in Range(Successors(m)) \ {NULL},
                        x \in Range(Successors(n))
                 PROVE  m = n
      OBVIOUS
    <2>1. PICK i \in 1..Len(Successors(m)) : Successors(m)[i] = x
      BY <1>2
    <2>2. PICK j \in 1..Len(Successors(n)) : Successors(n)[j] = x
      BY <1>2
    <2>3. QED
      BY <2>1, <2>2, OneSlot
  <1>7. \A m, n \in Node : \A x \in Range(ast.inode[m]) \ {NULL} :
          x \in Range(ast.inode[n]) => m = n
    <2> SUFFICES ASSUME NEW m \in Node, NEW n \in Node, NEW x \in Range(ast.inode[m]) \ {NULL},
                        x \in Range(ast.inode[n])
                 PROVE  m = n
      OBVIOUS
    <2>1. PICK i \in 1..Len(ast.inode[m]) : ast.inode[m][i] = x
      BY <1>2
    <2>2. PICK j \in 1..Len(ast.inode[n]) : ast.inode[n][j] = x
      BY <1>2
    <2>3. QED
      BY <2>1, <2>2, OneSlot
  <1>8. \A m, n \in Node : \A x \in Callees(m) : x \in Callees(n) => m = n
    <2> SUFFICES ASSUME NEW m \in Node, NEW n \in Node, NEW x \in Callees(m), x \in Callees(n)
                 PROVE  m = n
      OBVIOUS
    <2>1. /\ x # NULL
          /\ x \in Range(Successors(m)) \/ x \in Range(ast.inode[m])
          /\ x \in Range(Successors(n)) \/ x \in Range(ast.inode[n])
      BY <1>3
    <2>2. QED
      BY <1>5, <1>6, <1>7, <2>1
  <1>9. \A m, n \in Node : \A x \in Range(Successors(m)) \ {NULL} : x \in Callees(n) => m = n
    <2> SUFFICES ASSUME NEW m \in Node, NEW n \in Node, NEW x \in Range(Successors(m)) \ {NULL},
                        x \in Callees(n)
                 PROVE  m = n
      OBVIOUS
    <2>1. x \in Range(Successors(n)) \/ x \in Range(ast.inode[n])
      BY <1>3
    <2>2. QED
      BY <1>5, <1>6, <2>1
  <1>10. /\ Calls \in [Node -> SUBSET Node] /\ Through \in [Node -> SUBSET Node]
         /\ \A m \in Node : /\ Calls[m] = Callees(m)
                            /\ Through[m] = IF Skipped(m) THEN Callees(m) ELSE {}
    BY <1>3 DEF Calls, Through
  <1>11. QED
    BY <1>4, <1>5, <1>8, <1>9, <1>10

\* A node that gets no end tag calls visit() on no other.
LEMMA EmptyHasNoCallees ==
  ASSUME ast \in Asts, NEW n \in Node, ~HasInode(n)
  PROVE  Callees(n) = {} /\ n \notin ast.info /\ ast.pragma[n] = {}
  <1>1. /\ n \notin ast.listed /\ n \notin ast.info
        /\ n \in ast.types \/ ast.succ[n] = <<>>
    BY DEF HasInode
  <1>2. /\ ast.pragma[n] # {} => n \in ast.info
        /\ ast.inode[n] # <<>> => n \in ast.listed \/ (n \notin ast.types /\ ast.succ[n] # <<>>)
    BY AstAssumption
  <1>3. ast.inode[n] = <<>> /\ ast.pragma[n] = {}
    BY <1>1, <1>2
  <1>4. Successors(n) = <<>>
    BY <1>1 DEF Successors
  <1>5. Range(<<>>) = {}
    <2>1. DOMAIN <<>> = {}
      BY EmptySeq
    <2>2. QED
      BY <2>1 DEF Range
  <1>6. QED
    BY <1>1, <1>3, <1>4, <1>5 DEF Callees

\* Where Inside(e) begins.
Begins(e) == IF e = Doc THEN {ast.root} ELSE IF Skipped(e) THEN {} ELSE Callees(e)

\* Inside(e) holds the callees of e and those of the skipped nodes in it.
LEMMA InsideFacts ==
  ASSUME ast \in Asts, NEW e \in Node \cup {Doc}
  PROVE  /\ Begins(e) \in SUBSET Node
         /\ Inside(e) \in SUBSET Node
         /\ Begins(e) \subseteq Inside(e)
         /\ \A m \in Inside(e) : Skipped(m) => Callees(m) \subseteq Inside(e)
         /\ \A n \in Inside(e) :
              n \in Begins(e) \/ \E m \in Inside(e) : Skipped(m) /\ n \in Callees(m)
  <1>1. Begins(e) \in SUBSET Node
    BY AstFacts, OneCaller DEF Begins
  <1>2. Through \in [Node -> SUBSET Node]
    BY OneCaller
  <1>3. Inside(e) = Closure(Begins(e), Through)
    BY DEF Inside, Begins
  <1>4. /\ Inside(e) \in SUBSET Node /\ Begins(e) \subseteq Inside(e)
        /\ \A m \in Inside(e) : Through[m] \subseteq Inside(e)
    BY <1>1, <1>2, <1>3, ClosureFacts
  <1>5. \A n \in Inside(e) : n \in Begins(e) \/ \E m \in Inside(e) : n \in Through[m]
    BY <1>1, <1>2, <1>3, ClosureOrigin
  <1>6. \A m \in Node : Through[m] = IF Skipped(m) THEN Callees(m) ELSE {}
    BY OneCaller
  <1>7. \A m \in Inside(e) : Skipped(m) => Callees(m) \subseteq Inside(e)
    BY <1>4, <1>6
  <1>8. \A n \in Inside(e) :
          n \in Begins(e) \/ \E m \in Inside(e) : Skipped(m) /\ n \in Callees(m)
    <2> SUFFICES ASSUME NEW n \in Inside(e), n \notin Begins(e)
                 PROVE  \E m \in Inside(e) : Skipped(m) /\ n \in Callees(m)
      OBVIOUS
    <2>1. PICK m \in Inside(e) : n \in Through[m]
      BY <1>5
    <2>2. Skipped(m) /\ n \in Callees(m)
      BY <1>4, <1>6, <2>1
    <2>3. QED
      BY <2>2
  <1>9. QED
    BY <1>1, <1>4, <1>7, <1>8

\* Of two elements, a node is at most in one.
LEMMA OneHome ==
  ASSUME ast \in Asts, NEW d \in Node \cup {Doc}, NEW e \in Node \cup {Doc},
         NEW n \in Inside(d), n \in Inside(e)
  PROVE  d = e
  <1> SUFFICES ASSUME d # e PROVE FALSE
    OBVIOUS
  <1> DEFINE C == Inside(d) \ Inside(e)
  <1>1. /\ Inside(d) \in SUBSET Node /\ Begins(d) \subseteq Inside(d) /\ Begins(d) \in SUBSET Node
        /\ \A m \in Inside(d) : Skipped(m) => Callees(m) \subseteq Inside(d)
    BY InsideFacts
  <1>2. \A c \in Inside(e) :
          c \in Begins(e) \/ \E m \in Inside(e) : Skipped(m) /\ c \in Callees(m)
    BY InsideFacts
  <1>3. \A m1, m2 \in Node : \A x \in Callees(m1) : x \in Callees(m2) => m1 = m2
    BY OneCaller
  <1>4. \A m \in Node : ast.root \notin Callees(m)
    BY OneCaller
  <1>5. Inside(e) \in SUBSET Node
    BY InsideFacts
  <1>6. ASSUME NEW c \in Begins(d)
        PROVE  c \notin Inside(e)
    <2> SUFFICES ASSUME c \in Inside(e) PROVE FALSE
      OBVIOUS
    <2>1. CASE d = Doc
      <3>1. c = ast.root /\ e \in Node /\ c \in Node
        BY <1>6, <2>1, AstFacts DEF Begins
      <3>2. c \notin Begins(e)
        BY <1>4, <3>1, NodeAssumption DEF Begins
      <3>3. QED
        BY <1>2, <1>4, <1>5, <3>1, <3>2
    <2>2. CASE d # Doc
      <3>1. d \in Node /\ ~Skipped(d) /\ c \in Callees(d)
        BY <1>6, <2>2 DEF Begins
      <3>2. CASE c \in Begins(e)
        <4>1. CASE e = Doc
          BY <1>4, <3>1, <3>2, <4>1 DEF Begins
        <4>2. CASE e # Doc
          <5>1. e \in Node /\ c \in Callees(e)
            BY <3>2, <4>2 DEF Begins
          <5>2. QED
            BY <1>3, <3>1, <5>1
        <4>3. QED
          BY <4>1, <4>2
      <3>3. CASE \E m \in Inside(e) : Skipped(m) /\ c \in Callees(m)
        <4>1. PICK m \in Inside(e) : Skipped(m) /\ c \in Callees(m)
          BY <3>3
        <4>2. m = d
          BY <1>3, <1>5, <3>1, <4>1
        <4>3. QED
          BY <3>1, <4>1, <4>2
      <3>4. QED
        BY <1>2, <3>2, <3>3
    <2>3. QED
      BY <2>1, <2>2
  <1>7. ASSUME NEW m \in C, Skipped(m), NEW c \in Callees(m)
        PROVE  c \notin Inside(e)
    <2> SUFFICES ASSUME c \in Inside(e) PROVE FALSE
      OBVIOUS
    <2>1. m \in Node /\ m \in Inside(d) /\ m \notin Inside(e)
      BY <1>1
    <2>2. CASE c \in Begins(e)
      <3>1. CASE e = Doc
        BY <1>4, <1>7, <2>1, <2>2, <3>1 DEF Begins
      <3>2. CASE e # Doc
        <4>1. e \in Node /\ ~Skipped(e) /\ c \in Callees(e)
          BY <2>2, <3>2 DEF Begins
        <4>2. m = e
          BY <1>3, <1>7, <2>1, <4>1
        <4>3. QED
          BY <1>7, <4>1, <4>2
      <3>3. QED
        BY <3>1, <3>2
    <2>3. CASE \E k \in Inside(e) : Skipped(k) /\ c \in Callees(k)
      <3>1. PICK k \in Inside(e) : Skipped(k) /\ c \in Callees(k)
        BY <2>3
      <3>2. m = k
        BY <1>3, <1>5, <1>7, <2>1, <3>1
      <3>3. QED
        BY <2>1, <3>2
    <2>4. QED
      BY <1>2, <2>2, <2>3
  <1>8. C \in SUBSET Node /\ Begins(d) \subseteq C
    BY <1>1, <1>6
  <1>9. \A m \in C : Through[m] \subseteq C
    <2> SUFFICES ASSUME NEW m \in C, NEW c \in Through[m]
                 PROVE  c \in C
      OBVIOUS
    <2>1. m \in Node /\ m \in Inside(d)
      BY <1>8
    <2>2. Skipped(m) /\ c \in Callees(m)
      BY <2>1, OneCaller
    <2>3. c \in Inside(d) /\ c \notin Inside(e)
      BY <1>1, <1>7, <2>1, <2>2
    <2>4. QED
      BY <2>3
  <1>10. Inside(d) = Closure(Begins(d), Through) /\ Through \in [Node -> SUBSET Node]
    BY OneCaller DEF Inside, Begins
  <1> HIDE DEF C
  <1>11. Inside(d) \subseteq C
    BY <1>1, <1>8, <1>9, <1>10, ClosureLeast
  <1>12. QED
    BY <1>11 DEF C

\* visit() is called on the file and on what it calls visit() on.
LEMMA ReachedFacts ==
  ASSUME ast \in Asts
  PROVE  /\ Reached \in SUBSET Node
         /\ ast.root \in Reached
         /\ \A m \in Reached : Callees(m) \subseteq Reached
  <1>1. Calls \in [Node -> SUBSET Node] /\ \A m \in Node : Calls[m] = Callees(m)
    BY OneCaller
  <1>2. {ast.root} \in SUBSET Node
    BY AstFacts
  <1>3. /\ Reached \in SUBSET Node /\ {ast.root} \subseteq Reached
        /\ \A m \in Reached : Calls[m] \subseteq Reached
    BY <1>1, <1>2, ClosureFacts DEF Reached
  <1>4. QED
    BY <1>1, <1>3

\* Every node visit() is called on belongs in one element.
LEMMA HomeFacts ==
  ASSUME ast \in Asts, NEW n \in Reached
  PROVE  /\ Home(n) \in Node \cup {Doc}
         /\ \A e \in Node \cup {Doc} : n \in Inside(e) <=> e = Home(n)
  <1> DEFINE C == {c \in Node : \E e \in Node \cup {Doc} : c \in Inside(e)}
  <1>1. Calls \in [Node -> SUBSET Node] /\ \A m \in Node : Calls[m] = Callees(m)
    BY OneCaller
  <1>2. {ast.root} \in SUBSET Node
    BY AstFacts
  <1>3. {ast.root} \subseteq C
    <2>1. Begins(Doc) = {ast.root} /\ Begins(Doc) \subseteq Inside(Doc)
      BY InsideFacts DEF Begins
    <2>2. QED
      BY <1>2, <2>1
  <1>4. \A m \in C : Calls[m] \subseteq C
    <2> SUFFICES ASSUME NEW m \in C, NEW c \in Callees(m)
                 PROVE  c \in C
      BY <1>1
    <2>1. PICK e \in Node \cup {Doc} : m \in Inside(e)
      OBVIOUS
    <2>2. m \in Node /\ c \in Node
      BY <1>1
    <2>3. CASE Skipped(m)
      <3>1. c \in Inside(e)
        BY <2>1, <2>3, InsideFacts
      <3>2. QED
        BY <2>2, <3>1
    <2>4. CASE ~Skipped(m)
      <3>1. Begins(m) = Callees(m)
        BY <2>2, <2>4, NodeAssumption DEF Begins
      <3>2. c \in Inside(m)
        BY <2>2, <3>1, InsideFacts
      <3>3. QED
        BY <2>2, <3>2
    <2>5. QED
      BY <2>3, <2>4
  <1>5. C \in SUBSET Node
    OBVIOUS
  <1> HIDE DEF C
  <1>6. Reached \subseteq C
    BY <1>1, <1>2, <1>3, <1>4, <1>5, ClosureLeast DEF Reached
  <1>7. \E e \in Node \cup {Doc} : n \in Inside(e)
    BY <1>6 DEF C
  <1>8. Home(n) \in Node \cup {Doc} /\ n \in Inside(Home(n))
    BY <1>7 DEF Home
  <1>9. QED
    BY <1>8, OneHome

\* The reference definitions speak of the AST alone.
LEMMA SameAst ==
  ASSUME ast' = ast
  PROVE  /\ Reached' = Reached /\ Calls' = Calls
         /\ \A e : Inside(e)' = Inside(e)
         /\ \A n : /\ Callees(n)' = Callees(n)
                   /\ Successors(n)' = Successors(n)
                   /\ Skipped(n)' <=> Skipped(n)
  <1>1. \A n : Successors(n)' = Successors(n) /\ (Skipped(n)' <=> Skipped(n))
    BY DEF Successors, Skipped
  <1>2. \A n : Callees(n)' = Callees(n)
    BY <1>1 DEF Callees
  <1>3. Calls' = Calls /\ Through' = Through
    BY <1>1, <1>2 DEF Calls, Through
  <1>4. Reached' = Reached
    BY <1>3 DEF Reached, Closure
  <1>5. \A e : Inside(e)' = Inside(e)
    BY <1>1, <1>2, <1>3 DEF Inside, Closure
  <1>6. QED
    BY <1>1, <1>2, <1>3, <1>4, <1>5

-----------------------------------------------------------------------------
(* What is behind visit() and what is to come.                             *)

\* The head and the tail of what an activation has still to visit.
LEMMA RestFacts ==
  ASSUME NEW S, NEW s \in Seq(S), NEW t \in Seq(S), IsRest(t, s)
  PROVE  /\ Range(t) \subseteq Range(s)
         /\ t # <<>> =>
              /\ Head(t) \in Range(s) /\ Head(t) \in Range(t)
              /\ Range(t) \subseteq {Head(t)} \cup Range(Tail(t))
              /\ Range(Tail(t)) \subseteq Range(t)
              /\ IsRest(Tail(t), s)
              /\ (\A i, j \in 1..Len(s) : s[i] = s[j] /\ s[i] = Head(t) => i = j)
                   => Head(t) \notin Range(Tail(t))
  <1>1. Len(s) \in Nat /\ Len(t) \in Nat /\ Len(t) <= Len(s)
    BY LenProperties DEF IsRest
  <1>2. \A i \in 1..Len(t) : t[i] = s[Len(s) - Len(t) + i] /\ Len(s) - Len(t) + i \in 1..Len(s)
    BY <1>1 DEF IsRest
  <1>3. /\ \A i \in 1..Len(s) : s[i] \in Range(s)
        /\ \A i \in 1..Len(t) : t[i] \in Range(t)
        /\ \A x \in Range(t) : \E i \in 1..Len(t) : t[i] = x
    BY RangeFacts
  <1>4. Range(t) \subseteq Range(s)
    BY <1>3, <1>2
  <1>5. CASE t # <<>>
    <2>1. Len(t) \in Nat \ {0}
      BY <1>1, <1>5, EmptySeq
    <2>2. Tail(t) \in Seq(S)
      BY <1>5, HeadTailProperties
    <2>3. /\ Tail(t) \in Seq(S) /\ Len(Tail(t)) = Len(t) - 1
          /\ \A i \in 1..Len(Tail(t)) : Tail(t)[i] = t[i + 1]
          /\ Head(t) = t[1]
      BY <1>5, HeadTailProperties
    <2>4. PICK u \in Seq(S) : u = Tail(t)
      BY <2>2
    <2>5. /\ \A i \in 1..Len(Tail(t)) : Tail(t)[i] \in Range(Tail(t))
          /\ \A x \in Range(Tail(t)) : \E i \in 1..Len(Tail(t)) : Tail(t)[i] = x
      <3>1. /\ \A i \in 1..Len(u) : u[i] \in Range(u)
            /\ \A x \in Range(u) : \E i \in 1..Len(u) : u[i] = x
        BY RangeFacts
      <3>2. QED
        BY <2>4, <3>1
    <2>6. 1 \in 1..Len(t) /\ \A i \in 1..(Len(t) - 1) : i + 1 \in 1..Len(t)
      BY <2>1
    <2>7. Head(t) \in Range(t) /\ Range(Tail(t)) \subseteq Range(t)
      BY <1>3, <2>5, <2>3, <2>6
    <2>8. Range(t) \subseteq {Head(t)} \cup Range(Tail(t))
      <3> SUFFICES ASSUME NEW i \in 1..Len(t), i # 1
                   PROVE  t[i] \in Range(Tail(t))
        BY <1>3, <2>3
      <3>1. i - 1 \in 1..Len(Tail(t)) /\ (i - 1) + 1 = i
        BY <2>1, <2>3
      <3>2. Tail(t)[i - 1] = t[i]
        BY <2>3, <3>1
      <3>3. QED
        BY <2>5, <3>1, <3>2
    <2>9. IsRest(Tail(t), s)
      <3>1. Len(Tail(t)) <= Len(s)
        BY <1>1, <2>1, <2>3
      <3>2. ASSUME NEW i \in 1..Len(Tail(t))
            PROVE  Tail(t)[i] = s[Len(s) - Len(Tail(t)) + i]
        <4>1. i \in 1..(Len(t) - 1) /\ i + 1 \in 1..Len(t)
          BY <2>3, <2>6
        <4>2. Tail(t)[i] = s[Len(s) - Len(t) + (i + 1)]
          BY <1>2, <2>3, <4>1
        <4>3. Len(s) - Len(t) + (i + 1) = Len(s) - Len(Tail(t)) + i
          BY <1>1, <2>1, <2>3, <4>1
        <4>4. QED
          BY <4>2, <4>3
      <3>3. QED
        BY <3>1, <3>2 DEF IsRest
    <2>10. ASSUME \A i, j \in 1..Len(s) : s[i] = s[j] /\ s[i] = Head(t) => i = j,
                 Head(t) \in Range(Tail(t))
          PROVE  FALSE
      <3>1. PICK i \in 1..Len(Tail(t)) : Tail(t)[i] = Head(t)
        BY <2>5, <2>10
      <3>2. i + 1 \in 1..Len(t) /\ t[i + 1] = t[1]
        BY <2>3, <2>6, <3>1
      <3>3. /\ s[Len(s) - Len(t) + (i + 1)] = s[Len(s) - Len(t) + 1]
            /\ s[Len(s) - Len(t) + 1] = Head(t)
            /\ Len(s) - Len(t) + (i + 1) \in 1..Len(s)
            /\ Len(s) - Len(t) + 1 \in 1..Len(s)
        BY <1>2, <2>3, <2>6, <3>2
      <3>4. Len(s) - Len(t) + (i + 1) = Len(s) - Len(t) + 1
        BY <2>10, <3>3
      <3>5. QED
        BY <1>1, <2>1, <2>3, <3>4
    <2>11. Head(t) \in Range(s)
      BY <1>4, <2>7
    <2>12. QED
      BY <1>4, <2>7, <2>8, <2>9, <2>10, <2>11
  <1>6. QED
    BY <1>4, <1>5

\* The lists of an activation.
LEMMA ListFacts ==
  ASSUME IInv, NEW i \in 1..Len(frames)
  PROVE  /\ frames[i] \in Frame /\ frames[i].node \in Node /\ frames[i].pc \in Phase
         /\ frames[i].todo \in Seq(Node \cup {NULL})
         /\ List(frames[i]) \in Seq(Node \cup {NULL})
         /\ Successors(frames[i].node) \in Seq(Node \cup {NULL})
         /\ ast.inode[frames[i].node] \in Seq(Node \cup {NULL})
  <1>1. frames[i] \in Frame
    BY ElementOfSeq DEF IInv, TypeOK
  <1>2. /\ frames[i].node \in Node /\ frames[i].pc \in Phase
        /\ frames[i].todo \in Seq(Node \cup {NULL})
    BY <1>1 DEF Frame
  <1>3. /\ Successors(frames[i].node) \in Seq(Node \cup {NULL})
        /\ ast.inode[frames[i].node] \in Seq(Node \cup {NULL})
    BY <1>2, AstFacts DEF IInv
  <1>4. QED
    BY <1>1, <1>2, <1>3 DEF List

\* An activation has still to visit some of its callees.
LEMMA ComingCallees ==
  ASSUME IInv, StackPhase, StackTodo, NEW i \in 1..Len(frames)
  PROVE  Coming(frames[i]) \subseteq Callees(frames[i].node)
  <1> DEFINE f == frames[i]
  <1>1. /\ f.node \in Node /\ f.pc \in Phase /\ f.todo \in Seq(Node \cup {NULL})
        /\ List(f) \in Seq(Node \cup {NULL})
    BY ListFacts
  <1>2. f.pc # "enter" => /\ f.node \notin ast.foreign
                          /\ f.pc = "skip" <=> Skipped(f.node)
                          /\ IsRest(f.todo, List(f))
    BY DEF StackPhase, StackTodo
  <1> HIDE DEF f
  <1> SUFFICES Coming(f) \subseteq Callees(f.node)
    BY DEF f
  <1>3. CASE f.pc = "enter"
    BY <1>3 DEF Coming
  <1>4. CASE f.pc # "enter"
    <2>1. Range(f.todo) \subseteq Range(List(f))
      BY <1>1, <1>2, <1>4, RestFacts
    <2>2. Callees(f.node) = (Range(Successors(f.node)) \cup
                             IF Skipped(f.node) THEN {} ELSE Range(ast.inode[f.node])) \ {NULL}
      BY <1>2, <1>4 DEF Callees
    <2>3. CASE f.pc = "succ"
      BY <1>2, <2>1, <2>2, <2>3 DEF Coming, List
    <2>4. CASE f.pc = "skip"
      BY <2>1, <2>2, <2>4 DEF Coming, List
    <2>5. CASE f.pc = "inode"
      BY <1>2, <2>1, <2>2, <2>5 DEF Coming, List
    <2>6. QED
      BY <1>1, <1>4, <2>3, <2>4, <2>5 DEF Phase
  <1>5. QED
    BY <1>3, <1>4

\* ToCome is closed under calls and holds what the activations have still to
\* visit; the nodes of the activations are behind.
LEMMA ToComeFacts ==
  ASSUME IInv, StackPhase, StackTodo
  PROVE  /\ Pending \in SUBSET Node /\ ToCome \in SUBSET Node
         /\ Pending \subseteq ToCome
         /\ \A m \in ToCome : Callees(m) \subseteq ToCome
         /\ \A i \in 1..Len(frames) : Coming(frames[i]) \subseteq Pending
         /\ \A i \in 1..Len(frames) : Coming(frames[i]) \subseteq ToCome
         /\ Visited \in SUBSET Node /\ Visited \subseteq Reached
         /\ \A n \in Visited : n \notin ToCome
  <1>1. \A i \in 1..Len(frames) : frames[i].node \in Node
    BY ListFacts
  <1>2. Calls \in [Node -> SUBSET Node] /\ \A m \in Node : Calls[m] = Callees(m)
    BY OneCaller DEF IInv
  <1>3. \A i \in 1..Len(frames) : Coming(frames[i]) \subseteq Node
    BY <1>1, <1>2, ComingCallees
  <1>4. Pending \in SUBSET Node /\ \A i \in 1..Len(frames) : Coming(frames[i]) \subseteq Pending
    BY <1>3 DEF Pending
  <1>5. /\ ToCome \in SUBSET Node /\ Pending \subseteq ToCome
        /\ \A m \in ToCome : Calls[m] \subseteq ToCome
    BY <1>2, <1>4, ClosureFacts DEF ToCome
  <1>6. \A m \in ToCome : Callees(m) \subseteq ToCome
    BY <1>2, <1>5
  <1>7. \A i \in 1..Len(frames) : Coming(frames[i]) \subseteq ToCome
    BY <1>4, <1>5
  <1>8. Visited \in SUBSET Node /\ Visited \subseteq Reached /\ \A n \in Visited : n \notin ToCome
    BY ReachedFacts DEF Visited, IInv
  <1>9. QED
    BY <1>4, <1>5, <1>6, <1>7, <1>8

\* Steps after which the activations have the same nodes to visit.
LEMMA SamePending ==
  ASSUME ast' = ast, Pending' = Pending
  PROVE  ToCome' = ToCome /\ Visited' = Visited
  <1>1. Calls' = Calls /\ Reached' = Reached
    BY SameAst
  <1>2. ToCome' = ToCome
    BY <1>1 DEF ToCome, Closure
  <1>3. QED
    BY <1>1, <1>2 DEF Visited

\* What an activation has still to visit depends on its fields and the AST.
LEMMA SameComing ==
  ASSUME ast' = ast
  PROVE  \A f : Coming(f)' = Coming(f)
  BY SameAst DEF Coming

\* The stack after a return.
LEMMA ReturnFacts ==
  ASSUME IInv, frames # <<>>, Return
  PROVE  /\ Len(frames) \in Nat \ {0}
         /\ frames' \in Seq(Frame) /\ Len(frames') = Len(frames) - 1
         /\ \A i \in 1..(Len(frames) - 1) : frames'[i] = frames[i]
         /\ \A i \in 1..Len(frames) : i = Len(frames) \/ i \in 1..(Len(frames) - 1)
         /\ \A i \in 1..(Len(frames) - 1) : i \in 1..Len(frames) /\ i # Len(frames)
         /\ Top = frames[Len(frames)] /\ Len(frames) \in 1..Len(frames)
  <1>1. frames \in Seq(Frame)
    BY DEF IInv, TypeOK
  <1>2. /\ Len(frames) \in Nat \ {0}
        /\ frames' \in Seq(Frame) /\ Len(frames') = Len(frames) - 1
        /\ \A i \in 1..(Len(frames) - 1) : frames'[i] = frames[i]
    BY <1>1, PopFacts DEF Return
  <1>3. QED
    BY <1>2 DEF Top

\* visit() returns from a node it has nobody to call from any more.
LEMMA ReturnVisited ==
  ASSUME IInv, frames # <<>>, Return, ast' = ast, Coming(Top) = {}
  PROVE  Pending' = Pending /\ ToCome' = ToCome /\ Visited' = Visited
  <1>1. /\ Len(frames) \in Nat \ {0} /\ Len(frames') = Len(frames) - 1
        /\ \A i \in 1..(Len(frames) - 1) : frames'[i] = frames[i]
        /\ \A i \in 1..Len(frames) : i = Len(frames) \/ i \in 1..(Len(frames) - 1)
        /\ \A i \in 1..(Len(frames) - 1) : i \in 1..Len(frames)
        /\ Top = frames[Len(frames)]
    BY ReturnFacts
  <1>2. \A f : Coming(f)' = Coming(f)
    BY SameComing
  <1>3. Pending' = UNION {Coming(frames[i]) : i \in 1..(Len(frames) - 1)}
    <2>1. Pending' = UNION {Coming(frames'[i]) : i \in 1..Len(frames')}
      BY <1>2 DEF Pending
    <2>2. QED
      BY <1>1, <2>1
  <1>4. Pending' = Pending
    BY <1>1, <1>3 DEF Pending
  <1>5. QED
    BY <1>4, SamePending

\* The innermost activation moves on, and its node is as before.
Moves ==
  /\ Len(frames) \in Nat \ {0} /\ Len(frames') = Len(frames)
  /\ \A i \in 1..(Len(frames) - 1) : frames'[i] = frames[i]
  /\ frames'[Len(frames)].node = Top.node
  /\ frames'[Len(frames)].base = Top.base

\* It has the same nodes still to visit.
LEMMA MovesVisited ==
  ASSUME Moves, ast' = ast, Coming(frames'[Len(frames)]) = Coming(Top)
  PROVE  Pending' = Pending /\ ToCome' = ToCome /\ Visited' = Visited
  <1>1. \A f : Coming(f)' = Coming(f)
    BY SameComing
  <1>2. Pending' = UNION {Coming(frames'[i]) : i \in 1..Len(frames)}
    BY <1>1 DEF Pending, Moves
  <1>3. \A i \in 1..Len(frames) : Coming(frames'[i]) = Coming(frames[i])
    <2>1. \A i \in 1..Len(frames) : i = Len(frames) \/ i \in 1..(Len(frames) - 1)
      BY DEF Moves
    <2>2. QED
      BY <2>1 DEF Moves, Top
  <1>4. Pending' = Pending
    BY <1>2, <1>3 DEF Pending
  <1>5. QED
    BY <1>4, SamePending

\* The next slot of the loop is empty.
LEMMA EmptySlot ==
  ASSUME IInv, VisitNext, Head(Top.todo) = NULL
  PROVE  /\ Moves /\ Pending' = Pending /\ ToCome' = ToCome /\ Visited' = Visited
         /\ frames'[Len(frames)].pc = Top.pc /\ frames'[Len(frames)].todo = Tail(Top.todo)
  <1>1. frames # <<>> /\ Top.pc # "enter" /\ Top.todo # <<>> /\ ast' = ast /\ TypeOK
    BY DEF VisitNext, IInv
  <1>2. Len(frames) \in Nat \ {0} /\ Len(frames) \in 1..Len(frames) /\ Top = frames[Len(frames)]
    BY <1>1, TopFacts DEF Top
  <1>3. /\ Len(frames') = Len(frames)
        /\ \A i \in 1..(Len(frames) - 1) : frames'[i] = frames[i]
        /\ frames'[Len(frames)].node = Top.node
        /\ frames'[Len(frames)].pc = Top.pc
        /\ frames'[Len(frames)].base = Top.base
        /\ frames'[Len(frames)].todo = Tail(Top.todo)
    <2>1. /\ Len(frames') = Len(frames)
          /\ \A i \in 1..(Len(frames) - 1) : frames'[i] = frames[i]
          /\ frames'[Len(frames)].todo = Tail(Top.todo)
      BY <1>1, VisitNextFacts
    <2>2. \A i \in 1..Len(frames) : /\ frames'[i].node = frames[i].node
                                    /\ frames'[i].pc = frames[i].pc
                                    /\ frames'[i].base = frames[i].base
      BY <1>1, VisitNextFacts
    <2>3. QED
      BY <1>2, <2>1, <2>2
  <1>4. Moves
    BY <1>2, <1>3 DEF Moves
  <1>5. Top.todo \in Seq(Node \cup {NULL})
    BY <1>1, TopFacts
  <1>6. IsRest(Top.todo, Top.todo)
    BY <1>5, LenProperties DEF IsRest
  <1>7. /\ Range(Top.todo) \subseteq {NULL} \cup Range(Tail(Top.todo))
        /\ Range(Tail(Top.todo)) \subseteq Range(Top.todo)
    BY <1>1, <1>5, <1>6, RestFacts
  <1>8. Coming(frames'[Len(frames)]) = Coming(Top)
    BY <1>1, <1>3, <1>7 DEF Coming
  <1>9. QED
    BY <1>1, <1>3, <1>4, <1>8, MovesVisited

\* The next slot of the loop holds a node: it is to come, hangs from this
\* slot only, and comes nowhere else.
LEMMA NextCallee ==
  ASSUME IInv, CallPath, VisitNext, Head(Top.todo) # NULL
  PROVE  /\ Head(Top.todo) \in Range(List(Top)) \ {NULL}
         /\ Head(Top.todo) \in Coming(Top)
         /\ Head(Top.todo) \in Callees(Top.node)
         /\ Head(Top.todo) \notin Range(Tail(Top.todo))
         /\ Top.pc = "succ" => Head(Top.todo) \notin Range(ast.inode[Top.node])
         /\ \A i \in 1..(Len(frames) - 1) : Head(Top.todo) \notin Coming(frames[i])
         /\ IsRest(Tail(Top.todo), List(Top))
         /\ Coming(Top) \subseteq {Head(Top.todo)} \cup
              ((Range(Tail(Top.todo)) \cup IF Top.pc = "succ" THEN Range(ast.inode[Top.node])
                                           ELSE {}) \ {NULL})
         /\ Range(Tail(Top.todo)) \subseteq Range(Top.todo)
  <1> DEFINE h == Head(Top.todo)
             N == Len(frames)
  <1>1. frames # <<>> /\ Top.pc # "enter" /\ Top.todo # <<>> /\ TypeOK /\ ast \in Asts
    BY DEF VisitNext, IInv
  <1>2. N \in Nat \ {0} /\ N \in 1..N /\ Top = frames[N] /\ Top.todo \in Seq(Node \cup {NULL})
    BY <1>1, TopFacts DEF Top
  <1>3. /\ Top.node \in Node /\ List(Top) \in Seq(Node \cup {NULL})
        /\ Successors(Top.node) \in Seq(Node \cup {NULL})
        /\ ast.inode[Top.node] \in Seq(Node \cup {NULL})
    BY <1>2, ListFacts
  <1>4. IsRest(Top.todo, List(Top))
    BY <1>1, <1>2 DEF CallPath, StackTodo
  <1>5. /\ h \in Range(List(Top)) /\ h \in Range(Top.todo)
        /\ Range(Top.todo) \subseteq {h} \cup Range(Tail(Top.todo))
        /\ Range(Tail(Top.todo)) \subseteq Range(Top.todo)
        /\ IsRest(Tail(Top.todo), List(Top))
        /\ (\A i, j \in 1..Len(List(Top)) : List(Top)[i] = List(Top)[j] /\ List(Top)[i] = h => i = j)
             => h \notin Range(Tail(Top.todo))
    BY <1>1, <1>2, <1>3, <1>4, RestFacts
  <1>6. h \in Coming(Top)
    BY <1>1, <1>5 DEF Coming
  <1>7. \A i \in 1..N : Coming(frames[i]) \subseteq Callees(frames[i].node)
    BY ComingCallees DEF CallPath
  <1>8. h \in Callees(Top.node)
    BY <1>2, <1>6, <1>7
  <1>9. \A i, j \in 1..Len(List(Top)) : List(Top)[i] = List(Top)[j] /\ List(Top)[i] = h => i = j
    <2>1. CASE Top.pc = "inode"
      BY <1>1, <1>3, <2>1, OneSlot DEF List
    <2>2. CASE Top.pc # "inode"
      BY <1>1, <1>3, <2>2, OneSlot DEF List
    <2>3. QED
      BY <2>1, <2>2
  <1>10. Top.pc = "succ" => h \notin Range(ast.inode[Top.node])
    <2> SUFFICES ASSUME Top.pc = "succ" PROVE h \notin Range(ast.inode[Top.node])
      OBVIOUS
    <2>1. h \in Range(Successors(Top.node)) \ {NULL}
      BY <1>5 DEF List
    <2>2. QED
      BY <1>1, <1>3, <2>1, OneCaller
  <1>11. \A i \in 1..(N - 1) : h \notin Coming(frames[i])
    <2> SUFFICES ASSUME NEW i \in 1..(N - 1), h \in Coming(frames[i])
                 PROVE  FALSE
      OBVIOUS
    <2>1. i \in 1..N /\ i # N
      BY <1>2
    <2>2. h \in Callees(frames[i].node) /\ frames[i].node \in Node
      BY <1>7, <2>1, ListFacts
    <2>3. frames[i].node = Top.node
      BY <1>1, <1>3, <1>8, <2>2, OneCaller
    <2>4. QED
      BY <1>2, <2>1, <2>3 DEF CallPath, StackDistinct
  <1>12. Coming(Top) \subseteq {h} \cup
              ((Range(Tail(Top.todo)) \cup IF Top.pc = "succ" THEN Range(ast.inode[Top.node])
                                           ELSE {}) \ {NULL})
    BY <1>1, <1>5 DEF Coming
  <1>13. QED
    BY <1>5, <1>6, <1>8, <1>9, <1>10, <1>11, <1>12

\* Calling visit() on it moves it, and it alone, from what is to come to what
\* is behind.
LEMMA CallVisited ==
  ASSUME IInv, CallPath, VisitNext, Head(Top.todo) # NULL
  PROVE  /\ ToCome' = ToCome \ {Head(Top.todo)}
         /\ Visited' = Visited \cup {Head(Top.todo)}
         /\ Head(Top.todo) \in ToCome /\ Head(Top.todo) \in Node
  <1> DEFINE h == Head(Top.todo)
             N == Len(frames)
  <1>1. frames # <<>> /\ Top.pc # "enter" /\ TypeOK /\ ast \in Asts /\ ast' = ast
    BY DEF VisitNext, IInv
  <1>2. N \in Nat \ {0} /\ N \in 1..N /\ Top = frames[N] /\ Top.node \in Node
    BY <1>1, TopFacts DEF Top
  <1>3. /\ h \in Coming(Top) /\ h \in Callees(Top.node)
        /\ h \notin Range(Tail(Top.todo))
        /\ Top.pc = "succ" => h \notin Range(ast.inode[Top.node])
        /\ \A i \in 1..(N - 1) : h \notin Coming(frames[i])
        /\ Coming(Top) \subseteq {h} \cup
              ((Range(Tail(Top.todo)) \cup IF Top.pc = "succ" THEN Range(ast.inode[Top.node])
                                           ELSE {}) \ {NULL})
        /\ Range(Tail(Top.todo)) \subseteq Range(Top.todo)
    BY NextCallee
  <1>4. /\ Pending \in SUBSET Node /\ ToCome \in SUBSET Node
        /\ Pending \subseteq ToCome
        /\ \A m \in ToCome : Callees(m) \subseteq ToCome
        /\ \A i \in 1..N : Coming(frames[i]) \subseteq Pending
        /\ Visited \in SUBSET Node /\ Visited \subseteq Reached
        /\ \A n \in Visited : n \notin ToCome
    BY ToComeFacts DEF CallPath
  <1>5. h \in Pending /\ h \in ToCome /\ h \in Node
    BY <1>2, <1>3, <1>4
  <1>6. /\ Len(frames') = N + 1
        /\ \A i \in 1..(N - 1) : frames'[i] = frames[i]
        /\ frames'[N].node = Top.node /\ frames'[N].pc = Top.pc
        /\ frames'[N].todo = Tail(Top.todo)
        /\ frames'[N + 1].node = h /\ frames'[N + 1].pc = "enter"
    <2>1. /\ Len(frames') = N + 1
          /\ \A i \in 1..(N - 1) : frames'[i] = frames[i]
          /\ frames'[N].todo = Tail(Top.todo)
          /\ frames'[Len(frames')].node = h
          /\ frames'[Len(frames')].pc = "enter"
      BY <1>1, VisitNextFacts
    <2>2. \A i \in 1..N : /\ frames'[i].node = frames[i].node
                          /\ frames'[i].pc = frames[i].pc
      BY <1>1, VisitNextFacts
    <2>3. QED
      BY <1>2, <2>1, <2>2
  <1>7. Coming(frames'[N]) = Coming(Top) \ {h}
    BY <1>1, <1>3, <1>6 DEF Coming
  <1>8. Coming(frames'[N + 1]) = Callees(h)
    BY <1>6 DEF Coming
  <1> HIDE DEF h, N
  <1>9. Pending' = (Pending \ {h}) \cup Callees(h)
    <2>1. \A f : Coming(f)' = Coming(f)
      BY <1>1, SameComing
    <2>2. Pending' = UNION {Coming(frames'[i]) : i \in 1..(N + 1)}
      BY <1>6, <2>1 DEF Pending
    <2>3. \A i \in 1..(N + 1) : i \in 1..(N - 1) \/ i = N \/ i = N + 1
      BY <1>2
    <2>4. \A i \in 1..N : i \in 1..(N - 1) \/ i = N
      BY <1>2
    <2>5. \A i \in 1..(N - 1) : i \in 1..N /\ i \in 1..(N + 1)
      BY <1>2
    <2>6. N \in 1..(N + 1) /\ N + 1 \in 1..(N + 1)
      BY <1>2
    <2>7. ASSUME NEW x \in Pending, x # h
          PROVE  x \in Pending'
      <3>1. PICK i \in 1..N : x \in Coming(frames[i])
        BY DEF Pending, N
      <3>2. CASE i = N
        BY <1>2, <1>7, <2>2, <2>6, <2>7, <3>1, <3>2
      <3>3. CASE i \in 1..(N - 1)
        BY <1>6, <2>2, <2>5, <3>1, <3>3
      <3>4. QED
        BY <2>4, <3>2, <3>3
    <2>8. Callees(h) \subseteq Pending'
      BY <1>8, <2>2, <2>6
    <2>9. ASSUME NEW x \in Pending', x \notin Callees(h)
          PROVE  x \in Pending /\ x # h
      <3>1. PICK i \in 1..(N + 1) : x \in Coming(frames'[i])
        BY <2>2
      <3>2. CASE i = N
        BY <1>2, <1>4, <1>7, <3>1, <3>2
      <3>3. CASE i \in 1..(N - 1)
        BY <1>3, <1>4, <1>6, <2>5, <3>1, <3>3
      <3>4. QED
        BY <1>8, <2>3, <2>9, <3>1, <3>2, <3>3
    <2>10. h \in Callees(h) => FALSE
      <3>1. h \in Callees(h) => Top.node = h
        BY <1>1, <1>2, <1>3, <1>5, OneCaller
      <3>2. Top.node \in Visited
        BY <1>2 DEF CallPath, StackVisited, N
      <3>3. QED
        BY <1>4, <1>5, <3>1, <3>2
    <2>11. QED
      BY <2>7, <2>8, <2>9
  <1>10. \A m \in ToCome : h \notin Callees(m)
    <2> SUFFICES ASSUME NEW m \in ToCome, h \in Callees(m) PROVE FALSE
      OBVIOUS
    <2>1. m = Top.node
      BY <1>1, <1>2, <1>3, <1>4, OneCaller
    <2>2. Top.node \in Visited
      BY <1>2 DEF CallPath, StackVisited, N
    <2>3. QED
      BY <1>4, <2>1, <2>2
  <1>11. Calls \in [Node -> SUBSET Node] /\ \A m \in Node : Calls[m] = Callees(m)
    BY <1>1, OneCaller
  <1>12. Pending' \in SUBSET Node
    BY <1>4, <1>5, <1>9, <1>11
  <1>13. ToCome' = Closure(Pending', Calls)
    BY <1>1, SameAst DEF ToCome, Closure
  <1>14. ToCome' \in SUBSET Node /\ Pending' \subseteq ToCome'
         /\ \A m \in ToCome' : Calls[m] \subseteq ToCome'
    BY <1>11, <1>12, <1>13, ClosureFacts
  <1>15. ToCome' \subseteq ToCome \ {h}
    <2> DEFINE C == ToCome \ {h}
    <2>1. C \in SUBSET Node /\ Pending' \subseteq C
      BY <1>4, <1>5, <1>9, <1>10
    <2>2. \A m \in C : Calls[m] \subseteq C
      BY <1>4, <1>10, <1>11
    <2> HIDE DEF C
    <2>3. ToCome' \subseteq C
      BY <1>11, <1>12, <1>13, <2>1, <2>2, ClosureLeast
    <2>4. QED
      BY <2>3 DEF C
  <1>16. ToCome \subseteq ToCome' \cup {h}
    <2> DEFINE C == ToCome' \cup {h}
    <2>1. C \in SUBSET Node /\ Pending \subseteq C
      BY <1>5, <1>9, <1>14
    <2>2. \A m \in C : Calls[m] \subseteq C
      <3>1. Calls[h] \subseteq C
        BY <1>5, <1>9, <1>11, <1>14
      <3>2. QED
        BY <1>14, <3>1
    <2> HIDE DEF C
    <2>3. ToCome \subseteq C
      BY <1>4, <1>11, <2>1, <2>2, ClosureLeast DEF ToCome
    <2>4. QED
      BY <2>3 DEF C
  <1>17. ToCome' = ToCome \ {h}
    BY <1>15, <1>16
  <1>18. h \in Reached
    <2>1. Top.node \in Reached
      BY <1>2, <1>4 DEF CallPath, StackVisited, N
    <2>2. QED
      BY <1>1, <1>3, <2>1, ReachedFacts
  <1>19. Visited' = Visited \cup {h}
    BY <1>1, <1>17, <1>18, SameAst DEF Visited
  <1>20. QED
    BY <1>5, <1>17, <1>19 DEF h

-----------------------------------------------------------------------------
(* The call stack is a path of visited nodes.                              *)

\* The heights of the activations.
LEMMA BaseFacts ==
  ASSUME IInv, frames # <<>>
  PROVE  /\ Top.base \in Nat /\ Len(open) \in Nat /\ Len(open) = Height(Top)
         /\ Top.base <= Len(open)
         /\ \A i \in 1..Len(frames) :
              /\ frames[i].base \in 0..Top.base
              /\ Height(frames[i]) \in Nat
              /\ Opened(frames[i]) => Height(frames[i]) = frames[i].base + 1
         /\ \A i \in 1..(Len(frames) - 1) : Height(frames[i]) <= Top.base
  <1>1. /\ Len(frames) \in Nat \ {0} /\ Top = frames[Len(frames)] /\ Top.base \in Nat
        /\ Len(frames) \in 1..Len(frames)
    BY TopFacts DEF IInv, Top
  <1>2. /\ Len(open) \in Nat
        /\ \A i \in 1..Len(frames) : frames[i].base \in Nat /\ Height(frames[i]) \in Nat
    BY FrameFacts DEF IInv
  <1>3. Len(open) = Height(Top)
    BY DEF IInv, Nesting, TopHeight
  <1>4. \A i \in 1..(Len(frames) - 1) : i \in 1..Len(frames) /\ Height(frames[i]) <= Top.base
    BY <1>1 DEF IInv, Nesting, Heights
  <1>5. \A i \in 1..Len(frames) : /\ frames[i].base <= Height(frames[i])
                                  /\ Opened(frames[i]) => Height(frames[i]) = frames[i].base + 1
    BY <1>2 DEF Height
  <1>6. \A i \in 1..Len(frames) : i = Len(frames) \/ i \in 1..(Len(frames) - 1)
    BY <1>1
  <1>7. \A i \in 1..Len(frames) : frames[i].base <= Top.base
    <2> SUFFICES ASSUME NEW i \in 1..Len(frames)
                 PROVE  frames[i].base <= Top.base
      OBVIOUS
    <2>1. CASE i = Len(frames)
      BY <1>1, <2>1
    <2>2. CASE i \in 1..(Len(frames) - 1)
      <3>1. frames[i].base <= Height(frames[i]) /\ Height(frames[i]) <= Top.base
        BY <1>4, <1>5, <2>2
      <3>2. frames[i].base \in Nat /\ Height(frames[i]) \in Nat /\ Top.base \in Nat
        BY <1>1, <1>2
      <3>3. QED
        BY <3>1, <3>2
    <2>3. QED
      BY <1>6, <2>1, <2>2
  <1>8. Top.base <= Len(open)
    BY <1>1, <1>3, <1>5
  <1>9. QED
    BY <1>1, <1>2, <1>3, <1>4, <1>5, <1>7, <1>8

\* visit() returns.
LEMMA PathReturn ==
  ASSUME IInv, CallPath, frames # <<>>, Return, ast' = ast, Coming(Top) = {},
         \A h \in 0..Top.base : ElementAt(h)' = ElementAt(h)
  PROVE  CallPath'
  <1>1. /\ Len(frames) \in Nat \ {0} /\ Len(frames') = Len(frames) - 1
        /\ \A i \in 1..(Len(frames) - 1) : frames'[i] = frames[i]
        /\ \A i \in 1..(Len(frames) - 1) : i \in 1..Len(frames)
    BY ReturnFacts
  <1>2. Visited' = Visited
    BY ReturnVisited
  <1>3. /\ \A e : Inside(e)' = Inside(e)
        /\ \A n : Successors(n)' = Successors(n) /\ (Skipped(n)' <=> Skipped(n))
    BY SameAst
  <1>4. \A f : List(f)' = List(f)
    BY <1>3 DEF List
  <1>5. StackVisited' /\ StackDistinct'
    BY <1>1, <1>2 DEF CallPath, StackVisited, StackDistinct
  <1>6. StackPhase' /\ StackTodo'
    BY <1>1, <1>3, <1>4 DEF CallPath, StackPhase, StackTodo
  <1>7. StackCalled'
    <2>1. \A i \in 1..(Len(frames') - 1) : /\ i \in 1..(Len(frames) - 1)
                                           /\ i + 1 \in 1..(Len(frames) - 1)
      BY <1>1
    <2>2. QED
      BY <1>1, <1>4, <2>1 DEF CallPath, StackCalled
  <1>8. StackInside'
    <2>1. \A i \in 1..Len(frames) : frames[i].base \in 0..Top.base
      BY BaseFacts
    <2>2. \A i \in 1..Len(frames) : frames[i].node \in Inside(ElementAt(frames[i].base))
      BY DEF CallPath, StackInside
    <2>3. \A i \in 1..Len(frames') : /\ frames'[i].base \in 0..Top.base
                                     /\ frames'[i].node \in Inside(ElementAt(frames'[i].base))
      BY <1>1, <2>1, <2>2
    <2>4. QED
      BY <1>3, <2>3 DEF StackInside
  <1>9. QED
    BY <1>5, <1>6, <1>7, <1>8 DEF CallPath

\* visit() moves on.
LEMMA PathMoves ==
  ASSUME IInv, CallPath, frames # <<>>, Moves, ast' = ast, Visited' = Visited,
         \A h \in 0..Top.base : ElementAt(h)' = ElementAt(h),
         Top.node \notin ast.foreign,
         frames'[Len(frames)].pc # "enter",
         frames'[Len(frames)].pc = "skip" <=> Skipped(Top.node),
         IsRest(frames'[Len(frames)].todo, List(frames'[Len(frames)]))
  PROVE  CallPath'
  <1>1. /\ Len(frames) \in Nat \ {0} /\ Len(frames') = Len(frames)
        /\ \A i \in 1..(Len(frames) - 1) : frames'[i] = frames[i]
        /\ frames'[Len(frames)].node = frames[Len(frames)].node
        /\ frames'[Len(frames)].base = frames[Len(frames)].base
    BY DEF Moves, Top
  <1>2. /\ \A i \in 1..Len(frames) : i = Len(frames) \/ i \in 1..(Len(frames) - 1)
        /\ \A i \in 1..(Len(frames) - 1) : i \in 1..Len(frames)
    BY <1>1
  <1>3. /\ \A e : Inside(e)' = Inside(e)
        /\ \A n : Successors(n)' = Successors(n) /\ (Skipped(n)' <=> Skipped(n))
    BY SameAst
  <1>4. \A f : List(f)' = List(f)
    BY <1>3 DEF List
  <1>5. \A i \in 1..Len(frames) : /\ frames'[i].node = frames[i].node
                                  /\ frames'[i].base = frames[i].base
    BY <1>1, <1>2
  <1>6. StackVisited' /\ StackDistinct'
    BY <1>1, <1>5 DEF CallPath, StackVisited, StackDistinct
  <1>7. StackPhase'
    <2> SUFFICES ASSUME NEW i \in 1..Len(frames), frames'[i].pc # "enter"
                 PROVE  /\ frames'[i].node \notin ast.foreign
                        /\ frames'[i].pc = "skip" <=> Skipped(frames'[i].node)
      BY <1>1, <1>3 DEF StackPhase
    <2>1. CASE i = Len(frames)
      BY <1>1, <2>1 DEF Top
    <2>2. CASE i \in 1..(Len(frames) - 1)
      BY <1>1, <1>2, <2>2 DEF CallPath, StackPhase
    <2>3. QED
      BY <1>2, <2>1, <2>2
  <1>8. StackTodo'
    <2> SUFFICES ASSUME NEW i \in 1..Len(frames), frames'[i].pc # "enter"
                 PROVE  IsRest(frames'[i].todo, List(frames'[i]))
      BY <1>1, <1>4 DEF StackTodo
    <2>1. CASE i = Len(frames)
      BY <2>1
    <2>2. CASE i \in 1..(Len(frames) - 1)
      BY <1>1, <1>2, <2>2 DEF CallPath, StackTodo
    <2>3. QED
      BY <1>2, <2>1, <2>2
  <1>9. StackCalled'
    <2>1. \A i \in 1..(Len(frames) - 1) : i + 1 \in 1..Len(frames)
      BY <1>1
    <2>2. QED
      BY <1>1, <1>4, <1>5, <2>1 DEF CallPath, StackCalled
  <1>10. StackInside'
    <2>1. \A i \in 1..Len(frames) : frames[i].base \in 0..Top.base
      BY BaseFacts
    <2>2. \A i \in 1..Len(frames) : frames[i].node \in Inside(ElementAt(frames[i].base))
      BY DEF CallPath, StackInside
    <2>3. \A i \in 1..Len(frames') : /\ frames'[i].base \in 0..Top.base
                                     /\ frames'[i].node \in Inside(ElementAt(frames'[i].base))
      BY <1>1, <1>5, <2>1, <2>2
    <2>4. QED
      BY <1>3, <2>3 DEF StackInside
  <1>11. QED
    BY <1>6, <1>7, <1>8, <1>9, <1>10 DEF CallPath

\* The element an activation is in, and the one a callee will be in.
LEMMA InnermostFacts ==
  ASSUME IInv, CallPath, frames # <<>>
  PROVE  /\ Innermost = ElementAt(Len(open)) /\ Innermost \in Node \cup {Doc}
         /\ Opened(Top) => /\ Innermost = Top.node /\ Len(open) = Top.base + 1
                           /\ Enclosing = ElementAt(Top.base)
         /\ ~Opened(Top) => Innermost = ElementAt(Top.base) /\ Len(open) = Top.base
         /\ Top.node \in Inside(ElementAt(Top.base)) /\ Top.node \in Visited
         /\ ElementAt(Top.base) \in Node \cup {Doc}
  <1>1. Innermost \in Node \cup {Doc} /\ Enclosing \in Node \cup {Doc}
    BY TopFacts DEF IInv
  <1>2. /\ Len(open) \in Nat /\ Top.base \in Nat /\ Len(open) = Height(Top)
        /\ Len(frames) \in 1..Len(frames) /\ Top = frames[Len(frames)]
    BY BaseFacts, TopFacts DEF IInv, Top
  <1>3. open = <<>> <=> Len(open) = 0
    BY EmptySeq DEF IInv, TypeOK
  <1>4. Innermost = ElementAt(Len(open))
    BY <1>3 DEF Innermost, ElementAt
  <1>5. Top.node \in Inside(ElementAt(Top.base)) /\ Top.node \in Visited
    BY <1>2 DEF CallPath, StackInside, StackVisited
  <1>6. CASE Opened(Top)
    <2>1. Len(open) = Top.base + 1
      BY <1>2, <1>6 DEF Height
    <2>2. open[Len(open)] = Top.node
      BY <1>2, <1>6 DEF IInv, Nesting, OwnElement
    <2>3. Innermost = Top.node
      BY <1>2, <1>3, <2>1, <2>2 DEF Innermost
    <2>4. Enclosing = ElementAt(Top.base)
      BY <1>2, <2>1 DEF Enclosing, ElementAt
    <2>5. QED
      BY <1>1, <1>4, <1>5, <1>6, <2>1, <2>3, <2>4
  <1>7. CASE ~Opened(Top)
    <2>1. Len(open) = Top.base
      BY <1>2, <1>7 DEF Height
    <2>2. QED
      BY <1>1, <1>4, <1>5, <1>7, <2>1
  <1>8. QED
    BY <1>6, <1>7

\* visit() is called for the next node.
LEMMA PathCall ==
  ASSUME IInv, CallPath, VisitNext, Head(Top.todo) # NULL
  PROVE  CallPath'
  <1> DEFINE h == Head(Top.todo)
             N == Len(frames)
  <1>1. /\ frames # <<>> /\ Top.pc # "enter" /\ TypeOK /\ ast \in Asts /\ ast' = ast
        /\ open' = open
    BY DEF VisitNext, IInv
  <1>2. N \in Nat \ {0} /\ N \in 1..N /\ Top = frames[N] /\ Top.node \in Node
    BY <1>1, TopFacts DEF Top
  <1>3. /\ h \in Range(List(Top)) \ {NULL} /\ h \in Callees(Top.node)
        /\ IsRest(Tail(Top.todo), List(Top))
    BY NextCallee
  <1>4. Visited' = Visited \cup {h} /\ h \in ToCome /\ h \in Node
    BY CallVisited
  <1>5. \A n \in Visited : n \notin ToCome
    BY ToComeFacts DEF CallPath
  <1>6. /\ \A i \in 1..N : /\ frames'[i].node = frames[i].node
                           /\ frames'[i].pc = frames[i].pc
                           /\ frames'[i].base = frames[i].base
        /\ \A i \in 1..(N - 1) : frames'[i] = frames[i]
        /\ frames'[N].todo = Tail(Top.todo)
        /\ Len(frames') = N + 1
        /\ frames'[N + 1].node = h
        /\ frames'[N + 1].base = Len(open)
        /\ frames'[N + 1].pc = "enter"
    <2>1. /\ \A i \in 1..N : /\ frames'[i].node = frames[i].node
                             /\ frames'[i].pc = frames[i].pc
                             /\ frames'[i].base = frames[i].base
          /\ \A i \in 1..(N - 1) : frames'[i] = frames[i]
          /\ frames'[N].todo = Tail(Top.todo)
      BY <1>1, VisitNextFacts
    <2>2. /\ Len(frames') = N + 1
          /\ frames'[Len(frames')].node = h
          /\ frames'[Len(frames')].base = Len(open)
          /\ frames'[Len(frames')].pc = "enter"
      BY <1>1, VisitNextFacts
    <2>3. QED
      BY <2>1, <2>2
  <1> HIDE DEF h, N
  <1>7. /\ \A i \in 1..(N + 1) : i = N + 1 \/ i \in 1..N
        /\ \A i \in 1..N : i = N \/ i \in 1..(N - 1)
        /\ \A i \in 1..(N - 1) : i \in 1..N
    BY <1>2
  <1>8. /\ \A e : Inside(e)' = Inside(e)
        /\ \A n : Successors(n)' = Successors(n) /\ (Skipped(n)' <=> Skipped(n))
    BY <1>1, SameAst
  <1>9. \A f : List(f)' = List(f)
    BY <1>1, <1>8 DEF List
  <1>10. \A i \in 1..N : List(frames'[i]) = List(frames[i])
    BY <1>6 DEF List
  <1>11. StackVisited'
    <2>1. \A i \in 1..N : frames[i].node \in Visited
      BY DEF CallPath, StackVisited, N
    <2>2. \A i \in 1..(N + 1) : frames'[i].node \in Visited'
      BY <1>4, <1>6, <1>7, <2>1
    <2>3. QED
      BY <1>6, <2>2 DEF StackVisited
  <1>12. StackDistinct'
    <2>1. \A i \in 1..N : frames'[i].node # h
      BY <1>4, <1>5, <1>6 DEF CallPath, StackVisited, N
    <2>2. \A i, j \in 1..N : frames[i].node = frames[j].node => i = j
      BY DEF CallPath, StackDistinct, N
    <2>3. \A i, j \in 1..(N + 1) : frames'[i].node = frames'[j].node => i = j
      BY <1>6, <1>7, <2>1, <2>2
    <2>4. QED
      BY <1>6, <2>3 DEF StackDistinct
  <1>13. StackPhase'
    <2> SUFFICES ASSUME NEW i \in 1..(N + 1), frames'[i].pc # "enter"
                 PROVE  /\ frames'[i].node \notin ast.foreign
                        /\ frames'[i].pc = "skip" <=> Skipped(frames'[i].node)
      BY <1>1, <1>6, <1>8 DEF StackPhase
    <2>1. i \in 1..N
      BY <1>6, <1>7
    <2>2. QED
      BY <1>6, <2>1 DEF CallPath, StackPhase, N
  <1>14. StackTodo'
    <2> SUFFICES ASSUME NEW i \in 1..(N + 1), frames'[i].pc # "enter"
                 PROVE  IsRest(frames'[i].todo, List(frames'[i]))
      BY <1>6, <1>9 DEF StackTodo
    <2>1. CASE i \in 1..(N - 1)
      BY <1>6, <1>7, <2>1 DEF CallPath, StackTodo, N
    <2>2. CASE i = N
      BY <1>2, <1>3, <1>6, <1>10, <2>2
    <2>3. QED
      BY <1>6, <1>7, <2>1, <2>2
  <1>15. StackCalled'
    <2> SUFFICES ASSUME NEW i \in 1..N
                 PROVE  frames'[i + 1].node \in Range(List(frames'[i])) \ {NULL}
      <3>1. \A i \in 1..(Len(frames') - 1) : i \in 1..N
        BY <1>2, <1>6
      <3>2. QED
        BY <1>9, <3>1 DEF StackCalled
    <2>1. CASE i \in 1..(N - 1)
      <3>1. i \in 1..N /\ i + 1 \in 1..N
        BY <1>2, <2>1
      <3>2. frames[i + 1].node \in Range(List(frames[i])) \ {NULL}
        BY <2>1 DEF CallPath, StackCalled, N
      <3>3. QED
        BY <1>6, <1>10, <3>1, <3>2
    <2>2. CASE i = N
      BY <1>2, <1>3, <1>6, <1>10, <2>2
    <2>3. QED
      BY <1>7, <2>1, <2>2
  <1>16. StackInside'
    <2>1. \A g : ElementAt(g)' = ElementAt(g)
      BY <1>1 DEF ElementAt
    <2>2. \A i \in 1..N : frames[i].node \in Inside(ElementAt(frames[i].base))
      BY DEF CallPath, StackInside, N
    <2>3. h \in Inside(ElementAt(Len(open)))
      <3>1. CASE Top.pc = "skip"
        <4>1. ~Opened(Top) /\ Skipped(Top.node)
          BY <1>1, <1>2, <3>1 DEF Opened, CallPath, StackPhase, N
        <4>2. /\ ElementAt(Len(open)) = ElementAt(Top.base) /\ ElementAt(Top.base) \in Node \cup {Doc}
              /\ Top.node \in Inside(ElementAt(Top.base))
          BY <1>1, <4>1, InnermostFacts
        <4>3. QED
          BY <1>1, <1>3, <4>1, <4>2, InsideFacts
      <3>2. CASE Top.pc # "skip"
        <4>1. Opened(Top) /\ ~Skipped(Top.node)
          <5>1. Top.pc \in Phase
            BY <1>2, ListFacts DEF N
          <5>2. QED
            BY <1>1, <1>2, <3>2, <5>1 DEF Opened, Phase, CallPath, StackPhase, N
        <4>2. ElementAt(Len(open)) = Top.node
          BY <1>1, <4>1, InnermostFacts
        <4>3. Begins(Top.node) = Callees(Top.node)
          BY <1>2, <4>1, NodeAssumption DEF Begins
        <4>4. Begins(Top.node) \subseteq Inside(Top.node)
          BY <1>1, <1>2, InsideFacts
        <4>5. QED
          BY <1>3, <4>2, <4>3, <4>4
      <3>3. QED
        BY <3>1, <3>2
    <2>4. \A i \in 1..(N + 1) : frames'[i].node \in Inside(ElementAt(frames'[i].base))
      BY <1>6, <1>7, <2>2, <2>3
    <2>5. QED
      BY <1>6, <1>8, <2>1, <2>4 DEF StackInside
  <1>17. QED
    BY <1>11, <1>12, <1>13, <1>14, <1>15, <1>16 DEF CallPath

-----------------------------------------------------------------------------
(* The open elements.                                                      *)

\* The open elements are different nodes, none of them finished.
LEMMA OpenDistinct ==
  ASSUME IInv, CallPath, OpenOwned
  PROVE  /\ Len(open) \in Nat
         /\ \A h \in 0..Len(open) : ElementAt(h) \in Node \cup {Doc}
         /\ \A g, h \in 0..Len(open) : ElementAt(g) = ElementAt(h) => g = h
         /\ \A h \in 0..Len(open) : ~Finished(ElementAt(h)) \/ ElementAt(h) = Doc
         /\ frames # <<>> /\ ~Opened(Top) => \A h \in 0..Len(open) : ElementAt(h) # Top.node
  <1>1. Len(open) \in Nat /\ \A h \in 1..Len(open) : open[h] \in Node
    BY LenProperties, ElementOfSeq DEF IInv, TypeOK
  <1>2. \A h \in 0..Len(open) : h = 0 \/ h \in 1..Len(open)
    BY <1>1
  <1>3. /\ ElementAt(0) = Doc
        /\ \A h \in 1..Len(open) : ElementAt(h) = open[h] /\ h # 0
    BY <1>1 DEF ElementAt
  <1>4. \A g, h \in 1..Len(open) : open[g] = open[h] => g = h
    <2> SUFFICES ASSUME NEW g \in 1..Len(open), NEW h \in 1..Len(open), open[g] = open[h]
                 PROVE  g = h
      OBVIOUS
    <2>1. PICK i \in 1..Len(frames) :
            Opened(frames[i]) /\ Height(frames[i]) = g /\ frames[i].node = open[g]
      BY DEF OpenOwned
    <2>2. PICK j \in 1..Len(frames) :
            Opened(frames[j]) /\ Height(frames[j]) = h /\ frames[j].node = open[h]
      BY DEF OpenOwned
    <2>3. i = j
      BY <2>1, <2>2 DEF CallPath, StackDistinct
    <2>4. QED
      BY <2>1, <2>2, <2>3
  <1>5. \A g, h \in 0..Len(open) : ElementAt(g) = ElementAt(h) => g = h
    <2> SUFFICES ASSUME NEW g \in 0..Len(open), NEW h \in 0..Len(open),
                        ElementAt(g) = ElementAt(h)
                 PROVE  g = h
      OBVIOUS
    <2>1. CASE g = 0
      BY <1>1, <1>2, <1>3, <2>1, NodeAssumption
    <2>2. CASE h = 0
      BY <1>1, <1>2, <1>3, <2>2, NodeAssumption
    <2>3. CASE g \in 1..Len(open) /\ h \in 1..Len(open)
      BY <1>3, <1>4, <2>3
    <2>4. QED
      BY <1>2, <2>1, <2>2, <2>3
  <1>6. \A h \in 1..Len(open) : ~Finished(open[h])
    BY DEF OpenOwned, Finished
  <1>7. frames # <<>> /\ ~Opened(Top) => \A h \in 1..Len(open) : open[h] # Top.node
    <2> SUFFICES ASSUME frames # <<>>, ~Opened(Top), NEW h \in 1..Len(open), open[h] = Top.node
                 PROVE  FALSE
      OBVIOUS
    <2>1. PICK i \in 1..Len(frames) :
            Opened(frames[i]) /\ Height(frames[i]) = h /\ frames[i].node = open[h]
      BY DEF OpenOwned
    <2>2. Top = frames[Len(frames)] /\ Len(frames) \in 1..Len(frames)
      BY TopFacts DEF IInv, Top
    <2>3. i = Len(frames)
      BY <2>1, <2>2 DEF CallPath, StackDistinct
    <2>4. QED
      BY <2>1, <2>2, <2>3
  <1>8. frames # <<>> => Top.node \in Node
    BY TopFacts DEF IInv
  <1>9. \A h \in 0..Len(open) : ElementAt(h) \in Node \cup {Doc}
    BY <1>1, <1>2, <1>3
  <1>10. \A h \in 0..Len(open) : ~Finished(ElementAt(h)) \/ ElementAt(h) = Doc
    BY <1>2, <1>3, <1>6
  <1>11. frames # <<>> /\ ~Opened(Top) => \A h \in 0..Len(open) : ElementAt(h) # Top.node
    BY <1>2, <1>3, <1>7, <1>8, NodeAssumption
  <1>12. QED
    BY <1>1, <1>5, <1>9, <1>10, <1>11

\* An activation that has no open element returns.
LEMMA OwnedReturn ==
  ASSUME IInv, OpenOwned, frames # <<>>, ~Opened(Top), Return, open' = open
  PROVE  OpenOwned'
  <1>1. /\ Len(frames') = Len(frames) - 1 /\ Top = frames[Len(frames)]
        /\ \A i \in 1..(Len(frames) - 1) : frames'[i] = frames[i]
        /\ \A i \in 1..Len(frames) : i = Len(frames) \/ i \in 1..(Len(frames) - 1)
    BY ReturnFacts
  <1>2. \A h \in 1..Len(open) : \E i \in 1..(Len(frames) - 1) :
          Opened(frames[i]) /\ Height(frames[i]) = h /\ frames[i].node = open[h]
    <2> SUFFICES ASSUME NEW h \in 1..Len(open)
                 PROVE  \E i \in 1..(Len(frames) - 1) :
                          Opened(frames[i]) /\ Height(frames[i]) = h /\ frames[i].node = open[h]
      OBVIOUS
    <2>1. PICK i \in 1..Len(frames) :
            Opened(frames[i]) /\ Height(frames[i]) = h /\ frames[i].node = open[h]
      BY DEF OpenOwned
    <2>2. i \in 1..(Len(frames) - 1)
      BY <1>1, <2>1
    <2>3. QED
      BY <2>1, <2>2
  <1>3. \A h \in 1..Len(open) : \E i \in 1..(Len(frames) - 1) :
          Opened(frames'[i]) /\ Height(frames'[i]) = h /\ frames'[i].node = open[h]
    <2> SUFFICES ASSUME NEW h \in 1..Len(open)
                 PROVE  \E i \in 1..(Len(frames) - 1) :
                          Opened(frames'[i]) /\ Height(frames'[i]) = h /\ frames'[i].node = open[h]
      OBVIOUS
    <2>1. PICK i \in 1..(Len(frames) - 1) :
            Opened(frames[i]) /\ Height(frames[i]) = h /\ frames[i].node = open[h]
      BY <1>2
    <2>2. frames'[i] = frames[i]
      BY <1>1
    <2>3. QED
      BY <2>1, <2>2
  <1>4. QED
    BY <1>1, <1>3 DEF OpenOwned, Opened, Height

\* After a return, the open elements of the others are still the last items of
\* the elements around them, if nothing is added there.
LEMMA LastReturn ==
  ASSUME IInv, OpenLast, frames # <<>>, Return,
         \A h \in 0..Top.base : ElementAt(h)' = ElementAt(h),
         \A i \in 1..(Len(frames) - 1) :
           Opened(frames[i]) => kids'[ElementAt(frames[i].base)] = kids[ElementAt(frames[i].base)]
  PROVE  OpenLast'
  <1>1. /\ Len(frames') = Len(frames) - 1
        /\ \A i \in 1..(Len(frames) - 1) : frames'[i] = frames[i]
        /\ \A i \in 1..(Len(frames) - 1) : i \in 1..Len(frames)
    BY ReturnFacts
  <1>2. \A i \in 1..Len(frames) : frames[i].base \in 0..Top.base
    BY BaseFacts
  <1>3. \A i \in 1..(Len(frames) - 1) : Opened(frames[i]) =>
          LET k == kids'[ElementAt(frames[i].base)]
          IN k # <<>> /\ k[Len(k)] = <<"element", frames[i].node>>
    BY <1>1 DEF OpenLast, Ends
  <1>4. \A i \in 1..Len(frames') : /\ frames'[i].base \in 0..Top.base
                                   /\ Opened(frames'[i]) =>
                                        LET k == kids'[ElementAt(frames'[i].base)]
                                        IN k # <<>> /\ k[Len(k)] = <<"element", frames'[i].node>>
    BY <1>1, <1>2, <1>3
  <1>5. QED
    BY <1>4 DEF OpenLast, Ends, Opened

\* visit() moves on, its element open or not as before.
LEMMA OpenMoves ==
  ASSUME IInv, OpenOwned, OpenLast, frames # <<>>, Moves,
         Opened(frames'[Len(frames)]) <=> Opened(Top), open' = open, kids' = kids
  PROVE  OpenOwned' /\ OpenLast'
  <1>1. /\ Len(frames) \in Nat \ {0} /\ Len(frames') = Len(frames)
        /\ \A i \in 1..(Len(frames) - 1) : frames'[i] = frames[i]
        /\ frames'[Len(frames)].node = frames[Len(frames)].node
        /\ frames'[Len(frames)].base = frames[Len(frames)].base
        /\ Opened(frames'[Len(frames)]) <=> Opened(frames[Len(frames)])
    BY DEF Moves, Top
  <1>2. \A i \in 1..Len(frames) : i = Len(frames) \/ i \in 1..(Len(frames) - 1)
    BY <1>1
  <1>3. \A i \in 1..Len(frames) : /\ frames'[i].node = frames[i].node
                                  /\ frames'[i].base = frames[i].base
                                  /\ Opened(frames'[i]) <=> Opened(frames[i])
    BY <1>1, <1>2
  <1>4. \A i \in 1..Len(frames) : Height(frames'[i]) = Height(frames[i])
    BY <1>3 DEF Height
  <1>5. OpenOwned'
    <2>1. \A h \in 1..Len(open) : \E i \in 1..Len(frames) :
            Opened(frames'[i]) /\ Height(frames'[i]) = h /\ frames'[i].node = open[h]
      BY <1>3, <1>4 DEF OpenOwned
    <2>2. QED
      BY <1>1, <2>1 DEF OpenOwned, Opened, Height
  <1>6. OpenLast'
    <2>1. \A g : ElementAt(g)' = ElementAt(g)
      BY DEF ElementAt
    <2>2. \A i \in 1..Len(frames') : Opened(frames'[i]) =>
            Ends(ElementAt(frames'[i].base), <<"element", frames'[i].node>>)
      BY <1>1, <1>3 DEF OpenLast
    <2>3. QED
      BY <2>1, <2>2 DEF OpenLast, Ends, Opened
  <1>7. QED
    BY <1>5, <1>6

\* visit() is called for the next node.
LEMMA OpenCall ==
  ASSUME IInv, OpenOwned, OpenLast, VisitNext, Head(Top.todo) # NULL
  PROVE  OpenOwned' /\ OpenLast'
  <1>1. frames # <<>> /\ open' = open /\ kids' = kids /\ TypeOK
    BY DEF VisitNext, IInv
  <1>2. /\ Len(frames) \in Nat
        /\ \A i \in 1..Len(frames) : /\ frames'[i].node = frames[i].node
                                     /\ frames'[i].base = frames[i].base
                                     /\ frames'[i].pc = frames[i].pc
        /\ Len(frames') = Len(frames) + 1 /\ frames'[Len(frames')].pc = "enter"
    BY <1>1, TopFacts, VisitNextFacts
  <1>3. \A i \in 1..Len(frames) : /\ Opened(frames'[i]) <=> Opened(frames[i])
                                  /\ Height(frames'[i]) = Height(frames[i])
    BY <1>2 DEF Opened, Height
  <1>4. \A i \in 1..Len(frames') : i \in 1..Len(frames) \/ ~Opened(frames'[i])
    BY <1>2 DEF Opened
  <1>5. \A i \in 1..Len(frames) : i \in 1..Len(frames')
    BY <1>2
  <1>6. OpenOwned'
    <2>1. \A h \in 1..Len(open) : \E i \in 1..Len(frames') :
            Opened(frames'[i]) /\ Height(frames'[i]) = h /\ frames'[i].node = open[h]
      <3> SUFFICES ASSUME NEW h \in 1..Len(open)
                   PROVE  \E i \in 1..Len(frames') :
                            Opened(frames'[i]) /\ Height(frames'[i]) = h /\ frames'[i].node = open[h]
        OBVIOUS
      <3>1. PICK i \in 1..Len(frames) :
              Opened(frames[i]) /\ Height(frames[i]) = h /\ frames[i].node = open[h]
        BY DEF OpenOwned
      <3>2. QED
        BY <1>2, <1>3, <1>5, <3>1
    <2>2. QED
      BY <1>1, <2>1 DEF OpenOwned, Opened, Height
  <1>7. OpenLast'
    <2>1. \A g : ElementAt(g)' = ElementAt(g)
      BY <1>1 DEF ElementAt
    <2>2. \A i \in 1..Len(frames') : Opened(frames'[i]) =>
            Ends(ElementAt(frames'[i].base), <<"element", frames'[i].node>>)
      BY <1>2, <1>3, <1>4 DEF OpenLast
    <2>3. QED
      BY <1>1, <2>1, <2>2 DEF OpenLast, Ends, Opened
  <1>8. QED
    BY <1>6, <1>7

-----------------------------------------------------------------------------
(* Steps that write nothing.                                               *)

\* Nobody is about to decide what to write after a return, and while the
\* innermost activation is in a loop.
LEMMA NobodyEnters ==
  ASSUME IInv
  PROVE  /\ frames # <<>> /\ Top.pc # "enter" => \A n : ~Entering(n)
         /\ frames # <<>> /\ Return => \A n : ~Entering(n)'
         /\ Moves /\ frames'[Len(frames)].pc # "enter" => \A n : ~Entering(n)'
  <1>1. frames # <<>> /\ Top.pc # "enter" => \A n : ~Entering(n)
    BY DEF Entering
  <1>2. ASSUME frames # <<>>, Return
        PROVE  \A n : ~Entering(n)'
    <2>1. /\ Len(frames) \in Nat \ {0} /\ Len(frames') = Len(frames) - 1
          /\ \A i \in 1..(Len(frames) - 1) : frames'[i] = frames[i]
          /\ \A i \in 1..(Len(frames) - 1) : i \in 1..Len(frames) /\ i # Len(frames)
          /\ frames' \in Seq(Frame)
      BY <1>2, ReturnFacts
    <2>2. \A i \in 1..(Len(frames) - 1) : frames[i].pc # "enter"
      BY <2>1 DEF IInv, Nesting, OnlyTopEnters
    <2>3. frames' # <<>> => Len(frames) - 1 \in 1..(Len(frames) - 1)
      BY <2>1, EmptySeq
    <2>4. frames' # <<>> => frames'[Len(frames')].pc # "enter"
      BY <2>1, <2>2, <2>3
    <2>5. QED
      BY <2>4 DEF Entering, Top
  <1>3. ASSUME Moves, frames'[Len(frames)].pc # "enter"
        PROVE  \A n : ~Entering(n)'
    BY <1>3 DEF Moves, Entering, Top
  <1>4. QED
    BY <1>1, <1>2, <1>3

\* The items are as before, and so are the nodes that have begun and those
\* that are finished.
LEMMA SameDocument ==
  ASSUME Document, ast' = ast, kids' = kids, Begun' = Begun,
         \A n : Finished(n)' <=> Finished(n)
  PROVE  Document'
  <1>1. /\ \A e : Inside(e)' = Inside(e)
        /\ \A n : Successors(n)' = Successors(n)
    BY SameAst
  <1>2. KidsDistinct' /\ KidsNone'
    BY DEF Document, KidsDistinct, KidsNone
  <1>3. KidsBelong'
    <2>1. \A e, k, n : Belongs(e, k, n)' <=> Belongs(e, k, n)
      BY <1>1 DEF Belongs
    <2>2. QED
      BY <2>1 DEF Document, KidsBelong
  <1>4. ItemsKept'
    <2>1. \A n : Own(n)' <=> Own(n)
      BY DEF Own, Ends
    <2>2. \A e, n : Around(e, n)' <=> Around(e, n)
      BY DEF Around
    <2>3. QED
      BY <1>1, <2>1, <2>2 DEF Document, ItemsKept
  <1>5. SuccessorsFirst'
    BY <1>1 DEF Document, SuccessorsFirst, At
  <1>6. QED
    BY <1>2, <1>3, <1>4, <1>5 DEF Document

\* A node that gets no element returns: no node begins or finishes.
LEMMA ReturnBegun ==
  ASSUME IInv, CallPath, frames # <<>>, Return, ast' = ast, Visited' = Visited,
         Top.node \in ast.foreign \/ Skipped(Top.node)
  PROVE  Begun' = Begun /\ \A n : Finished(n)' <=> Finished(n)
  <1>1. \A n : ~Entering(n)' /\ (Skipped(n)' <=> Skipped(n))
    BY NobodyEnters, SameAst
  <1>2. \A n : Entering(n) => n = Top.node
    BY DEF Entering
  <1>3. Begun' = Begun
    BY <1>1, <1>2 DEF Begun
  <1>4. Top.node \notin Begun
    BY DEF Begun
  <1>5. /\ Len(frames') = Len(frames) - 1 /\ Top = frames[Len(frames)]
        /\ \A i \in 1..(Len(frames) - 1) : frames'[i] = frames[i]
        /\ \A i \in 1..Len(frames) : i = Len(frames) \/ i \in 1..(Len(frames) - 1)
        /\ \A i \in 1..(Len(frames) - 1) : i \in 1..Len(frames)
    BY ReturnFacts
  <1>6. \A n : n # Top.node =>
          ((\A i \in 1..Len(frames') : frames'[i].node # n) <=>
           (\A i \in 1..Len(frames) : frames[i].node # n))
    BY <1>5
  <1>7. QED
    BY <1>3, <1>4, <1>6 DEF Finished

\* Nor when visit() moves on.
LEMMA MovesBegun ==
  ASSUME IInv, frames # <<>>, Moves, ast' = ast, Visited' = Visited,
         frames'[Len(frames)].pc # "enter", Top.pc = "enter" => Skipped(Top.node)
  PROVE  Begun' = Begun /\ \A n : Finished(n)' <=> Finished(n)
  <1>1. \A n : ~Entering(n)' /\ (Skipped(n)' <=> Skipped(n))
    BY NobodyEnters, SameAst
  <1>2. \A n : Entering(n) => Skipped(n)
    BY DEF Entering
  <1>3. Begun' = Begun
    BY <1>1, <1>2 DEF Begun
  <1>4. /\ Len(frames) \in Nat \ {0} /\ Len(frames') = Len(frames)
        /\ \A i \in 1..(Len(frames) - 1) : frames'[i] = frames[i]
        /\ frames'[Len(frames)].node = frames[Len(frames)].node
        /\ \A i \in 1..Len(frames) : i = Len(frames) \/ i \in 1..(Len(frames) - 1)
    BY DEF Moves, Top
  <1>5. \A i \in 1..Len(frames) : frames'[i].node = frames[i].node
    BY <1>4
  <1>6. QED
    BY <1>3, <1>4, <1>5 DEF Finished

\* What the heights of the elements around the activations do not notice.
LEMMA SameOpen ==
  ASSUME open' = open
  PROVE  \A h : ElementAt(h)' = ElementAt(h)
  BY DEF ElementAt

\* Returning from a node of another file.
LEMMA LeaveForeignDoc ==
  ASSUME DInv, LeaveForeign
  PROVE  CallStack' /\ Document'
  <1> USE DEF DInv, CallStack
  <1>1. /\ frames # <<>> /\ Top.pc = "enter" /\ ~Opened(Top) /\ Top.node \in ast.foreign /\ Return
        /\ ast' = ast /\ open' = open /\ kids' = kids
    BY DEF LeaveForeign, Opened
  <1>2. Coming(Top) = {}
    BY <1>1 DEF Coming, Callees
  <1>3. Visited' = Visited
    BY <1>1, <1>2, ReturnVisited
  <1>4. \A h : ElementAt(h)' = ElementAt(h)
    BY <1>1, SameOpen
  <1>5. CallPath'
    BY <1>1, <1>2, <1>4, PathReturn
  <1>6. OpenOwned' /\ OpenLast'
    BY <1>1, <1>4, OwnedReturn, LastReturn
  <1>7. Document'
    BY <1>1, <1>3, ReturnBegun, SameDocument
  <1>8. QED
    BY <1>5, <1>6, <1>7

\* Returning from a compiler-generated node.
LEMMA LeaveSkippedDoc ==
  ASSUME DInv, LeaveSkipped
  PROVE  CallStack' /\ Document'
  <1> USE DEF DInv, CallStack
  <1>1. /\ frames # <<>> /\ Top.pc = "skip" /\ ~Opened(Top) /\ Top.todo = <<>> /\ Return
        /\ ast' = ast /\ open' = open /\ kids' = kids
    BY DEF LeaveSkipped, Opened
  <1>2. DOMAIN <<>> = {}
    BY EmptySeq
  <1>3. Coming(Top) = {}
    BY <1>1, <1>2 DEF Coming, Range
  <1>4. Top = frames[Len(frames)] /\ Len(frames) \in 1..Len(frames)
    BY <1>1, ReturnFacts
  <1>5. Skipped(Top.node)
    BY <1>1, <1>4 DEF CallPath, StackPhase
  <1>6. Visited' = Visited
    BY <1>1, <1>3, ReturnVisited
  <1>7. \A h : ElementAt(h)' = ElementAt(h)
    BY <1>1, SameOpen
  <1>8. CallPath'
    BY <1>1, <1>3, <1>7, PathReturn
  <1>9. OpenOwned' /\ OpenLast'
    BY <1>1, <1>7, OwnedReturn, LastReturn
  <1>10. Document'
    BY <1>1, <1>5, <1>6, ReturnBegun, SameDocument
  <1>11. QED
    BY <1>8, <1>9, <1>10

\* A list is its own rest.
LEMMA WholeList ==
  ASSUME NEW S, NEW s \in Seq(S)
  PROVE  IsRest(s, s)
  BY LenProperties DEF IsRest

\* Goto is a move.
LEMMA GotoMoves ==
  ASSUME IInv, frames # <<>>, NEW p \in Phase, NEW t \in Seq(Node \cup {NULL}), Goto(p, t)
  PROVE  /\ Moves /\ frames'[Len(frames)].pc = p /\ frames'[Len(frames)].todo = t
         /\ frames'[Len(frames)].node = Top.node
         /\ Top = frames[Len(frames)] /\ Len(frames) \in 1..Len(frames)
  <1>1. TypeOK
    BY DEF IInv
  <1>2. Len(frames) \in Nat \ {0} /\ Top = frames[Len(frames)]
    BY <1>1, TopFacts DEF Top
  <1>3. /\ Len(frames') = Len(frames)
        /\ \A i \in 1..(Len(frames) - 1) : frames'[i] = frames[i]
        /\ frames'[Len(frames)].node = Top.node
        /\ frames'[Len(frames)].base = Top.base
        /\ frames'[Len(frames)].pc = p
        /\ frames'[Len(frames)].todo = t
    BY <1>1, GotoFacts
  <1>4. QED
    BY <1>2, <1>3 DEF Moves

\* Passing over a compiler-generated node.
LEMMA SkipGeneratedDoc ==
  ASSUME DInv, SkipGenerated
  PROVE  CallStack' /\ Document'
  <1> USE DEF DInv, CallStack
  <1> DEFINE f == frames'[Len(frames)]
  <1>1. /\ frames # <<>> /\ Top.pc = "enter" /\ ~Opened(Top) /\ Top.node \notin ast.foreign
        /\ Skipped(Top.node) /\ Goto("skip", Successors(Top.node))
        /\ ast' = ast /\ open' = open /\ kids' = kids /\ ast \in Asts
    BY DEF SkipGenerated, Opened, IInv
  <1>2. Top.node \in Node /\ Successors(Top.node) \in Seq(Node \cup {NULL}) /\ "skip" \in Phase
    BY <1>1, TopFacts, AstFacts DEF IInv, Phase
  <1>3. Moves /\ f.pc = "skip" /\ f.todo = Successors(Top.node) /\ f.node = Top.node
    BY <1>1, <1>2, GotoMoves
  <1>4. Coming(f) = Coming(Top)
    BY <1>1, <1>3 DEF Coming, Callees
  <1>5. Visited' = Visited
    BY <1>1, <1>3, <1>4, MovesVisited
  <1>6. \A h : ElementAt(h)' = ElementAt(h)
    BY <1>1, SameOpen
  <1>7. IsRest(f.todo, List(f))
    BY <1>2, <1>3, WholeList DEF List
  <1>8. CallPath'
    BY <1>1, <1>3, <1>5, <1>6, <1>7, PathMoves
  <1>9. ~Opened(f)
    BY <1>3 DEF Opened
  <1>10. OpenOwned' /\ OpenLast'
    BY <1>1, <1>3, <1>9, OpenMoves
  <1>11. Document'
    BY <1>1, <1>3, <1>5, MovesBegun, SameDocument
  <1>12. QED
    BY <1>8, <1>10, <1>11

\* Moving on from the successors to inodeSgXxx.
LEMMA VisitInodeDoc ==
  ASSUME DInv, VisitInode
  PROVE  CallStack' /\ Document'
  <1> USE DEF DInv, CallStack
  <1> DEFINE f == frames'[Len(frames)]
  <1>1. /\ frames # <<>> /\ Top.pc = "succ" /\ Opened(Top) /\ Top.todo = <<>>
        /\ Goto("inode", ast.inode[Top.node])
        /\ ast' = ast /\ open' = open /\ kids' = kids /\ ast \in Asts
    BY DEF VisitInode, Opened, IInv
  <1>2. Top.node \in Node /\ ast.inode[Top.node] \in Seq(Node \cup {NULL}) /\ "inode" \in Phase
    BY <1>1, TopFacts, AstFacts DEF IInv, Phase
  <1>3. Moves /\ f.pc = "inode" /\ f.todo = ast.inode[Top.node] /\ f.node = Top.node
        /\ Top = frames[Len(frames)] /\ Len(frames) \in 1..Len(frames)
    BY <1>1, <1>2, GotoMoves
  <1>4. DOMAIN <<>> = {}
    BY EmptySeq
  <1>5. Coming(f) = Coming(Top)
    BY <1>1, <1>3, <1>4 DEF Coming, Range
  <1>6. Visited' = Visited
    BY <1>1, <1>3, <1>5, MovesVisited
  <1>7. \A h : ElementAt(h)' = ElementAt(h)
    BY <1>1, SameOpen
  <1>8. IsRest(f.todo, List(f))
    BY <1>2, <1>3, WholeList DEF List
  <1>9. Top.node \notin ast.foreign /\ ~Skipped(Top.node)
    BY <1>1, <1>3 DEF CallPath, StackPhase
  <1>10. CallPath'
    BY <1>1, <1>3, <1>6, <1>7, <1>8, <1>9, PathMoves
  <1>11. Opened(f)
    BY <1>3 DEF Opened
  <1>12. OpenOwned' /\ OpenLast'
    BY <1>1, <1>3, <1>11, OpenMoves
  <1>13. Document'
    BY <1>1, <1>3, <1>6, MovesBegun, SameDocument
  <1>14. QED
    BY <1>10, <1>12, <1>13

\* Calling visit() on the next node of a loop, or passing over an empty slot.
LEMMA VisitNextDoc ==
  ASSUME DInv, VisitNext
  PROVE  CallStack' /\ Document'
  <1> USE DEF DInv, CallStack
  <1> DEFINE h == Head(Top.todo)
             N == Len(frames)
  <1>1. /\ frames # <<>> /\ Top.pc # "enter" /\ Top.todo # <<>>
        /\ ast' = ast /\ open' = open /\ kids' = kids /\ ast \in Asts /\ TypeOK
    BY DEF VisitNext, IInv
  <1>2. N \in Nat \ {0} /\ N \in 1..N /\ Top = frames[N]
    BY <1>1, TopFacts DEF Top
  <1>3. /\ Top.node \in Node /\ Top.todo \in Seq(Node \cup {NULL})
        /\ List(Top) \in Seq(Node \cup {NULL})
    BY <1>2, ListFacts
  <1>4. /\ IsRest(Top.todo, List(Top)) /\ Top.node \notin ast.foreign
        /\ Top.pc = "skip" <=> Skipped(Top.node)
    BY <1>1, <1>2 DEF CallPath, StackTodo, StackPhase
  <1>5. CASE h = NULL
    <2> DEFINE f == frames'[N]
    <2>1. Moves /\ Visited' = Visited /\ f.pc = Top.pc /\ f.todo = Tail(Top.todo)
          /\ f.node = Top.node
      BY <1>5, EmptySlot DEF Moves
    <2>2. \A g : ElementAt(g)' = ElementAt(g)
      BY <1>1, SameOpen
    <2>3. IsRest(f.todo, List(f))
      <3>1. IsRest(Tail(Top.todo), List(Top))
        BY <1>1, <1>3, <1>4, RestFacts
      <3>2. List(f) = List(Top)
        BY <2>1 DEF List
      <3>3. QED
        BY <2>1, <3>1, <3>2
    <2>4. CallPath'
      BY <1>1, <1>4, <2>1, <2>2, <2>3, PathMoves
    <2>5. Opened(f) <=> Opened(Top)
      BY <2>1 DEF Opened
    <2>6. OpenOwned' /\ OpenLast'
      BY <1>1, <2>1, <2>5, OpenMoves
    <2>7. Document'
      BY <1>1, <2>1, MovesBegun, SameDocument
    <2>8. QED
      BY <2>4, <2>6, <2>7
  <1>6. CASE h # NULL
    <2>1. CallPath' /\ OpenOwned' /\ OpenLast'
      BY <1>6, PathCall, OpenCall
    <2>2. Visited' = Visited \cup {h} /\ h \in ToCome
      BY <1>6, CallVisited
    <2>3. h \notin Visited
      BY <2>2, ToComeFacts DEF CallPath
    <2>4. /\ Len(frames') = N + 1
          /\ frames'[Len(frames')].node = h
          /\ frames'[Len(frames')].pc = "enter"
          /\ \A i \in 1..N : frames'[i].node = frames[i].node
      BY <1>1, <1>6, VisitNextFacts
    <2>5. frames' # <<>>
      BY <1>2, <2>4, EmptySeq
    <2>6. \A n : /\ Entering(n)' <=> n = h
                 /\ ~Entering(n)
                 /\ Skipped(n)' <=> Skipped(n)
      BY <1>1, <2>4, <2>5, SameAst DEF Entering, Top
    <2>7. Begun' = Begun
      BY <1>1, <2>2, <2>3, <2>6 DEF Begun
    <2>8. h \notin Begun
      BY <2>3 DEF Begun
    <2>9. \A i \in 1..Len(frames') : i \in 1..N \/ i = Len(frames')
      BY <1>2, <2>4
    <2>10. \A i \in 1..N : i \in 1..Len(frames')
      BY <1>2, <2>4
    <2>11. \A n \in Begun :
             (\A i \in 1..Len(frames') : frames'[i].node # n) <=>
             (\A i \in 1..N : frames[i].node # n)
      BY <2>4, <2>8, <2>9, <2>10
    <2>12. \A n : Finished(n)' <=> Finished(n)
      BY <2>7, <2>11 DEF Finished
    <2>13. Document'
      BY <1>1, <2>7, <2>12, SameDocument
    <2>14. QED
      BY <2>1, <2>13
  <1>7. QED
    BY <1>5, <1>6

-----------------------------------------------------------------------------
(* Steps that write.                                                       *)

\* Items are added at the end of the elements.
Grown(new) ==
  /\ new \in [Node \cup {Doc} -> Seq(Item)]
  /\ kids' = [e \in Node \cup {Doc} |-> kids[e] \o new[e]]

\* The items of u are those of s, then those of t.
Joined(u, s, t) ==
  /\ Len(s) \in Nat /\ Len(t) \in Nat /\ Len(u) = Len(s) + Len(t)
  /\ \A i \in 1..Len(s) : i \in 1..Len(u) /\ u[i] = s[i]
  /\ \A j \in 1..Len(t) : Len(s) + j \in 1..Len(u) /\ u[Len(s) + j] = t[j]
  /\ \A i \in 1..Len(u) :
       i \in 1..Len(s) \/ \E j \in 1..Len(t) : i = Len(s) + j /\ u[i] = t[j]
  /\ \A i \in 1..Len(s) :
       /\ i > 1 => i - 1 \in 1..Len(s)
       /\ i < Len(s) => i + 1 \in 1..Len(s) /\ i < Len(u)
  /\ t = <<>> => u = s
  /\ s # <<>> => u # <<>>

\* Concatenation joins.
LEMMA ConcatJoined ==
  ASSUME NEW S, NEW s \in Seq(S), NEW t \in Seq(S)
  PROVE  Joined(s \o t, s, t)
  <1> DEFINE u == s \o t
             a == Len(s)
             b == Len(t)
  <1>1. a \in Nat /\ b \in Nat
    BY LenProperties
  <1>2. /\ u \in Seq(S) /\ Len(u) = a + b
        /\ \A i \in 1..(a + b) : u[i] = IF i <= a THEN s[i] ELSE t[i - a]
    BY ConcatProperties
  <1>3. t = <<>> => u = s
    BY ConcatEmptySeq
  <1>4. (s = <<>> <=> a = 0) /\ (u = <<>> <=> Len(u) = 0)
    BY <1>2, EmptySeq
  <1> SUFFICES /\ a \in Nat /\ b \in Nat /\ Len(u) = a + b
               /\ \A i \in 1..a : i \in 1..Len(u) /\ u[i] = s[i]
               /\ \A j \in 1..b : a + j \in 1..Len(u) /\ u[a + j] = t[j]
               /\ \A i \in 1..Len(u) :
                    i \in 1..a \/ \E j \in 1..b : i = a + j /\ u[i] = t[j]
               /\ \A i \in 1..a : /\ i > 1 => i - 1 \in 1..a
                                  /\ i < a => i + 1 \in 1..a /\ i < Len(u)
               /\ t = <<>> => u = s
               /\ s # <<>> => u # <<>>
    BY DEF Joined
  <1> HIDE DEF a, b, u
  <1>5. \A i \in 1..a : i \in 1..(a + b) /\ i <= a
    BY <1>1
  <1>6. \A j \in 1..b : a + j \in 1..(a + b) /\ ~(a + j <= a) /\ (a + j) - a = j
    BY <1>1
  <1>7. \A i \in 1..(a + b) : i \in 1..a \/ (i - a \in 1..b /\ i = a + (i - a) /\ ~(i <= a))
    BY <1>1
  <1>8. \A i \in 1..(a + b) : i \in 1..a \/ \E j \in 1..b : i = a + j /\ u[i] = t[j]
    BY <1>2, <1>7
  <1>9. \A i \in 1..a : i \in 1..Len(u) /\ u[i] = s[i]
    BY <1>2, <1>5
  <1>10. \A j \in 1..b : a + j \in 1..Len(u) /\ u[a + j] = t[j]
    BY <1>2, <1>6
  <1>11. s # <<>> => u # <<>>
    BY <1>1, <1>2, <1>4
  <1>12. \A i \in 1..a : /\ i > 1 => i - 1 \in 1..a
                         /\ i < a => i + 1 \in 1..a /\ i < a + b
    BY <1>1
  <1>13. QED
    BY <1>1, <1>2, <1>3, <1>8, <1>9, <1>10, <1>11, <1>12

\* The items of an element after such a step: those it had, then the new ones.
LEMMA GrownFacts ==
  ASSUME IInv, NEW new, Grown(new), NEW e \in Node \cup {Doc}
  PROVE  Joined(kids'[e], kids[e], new[e])
  <1>1. kids[e] \in Seq(Item) /\ new[e] \in Seq(Item) /\ kids'[e] = kids[e] \o new[e]
    BY DEF Grown, IInv, TypeOK
  <1>2. Joined(kids[e] \o new[e], kids[e], new[e])
    BY <1>1, ConcatJoined
  <1>3. QED
    BY <1>1, <1>2

\* One activation, for node x, adds items of its own to open elements: the
\* other nodes keep their items.
Adds(new, x) ==
  /\ \A e \in Node \cup {Doc} :
       /\ \A i, j \in 1..Len(new[e]) : new[e][i] = new[e][j] => i = j
       /\ \A i \in 1..Len(new[e]) : \E k \in ItemKind : new[e][i] = <<k, x>>
       /\ \A i \in 1..Len(kids[e]), j \in 1..Len(new[e]) : kids[e][i] # new[e][j]
  /\ \A n \in Node : new[n] # <<>> => n \notin Begun \/ ~Finished(n)

\* The nodes that have begun and those that are finished, but for x, are as
\* before.
Concerns(x) ==
  /\ Begun \subseteq Begun' /\ Begun' \subseteq Begun \cup {x}
  /\ \A n : n # x => (Finished(n)' <=> Finished(n))
  /\ ~Finished(x)

\* No item is written twice, if none of the new ones is there yet.
LEMMA DistinctGrown ==
  ASSUME IInv, KidsDistinct, NEW new, NEW x, Grown(new), Adds(new, x)
  PROVE  KidsDistinct'
  <1> SUFFICES ASSUME NEW e \in Node \cup {Doc}, NEW i \in 1..Len(kids'[e]),
                      NEW j \in 1..Len(kids'[e]), kids'[e][i] = kids'[e][j]
               PROVE  i = j
    BY DEF KidsDistinct
  <1>1. Joined(kids'[e], kids[e], new[e])
    BY GrownFacts
  <1>2. /\ Len(kids[e]) \in Nat /\ Len(new[e]) \in Nat
        /\ \A p \in 1..Len(kids[e]) : p \in 1..Len(kids'[e]) /\ kids'[e][p] = kids[e][p]
        /\ \A p \in 1..Len(kids'[e]) :
             \/ p \in 1..Len(kids[e])
             \/ \E q \in 1..Len(new[e]) : p = Len(kids[e]) + q /\ kids'[e][p] = new[e][q]
    BY <1>1 DEF Joined
  <1>3. /\ \A p, q \in 1..Len(new[e]) : new[e][p] = new[e][q] => p = q
        /\ \A p \in 1..Len(kids[e]), q \in 1..Len(new[e]) : kids[e][p] # new[e][q]
        /\ \A p, q \in 1..Len(kids[e]) : kids[e][p] = kids[e][q] => p = q
    BY DEF Adds, KidsDistinct
  <1>4. CASE i \in 1..Len(kids[e]) /\ j \in 1..Len(kids[e])
    BY <1>2, <1>3, <1>4
  <1>5. CASE i \in 1..Len(kids[e]) /\ j \notin 1..Len(kids[e])
    <2>1. PICK q \in 1..Len(new[e]) : kids'[e][j] = new[e][q]
      BY <1>2, <1>5
    <2>2. kids[e][i] # new[e][q] /\ kids'[e][i] = kids[e][i]
      BY <1>2, <1>3, <1>5
    <2>3. QED
      BY <2>1, <2>2
  <1>6. CASE j \in 1..Len(kids[e]) /\ i \notin 1..Len(kids[e])
    <2>1. PICK q \in 1..Len(new[e]) : kids'[e][i] = new[e][q]
      BY <1>2, <1>6
    <2>2. kids[e][j] # new[e][q] /\ kids'[e][j] = kids[e][j]
      BY <1>2, <1>3, <1>6
    <2>3. QED
      BY <2>1, <2>2
  <1>7. CASE i \notin 1..Len(kids[e]) /\ j \notin 1..Len(kids[e])
    <2>1. PICK p \in 1..Len(new[e]) : i = Len(kids[e]) + p /\ kids'[e][i] = new[e][p]
      BY <1>2, <1>7
    <2>2. PICK q \in 1..Len(new[e]) : j = Len(kids[e]) + q /\ kids'[e][j] = new[e][q]
      BY <1>2, <1>7
    <2>3. new[e][p] = new[e][q]
      BY <2>1, <2>2
    <2>4. QED
      BY <1>3, <2>1, <2>2, <2>3
  <1>8. QED
    BY <1>4, <1>5, <1>6, <1>7

\* Every item is in its place, if the new ones are.
LEMMA BelongGrown ==
  ASSUME IInv, KidsBelong, ast' = ast, NEW new, NEW x \in Node, Grown(new), Adds(new, x),
         Concerns(x),
         \A e \in Node \cup {Doc} : \A k \in ItemKind : \A j \in 1..Len(new[e]) :
           new[e][j] = <<k, x>> => Belongs(e, k, x)'
  PROVE  KidsBelong'
  <1> SUFFICES ASSUME NEW e \in Node \cup {Doc}, NEW i \in 1..Len(kids'[e]),
                      NEW k \in ItemKind, NEW n \in Node, kids'[e][i] = <<k, n>>
               PROVE  Belongs(e, k, n)'
    BY DEF KidsBelong
  <1>1. Joined(kids'[e], kids[e], new[e])
    BY GrownFacts
  <1>2. /\ \A p \in 1..Len(kids[e]) : p \in 1..Len(kids'[e]) /\ kids'[e][p] = kids[e][p]
        /\ \A p \in 1..Len(kids'[e]) :
             \/ p \in 1..Len(kids[e])
             \/ \E q \in 1..Len(new[e]) : p = Len(kids[e]) + q /\ kids'[e][p] = new[e][q]
    BY <1>1 DEF Joined
  <1>3. CASE i \in 1..Len(kids[e])
    <2>1. Belongs(e, k, n)
      BY <1>2, <1>3 DEF KidsBelong
    <2>2. Inside(e)' = Inside(e)
      BY SameAst
    <2>3. n \in Begun' /\ (Finished(n) => Finished(n)')
      BY <2>1 DEF Concerns, Belongs
    <2>4. QED
      BY <2>1, <2>2, <2>3 DEF Belongs
  <1>4. CASE i \notin 1..Len(kids[e])
    <2>1. PICK q \in 1..Len(new[e]) : kids'[e][i] = new[e][q]
      BY <1>2, <1>4
    <2>2. new[e][q] = <<k, n>>
      BY <2>1
    <2>3. PICK l \in ItemKind : new[e][q] = <<l, x>>
      BY DEF Adds
    <2>4. n = x
      BY <2>2, <2>3
    <2>5. QED
      BY <2>2, <2>4
  <1>5. QED
    BY <1>3, <1>4

\* A node with its items keeps them.
LEMMA KeptGrown ==
  ASSUME IInv, ast' = ast, NEW new, NEW x, Grown(new), Adds(new, x), Concerns(x),
         NEW n \in Begun, n # x, n \in Node
  PROVE  /\ Own(n) => Own(n)'
         /\ \A e \in Node \cup {Doc} : Around(e, n) => Around(e, n)'
  <1>1. (Finished(n)' <=> Finished(n)) /\ (Finished(n) => new[n] = <<>>)
    BY DEF Concerns, Adds
  <1>2. \A e \in Node \cup {Doc} : Joined(kids'[e], kids[e], new[e])
    BY GrownFacts
  <1>3. /\ Len(kids[n]) \in Nat
        /\ \A p \in 1..Len(kids[n]) : p \in 1..Len(kids'[n]) /\ kids'[n][p] = kids[n][p]
        /\ new[n] = <<>> => kids'[n] = kids[n]
        /\ kids[n] # <<>> => kids'[n] # <<>>
    BY <1>2 DEF Joined
  <1>4. kids[n] # <<>> => 1 \in 1..Len(kids[n])
    BY <1>3, EmptySeq DEF IInv, TypeOK
  <1>5. ASSUME Own(n) PROVE Own(n)'
    <2>1. ("before" \in ast.pragma[n] /\ n = ast.global =>
             kids[n] # <<>> /\ kids[n][1] = <<"before", n>>)'
      BY <1>3, <1>4, <1>5 DEF Own
    <2>2. ("inside" \in ast.pragma[n] /\ Finished(n) => Ends(n, <<"inside", n>>))'
      BY <1>1, <1>3, <1>5 DEF Own, Ends
    <2>3. (n \in ast.info /\ Finished(n) => \E q \in 1..Len(kids[n]) : kids[n][q] = <<"info", n>>)'
      BY <1>1, <1>3, <1>5 DEF Own
    <2>4. QED
      BY <2>1, <2>2, <2>3 DEF Own
  <1>6. ASSUME NEW e \in Node \cup {Doc}, Around(e, n)
        PROVE  Around(e, n)'
    <2>1. Joined(kids'[e], kids[e], new[e])
      BY <1>2
    <2>2. \A p \in 1..Len(kids[e]) :
            /\ p \in 1..Len(kids'[e]) /\ kids'[e][p] = kids[e][p]
            /\ p > 1 => p - 1 \in 1..Len(kids[e])
            /\ p < Len(kids[e]) => p + 1 \in 1..Len(kids[e]) /\ p < Len(kids'[e])
      BY <2>1 DEF Joined
    <2>3. PICK p \in 1..Len(kids[e]) :
            /\ kids[e][p] = <<"element", n>>
            /\ "before" \in ast.pragma[n] /\ n # ast.global =>
                 p > 1 /\ kids[e][p - 1] = <<"before", n>>
            /\ "after" \in ast.pragma[n] /\ Finished(n) =>
                 p < Len(kids[e]) /\ kids[e][p + 1] = <<"after", n>>
      BY <1>6 DEF Around
    <2>4. p \in 1..Len(kids'[e]) /\ kids'[e][p] = <<"element", n>>
      BY <2>2, <2>3
    <2>5. "before" \in ast'.pragma[n] /\ n # ast'.global =>
            p > 1 /\ kids'[e][p - 1] = <<"before", n>>
      <3>1. p > 1 => p - 1 \in 1..Len(kids[e])
        BY <2>2
      <3>2. QED
        BY <2>2, <2>3, <3>1
    <2>6. "after" \in ast'.pragma[n] /\ Finished(n)' =>
            p < Len(kids'[e]) /\ kids'[e][p + 1] = <<"after", n>>
      <3>1. p < Len(kids[e]) => p + 1 \in 1..Len(kids[e]) /\ p < Len(kids'[e])
        BY <2>2
      <3>2. QED
        BY <1>1, <2>2, <2>3, <3>1
    <2>7. QED
      BY <2>4, <2>5, <2>6 DEF Around
  <1>7. QED
    BY <1>5, <1>6

\* The order of successors and inode nodes is kept if no successor is written
\* after an inode node.
LEMMA OrderGrown ==
  ASSUME IInv, SuccessorsFirst, ast' = ast, NEW new, NEW x, Grown(new), Adds(new, x),
         \A n \in Node : x \in Range(Successors(n)) =>
           \A j \in 1..Len(new[n]) : new[n][j] = <<"element", x>> =>
             \A t \in Range(ast.inode[n]) : t # x /\ At(n, "element", t) = {}
  PROVE  SuccessorsFirst'
  <1>1. \A n : Successors(n)' = Successors(n)
    BY SameAst
  <1> SUFFICES ASSUME NEW n \in Node, NEW s \in Range(Successors(n)), NEW t \in Range(ast.inode[n]),
                      NEW i \in 1..Len(kids'[n]), NEW j \in 1..Len(kids'[n]),
                      kids'[n][i] = <<"element", s>>, kids'[n][j] = <<"element", t>>
               PROVE  i < j
    BY <1>1 DEF SuccessorsFirst, At
  <1>2. Joined(kids'[n], kids[n], new[n])
    BY GrownFacts
  <1>3. /\ Len(kids[n]) \in Nat /\ Len(new[n]) \in Nat
        /\ \A p \in 1..Len(kids[n]) : p \in 1..Len(kids'[n]) /\ kids'[n][p] = kids[n][p]
        /\ \A p \in 1..Len(kids'[n]) :
             \/ p \in 1..Len(kids[n])
             \/ \E q \in 1..Len(new[n]) : p = Len(kids[n]) + q /\ kids'[n][p] = new[n][q]
    BY <1>2 DEF Joined
  <1>4. \A q \in 1..Len(new[n]) : \A m : new[n][q] = <<"element", m>> => m = x
    <2> SUFFICES ASSUME NEW q \in 1..Len(new[n]), NEW m, new[n][q] = <<"element", m>>
                 PROVE  m = x
      OBVIOUS
    <2>1. PICK k \in ItemKind : new[n][q] = <<k, x>>
      BY DEF Adds
    <2>2. QED
      BY <2>1
  <1>5. CASE i \in 1..Len(kids[n]) /\ j \in 1..Len(kids[n])
    <2>1. i \in At(n, "element", s) /\ j \in At(n, "element", t)
      BY <1>3, <1>5 DEF At
    <2>2. QED
      BY <2>1 DEF SuccessorsFirst
  <1>6. CASE i \in 1..Len(kids[n]) /\ j \notin 1..Len(kids[n])
    BY <1>3, <1>6
  <1>7. CASE i \notin 1..Len(kids[n])
    <2>1. PICK q \in 1..Len(new[n]) : kids'[n][i] = new[n][q]
      BY <1>3, <1>7
    <2>2. new[n][q] = <<"element", s>>
      BY <2>1
    <2>3. s = x
      BY <1>4, <2>2
    <2>4. t # x /\ At(n, "element", t) = {}
      BY <2>2, <2>3
    <2>5. CASE j \in 1..Len(kids[n])
      BY <1>3, <2>4, <2>5 DEF At
    <2>6. CASE j \notin 1..Len(kids[n])
      <3>1. PICK p \in 1..Len(new[n]) : kids'[n][j] = new[n][p]
        BY <1>3, <2>6
      <3>2. new[n][p] = <<"element", t>>
        BY <3>1
      <3>3. QED
        BY <1>4, <2>4, <3>2
    <2>7. QED
      BY <2>5, <2>6
  <1>8. QED
    BY <1>5, <1>6, <1>7

\* What a writing step of the activation for x keeps of the document.
LEMMA DocumentGrown ==
  ASSUME IInv, Document, ast' = ast, NEW new, NEW x \in Node, Grown(new), Adds(new, x),
         Concerns(x), x \in Begun',
         \A e \in Node \cup {Doc} : \A k \in ItemKind : \A j \in 1..Len(new[e]) :
           new[e][j] = <<k, x>> => Belongs(e, k, x)',
         \A n \in Node : new[n] # <<>> => n \in Begun',
         Own(x)', \A e \in Node \cup {Doc} : x \in Inside(e) => Around(e, x)',
         \A n \in Node : x \in Range(Successors(n)) =>
           \A j \in 1..Len(new[n]) : new[n][j] = <<"element", x>> =>
             \A t \in Range(ast.inode[n]) : t # x /\ At(n, "element", t) = {}
  PROVE  Document'
  <1>1. KidsDistinct' /\ KidsBelong' /\ SuccessorsFirst'
    BY DistinctGrown, BelongGrown, OrderGrown DEF Document
  <1>2. KidsNone'
    <2> SUFFICES ASSUME NEW n \in Node, n \notin Begun'
                 PROVE  kids'[n] = <<>>
      BY DEF KidsNone
    <2>1. n \notin Begun /\ new[n] = <<>>
      BY DEF Concerns
    <2>2. kids'[n] = kids[n]
      BY <2>1, GrownFacts DEF Joined
    <2>3. QED
      BY <2>1, <2>2 DEF Document, KidsNone
  <1>3. ItemsKept'
    <2>1. \A e : Inside(e)' = Inside(e)
      BY SameAst
    <2> SUFFICES ASSUME NEW n \in Begun'
                 PROVE  Own(n)' /\ \A e \in Node \cup {Doc} : n \in Inside(e) => Around(e, n)'
      BY <2>1 DEF ItemsKept
    <2>2. CASE n = x
      BY <2>2
    <2>3. CASE n # x
      <3>1. n \in Begun /\ n \in Node
        <4>1. n \in Begun
          BY <2>3 DEF Concerns
        <4>2. QED
          BY <4>1, ReachedFacts DEF Begun, Visited, IInv
      <3>2. Own(n) /\ \A e \in Node \cup {Doc} : n \in Inside(e) => Around(e, n)
        BY <3>1 DEF Document, ItemsKept
      <3>3. QED
        BY <2>3, <3>1, <3>2, KeptGrown
    <2>4. QED
      BY <2>2, <2>3
  <1>4. QED
    BY <1>1, <1>2, <1>3 DEF Document

\* Two elements get items.
Appended(d, w, f, v) ==
  /\ kids' \in [Node \cup {Doc} -> Seq(Item)]
  /\ kids'[d] = kids[d] \o w /\ kids'[f] = kids[f] \o v
  /\ \A e \in Node \cup {Doc} : e # d /\ e # f => kids'[e] = kids[e]

\* The items of two elements are the only new ones.
NewItems(new, d, w, f, v) ==
  /\ Grown(new) /\ new[d] = w /\ new[f] = v
  /\ \A e \in Node \cup {Doc} : e # d /\ e # f => new[e] = <<>>

\* Such a step adds at the end, and only there.
LEMMA GrownTwo ==
  ASSUME IInv, NEW d \in Node \cup {Doc}, NEW f \in Node \cup {Doc}, d # f,
         NEW w \in Seq(Item), NEW v \in Seq(Item),
         Appended(d, w, f, v)
  PROVE  \E new : NewItems(new, d, w, f, v)
  <1> DEFINE new == [e \in Node \cup {Doc} |-> IF e = d THEN w ELSE IF e = f THEN v ELSE <<>>]
  <1>1. kids \in [Node \cup {Doc} -> Seq(Item)]
    BY DEF IInv, TypeOK
  <1>2. <<>> \in Seq(Item)
    BY EmptySeq
  <1>3. /\ new \in [Node \cup {Doc} -> Seq(Item)] /\ new[d] = w /\ new[f] = v
        /\ \A e \in Node \cup {Doc} : e # d /\ e # f => new[e] = <<>>
    BY <1>2
  <1> HIDE DEF new
  <1>4. \A e \in Node \cup {Doc} : kids[e] \o <<>> = kids[e]
    BY <1>1, ConcatEmptySeq
  <1>5. \A e \in Node \cup {Doc} : kids'[e] = kids[e] \o new[e]
    BY <1>3, <1>4 DEF Appended
  <1>6. kids' = [e \in Node \cup {Doc} |-> kids[e] \o new[e]]
    BY <1>5 DEF Appended
  <1>7. Grown(new)
    BY <1>3, <1>6 DEF Grown
  <1>8. QED
    BY <1>3, <1>7 DEF NewItems

\* An item, with another one in front of it or not.
PairEnd(w, b, p, q) ==
  /\ w # <<>> /\ Len(w) \in Nat \ {0} /\ w[Len(w)] = q
  /\ \A i \in 1..Len(w) : w[i] = q \/ (b # <<>> /\ w[i] = p)
  /\ \A i, j \in 1..Len(w) : w[i] = w[j] => i = j
  /\ b # <<>> => Len(w) > 1 /\ w[Len(w) - 1] = p

\* What writeFortranPragma and the element, or the end tag, add.
LEMMA MaybePair ==
  ASSUME NEW S, NEW p \in S, NEW q \in S, p # q, NEW b, b = <<>> \/ b = <<p>>
  PROVE  b \o <<q>> \in Seq(S) /\ PairEnd(b \o <<q>>, b, p, q)
  <1>1. CASE b = <<>>
    <2>1. b \o <<q>> = <<q>> /\ <<q>> \in Seq(S)
      BY <1>1, ConcatEmptySeq
    <2>2. PairEnd(<<q>>, b, p, q)
      BY <1>1 DEF PairEnd
    <2>3. QED
      BY <2>1, <2>2
  <1>2. CASE b = <<p>>
    <2> DEFINE u == b \o <<q>>
    <2>1. <<p>> \in Seq(S) /\ Len(<<p>>) = 1 /\ <<p>>[1] = p /\ <<p>> # <<>>
      OBVIOUS
    <2>2. Append(<<p>>, q) = <<p>> \o <<q>>
      BY <2>1, AppendIsConcat
    <2>3. u \in Seq(S) /\ u # <<>> /\ Len(u) = 2 /\ u[1] = p /\ u[2] = q
      BY <1>2, <2>1, <2>2, AppendProperties
    <2>4. \A i \in 1..2 : i = 1 \/ i = 2
      OBVIOUS
    <2> HIDE DEF u
    <2>5. b # <<>>
      BY <1>2, <2>1
    <2>6. PairEnd(u, b, p, q)
      BY <2>3, <2>4, <2>5 DEF PairEnd
    <2>7. QED
      BY <2>3, <2>6 DEF u
  <1>3. QED
    BY <1>1, <1>2

\* The end of a sequence is that of what was added to it.
LEMMA JoinedEnd ==
  ASSUME NEW u, NEW s, NEW t, Joined(u, s, t), Len(t) \in Nat \ {0}
  PROVE  /\ u # <<>> /\ Len(u) \in 1..Len(u) /\ u[Len(u)] = t[Len(t)]
         /\ Len(t) > 1 => Len(u) > 1 /\ u[Len(u) - 1] = t[Len(t) - 1]
  <1> DEFINE a == Len(s)
             b == Len(t)
             c == Len(u)
  <1>1. /\ a \in Nat /\ b \in Nat \ {0} /\ c = a + b
        /\ \A j \in 1..b : u[a + j] = t[j]
    BY DEF Joined
  <1>2. u = <<>> => c = 0
    BY EmptySeq
  <1> SUFFICES /\ u # <<>> /\ c \in 1..c /\ u[c] = t[b]
               /\ b > 1 => c > 1 /\ u[c - 1] = t[b - 1]
    OBVIOUS
  <1> HIDE DEF a, b, c
  <1>3. c \in Nat \ {0} /\ b \in 1..b /\ (b > 1 => b - 1 \in 1..b /\ c > 1 /\ a + (b - 1) = c - 1)
    BY <1>1
  <1>4. QED
    BY <1>1, <1>2, <1>3

\* What is added to nothing begins it.
LEMMA JoinedStart ==
  ASSUME NEW u, NEW t, Joined(u, <<>>, t), 1 \in 1..Len(t)
  PROVE  u # <<>> /\ u[1] = t[1]
  <1> DEFINE o == <<>>
  <1>1. Len(o) = 0
    BY EmptySeq
  <1>2. Joined(u, o, t)
    OBVIOUS
  <1> HIDE DEF o
  <1>3. /\ Len(t) \in Nat /\ Len(u) = Len(o) + Len(t)
        /\ \A j \in 1..Len(t) : u[Len(o) + j] = t[j]
    BY <1>2 DEF Joined
  <1>4. Len(t) \in Nat /\ Len(u) = Len(t) /\ u[0 + 1] = t[1]
    BY <1>1, <1>3
  <1>5. Len(u) # 0
    BY <1>4
  <1>6. u # <<>>
    BY <1>1, <1>5 DEF o
  <1>7. QED
    BY <1>4, <1>6

\* An open element is that of a node that has begun.
LEMMA OpenBegun ==
  ASSUME IInv, CallPath, OpenOwned, frames # <<>>
  PROVE  \A h \in 1..Len(open) : open[h] \in Begun
  <1> SUFFICES ASSUME NEW h \in 1..Len(open)
               PROVE  open[h] \in Begun
    OBVIOUS
  <1>1. PICK i \in 1..Len(frames) : Opened(frames[i]) /\ frames[i].node = open[h]
    BY DEF OpenOwned
  <1>2. frames[i].pc # "enter" /\ frames[i].pc # "skip"
    BY <1>1 DEF Opened
  <1>3. /\ frames[i].node \in Visited /\ frames[i].node \notin ast.foreign
        /\ ~Skipped(frames[i].node)
    BY <1>2 DEF CallPath, StackVisited, StackPhase
  <1>4. Top = frames[Len(frames)] /\ Len(frames) \in 1..Len(frames)
    BY TopFacts DEF IInv, Top
  <1>5. ~Entering(frames[i].node)
    BY <1>2, <1>4 DEF CallPath, StackDistinct, Entering
  <1>6. QED
    BY <1>1, <1>3, <1>5 DEF Begun

\* The items of the activations below the innermost one are in other elements
\* than those it writes into.
LEMMA LowerElements ==
  ASSUME IInv, CallPath, OpenOwned, frames # <<>>
  PROVE  \A i \in 1..(Len(frames) - 1) : Opened(frames[i]) =>
           /\ ElementAt(frames[i].base) \in Node \cup {Doc}
           /\ \A h \in Top.base..Len(open) : ElementAt(frames[i].base) # ElementAt(h)
           /\ ~Opened(Top) => ElementAt(frames[i].base) # Top.node
  <1> SUFFICES ASSUME NEW i \in 1..(Len(frames) - 1), Opened(frames[i])
               PROVE  /\ ElementAt(frames[i].base) \in Node \cup {Doc}
                      /\ \A h \in Top.base..Len(open) : ElementAt(frames[i].base) # ElementAt(h)
                      /\ ~Opened(Top) => ElementAt(frames[i].base) # Top.node
    OBVIOUS
  <1>1. /\ Top.base \in Nat /\ Len(open) \in Nat /\ Top.base <= Len(open)
        /\ Height(frames[i]) <= Top.base
    BY BaseFacts
  <1>2. Len(frames) \in Nat
    BY TopFacts DEF IInv
  <1>3. i \in 1..Len(frames)
    BY <1>2
  <1>4. frames[i].base \in Nat /\ Height(frames[i]) = frames[i].base + 1
    BY <1>3, FrameFacts DEF IInv, Height
  <1>5. frames[i].base \in 0..Len(open) /\ frames[i].base < Top.base
    BY <1>1, <1>4
  <1>6. \A h \in Top.base..Len(open) : h \in 0..Len(open) /\ h # frames[i].base
    BY <1>1, <1>5
  <1>7. /\ \A h \in 0..Len(open) : ElementAt(h) \in Node \cup {Doc}
        /\ \A g, h \in 0..Len(open) : ElementAt(g) = ElementAt(h) => g = h
        /\ ~Opened(Top) => \A h \in 0..Len(open) : ElementAt(h) # Top.node
    BY OpenDistinct
  <1>8. QED
    BY <1>5, <1>6, <1>7

\* A successor is written before any inode node of the same caller.
LEMMA SuccessorOrder ==
  ASSUME IInv, CallPath, Document, frames # <<>>, Top.pc = "enter",
         NEW n \in Node, Top.node \in Range(Successors(n)), NEW t \in Range(ast.inode[n])
  PROVE  t # Top.node /\ At(n, "element", t) = {}
  <1> DEFINE x == Top.node
             N == Len(frames)
             c == frames[N - 1]
  <1>1. /\ N \in Nat \ {0} /\ x \in Node /\ Top = frames[N] /\ ast \in Asts /\ N \in 1..N
    BY TopFacts DEF IInv, Top
  <1>2. x # NULL
    BY <1>1, NodeAssumption
  <1>3. /\ \A m, k \in Node : \A y \in Range(Successors(m)) \ {NULL} : y \notin Range(ast.inode[k])
        /\ \A m \in Node : ast.root \notin Callees(m)
        /\ \A m, k \in Node : \A y \in Callees(m) : y \in Callees(k) => m = k
    BY <1>1, OneCaller
  <1>4. t # x
    BY <1>1, <1>2, <1>3
  <1>5. kids[n] \in Seq(Item) /\ ast.inode[n] \in Seq(Node \cup {NULL})
    BY <1>1, AstFacts DEF IInv, TypeOK
  <1>6. ASSUME t \notin Begun PROVE At(n, "element", t) = {}
    <2> SUFFICES ASSUME NEW i \in 1..Len(kids[n]), kids[n][i] = <<"element", t>>
                 PROVE  FALSE
      BY DEF At
    <2>1. <<"element", t>> \in Item
      BY <1>5, ElementOfSeq
    <2>2. t \in Node /\ "element" \in ItemKind
      BY <2>1 DEF Item
    <2>3. Belongs(n, "element", t)
      BY <2>2 DEF Document, KidsBelong
    <2>4. QED
      BY <1>6, <2>3 DEF Belongs
  <1>7. CASE n \notin Begun
    <2>1. kids[n] = <<>>
      BY <1>7 DEF Document, KidsNone
    <2>2. Len(kids[n]) = 0
      BY <2>1, EmptySeq
    <2>3. QED
      BY <1>4, <2>2 DEF At
  <1>8. CASE n \in Begun
    <2>1. n \notin ast.foreign /\ ~Skipped(n)
      BY <1>8 DEF Begun
    <2>2. x \in Callees(n)
      BY <1>2, <2>1 DEF Callees
    <2>3. N # 1
      <3>1. frames[1].node = ast.root
        BY DEF IInv, OneRoot
      <3>2. QED
        BY <1>1, <1>3, <2>2, <3>1
    <2>4. N - 1 \in 1..(N - 1) /\ N - 1 \in 1..N /\ N - 1 # N /\ (N - 1) + 1 = N
      <3>1. \A k \in Nat \ {0} : k # 1 =>
              k - 1 \in 1..(k - 1) /\ k - 1 \in 1..k /\ k - 1 # k /\ (k - 1) + 1 = k
        OBVIOUS
      <3>2. QED
        BY <1>1, <2>3, <3>1
    <2>5. x \in Range(List(c)) /\ c.node \in Node
      BY <1>1, <2>4, ListFacts DEF CallPath, StackCalled
    <2>6. c.pc # "enter"
      BY <2>4 DEF IInv, Nesting, OnlyTopEnters
    <2>7. c.pc # "inode"
      BY <1>2, <1>3, <2>5 DEF List
    <2>8. c.pc \in {"succ", "skip"}
      BY <2>4, <2>6, <2>7, ListFacts DEF Phase
    <2>9. x \in Range(Successors(c.node))
      BY <2>5, <2>7 DEF List
    <2>10. c.node \notin ast.foreign /\ (c.pc = "skip" <=> Skipped(c.node))
      BY <2>4, <2>6 DEF CallPath, StackPhase
    <2>11. x \in Callees(c.node)
      BY <1>2, <2>9, <2>10 DEF Callees
    <2>12. c.node = n
      BY <1>3, <2>2, <2>5, <2>11
    <2>13. c.pc = "succ"
      BY <2>1, <2>8, <2>10, <2>12
    <2>14. t = NULL \/ t \in Coming(c)
      BY <2>12, <2>13 DEF Coming
    <2>15. Coming(c) \subseteq ToCome /\ \A m \in Visited : m \notin ToCome
      BY <2>4, ToComeFacts DEF CallPath
    <2>16. Visited \in SUBSET Node
      BY ToComeFacts DEF CallPath
    <2>17. t \notin Begun
      BY <2>14, <2>15, <2>16, NodeAssumption DEF Begun
    <2>18. QED
      BY <1>4, <1>6, <2>17
  <1>9. QED
    BY <1>7, <1>8

\* What a node has written before its inodeSgXxx function runs.
LEMMA StartItems ==
  ASSUME NEW x \in Node
  PROVE  LET w == BeforeElement(x) \o << <<"element", x>> >>
             v == FirstInside(x)
         IN /\ w \in Seq(Item) /\ w # <<>> /\ Len(w) \in Nat \ {0}
            /\ w[Len(w)] = <<"element", x>>
            /\ \A i \in 1..Len(w) :
                 w[i] = <<"element", x>> \/ (x # ast.global /\ w[i] = <<"before", x>>)
            /\ \A i, j \in 1..Len(w) : w[i] = w[j] => i = j
            /\ "before" \in ast.pragma[x] /\ x # ast.global =>
                 Len(w) > 1 /\ w[Len(w) - 1] = <<"before", x>>
            /\ v \in Seq(Item)
            /\ \A i \in 1..Len(v) : i = 1 /\ x = ast.global /\ v[i] = <<"before", x>>
            /\ "before" \in ast.pragma[x] /\ x = ast.global =>
                 1 \in 1..Len(v) /\ v[1] = <<"before", x>>
  <1> DEFINE b == BeforeElement(x)
             w == b \o << <<"element", x>> >>
             v == FirstInside(x)
             p == <<"before", x>>
             q == <<"element", x>>
  <1>1. p \in Item /\ q \in Item /\ p # q
    BY DEF Item, ItemKind, Position
  <1>2. b = <<>> \/ b = <<p>>
    BY DEF BeforeElement, FortranPragma
  <1>3. b # <<>> => x # ast.global
    BY DEF BeforeElement
  <1>4. "before" \in ast.pragma[x] /\ x # ast.global => b = <<p>>
    BY DEF BeforeElement, FortranPragma
  <1>5. <<p>> # <<>> /\ Len(<<p>>) = 1 /\ <<p>>[1] = p /\ Len(<<>>) = 0 /\ <<p>> \in Seq(Item)
    BY <1>1
  <1>6. v = <<>> \/ (v = <<p>> /\ x = ast.global)
    BY DEF FirstInside, FortranPragma
  <1>7. "before" \in ast.pragma[x] /\ x = ast.global => v = <<p>>
    BY DEF FirstInside, FortranPragma
  <1>8. v \in Seq(Item)
    BY <1>5, <1>6, EmptySeq
  <1>9. \A i \in 1..Len(v) : i = 1 /\ x = ast.global /\ v[i] = p
    BY <1>5, <1>6
  <1>10. "before" \in ast.pragma[x] /\ x = ast.global => 1 \in 1..Len(v) /\ v[1] = p
    BY <1>5, <1>7
  <1> HIDE DEF v, p, q, b
  <1> HIDE DEF w
  <1>11. w \in Seq(Item) /\ PairEnd(w, b, p, q)
    <2>1. w = b \o <<q>>
      BY DEF w, q
    <2>2. b \o <<q>> \in Seq(Item) /\ PairEnd(b \o <<q>>, b, p, q)
      BY <1>1, <1>2, MaybePair
    <2>3. QED
      BY <2>1, <2>2
  <1>12. \A i \in 1..Len(w) : w[i] = q \/ (x # ast.global /\ w[i] = p)
    BY <1>3, <1>11 DEF PairEnd
  <1>13. "before" \in ast.pragma[x] /\ x # ast.global => Len(w) > 1 /\ w[Len(w) - 1] = p
    BY <1>4, <1>5, <1>11 DEF PairEnd
  <1>14. QED
    BY <1>8, <1>9, <1>10, <1>11, <1>12, <1>13, Zenon DEF w, v, b, p, q, PairEnd

\* Both forms of the element of a node: the document stays right.
LEMMA ElementWritten ==
  ASSUME DInv, Written, ast' = ast, NEW x, x = Top.node, NEW P, P = Innermost,
         Concerns(x), x \in Begun', Finished(x)' => ast.pragma[x] = {} /\ x \notin ast.info,
         Appended(P, BeforeElement(x) \o << <<"element", x>> >>, x, FirstInside(x))
  PROVE  /\ Document'
         /\ P \in Node \cup {Doc} /\ P # x
         /\ kids'[P] # <<>> /\ kids'[P][Len(kids'[P])] = <<"element", x>>
         /\ \A e \in Node \cup {Doc} : e # P /\ e # x => kids'[e] = kids[e]
  <1> USE DEF DInv, CallStack
  <1>1. frames # <<>> /\ Top.pc = "enter" /\ ~Opened(Top) /\ ast \in Asts
    BY DEF Written, Opened, IInv
  <1> DEFINE w == BeforeElement(x) \o << <<"element", x>> >>
             v == FirstInside(x)
  <1>2. /\ P \in Node \cup {Doc} /\ x \in Node /\ x \in Node \cup {Doc}
        /\ P = ElementAt(Len(open)) /\ P = ElementAt(Top.base)
        /\ x \in Inside(P) /\ x \in Visited
    BY <1>1, InnermostFacts, TopFacts DEF IInv
  <1>3. Len(open) \in Nat /\ Len(open) \in 0..Len(open)
    BY <1>1, BaseFacts
  <1>4. P # x /\ (~Finished(P) \/ P = Doc)
    BY <1>1, <1>2, <1>3, OpenDistinct
  <1>5. P \in Node => P \in Begun
    <2> SUFFICES ASSUME P \in Node PROVE P \in Begun
      OBVIOUS
    <2>1. Len(open) # 0
      BY <1>2, NodeAssumption DEF ElementAt
    <2>2. P = open[Len(open)] /\ Len(open) \in 1..Len(open)
      BY <1>2, <1>3, <2>1 DEF ElementAt
    <2>3. QED
      BY <1>1, <2>2, OpenBegun
  <1>6. /\ w \in Seq(Item) /\ w # <<>> /\ Len(w) \in Nat \ {0}
        /\ w[Len(w)] = <<"element", x>>
        /\ \A i \in 1..Len(w) :
             w[i] = <<"element", x>> \/ (x # ast.global /\ w[i] = <<"before", x>>)
        /\ \A i, j \in 1..Len(w) : w[i] = w[j] => i = j
        /\ "before" \in ast.pragma[x] /\ x # ast.global =>
             Len(w) > 1 /\ w[Len(w) - 1] = <<"before", x>>
        /\ v \in Seq(Item)
        /\ \A i \in 1..Len(v) : i = 1 /\ x = ast.global /\ v[i] = <<"before", x>>
        /\ "before" \in ast.pragma[x] /\ x = ast.global =>
             1 \in 1..Len(v) /\ v[1] = <<"before", x>>
    BY <1>2, StartItems
  <1>7. Appended(P, w, x, v)
    OBVIOUS
  <1> HIDE DEF w, v
  <1>8. PICK new : NewItems(new, P, w, x, v)
    <2>1. w \in Seq(Item) /\ v \in Seq(Item) /\ P # x
      BY <1>4, <1>6
    <2>2. P \in Node \cup {Doc} /\ x \in Node \cup {Doc} /\ IInv
      BY <1>2
    <2>3. QED
      BY <1>7, <2>1, <2>2, GrownTwo
  <1>9. /\ Grown(new) /\ new[P] = w /\ new[x] = v
        /\ \A e \in Node \cup {Doc} : e # P /\ e # x => new[e] = <<>>
    BY <1>8 DEF NewItems
  <1>10. \A e \in Node \cup {Doc} : Joined(kids'[e], kids[e], new[e])
    BY <1>9, GrownFacts
  <1>11. x \notin Begun /\ x \in Begun'
    BY <1>1 DEF Begun, Entering
  <1>12. kids[x] = <<>>
    BY <1>2, <1>11 DEF Document, KidsNone
  <1>13. Len(<<>>) = 0
    BY EmptySeq
  <1>14. \A e \in Node \cup {Doc} : e = P \/ e = x \/ new[e] = <<>>
    BY <1>9
  <1>15. \A e \in Node \cup {Doc} : \A i \in 1..Len(new[e]) :
           \/ e = P /\ new[e][i] = <<"element", x>>
           \/ e = P /\ x # ast.global /\ new[e][i] = <<"before", x>>
           \/ e = x /\ x = ast.global /\ new[e][i] = <<"before", x>>
    BY <1>6, <1>9, <1>13, <1>14
  <1>16. Adds(new, x)
    <2>1. ASSUME NEW e \in Node \cup {Doc}, NEW i \in 1..Len(new[e]), NEW j \in 1..Len(new[e]),
                 new[e][i] = new[e][j]
          PROVE  i = j
      <3>1. CASE e = P
        BY <1>6, <1>9, <2>1, <3>1
      <3>2. CASE e = x
        BY <1>6, <1>9, <3>2
      <3>3. CASE new[e] = <<>>
        BY <1>13, <3>3
      <3>4. QED
        BY <1>14, <3>1, <3>2, <3>3
    <2>2. "element" \in ItemKind /\ "before" \in ItemKind
      BY DEF ItemKind, Position
    <2>3. \A e \in Node \cup {Doc} : \A i \in 1..Len(new[e]) :
            \E k \in ItemKind : new[e][i] = <<k, x>>
      BY <1>15, <2>2
    <2>4. \A e \in Node \cup {Doc} : \A i \in 1..Len(kids[e]) : \A k \in ItemKind :
            kids[e][i] # <<k, x>>
      BY <1>2, <1>11 DEF Document, KidsBelong, Belongs
    <2>5. \A e \in Node \cup {Doc} : \A i \in 1..Len(kids[e]), j \in 1..Len(new[e]) :
            kids[e][i] # new[e][j]
      BY <2>3, <2>4
    <2>6. \A n \in Node : new[n] # <<>> => n \notin Begun \/ ~Finished(n)
      BY <1>4, <1>11, <1>14, NodeAssumption
    <2>7. QED
      BY <2>1, <2>3, <2>5, <2>6 DEF Adds
  <1>17. \A e \in Node \cup {Doc} : \A k \in ItemKind : \A j \in 1..Len(new[e]) :
           new[e][j] = <<k, x>> => Belongs(e, k, x)'
    <2> SUFFICES ASSUME NEW e \in Node \cup {Doc}, NEW k \in ItemKind, NEW j \in 1..Len(new[e]),
                        new[e][j] = <<k, x>>
                 PROVE  Belongs(e, k, x)'
      OBVIOUS
    <2>1. \/ e = P /\ k = "element"
          \/ e = P /\ x # ast.global /\ k = "before"
          \/ e = x /\ x = ast.global /\ k = "before"
      BY <1>15
    <2>2. Inside(P)' = Inside(P)
      BY SameAst
    <2>3. QED
      BY <1>2, <1>11, <2>1, <2>2 DEF Belongs
  <1>18. \A n \in Node : new[n] # <<>> => n \in Begun'
    BY <1>5, <1>11, <1>14 DEF Concerns
  <1>19. Own(x)'
    <2>1. ~("inside" \in ast.pragma[x] /\ Finished(x)') /\ ~(x \in ast.info /\ Finished(x)')
      OBVIOUS
    <2>2. ASSUME "before" \in ast.pragma[x], x = ast.global
          PROVE  kids'[x] # <<>> /\ kids'[x][1] = <<"before", x>>
      <3>1. Joined(kids'[x], <<>>, v)
        BY <1>2, <1>9, <1>10, <1>12
      <3>2. 1 \in 1..Len(v) /\ v[1] = <<"before", x>>
        BY <1>6, <2>2
      <3>3. QED
        BY <3>1, <3>2, JoinedStart
    <2>3. QED
      BY <2>1, <2>2 DEF Own
  <1>20. /\ kids'[P] # <<>>
         /\ kids'[P][Len(kids'[P])] = <<"element", x>>
         /\ Len(kids'[P]) \in 1..Len(kids'[P])
         /\ "before" \in ast.pragma[x] /\ x # ast.global =>
              Len(kids'[P]) > 1 /\ kids'[P][Len(kids'[P]) - 1] = <<"before", x>>
    <2>1. Joined(kids'[P], kids[P], w)
      BY <1>2, <1>9, <1>10
    <2>2. Len(w) \in Nat \ {0} /\ w[Len(w)] = <<"element", x>>
      BY <1>6
    <2>3. /\ kids'[P] # <<>> /\ kids'[P][Len(kids'[P])] = w[Len(w)]
          /\ Len(kids'[P]) \in 1..Len(kids'[P])
          /\ Len(w) > 1 => Len(kids'[P]) > 1 /\ kids'[P][Len(kids'[P]) - 1] = w[Len(w) - 1]
      BY <2>1, <2>2, JoinedEnd
    <2>4. "before" \in ast.pragma[x] /\ x # ast.global =>
            Len(w) > 1 /\ w[Len(w) - 1] = <<"before", x>>
      BY <1>6
    <2>5. QED
      BY <2>2, <2>3, <2>4
  <1>21. \A e \in Node \cup {Doc} : x \in Inside(e) => Around(e, x)'
    <2> SUFFICES ASSUME NEW e \in Node \cup {Doc}, x \in Inside(e)
                 PROVE  Around(e, x)'
      OBVIOUS
    <2>1. e = P
      BY <1>1, <1>2, OneHome
    <2>2. ~("after" \in ast.pragma[x] /\ Finished(x)')
      OBVIOUS
    <2>3. QED
      BY <1>20, <2>1, <2>2 DEF Around
  <1>22. \A n \in Node : x \in Range(Successors(n)) =>
           \A j \in 1..Len(new[n]) : new[n][j] = <<"element", x>> =>
             \A t \in Range(ast.inode[n]) : t # x /\ At(n, "element", t) = {}
    BY <1>1, SuccessorOrder
  <1>23. Document'
    BY <1>2, <1>9, <1>11, <1>16, <1>17, <1>18, <1>19, <1>21, <1>22, DocumentGrown
  <1>24. \A e \in Node \cup {Doc} : e # P /\ e # x => kids'[e] = kids[e]
    BY <1>9, <1>10 DEF Joined
  <1>25. QED
    BY <1>2, <1>4, <1>20, <1>23, <1>24

\* Who is left on the stack after a return.
LEMMA ReturnOnStack ==
  ASSUME IInv, CallPath, frames # <<>>, Return, NEW x, x = Top.node
  PROVE  /\ \A n : (\A i \in 1..Len(frames') : frames'[i].node # n) <=>
                   (n = x \/ \A i \in 1..Len(frames) : frames[i].node # n)
         /\ ~Finished(x)
  <1>1. /\ Len(frames') = Len(frames) - 1 /\ Top = frames[Len(frames)]
        /\ Len(frames) \in 1..Len(frames)
        /\ \A i \in 1..(Len(frames) - 1) : frames'[i] = frames[i]
        /\ \A i \in 1..Len(frames) : i = Len(frames) \/ i \in 1..(Len(frames) - 1)
        /\ \A i \in 1..(Len(frames) - 1) : i \in 1..Len(frames) /\ i # Len(frames)
    BY ReturnFacts
  <1>2. \A i \in 1..(Len(frames) - 1) : frames[i].node # x
    BY <1>1 DEF CallPath, StackDistinct
  <1>3. \A n : (\A i \in 1..Len(frames') : frames'[i].node # n) <=>
               (\A i \in 1..(Len(frames) - 1) : frames[i].node # n)
    BY <1>1
  <1>4. \A n : (\A i \in 1..(Len(frames) - 1) : frames[i].node # n) <=>
               (n = x \/ \A i \in 1..Len(frames) : frames[i].node # n)
    BY <1>1, <1>2
  <1>5. ~Finished(x)
    BY <1>1 DEF Finished
  <1>6. QED
    BY <1>3, <1>4, <1>5

\* An element without end tag.
LEMMA WriteEmptyElementDoc ==
  ASSUME DInv, WriteEmptyElement
  PROVE  CallStack' /\ Document'
  <1>1. PICK x : x = Top.node
    OBVIOUS
  <1>2. PICK P : P = Innermost
    OBVIOUS
  <1>3. /\ IInv /\ CallPath /\ OpenOwned /\ OpenLast /\ Document
    BY DEF DInv, CallStack
  <1>4. /\ frames # <<>> /\ Top.pc = "enter" /\ ~Opened(Top) /\ x \notin ast.foreign
        /\ ~Skipped(x) /\ ~HasInode(x) /\ Return /\ Written
        /\ ast' = ast /\ open' = open /\ ast \in Asts
        /\ kids' = [kids EXCEPT ![P] = @ \o BeforeElement(x) \o << <<"element", x>> >>]
    BY <1>1, <1>2, <1>3 DEF WriteEmptyElement, Written, Opened, IInv
  <1>5. /\ x \in Node /\ P \in Node \cup {Doc} /\ P = ElementAt(Top.base) /\ x \in Visited
        /\ Len(open) = Top.base
    BY <1>1, <1>2, <1>3, <1>4, TopFacts, InnermostFacts DEF IInv
  <1>6. Callees(x) = {} /\ x \notin ast.info /\ ast.pragma[x] = {}
    BY <1>4, <1>5, EmptyHasNoCallees
  <1>7. Coming(Top) = {}
    BY <1>1, <1>4, <1>6 DEF Coming
  <1>8. Visited' = Visited
    BY <1>3, <1>4, <1>7, ReturnVisited
  <1>9. \A h : ElementAt(h)' = ElementAt(h)
    BY <1>4, SameOpen
  <1>10. CallPath'
    BY <1>3, <1>4, <1>7, <1>9, PathReturn
  <1>11. /\ \A n : ~Entering(n)' /\ (Skipped(n)' <=> Skipped(n))
         /\ \A n : Entering(n) <=> n = x
    BY <1>1, <1>3, <1>4, NobodyEnters, SameAst DEF Entering
  <1>12. Begun' = Begun \cup {x}
    BY <1>4, <1>5, <1>8, <1>11 DEF Begun
  <1>13. /\ \A n : (\A i \in 1..Len(frames') : frames'[i].node # n) <=>
                   (n = x \/ \A i \in 1..Len(frames) : frames[i].node # n)
         /\ ~Finished(x)
    BY <1>1, <1>3, <1>4, ReturnOnStack
  <1>14. \A n : n # x => (Finished(n)' <=> Finished(n))
    BY <1>12, <1>13 DEF Finished
  <1>15. Concerns(x) /\ x \in Begun'
    BY <1>12, <1>13, <1>14 DEF Concerns
  <1>16. P # x
    BY <1>1, <1>3, <1>4, <1>5, BaseFacts, OpenDistinct
  <1>17. Appended(P, BeforeElement(x) \o << <<"element", x>> >>, x, FirstInside(x))
    <2>1. /\ kids \in [Node \cup {Doc} -> Seq(Item)] /\ kids' \in [Node \cup {Doc} -> Seq(Item)]
      BY <1>3, WriteEmptyElementInv DEF IInv, TypeOK
    <2>2. BeforeElement(x) \in Seq(Item) /\ << <<"element", x>> >> \in Seq(Item)
      BY <1>5, ItemFacts
    <2>3. FirstInside(x) = <<>>
      BY <1>6 DEF FirstInside, FortranPragma
    <2>4. kids[P] \in Seq(Item) /\ kids[x] \in Seq(Item)
      BY <1>5, <2>1
    <2>5. kids'[P] = (kids[P] \o BeforeElement(x)) \o << <<"element", x>> >>
      BY <1>4, <1>5, <2>1
    <2>6. kids'[P] = kids[P] \o (BeforeElement(x) \o << <<"element", x>> >>)
      <3>1. \A r, s, u \in Seq(Item) : (r \o s) \o u = r \o (s \o u)
        BY ConcatAssociative
      <3>2. QED
        BY <2>2, <2>4, <2>5, <3>1
    <2>7. kids'[x] = kids[x]
      BY <1>4, <1>5, <1>16, <2>1
    <2>8. kids'[x] = kids[x] \o FirstInside(x)
      BY <2>3, <2>4, <2>7, ConcatEmptySeq
    <2>9. \A e \in Node \cup {Doc} : e # P /\ e # x => kids'[e] = kids[e]
      BY <1>4, <2>1
    <2>10. QED
      BY <2>1, <2>6, <2>8, <2>9 DEF Appended
  <1>18. /\ Document'
         /\ \A e \in Node \cup {Doc} : e # P /\ e # x => kids'[e] = kids[e]
    BY <1>1, <1>2, <1>4, <1>6, <1>15, <1>17, ElementWritten
  <1>19. OpenOwned'
    BY <1>3, <1>4, OwnedReturn
  <1>20. \A i \in 1..(Len(frames) - 1) : Opened(frames[i]) =>
           kids'[ElementAt(frames[i].base)] = kids[ElementAt(frames[i].base)]
    <2>1. Top.base \in Top.base..Len(open)
      BY <1>3, <1>4, <1>5, BaseFacts
    <2>2. QED
      BY <1>1, <1>3, <1>4, <1>5, <1>18, <2>1, LowerElements
  <1>21. OpenLast'
    BY <1>3, <1>4, <1>9, <1>20, LastReturn
  <1>22. QED
    BY <1>10, <1>18, <1>19, <1>21 DEF CallStack

\* A start tag.
LEMMA WriteStartTagDoc ==
  ASSUME DInv, WriteStartTag
  PROVE  CallStack' /\ Document'
  <1>1. PICK x : x = Top.node
    OBVIOUS
  <1>2. PICK P : P = Innermost
    OBVIOUS
  <1>3. /\ IInv /\ CallPath /\ OpenOwned /\ OpenLast /\ Document
    BY DEF DInv, CallStack
  <1>4. /\ frames # <<>> /\ Top.pc = "enter" /\ ~Opened(Top) /\ x \notin ast.foreign
        /\ ~Skipped(x) /\ Goto("succ", Successors(x)) /\ Written
        /\ ast' = ast /\ open' = Append(open, x) /\ ast \in Asts
        /\ kids' = [kids EXCEPT ![P] = @ \o BeforeElement(x) \o << <<"element", x>> >>,
                                ![x] = @ \o FirstInside(x)]
    BY <1>1, <1>2, <1>3 DEF WriteStartTag, Written, Opened, IInv
  <1>5. /\ x \in Node /\ P \in Node \cup {Doc} /\ P = ElementAt(Top.base) /\ x \in Visited
        /\ Len(open) = Top.base
    BY <1>1, <1>2, <1>3, <1>4, TopFacts, InnermostFacts DEF IInv
  <1>6. Len(open) \in Nat /\ open \in Seq(Node)
    BY <1>3, <1>4, BaseFacts DEF IInv, TypeOK
  <1>7. /\ Len(open') = Len(open) + 1 /\ open'[Len(open) + 1] = x
        /\ \A h \in 1..Len(open) : open'[h] = open[h]
    BY <1>4, <1>5, <1>6, AppendProperties
  <1>8. \A h \in 0..Top.base : ElementAt(h)' = ElementAt(h)
    <2> SUFFICES ASSUME NEW h \in 0..Top.base PROVE ElementAt(h)' = ElementAt(h)
      OBVIOUS
    <2>1. h = 0 \/ h \in 1..Len(open)
      BY <1>5, <1>6
    <2>2. QED
      BY <1>7, <2>1 DEF ElementAt
  <1>9. Successors(x) \in Seq(Node \cup {NULL}) /\ "succ" \in Phase
    BY <1>4, <1>5, AstFacts DEF Phase
  <1>10. /\ Moves /\ frames'[Len(frames)].pc = "succ" /\ frames'[Len(frames)].todo = Successors(x)
         /\ frames'[Len(frames)].node = x
         /\ Top = frames[Len(frames)] /\ Len(frames) \in 1..Len(frames)
    BY <1>1, <1>3, <1>4, <1>9, GotoMoves
  <1>11. Coming(frames'[Len(frames)]) = Coming(Top)
    BY <1>1, <1>4, <1>10 DEF Coming, Callees
  <1>12. Visited' = Visited
    BY <1>4, <1>10, <1>11, MovesVisited
  <1>13. IsRest(frames'[Len(frames)].todo, List(frames'[Len(frames)]))
    BY <1>9, <1>10, WholeList DEF List
  <1>14. CallPath'
    BY <1>1, <1>3, <1>4, <1>8, <1>10, <1>12, <1>13, PathMoves
  <1>15. /\ \A n : ~Entering(n)' /\ (Skipped(n)' <=> Skipped(n))
         /\ \A n : Entering(n) <=> n = x
    BY <1>1, <1>3, <1>4, <1>10, NobodyEnters, SameAst DEF Entering
  <1>16. Begun' = Begun \cup {x}
    BY <1>4, <1>5, <1>12, <1>15 DEF Begun
  <1>17. /\ Len(frames) \in Nat \ {0} /\ Len(frames') = Len(frames)
         /\ \A i \in 1..(Len(frames) - 1) : frames'[i] = frames[i]
         /\ frames'[Len(frames)].base = Top.base
    BY <1>10 DEF Moves
  <1>18. /\ \A i \in 1..Len(frames) : i = Len(frames) \/ i \in 1..(Len(frames) - 1)
         /\ \A i \in 1..(Len(frames) - 1) : i \in 1..Len(frames) /\ i # Len(frames)
    BY <1>17
  <1>19. \A i \in 1..Len(frames) : frames'[i].node = frames[i].node
    BY <1>1, <1>10, <1>17, <1>18
  <1>20. ~Finished(x) /\ ~Finished(x)'
    BY <1>1, <1>10, <1>17 DEF Finished
  <1>21. \A n : n # x => (Finished(n)' <=> Finished(n))
    BY <1>16, <1>17, <1>19 DEF Finished
  <1>22. Concerns(x) /\ x \in Begun'
    BY <1>16, <1>20, <1>21 DEF Concerns
  <1>23. P # x
    BY <1>1, <1>3, <1>4, <1>5, BaseFacts, OpenDistinct
  <1>24. Appended(P, BeforeElement(x) \o << <<"element", x>> >>, x, FirstInside(x))
    <2>1. /\ kids \in [Node \cup {Doc} -> Seq(Item)] /\ kids' \in [Node \cup {Doc} -> Seq(Item)]
      BY <1>3, WriteStartTagInv DEF IInv, TypeOK
    <2>2. BeforeElement(x) \in Seq(Item) /\ << <<"element", x>> >> \in Seq(Item)
      BY <1>5, ItemFacts
    <2>3. kids[P] \in Seq(Item)
      BY <1>5, <2>1
    <2>4. kids'[P] = (kids[P] \o BeforeElement(x)) \o << <<"element", x>> >>
      BY <1>4, <1>5, <1>23, <2>1
    <2>5. kids'[P] = kids[P] \o (BeforeElement(x) \o << <<"element", x>> >>)
      <3>1. \A r, s, u \in Seq(Item) : (r \o s) \o u = r \o (s \o u)
        BY ConcatAssociative
      <3>2. QED
        BY <2>2, <2>3, <2>4, <3>1
    <2>6. kids'[x] = kids[x] \o FirstInside(x)
      BY <1>4, <1>5, <1>23, <2>1
    <2>7. \A e \in Node \cup {Doc} : e # P /\ e # x => kids'[e] = kids[e]
      BY <1>4, <2>1
    <2>8. QED
      BY <2>1, <2>5, <2>6, <2>7 DEF Appended
  <1>25. /\ Document'
         /\ kids'[P] # <<>> /\ kids'[P][Len(kids'[P])] = <<"element", x>>
         /\ \A e \in Node \cup {Doc} : e # P /\ e # x => kids'[e] = kids[e]
    <2>1. Finished(x)' => ast.pragma[x] = {} /\ x \notin ast.info
      BY <1>20
    <2>2. Concerns(x) /\ x \in Begun' /\ Written /\ ast' = ast
      BY <1>4, <1>22
    <2>3. QED
      BY <1>1, <1>2, <1>24, <2>1, <2>2, ElementWritten
  <1>26. /\ \A i \in 1..(Len(frames) - 1) :
              /\ Opened(frames'[i]) <=> Opened(frames[i])
              /\ Height(frames'[i]) = Height(frames[i])
         /\ Opened(frames'[Len(frames)]) /\ Height(frames'[Len(frames)]) = Len(open) + 1
    BY <1>5, <1>10, <1>17 DEF Opened, Height
  <1>27. OpenOwned'
    <2>1. \A h \in 1..Len(open') : \E i \in 1..Len(frames') :
            Opened(frames'[i]) /\ Height(frames'[i]) = h /\ frames'[i].node = open'[h]
      <3> SUFFICES ASSUME NEW h \in 1..Len(open')
                   PROVE  \E i \in 1..Len(frames') :
                            Opened(frames'[i]) /\ Height(frames'[i]) = h /\ frames'[i].node = open'[h]
        OBVIOUS
      <3>1. CASE h \in 1..Len(open)
        <4>1. PICK i \in 1..Len(frames) :
                Opened(frames[i]) /\ Height(frames[i]) = h /\ frames[i].node = open[h]
          BY <1>3, <3>1 DEF OpenOwned
        <4>2. i \in 1..(Len(frames) - 1)
          BY <1>4, <1>10, <1>18, <4>1
        <4>3. QED
          BY <1>7, <1>17, <1>19, <1>26, <3>1, <4>1, <4>2
      <3>2. CASE h = Len(open) + 1
        BY <1>7, <1>10, <1>17, <1>26, <3>2
      <3>3. h \in 1..Len(open) \/ h = Len(open) + 1
        BY <1>6, <1>7
      <3>4. QED
        BY <3>1, <3>2, <3>3
    <2>2. QED
      BY <2>1 DEF OpenOwned, Opened, Height
  <1>28. OpenLast'
    <2>1. \A i \in 1..(Len(frames) - 1) : Opened(frames[i]) =>
            kids'[ElementAt(frames[i].base)] = kids[ElementAt(frames[i].base)]
      <3>1. Top.base \in Top.base..Len(open)
        BY <1>3, <1>4, <1>5, BaseFacts
      <3>2. QED
        BY <1>1, <1>3, <1>4, <1>5, <1>25, <3>1, LowerElements
    <2>2. \A i \in 1..Len(frames) : frames[i].base \in 0..Top.base
      BY <1>3, <1>4, BaseFacts
    <2>3. \A i \in 1..Len(frames) : Opened(frames'[i]) =>
            LET k == kids'[ElementAt(frames[i].base)]
            IN k # <<>> /\ k[Len(k)] = <<"element", frames[i].node>>
      <3> SUFFICES ASSUME NEW i \in 1..Len(frames), Opened(frames'[i])
                   PROVE  LET k == kids'[ElementAt(frames[i].base)]
                          IN k # <<>> /\ k[Len(k)] = <<"element", frames[i].node>>
        OBVIOUS
      <3>1. CASE i = Len(frames)
        BY <1>1, <1>5, <1>10, <1>25, <3>1
      <3>2. CASE i \in 1..(Len(frames) - 1)
        <4>1. Opened(frames[i])
          BY <1>26, <3>2
        <4>2. Ends(ElementAt(frames[i].base), <<"element", frames[i].node>>)
          BY <1>3, <4>1 DEF OpenLast
        <4>3. QED
          BY <2>1, <3>2, <4>1, <4>2 DEF Ends
      <3>3. QED
        BY <1>18, <3>1, <3>2
    <2>4. \A i \in 1..Len(frames) : frames'[i].base = frames[i].base
      BY <1>10, <1>17, <1>18
    <2>5. \A i \in 1..Len(frames') : /\ frames'[i].base \in 0..Top.base
                                     /\ Opened(frames'[i]) =>
                                          LET k == kids'[ElementAt(frames'[i].base)]
                                          IN k # <<>> /\ k[Len(k)] = <<"element", frames'[i].node>>
      BY <1>17, <1>19, <2>2, <2>3, <2>4
    <2>6. QED
      BY <1>8, <2>5 DEF OpenLast, Ends, Opened
  <1>29. QED
    BY <1>14, <1>25, <1>27, <1>28 DEF CallStack

\* What is added to a sequence that is not empty follows its last element.
LEMMA JoinedNext ==
  ASSUME NEW u, NEW s, NEW t, Joined(u, s, t), s # <<>>, NEW S, s \in Seq(S)
  PROVE  /\ Len(s) \in 1..Len(s) /\ 1 \in 1..Len(s) /\ u[1] = s[1] /\ u # <<>>
         /\ Len(s) \in 1..Len(u) /\ u[Len(s)] = s[Len(s)]
         /\ 1 \in 1..Len(t) => Len(s) < Len(u) /\ u[Len(s) + 1] = t[1]
  <1> DEFINE a == Len(s)
             b == Len(t)
             c == Len(u)
  <1>1. /\ a \in Nat /\ b \in Nat /\ c = a + b
        /\ \A j \in 1..b : u[a + j] = t[j]
        /\ \A i \in 1..a : u[i] = s[i] /\ i \in 1..c
        /\ u # <<>>
    BY DEF Joined
  <1>2. a # 0
    BY EmptySeq
  <1> SUFFICES /\ a \in 1..a /\ 1 \in 1..a /\ u[1] = s[1] /\ u # <<>>
               /\ a \in 1..c /\ u[a] = s[a]
               /\ 1 \in 1..b => a < c /\ u[a + 1] = t[1]
    OBVIOUS
  <1> HIDE DEF a, b, c
  <1>3. a \in 1..a /\ 1 \in 1..a /\ (1 \in 1..b => a < c)
    BY <1>1, <1>2
  <1>4. QED
    BY <1>1, <1>3

\* What a node has written after its inodeSgXxx function ran.
LEMMA EndItems ==
  ASSUME ast \in Asts, NEW x \in Node
  PROVE  LET w == PreprocessingInfo(x) \o FortranPragma(x, "inside")
             v == FortranPragma(x, "after")
         IN /\ w \in Seq(Item)
            /\ \A i \in 1..Len(w) :
                 w[i] = <<"inside", x>> \/ (x \in ast.info /\ w[i] = <<"info", x>>)
            /\ \A i, j \in 1..Len(w) : w[i] = w[j] => i = j
            /\ "inside" \in ast.pragma[x] =>
                 Len(w) \in Nat \ {0} /\ w[Len(w)] = <<"inside", x>>
            /\ x \in ast.info => \E q \in 1..Len(w) : w[q] = <<"info", x>>
            /\ v \in Seq(Item)
            /\ \A i \in 1..Len(v) : i = 1 /\ v[i] = <<"after", x>>
            /\ "after" \in ast.pragma[x] => 1 \in 1..Len(v) /\ v[1] = <<"after", x>>
  <1> DEFINE b == PreprocessingInfo(x)
             g == FortranPragma(x, "inside")
             w == b \o g
             v == FortranPragma(x, "after")
             p == <<"info", x>>
             q == <<"inside", x>>
             r == <<"after", x>>
  <1>1. p \in Item /\ q \in Item /\ r \in Item /\ p # q
    BY DEF Item, ItemKind, Position
  <1>2. (b = <<p>> /\ x \in ast.info) \/ (b = <<>> /\ x \notin ast.info)
    BY DEF PreprocessingInfo
  <1>3. (g = <<q>> /\ "inside" \in ast.pragma[x]) \/ (g = <<>> /\ "inside" \notin ast.pragma[x])
    BY DEF FortranPragma
  <1>4. (v = <<r>> /\ "after" \in ast.pragma[x]) \/ (v = <<>> /\ "after" \notin ast.pragma[x])
    BY DEF FortranPragma
  <1>5. "inside" \in ast.pragma[x] => x \in ast.info
    BY AstAssumption
  <1>6. <<p>> # <<>> /\ Len(<<p>>) = 1 /\ <<p>>[1] = p /\ Len(<<>>) = 0 /\ <<p>> \in Seq(Item)
    BY <1>1
  <1>7. Len(<<r>>) = 1 /\ <<r>>[1] = r /\ <<r>> \in Seq(Item) /\ <<>> \in Seq(Item)
    BY <1>1, EmptySeq
  <1>8. /\ v \in Seq(Item)
        /\ \A i \in 1..Len(v) : i = 1 /\ v[i] = r
        /\ "after" \in ast.pragma[x] => 1 \in 1..Len(v) /\ v[1] = r
    <2>1. v \in Seq(Item)
      BY <1>4, <1>7
    <2>2. \A i \in 1..Len(v) : i = 1 /\ v[i] = r
      <3> HIDE DEF r, v
      <3>1. CASE v = <<r>>
        <4>1. Len(v) = 1 /\ v[1] = r
          BY <1>7, <3>1
        <4>2. QED
          BY <4>1
      <3>2. CASE v = <<>>
        BY <1>6, <3>2
      <3>3. QED
        BY <1>4, <3>1, <3>2
    <2>3. "after" \in ast.pragma[x] => 1 \in 1..Len(v) /\ v[1] = r
      BY <1>4, <1>7
    <2>4. QED
      BY <2>1, <2>2, <2>3
  <1> HIDE DEF v, p, q, r, b, g
  <1>9. /\ w \in Seq(Item)
        /\ \A i \in 1..Len(w) : w[i] = q \/ (x \in ast.info /\ w[i] = p)
        /\ \A i, j \in 1..Len(w) : w[i] = w[j] => i = j
        /\ "inside" \in ast.pragma[x] => Len(w) \in Nat \ {0} /\ w[Len(w)] = q
        /\ x \in ast.info => \E k \in 1..Len(w) : w[k] = p
    <2>1. CASE g = <<>>
      <3>1. b \in Seq(Item)
        BY <1>2, <1>6, <1>7
      <3>2. w = b
        BY <2>1, <3>1, ConcatEmptySeq
      <3> HIDE DEF w
      <3>3. CASE b = <<>>
        BY <1>2, <1>3, <1>6, <2>1, <3>1, <3>2, <3>3
      <3>4. CASE b = <<p>>
        BY <1>2, <1>3, <1>6, <2>1, <3>1, <3>2, <3>4
      <3>5. QED
        BY <1>2, <3>3, <3>4
    <2>2. CASE g = <<q>> /\ "inside" \in ast.pragma[x]
      <3>1. b = <<p>> /\ b # <<>> /\ x \in ast.info
        BY <1>2, <1>5, <1>6, <2>2
      <3>2. w = b \o <<q>>
        BY <2>2
      <3> HIDE DEF w
      <3>3. b \o <<q>> \in Seq(Item) /\ PairEnd(b \o <<q>>, b, p, q)
        BY <1>1, <3>1, MaybePair
      <3>4. w \in Seq(Item) /\ PairEnd(w, b, p, q)
        BY <3>2, <3>3
      <3>5. Len(w) - 1 \in 1..Len(w) /\ w[Len(w) - 1] = p
        BY <3>1, <3>4 DEF PairEnd
      <3>6. QED
        BY <3>1, <3>4, <3>5 DEF PairEnd
    <2>3. QED
      BY <1>3, <2>1, <2>2
  <1> HIDE DEF w
  <1>10. QED
    BY <1>8, <1>9, Zenon DEF w, v, b, g, p, q, r

\* What is written with the end tag: the document stays right.
LEMMA EndWritten ==
  ASSUME DInv, frames # <<>>, Top.pc = "inode", ast' = ast, NEW x, x = Top.node,
         NEW E, E = ElementAt(Top.base), Concerns(x), Begun' = Begun, Finished(x)',
         Appended(x, PreprocessingInfo(x) \o FortranPragma(x, "inside"),
                  E, FortranPragma(x, "after"))
  PROVE  /\ Document'
         /\ E \in Node \cup {Doc} /\ x # E
         /\ \A e \in Node \cup {Doc} : e # E /\ e # x => kids'[e] = kids[e]
  <1> USE DEF DInv, CallStack
  <1>1. Opened(Top) /\ ast \in Asts
    BY DEF Opened, IInv
  <1> DEFINE w == PreprocessingInfo(x) \o FortranPragma(x, "inside")
             v == FortranPragma(x, "after")
  <1>2. /\ E \in Node \cup {Doc} /\ x \in Node /\ x \in Node \cup {Doc}
        /\ x = ElementAt(Len(open)) /\ Len(open) = Top.base + 1
        /\ x \in Inside(E) /\ x \in Visited
    BY <1>1, InnermostFacts, TopFacts DEF IInv
  <1>3. /\ Len(open) \in Nat /\ Top.base \in Nat
        /\ Len(open) \in 0..Len(open) /\ Top.base \in 0..Len(open) /\ Top.base # Len(open)
        /\ Len(open) # 0 /\ Len(open) \in 1..Len(open)
        /\ Top.base # 0 => Top.base \in 1..Len(open)
    BY <1>2, BaseFacts
  <1>4. x # E /\ (~Finished(E) \/ E = Doc)
    BY <1>2, <1>3, OpenDistinct
  <1>5. /\ E \in Node => E \in Begun
        /\ x \in Begun
    <2>1. E \in Node => Top.base # 0
      BY <1>2, NodeAssumption DEF ElementAt
    <2>2. E \in Node => E = open[Top.base] /\ Top.base \in 1..Len(open)
      BY <1>3, <2>1 DEF ElementAt
    <2>3. x = open[Len(open)]
      BY <1>2, <1>3 DEF ElementAt
    <2>4. QED
      BY <1>3, <2>2, <2>3, OpenBegun
  <1>6. /\ w \in Seq(Item)
        /\ \A i \in 1..Len(w) :
             w[i] = <<"inside", x>> \/ (x \in ast.info /\ w[i] = <<"info", x>>)
        /\ \A i, j \in 1..Len(w) : w[i] = w[j] => i = j
        /\ "inside" \in ast.pragma[x] => Len(w) \in Nat \ {0} /\ w[Len(w)] = <<"inside", x>>
        /\ x \in ast.info => \E q \in 1..Len(w) : w[q] = <<"info", x>>
        /\ v \in Seq(Item)
        /\ \A i \in 1..Len(v) : i = 1 /\ v[i] = <<"after", x>>
        /\ "after" \in ast.pragma[x] => 1 \in 1..Len(v) /\ v[1] = <<"after", x>>
    BY <1>1, <1>2, EndItems
  <1>7. Appended(x, w, E, v)
    OBVIOUS
  <1> HIDE DEF w, v
  <1>8. PICK new : NewItems(new, x, w, E, v)
    <2>1. w \in Seq(Item) /\ v \in Seq(Item) /\ x # E
      BY <1>4, <1>6
    <2>2. E \in Node \cup {Doc} /\ x \in Node \cup {Doc} /\ IInv
      BY <1>2
    <2>3. QED
      BY <1>7, <2>1, <2>2, GrownTwo
  <1>9. /\ Grown(new) /\ new[x] = w /\ new[E] = v
        /\ \A e \in Node \cup {Doc} : e # x /\ e # E => new[e] = <<>>
    BY <1>8 DEF NewItems
  <1>10. \A e \in Node \cup {Doc} : Joined(kids'[e], kids[e], new[e])
    BY <1>9, GrownFacts
  <1>11. ~Finished(x)
    BY DEF Concerns
  <1>12. Len(<<>>) = 0
    BY EmptySeq
  <1>13. \A e \in Node \cup {Doc} : e = x \/ e = E \/ new[e] = <<>>
    BY <1>9
  <1>14. \A e \in Node \cup {Doc} : \A i \in 1..Len(new[e]) :
           \/ e = x /\ new[e][i] = <<"inside", x>>
           \/ e = x /\ x \in ast.info /\ new[e][i] = <<"info", x>>
           \/ e = E /\ new[e][i] = <<"after", x>>
    BY <1>6, <1>9, <1>12, <1>13
  <1>15. Adds(new, x)
    <2>1. ASSUME NEW e \in Node \cup {Doc}, NEW i \in 1..Len(new[e]), NEW j \in 1..Len(new[e]),
                 new[e][i] = new[e][j]
          PROVE  i = j
      <3>1. CASE e = x
        BY <1>6, <1>9, <2>1, <3>1
      <3>2. CASE e = E
        BY <1>6, <1>9, <3>2
      <3>3. CASE new[e] = <<>>
        BY <1>12, <3>3
      <3>4. QED
        BY <1>13, <3>1, <3>2, <3>3
    <2>2. "inside" \in ItemKind /\ "after" \in ItemKind /\ "info" \in ItemKind
      BY DEF ItemKind, Position
    <2>3. \A e \in Node \cup {Doc} : \A i \in 1..Len(new[e]) :
            \E k \in {"inside", "after", "info"} : new[e][i] = <<k, x>>
      BY <1>14
    <2>4. \A e \in Node \cup {Doc} : \A i \in 1..Len(kids[e]) : \A k \in {"inside", "after", "info"} :
            kids[e][i] # <<k, x>>
      BY <1>2, <1>11, <2>2 DEF Document, KidsBelong, Belongs
    <2>5. \A e \in Node \cup {Doc} : \A i \in 1..Len(kids[e]), j \in 1..Len(new[e]) :
            kids[e][i] # new[e][j]
      BY <2>3, <2>4
    <2>6. \A n \in Node : new[n] # <<>> => n \notin Begun \/ ~Finished(n)
      BY <1>4, <1>11, <1>13, NodeAssumption
    <2>7. \A e \in Node \cup {Doc} : \A i \in 1..Len(new[e]) :
            \E k \in ItemKind : new[e][i] = <<k, x>>
      BY <2>2, <2>3
    <2>8. QED
      BY <2>1, <2>5, <2>6, <2>7 DEF Adds
  <1>16. \A e \in Node \cup {Doc} : \A k \in ItemKind : \A j \in 1..Len(new[e]) :
           new[e][j] = <<k, x>> => Belongs(e, k, x)'
    <2> SUFFICES ASSUME NEW e \in Node \cup {Doc}, NEW k \in ItemKind, NEW j \in 1..Len(new[e]),
                        new[e][j] = <<k, x>>
                 PROVE  Belongs(e, k, x)'
      OBVIOUS
    <2>1. \/ e = x /\ k = "inside"
          \/ e = x /\ x \in ast.info /\ k = "info"
          \/ e = E /\ k = "after"
      BY <1>14
    <2>2. Inside(E)' = Inside(E)
      BY SameAst
    <2>3. QED
      BY <1>2, <1>5, <2>1, <2>2 DEF Belongs
  <1>17. \A n \in Node : new[n] # <<>> => n \in Begun'
    BY <1>5, <1>13
  <1>18. Own(x) /\ Around(E, x)
    BY <1>2, <1>5 DEF Document, ItemsKept
  <1>19. kids[x] \in Seq(Item) /\ kids[E] \in Seq(Item)
    BY <1>2 DEF IInv, TypeOK
  <1>20. Joined(kids'[x], kids[x], w) /\ Joined(kids'[E], kids[E], v)
    BY <1>2, <1>9, <1>10
  <1>21. Own(x)'
    <2>1. ASSUME "before" \in ast.pragma[x], x = ast.global
          PROVE  kids'[x] # <<>> /\ kids'[x][1] = <<"before", x>>
      <3>1. kids[x] # <<>> /\ kids[x][1] = <<"before", x>>
        BY <1>18, <2>1 DEF Own
      <3>2. QED
        BY <1>19, <1>20, <3>1, JoinedNext
    <2>2. ASSUME "inside" \in ast.pragma[x]
          PROVE  kids'[x] # <<>> /\ kids'[x][Len(kids'[x])] = <<"inside", x>>
      <3>1. Len(w) \in Nat \ {0} /\ w[Len(w)] = <<"inside", x>>
        BY <1>6, <2>2
      <3>2. QED
        BY <1>20, <3>1, JoinedEnd
    <2>3. ASSUME x \in ast.info
          PROVE  \E q \in 1..Len(kids'[x]) : kids'[x][q] = <<"info", x>>
      <3>1. PICK q \in 1..Len(w) : w[q] = <<"info", x>>
        BY <1>6, <2>3
      <3>2. Len(kids[x]) + q \in 1..Len(kids'[x]) /\ kids'[x][Len(kids[x]) + q] = w[q]
        BY <1>20 DEF Joined
      <3>3. QED
        BY <3>1, <3>2
    <2>4. QED
      BY <2>1, <2>2, <2>3 DEF Own, Ends
  <1>22. Around(E, x)'
    <2>1. PICK p \in 1..Len(kids[E]) :
            /\ kids[E][p] = <<"element", x>>
            /\ "before" \in ast.pragma[x] /\ x # ast.global =>
                 p > 1 /\ kids[E][p - 1] = <<"before", x>>
      BY <1>18 DEF Around
    <2>2. kids[E] # <<>> /\ kids[E][Len(kids[E])] = <<"element", x>>
      <3>1. Top = frames[Len(frames)] /\ Len(frames) \in 1..Len(frames)
        BY TopFacts DEF IInv, Top
      <3>2. QED
        BY <1>1, <3>1 DEF OpenLast, Ends
    <2>3. /\ Len(kids[E]) \in 1..Len(kids[E]) /\ Len(kids[E]) \in 1..Len(kids'[E])
          /\ kids'[E][Len(kids[E])] = kids[E][Len(kids[E])]
          /\ 1 \in 1..Len(v) => Len(kids[E]) < Len(kids'[E]) /\ kids'[E][Len(kids[E]) + 1] = v[1]
      BY <1>19, <1>20, <2>2, JoinedNext
    <2>4. p = Len(kids[E])
      BY <1>2, <2>1, <2>2, <2>3 DEF Document, KidsDistinct
    <2>5. p \in 1..Len(kids'[E]) /\ kids'[E][p] = <<"element", x>>
      BY <2>1, <2>3, <2>4
    <2>6. "before" \in ast.pragma[x] /\ x # ast.global =>
            p > 1 /\ kids'[E][p - 1] = <<"before", x>>
      <3>1. /\ p > 1 => p - 1 \in 1..Len(kids[E])
            /\ \A i \in 1..Len(kids[E]) : kids'[E][i] = kids[E][i]
        BY <1>20 DEF Joined
      <3>2. QED
        BY <2>1, <3>1
    <2>7. "after" \in ast.pragma[x] => p < Len(kids'[E]) /\ kids'[E][p + 1] = <<"after", x>>
      <3>1. "after" \in ast.pragma[x] => 1 \in 1..Len(v) /\ v[1] = <<"after", x>>
        BY <1>6
      <3>2. QED
        BY <2>3, <2>4, <3>1
    <2>8. QED
      BY <2>5, <2>6, <2>7 DEF Around
  <1>23. \A e \in Node \cup {Doc} : x \in Inside(e) => Around(e, x)'
    BY <1>1, <1>2, <1>22, OneHome
  <1>24. \A n \in Node : \A j \in 1..Len(new[n]) : new[n][j] # <<"element", x>>
    BY <1>14
  <1>25. Document'
    BY <1>2, <1>5, <1>9, <1>15, <1>16, <1>17, <1>21, <1>23, <1>24, DocumentGrown
  <1>26. \A e \in Node \cup {Doc} : e # E /\ e # x => kids'[e] = kids[e]
    BY <1>9, <1>10 DEF Joined
  <1>27. QED
    BY <1>2, <1>4, <1>25, <1>26

\* An end tag.
LEMMA WriteEndTagDoc ==
  ASSUME DInv, WriteEndTag
  PROVE  CallStack' /\ Document'
  <1>1. PICK x : x = Top.node
    OBVIOUS
  <1>2. PICK E : E = ElementAt(Top.base)
    OBVIOUS
  <1>3. /\ IInv /\ CallPath /\ OpenOwned /\ OpenLast /\ Document
    BY DEF DInv, CallStack
  <1>4. /\ frames # <<>> /\ Top.pc = "inode" /\ Opened(Top) /\ Top.todo = <<>> /\ Return
        /\ ast' = ast /\ open' = Pop(open) /\ ast \in Asts
    BY <1>3 DEF WriteEndTag, Opened, IInv
  <1>5. /\ x \in Node /\ E \in Node \cup {Doc} /\ x = ElementAt(Len(open)) /\ x \in Visited
        /\ Innermost = x /\ Enclosing = E /\ Len(open) = Top.base + 1
    BY <1>1, <1>2, <1>3, <1>4, TopFacts, InnermostFacts DEF IInv
  <1>6. kids' = [kids EXCEPT ![x] = @ \o PreprocessingInfo(x) \o FortranPragma(x, "inside"),
                             ![E] = @ \o FortranPragma(x, "after")]
    BY <1>1, <1>5 DEF WriteEndTag
  <1>7. Len(open) \in Nat /\ Top.base \in Nat /\ open \in Seq(Node)
    BY <1>3, <1>4, BaseFacts DEF IInv, TypeOK
  <1>8. Len(open') = Top.base /\ \A h \in 1..Top.base : open'[h] = open[h]
    <2>1. open # <<>>
      BY <1>5, <1>7, EmptySeq
    <2>2. Len(open) - 1 = Top.base
      BY <1>5, <1>7
    <2>3. QED
      BY <1>4, <1>7, <2>1, <2>2, PopFacts
  <1>9. \A h \in 0..Top.base : ElementAt(h)' = ElementAt(h)
    <2> SUFFICES ASSUME NEW h \in 0..Top.base PROVE ElementAt(h)' = ElementAt(h)
      OBVIOUS
    <2>1. h = 0 \/ h \in 1..Top.base
      BY <1>7
    <2>2. QED
      BY <1>8, <2>1 DEF ElementAt
  <1>10. DOMAIN <<>> = {}
    BY EmptySeq
  <1>11. Coming(Top) = {}
    BY <1>4, <1>10 DEF Coming, Range
  <1>12. Visited' = Visited
    BY <1>3, <1>4, <1>11, ReturnVisited
  <1>13. CallPath'
    BY <1>3, <1>4, <1>9, <1>11, PathReturn
  <1>14. \A n : ~Entering(n) /\ ~Entering(n)' /\ (Skipped(n)' <=> Skipped(n))
    BY <1>3, <1>4, NobodyEnters, SameAst
  <1>15. Begun' = Begun
    BY <1>4, <1>12, <1>14 DEF Begun
  <1>16. x \in Begun
    <2>1. Len(open) # 0 /\ Len(open) \in 1..Len(open)
      BY <1>5, <1>7
    <2>2. QED
      BY <1>3, <1>4, <1>5, <2>1, OpenBegun DEF ElementAt
  <1>17. /\ \A n : (\A i \in 1..Len(frames') : frames'[i].node # n) <=>
                   (n = x \/ \A i \in 1..Len(frames) : frames[i].node # n)
         /\ ~Finished(x)
    BY <1>1, <1>3, <1>4, ReturnOnStack
  <1>18. Finished(x)' /\ \A n : n # x => (Finished(n)' <=> Finished(n))
    BY <1>15, <1>16, <1>17 DEF Finished
  <1>19. Concerns(x)
    BY <1>15, <1>17, <1>18 DEF Concerns
  <1>20. x # E
    <2>1. Len(open) \in 0..Len(open) /\ Top.base \in 0..Len(open) /\ Top.base # Len(open)
      BY <1>5, <1>7
    <2>2. QED
      BY <1>2, <1>3, <1>5, <2>1, OpenDistinct
  <1>21. Appended(x, PreprocessingInfo(x) \o FortranPragma(x, "inside"),
                  E, FortranPragma(x, "after"))
    <2>1. /\ kids \in [Node \cup {Doc} -> Seq(Item)] /\ kids' \in [Node \cup {Doc} -> Seq(Item)]
      BY <1>3, WriteEndTagInv DEF IInv, TypeOK
    <2>2. PreprocessingInfo(x) \in Seq(Item) /\ FortranPragma(x, "inside") \in Seq(Item)
      BY <1>5, ItemFacts DEF Position
    <2>3. kids[x] \in Seq(Item)
      BY <1>5, <2>1
    <2>4. kids'[x] = (kids[x] \o PreprocessingInfo(x)) \o FortranPragma(x, "inside")
      BY <1>5, <1>6, <1>20, <2>1
    <2>5. kids'[x] = kids[x] \o (PreprocessingInfo(x) \o FortranPragma(x, "inside"))
      <3>1. \A r, s, u \in Seq(Item) : (r \o s) \o u = r \o (s \o u)
        BY ConcatAssociative
      <3>2. QED
        BY <2>2, <2>3, <2>4, <3>1
    <2>6. kids'[E] = kids[E] \o FortranPragma(x, "after")
      BY <1>5, <1>6, <1>20, <2>1
    <2>7. \A e \in Node \cup {Doc} : e # x /\ e # E => kids'[e] = kids[e]
      BY <1>6, <2>1
    <2>8. QED
      BY <2>1, <2>5, <2>6, <2>7 DEF Appended
  <1>22. /\ Document'
         /\ \A e \in Node \cup {Doc} : e # E /\ e # x => kids'[e] = kids[e]
    BY <1>1, <1>2, <1>4, <1>15, <1>18, <1>19, <1>21, EndWritten
  <1>23. /\ Len(frames) \in Nat \ {0} /\ Len(frames') = Len(frames) - 1
         /\ \A i \in 1..(Len(frames) - 1) : frames'[i] = frames[i]
         /\ \A i \in 1..Len(frames) : i = Len(frames) \/ i \in 1..(Len(frames) - 1)
         /\ Top = frames[Len(frames)]
    BY <1>3, <1>4, ReturnFacts
  <1>24. OpenOwned'
    <2>1. \A h \in 1..Len(open') : \E i \in 1..Len(frames') :
            Opened(frames'[i]) /\ Height(frames'[i]) = h /\ frames'[i].node = open'[h]
      <3> SUFFICES ASSUME NEW h \in 1..Len(open')
                   PROVE  \E i \in 1..Len(frames') :
                            Opened(frames'[i]) /\ Height(frames'[i]) = h /\ frames'[i].node = open'[h]
        OBVIOUS
      <3>1. h \in 1..Top.base /\ h \in 1..Len(open) /\ h # Len(open)
        BY <1>5, <1>7, <1>8
      <3>2. PICK i \in 1..Len(frames) :
              Opened(frames[i]) /\ Height(frames[i]) = h /\ frames[i].node = open[h]
        BY <1>3, <3>1 DEF OpenOwned
      <3>3. Height(Top) = Len(open)
        BY <1>3, <1>4, BaseFacts
      <3>4. i \in 1..(Len(frames) - 1)
        BY <1>23, <3>1, <3>2, <3>3
      <3>5. QED
        BY <1>8, <1>23, <3>1, <3>2, <3>4
    <2>2. QED
      BY <2>1 DEF OpenOwned, Opened, Height
  <1>25. \A i \in 1..(Len(frames) - 1) : Opened(frames[i]) =>
           kids'[ElementAt(frames[i].base)] = kids[ElementAt(frames[i].base)]
    <2>1. Top.base \in Top.base..Len(open) /\ Len(open) \in Top.base..Len(open)
      BY <1>5, <1>7
    <2>2. QED
      BY <1>2, <1>3, <1>4, <1>5, <1>22, <2>1, LowerElements
  <1>26. OpenLast'
    BY <1>3, <1>4, <1>9, <1>25, LastReturn
  <1>27. QED
    BY <1>13, <1>22, <1>24, <1>26 DEF CallStack

-----------------------------------------------------------------------------
(* The invariance of the document.                                         *)

\* Nothing is written yet, and visit() is entered for the root.
LEMMA InitDInv ==
  Init => DInv
  <1> SUFFICES ASSUME Init PROVE DInv
    OBVIOUS
  <1> DEFINE f == [node |-> ast.root, pc |-> "enter", todo |-> <<>>, base |-> 0]
  <1>1. /\ ast \in Asts /\ frames = <<f>> /\ open = <<>>
        /\ kids = [e \in Node \cup {Doc} |-> <<>>]
    BY DEF Init
  <1>2. IInv
    BY InitInv
  <1>3. /\ Len(frames) = 1 /\ frames[1] = f /\ frames # <<>> /\ Top = f
        /\ Len(<<>>) = 0 /\ Len(open) = 0
    BY <1>1, EmptySeq DEF Top
  <1>4. \A i \in 1..Len(frames) : i = 1
    BY <1>3
  <1>5. f.node = ast.root /\ f.pc = "enter" /\ f.base = 0
    OBVIOUS
  <1> HIDE DEF f
  <1>6. Pending = Callees(ast.root)
    <2>1. Coming(frames[1]) = Callees(ast.root)
      BY <1>3, <1>5 DEF Coming
    <2>2. 1..Len(frames) = {1}
      BY <1>3
    <2>3. QED
      BY <2>1, <2>2 DEF Pending
  <1>7. /\ ast.root \in Reached /\ Reached \in SUBSET Node
        /\ \A m \in Reached : Callees(m) \subseteq Reached
        /\ ast.root \in Node
    BY <1>1, ReachedFacts, AstFacts
  <1>8. /\ Calls \in [Node -> SUBSET Node] /\ \A m \in Node : Calls[m] = Callees(m)
        /\ \A m \in Node : ast.root \notin Callees(m)
    BY <1>1, OneCaller
  <1>9. ast.root \notin ToCome
    <2>1. Pending \in SUBSET Node
      BY <1>6, <1>7, <1>8
    <2>2. SUFFICES ASSUME ast.root \in ToCome PROVE FALSE
      OBVIOUS
    <2>3. ast.root \notin Pending
      BY <1>6, <1>7, <1>8
    <2>4. \E m \in ToCome : ast.root \in Calls[m]
      BY <1>8, <2>1, <2>2, <2>3, ClosureOrigin DEF ToCome
    <2>5. ToCome \in SUBSET Node
      BY <1>8, <2>1, ClosureFacts DEF ToCome
    <2>6. QED
      BY <1>8, <2>4, <2>5
  <1>10. Reached \ {ast.root} \subseteq ToCome
    <2> DEFINE C == {ast.root} \cup ToCome
    <2>1. Pending \in SUBSET Node
      BY <1>6, <1>7, <1>8
    <2>2. /\ ToCome \in SUBSET Node /\ Pending \subseteq ToCome
          /\ \A m \in ToCome : Calls[m] \subseteq ToCome
      BY <1>8, <2>1, ClosureFacts DEF ToCome
    <2>3. C \in SUBSET Node /\ {ast.root} \subseteq C /\ \A m \in C : Calls[m] \subseteq C
      BY <1>6, <1>7, <1>8, <2>2
    <2>4. {ast.root} \in SUBSET Node
      BY <1>7
    <2> HIDE DEF C
    <2>5. Reached \subseteq C
      BY <1>8, <2>3, <2>4, ClosureLeast DEF Reached
    <2>6. QED
      BY <2>5 DEF C
  <1>11. Visited = {ast.root}
    BY <1>7, <1>9, <1>10 DEF Visited
  <1>12. Begun = {}
    BY <1>3, <1>5, <1>11 DEF Begun, Entering
  <1>13. ast.root \in Inside(Doc)
    <2>1. Begins(Doc) \subseteq Inside(Doc)
      BY <1>1, InsideFacts
    <2>2. QED
      BY <2>1 DEF Begins
  <1>14. CallPath
    <2>1. StackVisited /\ StackDistinct
      BY <1>3, <1>4, <1>5, <1>11 DEF StackVisited, StackDistinct
    <2>2. StackPhase /\ StackTodo
      BY <1>3, <1>4, <1>5 DEF StackPhase, StackTodo
    <2>3. StackCalled
      BY <1>3 DEF StackCalled
    <2>4. ElementAt(0) = Doc
      BY DEF ElementAt
    <2>5. StackInside
      BY <1>3, <1>4, <1>5, <1>13, <2>4 DEF StackInside
    <2>6. QED
      BY <2>1, <2>2, <2>3, <2>5 DEF CallPath
  <1>15. OpenOwned /\ OpenLast
    <2>1. OpenOwned
      BY <1>3 DEF OpenOwned
    <2>2. ~Opened(frames[1])
      BY <1>3, <1>5 DEF Opened
    <2>3. QED
      BY <1>4, <2>1, <2>2 DEF OpenLast
  <1>16. Document
    <2>1. \A e \in Node \cup {Doc} : kids[e] = <<>> /\ Len(kids[e]) = 0
      BY <1>1, <1>3
    <2>2. \A e \in Node \cup {Doc} : \A i \in 1..Len(kids[e]) : FALSE
      BY <2>1
    <2>3. KidsDistinct /\ KidsBelong /\ KidsNone
      BY <2>1, <2>2 DEF KidsDistinct, KidsBelong, KidsNone
    <2>4. ItemsKept
      BY <1>12 DEF ItemsKept
    <2>5. SuccessorsFirst
      BY <2>2 DEF SuccessorsFirst, At
    <2>6. QED
      BY <2>3, <2>4, <2>5 DEF Document
  <1>17. QED
    BY <1>2, <1>14, <1>15, <1>16 DEF DInv, CallStack

\* A step that changes nothing.
LEMMA SameDInv ==
  ASSUME DInv, UNCHANGED vars
  PROVE  CallStack' /\ Document'
  <1>1. /\ ast' = ast /\ frames' = frames /\ open' = open /\ kids' = kids
    BY DEF vars
  <1>2. Pending' = Pending
    BY <1>1, SameComing DEF Pending
  <1>3. Visited' = Visited
    BY <1>1, <1>2, SamePending
  <1>4. /\ \A e : Inside(e)' = Inside(e)
        /\ \A n : Successors(n)' = Successors(n) /\ (Skipped(n)' <=> Skipped(n))
    BY <1>1, SameAst
  <1>5. \A n : Entering(n)' <=> Entering(n)
    BY <1>1 DEF Entering, Top
  <1>6. Begun' = Begun
    BY <1>1, <1>3, <1>4, <1>5 DEF Begun
  <1>7. \A n : Finished(n)' <=> Finished(n)
    BY <1>1, <1>6 DEF Finished
  <1>8. Document'
    BY <1>1, <1>6, <1>7, SameDocument DEF DInv
  <1>9. \A h : ElementAt(h)' = ElementAt(h)
    BY <1>1, SameOpen
  <1>10. CallPath'
    <2>1. StackVisited' /\ StackDistinct' /\ StackPhase'
      BY <1>1, <1>3, <1>4 DEF DInv, CallStack, CallPath, StackVisited, StackDistinct, StackPhase
    <2>2. \A f : List(f)' = List(f)
      BY <1>1, <1>4 DEF List
    <2>3. StackTodo' /\ StackCalled'
      BY <1>1, <2>2 DEF DInv, CallStack, CallPath, StackTodo, StackCalled, IsRest
    <2>4. StackInside'
      BY <1>1, <1>4, <1>9 DEF DInv, CallStack, CallPath, StackInside
    <2>5. QED
      BY <2>1, <2>3, <2>4 DEF CallPath
  <1>11. OpenOwned' /\ OpenLast'
    BY <1>1, <1>9 DEF DInv, CallStack, OpenOwned, OpenLast, Opened, Height, Ends
  <1>12. QED
    BY <1>8, <1>10, <1>11 DEF CallStack

\* Every step of the writer keeps the invariant.
LEMMA StepDInv ==
  DInv /\ [Next]_vars => DInv'
  <1> SUFFICES ASSUME DInv, [Next]_vars PROVE DInv'
    OBVIOUS
  <1>1. IInv'
    BY StepInv DEF DInv
  <1>2. CASE UNCHANGED vars
    BY <1>1, <1>2, SameDInv DEF DInv
  <1>3. CASE Done
    BY <1>1, <1>3, SameDInv DEF DInv, Done
  <1>4. CASE LeaveForeign \/ SkipGenerated \/ LeaveSkipped
    BY <1>1, <1>4, LeaveForeignDoc, SkipGeneratedDoc, LeaveSkippedDoc DEF DInv
  <1>5. CASE VisitNext \/ VisitInode
    BY <1>1, <1>5, VisitNextDoc, VisitInodeDoc DEF DInv
  <1>6. CASE WriteEmptyElement \/ WriteStartTag \/ WriteEndTag
    BY <1>1, <1>6, WriteEmptyElementDoc, WriteStartTagDoc, WriteEndTagDoc DEF DInv
  <1>7. QED
    BY <1>2, <1>3, <1>4, <1>5, <1>6 DEF Next

-----------------------------------------------------------------------------
(* The theorems.                                                           *)

\* Every state the writer reaches satisfies the inductive invariant.
THEOREM DocumentInvariance == Spec => []DInv
  BY InitDInv, StepDInv, PTL DEF Spec

\* When visit() has returned from the root it has been called on every node
\* it can reach, and each that is to be written is finished.
LEMMA AllFinished ==
  ASSUME DInv, frames = <<>>
  PROVE  /\ \A n : Visible(n) <=> n \in Begun
         /\ \A n : Visible(n) <=> Finished(n)
  <1>1. Len(frames) = 0
    BY EmptySeq
  <1>2. Pending = {}
    BY <1>1 DEF Pending
  <1>3. Calls \in [Node -> SUBSET Node]
    BY OneCaller DEF DInv, IInv
  <1>4. ToCome = {}
    <2> DEFINE C == {c \in Node : FALSE}
    <2>1. C \in SUBSET Node /\ {} \subseteq C /\ {} \in SUBSET Node /\ \A m \in C : Calls[m] \subseteq C
      OBVIOUS
    <2>2. C = {}
      OBVIOUS
    <2> HIDE DEF C
    <2>3. Closure({}, Calls) \subseteq C
      BY <1>3, <2>1, ClosureLeast
    <2>4. QED
      BY <1>2, <2>2, <2>3 DEF ToCome
  <1>5. Visited = Reached /\ \A n : ~Entering(n)
    BY <1>4 DEF Visited, Entering
  <1>6. \A n : Visible(n) <=> n \in Begun
    BY <1>5 DEF Visible, Begun
  <1>7. QED
    BY <1>1, <1>6 DEF Finished

\* Where a node and its directives are in the finished document.
PlacedAt(e, n, p) ==
  /\ kids[e][p] = <<"element", n>> /\ At(e, "element", n) = {p}
  /\ "before" \in ast.pragma[n] /\ n # ast.global => At(e, "before", n) = {p - 1}
  /\ "after" \in ast.pragma[n] => At(e, "after", n) = {p + 1}

\* When the writer is done every visible node is placed like this.
LEMMA Placed ==
  ASSUME DInv, frames = <<>>, NEW n \in Node, Visible(n), NEW e, e = Home(n)
  PROVE  /\ e \in Node \cup {Doc} /\ Own(n)
         /\ \E p \in 1..Len(kids[e]) : PlacedAt(e, n, p)
  <1>1. n \in Begun /\ Finished(n)
    BY AllFinished
  <1>2. e \in Node \cup {Doc} /\ n \in Inside(e)
    BY HomeFacts DEF DInv, IInv, Visible
  <1>3. Own(n) /\ Around(e, n)
    BY <1>1, <1>2 DEF DInv, Document, ItemsKept
  <1>4. PICK p \in 1..Len(kids[e]) :
          /\ kids[e][p] = <<"element", n>>
          /\ "before" \in ast.pragma[n] /\ n # ast.global => p > 1 /\ kids[e][p - 1] = <<"before", n>>
          /\ "after" \in ast.pragma[n] => p < Len(kids[e]) /\ kids[e][p + 1] = <<"after", n>>
    BY <1>1, <1>3 DEF Around
  <1>5. /\ p > 1 => p - 1 \in 1..Len(kids[e])
        /\ p < Len(kids[e]) => p + 1 \in 1..Len(kids[e])
    <2>1. Len(kids[e]) \in Nat
      BY <1>2, LenProperties DEF DInv, IInv, TypeOK
    <2>2. \A m \in Nat : \A i \in 1..m : /\ i > 1 => i - 1 \in 1..m
                                         /\ i < m => i + 1 \in 1..m
      OBVIOUS
    <2>3. QED
      BY <2>1, <2>2
  <1>6. \A i, j \in 1..Len(kids[e]) : kids[e][i] = kids[e][j] => i = j
    BY <1>2 DEF DInv, Document, KidsDistinct
  <1>7. At(e, "element", n) = {p}
    BY <1>4, <1>6 DEF At
  <1>8. "before" \in ast.pragma[n] /\ n # ast.global => At(e, "before", n) = {p - 1}
    BY <1>4, <1>5, <1>6 DEF At
  <1>9. "after" \in ast.pragma[n] => At(e, "after", n) = {p + 1}
    BY <1>4, <1>5, <1>6 DEF At
  <1>10. PlacedAt(e, n, p)
    BY <1>4, <1>7, <1>8, <1>9 DEF PlacedAt
  <1>11. QED
    BY <1>2, <1>3, <1>10

\* The document of every AST holds each node of the file exactly once, inside
\* the nearest enclosing node that is not skipped and after the successors
\* where inodeSgXxx writes it; it holds no foreign and no skipped node.
THEOREM DocumentCorrect == Spec => []DocumentFaithful
  <1>1. DInv => DocumentFaithful
    <2> SUFFICES ASSUME DInv, frames = <<>>, NEW n \in Node
                 PROVE  /\ \A e \in Node \cup {Doc} :
                             Cardinality(At(e, "element", n)) =
                               IF Visible(n) /\ e = Home(n) THEN 1 ELSE 0
                        /\ Visible(n) =>
                             \A s \in Range(Successors(n)), t \in Range(ast.inode[n]) :
                               \A i \in At(n, "element", s), j \in At(n, "element", t) : i < j
      BY DEF DocumentFaithful
    <2>1. ASSUME NEW e \in Node \cup {Doc}, Visible(n), e = Home(n)
          PROVE  Cardinality(At(e, "element", n)) = 1
      <3>1. \E p \in 1..Len(kids[e]) : At(e, "element", n) = {p}
        BY <2>1, Placed DEF PlacedAt
      <3>2. QED
        BY <3>1, FS_Singleton
    <2>2. ASSUME NEW e \in Node \cup {Doc}, ~(Visible(n) /\ e = Home(n))
          PROVE  Cardinality(At(e, "element", n)) = 0
      <3>1. At(e, "element", n) = {}
        <4> SUFFICES ASSUME NEW i \in 1..Len(kids[e]), kids[e][i] = <<"element", n>>
                     PROVE  Visible(n) /\ e = Home(n)
          BY <2>2 DEF At
        <4>1. "element" \in ItemKind
          BY DEF ItemKind
        <4>2. Belongs(e, "element", n)
          BY <4>1 DEF DInv, Document, KidsBelong
        <4>3. n \in Begun /\ n \in Inside(e)
          BY <4>2 DEF Belongs
        <4>4. Visible(n)
          BY <4>3, AllFinished
        <4>5. QED
          BY <4>3, <4>4, HomeFacts DEF Visible, DInv, IInv
      <3>2. QED
        BY <3>1, FS_EmptySet
    <2>3. QED
      BY <2>1, <2>2 DEF DInv, Document, SuccessorsFirst
  <1>2. QED
    BY <1>1, DocumentInvariance, PTL

\* No directive and no preprocessing information of a written node is lost or
\* moved, whichever of the two forms of element the node gets.
THEOREM DirectivesCorrect == Spec => []DirectivesKept
  <1>1. DInv => DirectivesKept
    <2> SUFFICES ASSUME DInv, frames = <<>>, NEW n \in Node, Visible(n), NEW e, e = Home(n)
                 PROVE  LET here == CHOOSE i \in 1..Len(kids[e]) : kids[e][i] = <<"element", n>>
                        IN /\ "before" \in ast.pragma[n] =>
                                IF n = ast.global THEN At(n, "before", n) = {1}
                                                  ELSE At(e, "before", n) = {here - 1}
                           /\ "after" \in ast.pragma[n] => At(e, "after", n) = {here + 1}
                           /\ "inside" \in ast.pragma[n] => At(n, "inside", n) = {Len(kids[n])}
                           /\ n \in ast.info <=> At(n, "info", n) # {}
      BY DEF DirectivesKept
    <2> DEFINE here == CHOOSE i \in 1..Len(kids[e]) : kids[e][i] = <<"element", n>>
    <2>1. e \in Node \cup {Doc} /\ Own(n) /\ n \in Node \cup {Doc}
      BY Placed
    <2>2. PICK p \in 1..Len(kids[e]) : PlacedAt(e, n, p)
      BY Placed
    <2>3. here = p
      <3>1. here \in 1..Len(kids[e]) /\ kids[e][here] = <<"element", n>>
        BY <2>2 DEF PlacedAt
      <3> HIDE DEF here
      <3>2. here \in At(e, "element", n)
        BY <3>1 DEF At
      <3>3. QED
        BY <2>2, <3>2 DEF PlacedAt
    <2>4. Finished(n)
      BY AllFinished
    <2>5. kids[n] # <<>> => 1 \in 1..Len(kids[n]) /\ Len(kids[n]) \in 1..Len(kids[n])
      <3>1. Len(kids[n]) \in Nat /\ (Len(kids[n]) = 0 => kids[n] = <<>>)
        BY <2>1, LenProperties, EmptySeq DEF DInv, IInv, TypeOK
      <3>2. \A m \in Nat : m # 0 => 1 \in 1..m /\ m \in 1..m
        OBVIOUS
      <3>3. QED
        BY <3>1, <3>2
    <2>6. \A i, j \in 1..Len(kids[n]) : kids[n][i] = kids[n][j] => i = j
      BY <2>1 DEF DInv, Document, KidsDistinct
    <2>7. "before" \in ast.pragma[n] /\ n = ast.global => At(n, "before", n) = {1}
      BY <2>1, <2>5, <2>6 DEF Own, At
    <2>8. "inside" \in ast.pragma[n] => At(n, "inside", n) = {Len(kids[n])}
      BY <2>1, <2>4, <2>5, <2>6 DEF Own, Ends, At
    <2>9. n \in ast.info => At(n, "info", n) # {}
      BY <2>1, <2>4 DEF Own, At
    <2>10. At(n, "info", n) # {} => n \in ast.info
      <3>1. "info" \in ItemKind
        BY DEF ItemKind
      <3>2. \A i \in 1..Len(kids[n]) : kids[n][i] = <<"info", n>> => Belongs(n, "info", n)
        BY <2>1, <3>1 DEF DInv, Document, KidsBelong
      <3>3. QED
        BY <3>2 DEF At, Belongs
    <2> HIDE DEF here
    <2>11. QED
      BY <2>2, <2>3, <2>7, <2>8, <2>9, <2>10 DEF here, PlacedAt
  <1>2. QED
    BY <1>1, DocumentInvariance, PTL
=============================================================================
