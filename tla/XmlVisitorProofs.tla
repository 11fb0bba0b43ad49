-------------------------- MODULE XmlVisitorProofs --------------------------
(***************************************************************************)
(* The reader keeps the scope stack balanced, looks every name up in its   *)
(* own scope, loses nothing, and refuses exactly the documents it cannot   *)
(* read: for documents of any size and shape.                              *)
(*                                                                         *)
(* None of it is inductive by itself.  That visitSgDotExp pops what it     *)
(* pushed depends on which of its children it has seen: IInv says what its *)
(* flags stand for (OperandFlags), and that each activation is the visit   *)
(* of the child its caller has just passed (Chained).  RInv divides the    *)
(* nodes into those read, those being read and those to come, and NamesInv *)
(* says what is on top of the scope stack each activation began with.      *)
(***************************************************************************)
EXTENDS XmlVisitor, SequenceTheorems, TLAPS

Types ==
  /\ doc \in Docs
  /\ frames \in Seq(Frame)
  /\ scopes \in Seq(Node)

KidKind(n, h) == KindOf(doc.kids[n][h])

\* Every activation but the first is the visit of the last child its caller
\* has passed; only the first is of the document node.
Chained ==
  /\ frames # << >> => frames[1].node = Document /\ frames[1].base = << >>
  /\ \A i \in 1..Len(frames) : frames[i].next \in 1..(Len(doc.kids[frames[i].node]) + 1)
  /\ \A i \in 2..Len(frames) :
       /\ frames[i - 1].next > 1
       /\ frames[i].node = doc.kids[frames[i - 1].node][frames[i - 1].next - 1]
       /\ KindOf(frames[i].node) # "comment"

\* The children up to Seen, that one excluded, have been looked at: the child
\* that is being visited has not.
Seen(i) == IF i = Len(frames) THEN frames[i].next ELSE frames[i].next - 1

\* What the flags of visitSgDotExp say of the children before s.
Flags(f, s) ==
  /\ f.pushed \/ f.rhs => f.lhs
  /\ ~f.lhs => \A h \in 1..(s - 1) : KidKind(f.node, h) \notin Expression
  /\ f.pushed /\ ~f.rhs =>
       \E i \in 1..(s - 1) :
         /\ KidKind(f.node, i) \in ClassTyped
         /\ \A h \in 1..(i - 1) : KidKind(f.node, h) \notin Expression
         /\ \A h \in (i + 1)..(s - 1) : KidKind(f.node, h) = "comment"

OperandFlags ==
  \A i \in 1..Len(frames) : KindOf(frames[i].node) \in Member => Flags(frames[i], Seen(i))

\* What the activation above the i-th one was called with.
Above(i) == IF i = Len(frames) THEN scopes ELSE frames[i + 1].base

Stacks ==
  /\ \A i \in 1..Len(frames) : Above(i) = frames[i].base \o Pushed(frames[i])
  /\ frames = << >> => scopes = << >>

IInv == Types /\ Chained /\ (WellSpaced => OperandFlags /\ Stacks)

-----------------------------------------------------------------------------
(* One activation.                                                         *)

\* The kind of a child is a kind, and the child a node.
LEMMA KidType ==
  ASSUME doc \in Docs, NEW n \in Node, NEW h \in 1..Len(doc.kids[n])
  PROVE  doc.kids[n][h] \in Node /\ doc.kids[n][h] # Document /\ KidKind(n, h) \in Kind
  <1>1. doc \in DocType /\ doc.kids[n] \in Seq(Node)
    BY DocAssumption DEF DocType
  <1>2. doc.kids[n][h] \in Node
    BY <1>1
  <1> QED BY <1>1, <1>2, DocAssumption DEF DocType, KidKind, KindOf

\* The document node is no member access, no scope and no name; neither is a
\* comment or a PreprocessingInfo element.
LEMMA DocumentKind == ASSUME doc \in Docs PROVE KindOf(Document) = "document"
  BY DocAssumption DEF KindOf

LEMMA OtherKinds ==
  ASSUME NEW k \in {"document", "comment", "info"}
  PROVE  k \notin Member /\ k \notin Scope /\ k \notin NeedsTwo /\ k \notin Ref /\ k \notin Located
  <1>1. k \notin Member /\ k \notin Scope /\ k \notin Ref
    BY DEF Member, Scope, Ref
  <1>2. k \notin NeedsTwo
    BY <1>1 DEF NeedsTwo
  <1>3. k \notin Expression
    BY <1>1 DEF Expression, ClassTyped
  <1>4. k \notin Statement
    BY <1>1 DEF Statement
  <1> QED BY <1>1, <1>2, <1>3, <1>4 DEF Located

\* The loops of visitSgDotExp and visitSgArrowExp fill two operands.
LEMMA MemberLoop ==
  ASSUME NEW f, KindOf(f.node) \in Member, NEW k
  PROVE  /\ KindOf(f.node) \in NeedsTwo /\ KindOf(f.node) \notin Scope
         /\ First(KindOf(f.node)) = Expression /\ Second(KindOf(f.node)) = Expression
         /\ Lhs(f, k) <=> ~f.lhs /\ k \in Expression
         /\ Rhs(f) <=> f.lhs /\ ~f.rhs
         /\ EntersClass(f, k) <=> k \in ClassTyped
  <1>1. KindOf(f.node) \in NeedsTwo /\ KindOf(f.node) \notin Scope
    BY DEF NeedsTwo, Member, Scope
  <1>2. First(KindOf(f.node)) = Expression
    BY DEF First, Member
  <1>3. Second(KindOf(f.node)) = Expression
    BY DEF Second
  <1> QED BY <1>1, <1>2, <1>3 DEF Lhs, Rhs, EntersClass

\* An activation keeps its type when its caller's loop takes a result.
LEMMA TakenType ==
  ASSUME NEW f \in Frame, NEW k
  PROVE  /\ Taken(f, k) \in Frame
         /\ Taken(f, k).node = f.node
         /\ Taken(f, k).next = f.next
         /\ Taken(f, k).base = f.base
  <1>1. CASE Lhs(f, k)
    <2> DEFINE b == EntersClass(f, k)
    <2>1. b \in BOOLEAN
      BY DEF EntersClass
    <2>2. Taken(f, k) = [f EXCEPT !.lhs = TRUE, !.pushed = b]
      BY <1>1 DEF Taken
    <2> HIDE DEF b
    <2> QED BY <2>1, <2>2 DEF Frame
  <1>2. CASE ~Lhs(f, k) /\ Rhs(f)
    <2> DEFINE b == k \in Second(KindOf(f.node))
    <2>1. b \in BOOLEAN
      OBVIOUS
    <2>2. Taken(f, k) = [f EXCEPT !.rhs = b]
      BY <1>2 DEF Taken
    <2> HIDE DEF b
    <2> QED BY <2>1, <2>2 DEF Frame
  <1>3. CASE ~Lhs(f, k) /\ ~Rhs(f)
    BY <1>3 DEF Taken
  <1> QED BY <1>1, <1>2, <1>3

\* The document does not change.
LEMMA SameDocument == ASSUME doc' = doc PROVE WellSpaced' => WellSpaced
  BY DEF WellSpaced, NoGap, KindOf

\* What flags stand for depends on the activation and the document only.
LEMMA SameFlags ==
  ASSUME doc' = doc, NEW i
  PROVE  Flags(frames[i], Seen(i))' <=> Flags(frames'[i], Seen(i)')
  BY DEF Flags, KidKind, KindOf

\* Popping undoes a push.
LEMMA PopPush ==
  ASSUME NEW stack \in Seq(Node), NEW n \in Node
  PROVE  /\ popScopeStack(stack \o <<n>>) = stack
         /\ pushScopeStack(stack, n) = stack \o <<n>>
  <1>1. stack \o <<n>> # << >> /\ Len(stack \o <<n>>) = Len(stack) + 1
    OBVIOUS
  <1>2. SubSeq(stack \o <<n>>, 1, Len(stack)) = stack
    BY ConcatProperties
  <1> QED BY <1>1, <1>2 DEF popScopeStack, pushScopeStack

\* Behind the class that was pushed comes the second operand.
LEMMA SecondIsExpression ==
  ASSUME doc \in Docs, WellSpaced,
         NEW f \in Frame, KindOf(f.node) \in Member,
         NEW s \in 1..Len(doc.kids[f.node]), Flags(f, s), f.pushed, ~f.rhs,
         KidKind(f.node, s) # "comment"
  PROVE  KidKind(f.node, s) \in Expression
  <1>1. f.node \in Node
    BY DEF Frame
  <1>2. NoGap(f.node)
    BY <1>1 DEF WellSpaced
  <1>3. PICK i \in 1..(s - 1) :
           /\ KidKind(f.node, i) \in ClassTyped
           /\ \A h \in 1..(i - 1) : KidKind(f.node, h) \notin Expression
           /\ \A h \in (i + 1)..(s - 1) : KidKind(f.node, h) = "comment"
    BY DEF Flags
  <1>4. i \in 1..Len(doc.kids[f.node]) /\ i < s
    BY <1>1, KidType, DocAssumption DEF DocType
  <1> QED BY <1>2, <1>3, <1>4 DEF NoGap, KidKind

\* The flags after a result was taken.
LEMMA TakenFlags ==
  ASSUME doc \in Docs, WellSpaced,
         NEW f \in Frame, KindOf(f.node) \in Member,
         NEW s \in 1..Len(doc.kids[f.node]), Flags(f, s),
         KidKind(f.node, s) # "comment"
  PROVE  Flags(Taken(f, KidKind(f.node, s)), s + 1)
  <1> DEFINE k == KidKind(f.node, s)
             g == Taken(f, k)
  <1>1. g.node = f.node
    BY TakenType
  <1>2. f.lhs \in BOOLEAN /\ f.rhs \in BOOLEAN /\ f.pushed \in BOOLEAN
    BY DEF Frame
  <1>3. CASE Lhs(f, k)
    <2>1. g = [f EXCEPT !.lhs = TRUE, !.pushed = EntersClass(f, k)]
      BY <1>3 DEF Taken
    <2>2. g.lhs /\ (g.pushed <=> k \in ClassTyped)
      BY <2>1, MemberLoop DEF Frame
    <2>3. \A h \in 1..(s - 1) : KidKind(f.node, h) \notin Expression
      BY <1>3 DEF Flags, Lhs
    <2> QED BY <1>1, <2>2, <2>3 DEF Flags
  <1>4. CASE ~Lhs(f, k) /\ Rhs(f)
    <2>1. g = [f EXCEPT !.rhs = (k \in Second(KindOf(f.node)))]
      BY <1>4 DEF Taken
    <2>2. g.lhs = f.lhs /\ g.pushed = f.pushed /\ (g.rhs <=> k \in Expression)
      BY <2>1, MemberLoop DEF Frame
    <2>3. f.lhs
      BY <1>4 DEF Rhs
    <2>4. f.pushed => g.rhs
      BY <1>4, <2>2, SecondIsExpression DEF Rhs
    <2> QED BY <2>2, <2>3, <2>4 DEF Flags
  <1>5. CASE ~Lhs(f, k) /\ ~Rhs(f)
    <2>1. g = f
      BY <1>5 DEF Taken
    <2>2. f.lhs => f.rhs
      BY <1>5, MemberLoop
    <2>3. ~f.lhs => k \notin Expression
      BY <1>5, MemberLoop
    <2> QED BY <2>1, <2>2, <2>3 DEF Flags
  <1> QED BY <1>3, <1>4, <1>5

\* The scope stack and the flags change together.
LEMMA TakenScopes ==
  ASSUME doc \in Docs, WellSpaced,
         NEW f \in Frame, KindOf(f.node) \in Member,
         NEW s \in 1..Len(doc.kids[f.node]), Flags(f, s),
         KidKind(f.node, s) # "comment"
  PROVE  ScopesAfter(f, KidKind(f.node, s), f.base \o Pushed(f))
           = f.base \o Pushed(Taken(f, KidKind(f.node, s)))
  <1> DEFINE k == KidKind(f.node, s)
             g == Taken(f, k)
  <1>1. g.node = f.node /\ f.node \in Node /\ f.base \in Seq(Node)
    BY TakenType DEF Frame
  <1>2. f.lhs \in BOOLEAN /\ f.rhs \in BOOLEAN /\ f.pushed \in BOOLEAN
    BY DEF Frame
  <1>3. f.base \o << >> = f.base
    BY <1>1
  <1>4. CASE Lhs(f, k)
    <2>1. g = [f EXCEPT !.lhs = TRUE, !.pushed = EntersClass(f, k)]
      BY <1>4 DEF Taken
    <2>2. ~f.lhs /\ ~f.pushed /\ ~f.rhs
      BY <1>4 DEF Lhs, Flags
    <2>3. g.rhs = f.rhs /\ (g.pushed <=> k \in ClassTyped)
      BY <2>1, MemberLoop DEF Frame
    <2>4. Pushed(f) = << >>
      BY <2>2, MemberLoop DEF Pushed
    <2>5. Pushed(g) = IF k \in ClassTyped THEN <<f.node>> ELSE << >>
      BY <1>1, <2>2, <2>3, MemberLoop DEF Pushed
    <2>6. ScopesAfter(f, k, f.base) = IF k \in ClassTyped THEN pushScopeStack(f.base, f.node) ELSE f.base
      BY <1>4, <2>2, MemberLoop DEF ScopesAfter, Rhs
    <2> QED BY <1>1, <1>3, <2>4, <2>5, <2>6, PopPush
  <1>5. CASE ~Lhs(f, k) /\ Rhs(f)
    <2>1. g = [f EXCEPT !.rhs = (k \in Second(KindOf(f.node)))]
      BY <1>5 DEF Taken
    <2>2. g.lhs = f.lhs /\ g.pushed = f.pushed /\ (g.rhs <=> k \in Expression)
      BY <2>1, MemberLoop DEF Frame
    <2>3. ~f.rhs
      BY <1>5 DEF Rhs
    <2>4. CASE f.pushed
      <3>1. k \in Expression
        BY <2>3, <2>4, SecondIsExpression
      <3>2. Pushed(f) = <<f.node>> /\ Pushed(g) = << >>
        BY <1>1, <2>2, <2>3, <2>4, <3>1, MemberLoop DEF Pushed
      <3>3. ScopesAfter(f, k, f.base \o Pushed(f)) = popScopeStack(f.base \o Pushed(f))
        BY <1>5, <2>4 DEF ScopesAfter
      <3> QED BY <1>1, <1>3, <3>2, <3>3, PopPush
    <2>5. CASE ~f.pushed
      <3>1. Pushed(f) = << >> /\ Pushed(g) = << >>
        BY <1>1, <2>2, <2>5, MemberLoop DEF Pushed
      <3>2. ScopesAfter(f, k, f.base \o Pushed(f)) = f.base \o Pushed(f)
        BY <1>5, <2>5 DEF ScopesAfter
      <3> QED BY <3>1, <3>2
    <2> QED BY <2>4, <2>5
  <1>6. CASE ~Lhs(f, k) /\ ~Rhs(f)
    <2>1. g = f
      BY <1>6 DEF Taken
    <2>2. ScopesAfter(f, k, f.base \o Pushed(f)) = f.base \o Pushed(f)
      BY <1>6 DEF ScopesAfter
    <2> QED BY <2>1, <2>2
  <1> QED BY <1>4, <1>5, <1>6

\* No other activation changes the scope stack.
LEMMA TakenOther ==
  ASSUME NEW f \in Frame, KindOf(f.node) \notin Member, NEW k, NEW stack
  PROVE  Pushed(Taken(f, k)) = Pushed(f) /\ ScopesAfter(f, k, stack) = stack
  <1>1. Pushed(Taken(f, k)) = Pushed(f)
    BY TakenType DEF Pushed
  <1>2. ScopesAfter(f, k, stack) = stack
    BY DEF ScopesAfter, EntersClass
  <1> QED BY <1>1, <1>2

-----------------------------------------------------------------------------
(* The steps.                                                              *)

\* What every step can use.
LEMMA TopFacts ==
  ASSUME Types, Chained, frames # << >>
  PROVE  /\ Len(frames) \in Nat \ {0}
         /\ Top = frames[Len(frames)] /\ Top \in Frame
         /\ \A i \in 1..Len(frames) : frames[i] \in Frame
         /\ \A i \in 1..Len(frames) : frames[i].node \in Node /\ frames[i].base \in Seq(Node)
         /\ \A i \in 1..Len(frames) : Len(doc.kids[frames[i].node]) \in Nat
         /\ \A i \in 1..Len(frames) : frames[i].next \in Nat
         /\ Top.node # Document <=> Len(frames) > 1
  <1>1. Len(frames) \in Nat \ {0} /\ \A i \in 1..Len(frames) : frames[i] \in Frame
    BY DEF Types
  <1>2. \A i \in 1..Len(frames) :
          frames[i].node \in Node /\ frames[i].base \in Seq(Node) /\ frames[i].next \in Nat
    BY <1>1 DEF Frame
  <1>3. \A i \in 1..Len(frames) : Len(doc.kids[frames[i].node]) \in Nat
    BY <1>2, DocAssumption DEF Types, DocType
  <1>4. ASSUME Len(frames) > 1 PROVE Top.node # Document
    <2>1. Len(frames) \in 2..Len(frames) /\ Len(frames) - 1 \in 1..Len(frames)
      BY <1>1, <1>4
    <2> DEFINE m == frames[Len(frames) - 1].node
               h == frames[Len(frames) - 1].next - 1
    <2>2. Top.node = doc.kids[m][h] /\ h \in 1..Len(doc.kids[m]) /\ m \in Node
      BY SMTT(30), <1>1, <1>2, <1>3, <2>1 DEF Chained, Top
    <2> QED BY <2>2, KidType DEF Types
  <1>5. Len(frames) = 1 => Top.node = Document
    BY <1>1 DEF Chained, Top
  <1>6. Top = frames[Len(frames)] /\ Len(frames) \in 1..Len(frames)
    BY <1>1 DEF Top
  <1>7. Top \in Frame
    BY <1>1, <1>6
  <1>8. Top.node # Document <=> Len(frames) > 1
    BY <1>1, <1>4, <1>5
  <1> QED BY <1>1, <1>2, <1>3, <1>6, <1>7, <1>8

\* The initial states.
LEMMA InitIInv == Init => IInv
  <1> SUFFICES ASSUME Init PROVE IInv
    OBVIOUS
  <1> DEFINE f == Call(Document, << >>)
  <1>1. frames = <<f>> /\ scopes = << >> /\ doc \in Docs
    BY DEF Init
  <1>2. f \in Frame /\ f.node = Document /\ f.base = << >> /\ f.next = 1
           /\ ~f.lhs /\ ~f.rhs /\ ~f.pushed
    BY DocAssumption DEF Call, Frame
  <1>3. doc.kids[Document] \in Seq(Node)
    BY <1>1, DocAssumption DEF DocType
  <1> HIDE DEF f
  <1>4. Len(frames) = 1 /\ frames[1] = f /\ frames # << >>
    BY <1>1
  <1>5. Types
    BY <1>1, <1>2 DEF Types
  <1>6. Chained
    BY <1>2, <1>3, <1>4 DEF Chained
  <1>7. KindOf(f.node) = "document"
    BY <1>1, <1>2, DocumentKind
  <1>8. OperandFlags
    BY <1>4, <1>7, OtherKinds DEF OperandFlags
  <1>9. Pushed(f) = << >>
    BY <1>7, OtherKinds DEF Pushed
  <1>10. Above(1) = frames[1].base \o Pushed(frames[1])
    BY <1>1, <1>2, <1>4, <1>9, EmptySeq, ConcatEmptySeq DEF Above
  <1>11. Stacks
    BY <1>4, <1>10 DEF Stacks
  <1> QED BY <1>5, <1>6, <1>8, <1>11 DEF IInv

\* An activation begins: its caller has passed the child, it pushes itself if
\* it is a scope.
LEMMA VisitChildIInv ==
  ASSUME IInv, VisitChild
  PROVE  IInv'
  <1> DEFINE n == Len(frames)
             c == Child
             f == [frames[n] EXCEPT !.next = @ + 1]
             g == Call(c, scopes)
  <1>1. Types /\ Chained /\ frames # << >> /\ doc' = doc /\ doc \in Docs
    BY DEF IInv, VisitChild, MoreChildren, Types
  <1>2. /\ n \in Nat \ {0} /\ n = Len(frames) /\ frames[n] \in Frame /\ Top = frames[n]
        /\ frames \in Seq(Frame) /\ scopes \in Seq(Node)
    BY <1>1, TopFacts DEF Types
  <1>3. frames[n].next \in 1..Len(doc.kids[frames[n].node]) /\ frames[n].node \in Node
    BY <1>1, <1>2, TopFacts DEF VisitChild, MoreChildren, Chained
  <1>4. c = doc.kids[frames[n].node][frames[n].next] /\ c \in Node /\ c # Document
           /\ KindOf(c) \in Kind /\ KindOf(c) # "comment"
    BY <1>1, <1>2, <1>3, KidType DEF Child, VisitChild, KidKind
  <1>5. f \in Frame /\ f.next = frames[n].next + 1 /\ f.node = frames[n].node
           /\ f.base = frames[n].base /\ f.lhs = frames[n].lhs /\ f.rhs = frames[n].rhs
           /\ f.pushed = frames[n].pushed
    <2>1. frames[n] \in Frame
      BY <1>2
    <2> QED BY <2>1 DEF Frame
  <1>6. g \in Frame /\ g.next = 1 /\ g.node = c /\ g.base = scopes
           /\ ~g.lhs /\ ~g.rhs /\ ~g.pushed
    BY <1>2, <1>4 DEF Call, Frame
  <1>7. frames' = Append([frames EXCEPT ![n] = f], g)
    BY <1>2 DEF VisitChild
  <1>8. scopes' = IF KindOf(c) \in Scope THEN pushScopeStack(scopes, c) ELSE scopes
    BY DEF VisitChild
  <1> HIDE DEF f, g, c, n
  <1>9. /\ frames' \in Seq(Frame) /\ Len(frames') = n + 1 /\ frames' # << >>
        /\ frames'[n + 1] = g /\ frames'[n] = f
        /\ \A i \in 1..(n - 1) : frames'[i] = frames[i]
    <2> DEFINE s == [frames EXCEPT ![n] = f]
    <2>1. /\ s \in Seq(Frame) /\ Len(s) = n
          /\ \A i \in 1..n : s[i] = IF i = n THEN f ELSE frames[i]
      BY <1>2, <1>5, ExceptSeq
    <2> HIDE DEF s
    <2>2. /\ Append(s, g) \in Seq(Frame) /\ Append(s, g) # << >> /\ Len(Append(s, g)) = n + 1
          /\ \A i \in 1..n : Append(s, g)[i] = s[i]
          /\ Append(s, g)[n + 1] = g
      BY <1>6, <2>1, AppendProperties
    <2> QED BY <1>2, <1>7, <2>1, <2>2 DEF s
  <1>10. Types'
    <2>1. scopes' \in Seq(Node)
      BY <1>2, <1>4, <1>8 DEF pushScopeStack
    <2> QED BY <1>1, <1>9, <2>1 DEF Types
  <1>11. Chained'
    <2>1. frames'[1].node = Document /\ frames'[1].base = << >>
      <3>1. CASE n = 1
        BY <3>1, <1>1, <1>5, <1>9 DEF Chained
      <3>2. CASE n > 1
        BY <3>2, <1>1, <1>2, <1>9 DEF Chained
      <3> QED BY <3>1, <3>2, <1>2
    <2>2. ASSUME NEW i \in 1..(n + 1)
          PROVE  frames'[i].next \in 1..(Len(doc.kids[frames'[i].node]) + 1)
      <3>1. CASE i = n + 1
        <4>1. Len(doc.kids[c]) \in Nat
          BY <1>1, <1>4, DocAssumption DEF DocType
        <4> QED BY <3>1, <4>1, <1>6, <1>9
      <3>2. CASE i = n
        <4>1. Len(doc.kids[frames[n].node]) \in Nat
          BY <1>1, <1>3, DocAssumption DEF DocType
        <4> QED BY SMTT(30), <3>2, <4>1, <1>3, <1>5, <1>9
      <3>3. CASE i < n
        <4>1. i \in 1..Len(frames) /\ frames'[i] = frames[i]
          BY <3>3, <1>2, <1>9
        <4> QED BY <4>1, <1>1 DEF Chained
      <3> QED BY <3>1, <3>2, <3>3, <1>2
    <2>3. ASSUME NEW i \in 2..(n + 1)
          PROVE  /\ frames'[i - 1].next > 1
                 /\ frames'[i].node = doc.kids[frames'[i - 1].node][frames'[i - 1].next - 1]
                 /\ KindOf(frames'[i].node) # "comment"
      <3>1. CASE i = n + 1
        <4>1. i - 1 = n /\ f.next - 1 = frames[n].next /\ f.next > 1
          BY <3>1, <1>2, <1>3, <1>5
        <4> QED BY <3>1, <4>1, <1>4, <1>5, <1>6, <1>9
      <3>2. CASE i = n
        <4>1. i \in 2..Len(frames) /\ frames'[i - 1] = frames[i - 1] /\ frames'[i].node = frames[i].node
          BY <3>2, <1>2, <1>5, <1>9
        <4> QED BY <4>1, <1>1 DEF Chained
      <3>3. CASE i < n
        <4>1. i \in 2..Len(frames) /\ frames'[i - 1] = frames[i - 1] /\ frames'[i] = frames[i]
          BY <3>3, <1>2, <1>9
        <4> QED BY <4>1, <1>1 DEF Chained
      <3> QED BY <3>1, <3>2, <3>3, <1>2
    <2> QED BY <2>1, <2>2, <2>3, <1>1, <1>9 DEF Chained, KindOf
  <1>12. ASSUME OperandFlags PROVE OperandFlags'
    <2> SUFFICES ASSUME NEW i \in 1..(n + 1), KindOf(frames'[i].node) \in Member
                 PROVE  Flags(frames'[i], Seen(i)')
      BY <1>1, <1>9, SameFlags DEF OperandFlags, KindOf
    <2> Seen(i)' = IF i = n + 1 THEN frames'[i].next ELSE frames'[i].next - 1
      BY <1>9 DEF Seen
    <2>1. CASE i = n + 1
      BY <2>1, <1>6, <1>9 DEF Flags
    <2>2. CASE i = n
      <3>1. Flags(frames[n], frames[n].next)
        BY <2>2, <1>2, <1>5, <1>9, <1>12 DEF OperandFlags, Seen
      <3>2. f.next - 1 = frames[n].next
        BY <1>3, <1>5
      <3>3. PICK a, s : a = frames'[n] /\ s = frames[n].next
        OBVIOUS
      <3>4. /\ a.node = frames[n].node /\ a.lhs = frames[n].lhs
            /\ a.rhs = frames[n].rhs /\ a.pushed = frames[n].pushed
        BY <3>3, <1>2, <1>5, <1>9
      <3>5. Flags(a, s)
        BY <3>1, <3>3, <3>4 DEF Flags
      <3>6. Seen(i)' = f.next - 1
        BY <2>2, <1>2, <1>5, <1>9
      <3>7. frames'[i] = a /\ Seen(i)' = s
        BY <2>2, <3>2, <3>3, <3>6
      <3> QED BY <3>5, <3>7
    <2>3. CASE i < n
      <3>1. i \in 1..Len(frames) /\ i # Len(frames) /\ i # n + 1 /\ frames'[i] = frames[i]
        <4>1. i \in 1..(n - 1) /\ i # n /\ i # n + 1 /\ n = Len(frames)
          BY <2>3, <1>2
        <4> QED BY <4>1, <1>9
      <3> QED BY <3>1, <1>12 DEF OperandFlags, Seen
    <2> QED BY <2>1, <2>2, <2>3, <1>2
  <1>13. ASSUME Stacks PROVE Stacks'
    <2> SUFFICES ASSUME NEW i \in 1..(n + 1)
                 PROVE  (IF i = n + 1 THEN scopes' ELSE frames'[i + 1].base)
                          = frames'[i].base \o Pushed(frames'[i])
      BY <1>1, <1>9 DEF Stacks, Above, Pushed, KindOf
    <2>1. CASE i = n + 1
      <3>1. Pushed(g) = IF KindOf(c) \in Scope THEN <<c>> ELSE << >>
        BY <1>6 DEF Pushed
      <3>2. scopes \o << >> = scopes /\ pushScopeStack(scopes, c) = scopes \o <<c>>
        BY <1>2, <1>4, PopPush, ConcatEmptySeq
      <3> QED BY <2>1, <3>1, <3>2, <1>6, <1>8, <1>9
    <2>2. CASE i = n
      <3>1. Pushed(f) = Pushed(frames[n])
        BY <1>5 DEF Pushed
      <3>2. n \in 1..Len(frames) /\ Above(n) = scopes
        BY <1>2 DEF Above
      <3>3. scopes = frames[n].base \o Pushed(frames[n])
        BY <3>2, <1>13 DEF Stacks
      <3>4. i # n + 1 /\ frames'[i] = f /\ frames'[i + 1] = g
        BY <2>2, <1>2, <1>9
      <3>5. frames'[i + 1].base = scopes /\ frames'[i].base = frames[n].base
        BY <3>4, <1>5, <1>6
      <3> QED BY <3>1, <3>3, <3>4, <3>5
    <2>3. CASE i < n
      <3>1. i \in 1..Len(frames) /\ i # Len(frames) /\ frames'[i] = frames[i]
        BY <2>3, <1>2, <1>9
      <3>2. frames'[i + 1].base = frames[i + 1].base
        <4>1. CASE i + 1 = n
          BY <4>1, <1>5, <1>9
        <4>2. CASE i + 1 < n
          <5>1. i + 1 \in 1..(n - 1)
            BY <4>2, <1>2
          <5> QED BY <5>1, <1>9
        <4> QED BY <2>3, <4>1, <4>2, <1>2
      <3>3. Above(i) = frames[i].base \o Pushed(frames[i])
        BY <3>1, <1>13 DEF Stacks
      <3>4. i # n + 1
        BY <2>3, <1>2
      <3> QED BY <3>1, <3>2, <3>3, <3>4 DEF Above
    <2>4. i = n + 1 \/ i = n \/ i < n
      BY <1>2
    <2> QED BY <2>1, <2>2, <2>3, <2>4
  <1>14. WellSpaced' => WellSpaced
    BY <1>1, SameDocument
  <1> QED BY <1>10, <1>11, <1>12, <1>13, <1>14 DEF IInv

\* The loop of the m-th activation goes on, which is now f: it has its node,
\* its flags stand for the children before the next one, and the scope stack
\* is its own.
LEMMA Resumed ==
  ASSUME IInv, frames # << >>, doc' = doc,
         NEW m \in 1..Len(frames), NEW f \in Frame,
         f.node = frames[m].node, f.base = frames[m].base,
         f.next \in 1..(Len(doc.kids[f.node]) + 1),
         frames' \in Seq(Frame), Len(frames') = m, frames'[m] = f,
         \A i \in 1..(m - 1) : frames'[i] = frames[i],
         scopes' \in Seq(Node),
         WellSpaced /\ KindOf(f.node) \in Member => Flags(f, f.next),
         WellSpaced => scopes' = f.base \o Pushed(f)
  PROVE  IInv'
  <1>1. Types /\ Chained /\ doc \in Docs
    BY DEF IInv, Types
  <1>2. Len(frames) \in Nat /\ m \in Nat \ {0} /\ m <= Len(frames)
    BY <1>1, TopFacts
  <1>3. Types'
    BY <1>1 DEF Types
  <1>4. Chained'
    <2>1. frames'[1].node = Document /\ frames'[1].base = << >>
      <3>1. CASE m = 1
        BY <3>1, <1>1 DEF Chained
      <3>2. CASE m > 1
        BY <3>2, <1>1, <1>2 DEF Chained
      <3> QED BY <3>1, <3>2, <1>2
    <2>2. ASSUME NEW i \in 1..m
          PROVE  frames'[i].next \in 1..(Len(doc.kids[frames'[i].node]) + 1)
      <3>1. CASE i = m
        BY <3>1
      <3>2. CASE i < m
        <4>1. i \in 1..Len(frames) /\ frames'[i] = frames[i]
          BY <3>2, <1>2
        <4> QED BY <4>1, <1>1 DEF Chained
      <3> QED BY <3>1, <3>2, <1>2
    <2>3. ASSUME NEW i \in 2..m
          PROVE  /\ frames'[i - 1].next > 1
                 /\ frames'[i].node = doc.kids[frames'[i - 1].node][frames'[i - 1].next - 1]
                 /\ KindOf(frames'[i].node) # "comment"
      <3>1. i \in 2..Len(frames) /\ frames'[i - 1] = frames[i - 1]
        BY <1>2
      <3>2. frames'[i].node = frames[i].node
        <4>1. CASE i = m
          BY <4>1
        <4>2. CASE i < m
          BY <4>2, <1>2
        <4> QED BY <4>1, <4>2, <1>2
      <3> QED BY <3>1, <3>2, <1>1 DEF Chained
    <2> QED BY <2>1, <2>2, <2>3, <1>2 DEF Chained, KindOf
  <1>5. ASSUME WellSpaced, OperandFlags PROVE OperandFlags'
    <2> SUFFICES ASSUME NEW i \in 1..m, KindOf(frames'[i].node) \in Member
                 PROVE  Flags(frames'[i], Seen(i)')
      BY SameFlags DEF OperandFlags, KindOf
    <2> Seen(i)' = IF i = m THEN frames'[i].next ELSE frames'[i].next - 1
      BY DEF Seen
    <2>1. CASE i = m
      BY <2>1, <1>5
    <2>2. CASE i < m
      <3>1. i \in 1..Len(frames) /\ i # Len(frames) /\ i # m /\ frames'[i] = frames[i]
        BY <2>2, <1>2
      <3> QED BY <3>1, <1>5 DEF OperandFlags, Seen
    <2>3. i = m \/ i < m
      BY <1>2
    <2> QED BY <2>1, <2>2, <2>3
  <1>6. ASSUME WellSpaced, Stacks PROVE Stacks'
    <2> SUFFICES ASSUME NEW i \in 1..m
                 PROVE  (IF i = m THEN scopes' ELSE frames'[i + 1].base)
                          = frames'[i].base \o Pushed(frames'[i])
      <3>1. frames' # << >>
        BY <1>2
      <3> QED BY <3>1 DEF Stacks, Above, Pushed, KindOf
    <2>1. CASE i = m
      BY <2>1, <1>6
    <2>2. CASE i < m
      <3>1. i \in 1..Len(frames) /\ i # Len(frames) /\ i # m /\ frames'[i] = frames[i]
        BY <2>2, <1>2
      <3>2. frames'[i + 1].base = frames[i + 1].base
        <4>1. CASE i + 1 = m
          BY <4>1
        <4>2. CASE i + 1 < m
          BY <4>2, <1>2
        <4> QED BY <2>2, <4>1, <4>2, <1>2
      <3>3. Above(i) = frames[i].base \o Pushed(frames[i])
        BY <3>1, <1>6 DEF Stacks
      <3> QED BY <3>1, <3>2, <3>3 DEF Above
    <2>3. i = m \/ i < m
      BY <1>2
    <2> QED BY <2>1, <2>2, <2>3
  <1>7. WellSpaced' => WellSpaced
    BY SameDocument
  <1> QED BY <1>3, <1>4, <1>5, <1>6, <1>7 DEF IInv

\* A comment is passed over.
LEMMA SkipCommentIInv ==
  ASSUME IInv, SkipComment
  PROVE  IInv'
  <1> DEFINE n == Len(frames)
             f == [frames[n] EXCEPT !.next = @ + 1]
  <1>1. Types /\ Chained /\ frames # << >> /\ doc' = doc /\ doc \in Docs /\ scopes' = scopes
    BY DEF IInv, SkipComment, MoreChildren, Types
  <1>2. n \in 1..Len(frames) /\ frames[n] \in Frame /\ Top = frames[n] /\ frames[n].node \in Node
    BY <1>1, TopFacts
  <1>3. frames \in Seq(Frame) /\ scopes \in Seq(Node)
    BY <1>1 DEF Types
  <1>4. frames[n].next \in 1..Len(doc.kids[frames[n].node])
           /\ Len(doc.kids[frames[n].node]) \in Nat
    BY <1>1, <1>2, TopFacts DEF SkipComment, MoreChildren, Chained
  <1>5. f \in Frame /\ f.next = frames[n].next + 1 /\ f.node = frames[n].node
           /\ f.base = frames[n].base /\ f.lhs = frames[n].lhs /\ f.rhs = frames[n].rhs
           /\ f.pushed = frames[n].pushed
    <2>1. frames[n] \in Frame
      BY <1>2
    <2> QED BY <2>1 DEF Frame
  <1>6. KidKind(f.node, frames[n].next) = "comment"
    BY <1>2, <1>5 DEF SkipComment, Child, KidKind
  <1>7. frames' = [frames EXCEPT ![n] = f]
    BY DEF SkipComment
  <1> HIDE DEF f
  <1>8. /\ frames' \in Seq(Frame) /\ Len(frames') = n
        /\ \A i \in 1..n : frames'[i] = IF i = n THEN f ELSE frames[i]
    BY <1>2, <1>3, <1>5, <1>7, ExceptSeq
  <1>9. ASSUME WellSpaced, KindOf(f.node) \in Member PROVE Flags(f, f.next)
    <2>1. Flags(frames[n], frames[n].next)
      BY <1>2, <1>5, <1>9 DEF IInv, OperandFlags, Seen
    <2>2. Flags(f, frames[n].next)
      BY <2>1, <1>5 DEF Flags
    <2>3. "comment" \notin Expression
      BY OtherKinds DEF Located
    <2> QED BY <2>2, <2>3, <1>4, <1>5, <1>6 DEF Flags
  <1>10. ASSUME WellSpaced PROVE scopes' = f.base \o Pushed(f)
    <2>1. Pushed(f) = Pushed(frames[n])
      BY <1>5 DEF Pushed
    <2>2. Above(n) = scopes /\ Above(n) = frames[n].base \o Pushed(frames[n])
      BY <1>2, <1>10 DEF IInv, Stacks, Above
    <2> QED BY <2>1, <2>2, <1>1, <1>5
  <1>11. f.next \in 1..(Len(doc.kids[f.node]) + 1)
    BY SMTT(30), <1>4, <1>5
  <1>12. frames'[n] = f /\ \A i \in 1..(n - 1) : frames'[i] = frames[i]
    BY <1>2, <1>8
  <1> QED BY <1>1, <1>2, <1>3, <1>5, <1>8, <1>9, <1>10, <1>11, <1>12, Resumed

\* A PreprocessingInfo element is passed over by all but a member access that
\* waits for its second operand, which cannot be in a document with no gaps.
LEMMA VisitInfoIInv ==
  ASSUME IInv, VisitInfo
  PROVE  IInv'
  <1> DEFINE n == Len(frames)
             e == frames[n]
             g == Taken(e, "info")
             f == [g EXCEPT !.next = @ + 1]
  <1>1. Types /\ Chained /\ frames # << >> /\ doc' = doc /\ doc \in Docs
    BY DEF IInv, VisitInfo, MoreChildren, Types
  <1>2. n \in 1..Len(frames) /\ e \in Frame /\ Top = e /\ e.node \in Node /\ e.base \in Seq(Node)
    BY <1>1, TopFacts
  <1>3. frames \in Seq(Frame) /\ scopes \in Seq(Node)
    BY <1>1 DEF Types
  <1>4. e.next \in 1..Len(doc.kids[e.node]) /\ Len(doc.kids[e.node]) \in Nat
    BY SMTT(30), <1>1, <1>2, TopFacts DEF VisitInfo, MoreChildren, Chained
  <1>5. KidKind(e.node, e.next) = "info"
    BY <1>2 DEF VisitInfo, Child, KidKind
  <1>6. frames' = [frames EXCEPT ![n] = f] /\ scopes' = ScopesAfter(e, "info", scopes)
    <2>1. frames' = [frames EXCEPT ![n] = f]
      BY <1>2 DEF VisitInfo
    <2>2. scopes' = ScopesAfter(e, "info", scopes)
      BY <1>2 DEF VisitInfo
    <2> QED BY <2>1, <2>2
  <1> HIDE DEF e
  <1>7. g \in Frame /\ g.node = e.node /\ g.next = e.next /\ g.base = e.base
    BY <1>2, TakenType
  <1> HIDE DEF g
  <1>8. f \in Frame /\ f.next = e.next + 1 /\ f.node = e.node /\ f.base = e.base
           /\ f.lhs = g.lhs /\ f.rhs = g.rhs /\ f.pushed = g.pushed
    BY SMTT(30), <1>7 DEF Frame
  <1> HIDE DEF f
  <1>9. /\ frames' \in Seq(Frame) /\ Len(frames') = n
        /\ \A i \in 1..n : frames'[i] = IF i = n THEN f ELSE frames[i]
    BY <1>2, <1>3, <1>6, <1>8, ExceptSeq
  <1>10. scopes' \in Seq(Node)
    BY <1>2, <1>3, <1>6 DEF ScopesAfter, pushScopeStack, popScopeStack
  <1>11. ASSUME WellSpaced, KindOf(e.node) \in Member PROVE Flags(e, e.next)
    BY <1>2, <1>11 DEF IInv, OperandFlags, Seen, e
  <1>12. ASSUME WellSpaced, KindOf(f.node) \in Member PROVE Flags(f, f.next)
    <2>1. Flags(g, e.next + 1)
      BY <1>1, <1>2, <1>4, <1>5, <1>8, <1>11, <1>12, TakenFlags DEF g
    <2> QED BY <2>1, <1>7, <1>8 DEF Flags
  <1>13. ASSUME WellSpaced PROVE scopes' = f.base \o Pushed(f)
    <2>1. Pushed(f) = Pushed(g)
      BY <1>7, <1>8 DEF Pushed
    <2>2. Above(n) = scopes /\ Above(n) = frames[n].base \o Pushed(frames[n])
      BY <1>2, <1>13 DEF IInv, Stacks, Above
    <2>3. scopes = e.base \o Pushed(e)
      BY <2>2 DEF e
    <2>4. CASE KindOf(e.node) \in Member
      <3>1. ScopesAfter(e, "info", e.base \o Pushed(e)) = e.base \o Pushed(g)
        BY <1>1, <1>2, <1>4, <1>5, <1>11, <1>13, <2>4, TakenScopes DEF g
      <3> QED BY <2>1, <2>3, <3>1, <1>6, <1>8
    <2>5. CASE KindOf(e.node) \notin Member
      <3>1. Pushed(g) = Pushed(e) /\ ScopesAfter(e, "info", scopes) = scopes
        BY <1>2, <2>5, TakenOther DEF g
      <3> QED BY <2>1, <2>3, <3>1, <1>6, <1>8
    <2> QED BY <2>4, <2>5
  <1>14. f.next \in 1..(Len(doc.kids[f.node]) + 1)
    BY <1>4, <1>8
  <1>15. frames'[n] = f /\ \A i \in 1..(n - 1) : frames'[i] = frames[i]
    BY <1>2, <1>9
  <1>16. f.node = frames[n].node /\ f.base = frames[n].base
    BY <1>8 DEF e
  <1> QED BY <1>1, <1>2, <1>8, <1>9, <1>10, <1>12, <1>13, <1>14, <1>15, <1>16, Resumed

\* An activation ends: what it pushed is popped, and its caller takes its node.
LEMMA ReturnIInv ==
  ASSUME IInv, Return
  PROVE  IInv'
  <1> DEFINE n == Len(frames)
             m == n - 1
             e == frames[m]
             t == frames[n]
             k == KindOf(t.node)
             f == Taken(e, k)
             left == IF k \in Scope THEN popScopeStack(scopes) ELSE scopes
  <1>1. Types /\ Chained /\ frames # << >> /\ doc' = doc /\ doc \in Docs /\ Top.node # Document
    BY DEF IInv, Return, NoMoreChildren, Types
  <1>2. /\ n \in Nat /\ n = Len(frames) /\ m \in Nat \ {0} /\ n = m + 1
        /\ n \in 2..Len(frames) /\ n \in 1..Len(frames)
        /\ m \in 1..Len(frames) /\ m # Len(frames)
    BY <1>1, TopFacts
  <1>3. Top = t /\ t \in Frame /\ t.node \in Node /\ t.base \in Seq(Node)
           /\ e \in Frame /\ e.node \in Node /\ e.base \in Seq(Node)
    <2>1. /\ \A i \in 1..n : frames[i] \in Frame
          /\ \A i \in 1..n : frames[i].node \in Node /\ frames[i].base \in Seq(Node)
      BY <1>1, TopFacts
    <2> QED BY <1>2, <2>1 DEF Top
  <1>4. frames \in Seq(Frame) /\ scopes \in Seq(Node)
    BY <1>1 DEF Types
  <1> HIDE DEF n, m
  <1>5. /\ Below \in Seq(Frame) /\ Len(Below) = m
        /\ \A i \in 1..m : Below[i] = frames[i]
    <2>1. \A i \in 1..m : i \in 1..Len(frames) /\ frames[i] \in Frame
      <3>1. \A i \in 1..m : i \in 1..Len(frames)
        BY <1>2
      <3> QED BY <3>1, <1>4, ElementOfSeq
    <2>2. Below = SubSeq(frames, 1, m)
      BY <1>2 DEF Below
    <2>3. m \in Int /\ 1 <= m
      BY <1>2
    <2>4. /\ SubSeq(frames, 1, m) \in Seq(Frame)
          /\ Len(SubSeq(frames, 1, m)) = IF 1 <= m THEN m - 1 + 1 ELSE 0
          /\ \A i \in 1..(m - 1 + 1) : SubSeq(frames, 1, m)[i] = frames[1 + i - 1]
      BY <2>1, <2>3, SubSeqProperties
    <2> QED BY <2>2, <2>3, <2>4
  <1>6. Below[Len(Below)] = e
    BY <1>2, <1>5
  <1>7. frames' = [Below EXCEPT ![m] = f] /\ scopes' = ScopesAfter(e, k, left)
    BY <1>3, <1>5, <1>6 DEF Return
  <1>8. f \in Frame /\ f.node = e.node /\ f.next = e.next /\ f.base = e.base
    BY <1>3, TakenType
  <1>9. /\ e.next \in 1..(Len(doc.kids[e.node]) + 1) /\ e.next > 1
        /\ t.node = doc.kids[e.node][e.next - 1] /\ k # "comment"
    BY <1>1, <1>2 DEF Chained
  <1>10. Len(doc.kids[e.node]) \in Nat
    BY <1>1, <1>2, TopFacts
  <1> DEFINE s == e.next - 1
  <1>11. s \in 1..Len(doc.kids[e.node]) /\ k = KidKind(e.node, s) /\ e.next = s + 1
    BY SMTT(30), <1>9, <1>10 DEF KidKind
  <1>12. ASSUME WellSpaced PROVE left = e.base \o Pushed(e)
    <2>1. Stacks
      BY <1>12 DEF IInv
    <2>2. Above(m) = e.base \o Pushed(e) /\ Above(n) = t.base \o Pushed(t)
      BY <1>2, <2>1 DEF Stacks
    <2>3. Above(m) = t.base /\ Above(n) = scopes
      BY <1>2 DEF Above
    <2>4. CASE k \in Scope
      <3>1. Pushed(t) = <<t.node>>
        BY <2>4 DEF Pushed
      <3>2. popScopeStack(t.base \o <<t.node>>) = t.base
        BY <1>3, PopPush
      <3> QED BY <2>2, <2>3, <2>4, <3>1, <3>2
    <2>5. CASE k \notin Scope
      <3>1. Pushed(t) = << >>
        <4>1. ~(k \in Member /\ t.pushed /\ ~t.rhs)
          <5> SUFFICES ASSUME k \in Member PROVE ~t.pushed \/ t.rhs
            OBVIOUS
          <5> QED BY <1>3 DEF Return, MissingChild, NeedsTwo
        <4> QED BY <2>5, <4>1 DEF Pushed
      <3>2. t.base \o << >> = t.base
        BY <1>3, ConcatEmptySeq
      <3> QED BY <2>2, <2>3, <2>5, <3>1, <3>2
    <2> QED BY <2>4, <2>5
  <1> HIDE DEF e, t, f, left, k, s
  <1>13. /\ frames' \in Seq(Frame) /\ Len(frames') = m
         /\ \A i \in 1..m : frames'[i] = IF i = m THEN f ELSE Below[i]
    <2>1. m \in 1..Len(Below)
      BY <1>2, <1>5
    <2> QED BY <2>1, <1>5, <1>7, <1>8, ExceptSeq
  <1>14. left \in Seq(Node)
    BY <1>4 DEF left, popScopeStack
  <1>15. scopes' \in Seq(Node)
    BY <1>3, <1>7, <1>14 DEF ScopesAfter, pushScopeStack, popScopeStack
  <1>16. ASSUME WellSpaced, KindOf(e.node) \in Member PROVE Flags(e, s)
    BY <1>2, <1>16 DEF IInv, OperandFlags, Seen, e, s
  <1>17. ASSUME WellSpaced, KindOf(f.node) \in Member PROVE Flags(f, f.next)
    <2>1. Flags(f, s + 1)
      BY <1>1, <1>3, <1>8, <1>9, <1>11, <1>16, <1>17, TakenFlags DEF f
    <2> QED BY <2>1, <1>8, <1>11
  <1>18. ASSUME WellSpaced PROVE scopes' = f.base \o Pushed(f)
    <2>1. CASE KindOf(e.node) \in Member
      <3>1. ScopesAfter(e, k, e.base \o Pushed(e)) = e.base \o Pushed(f)
        BY <1>1, <1>3, <1>9, <1>11, <1>16, <1>18, <2>1, TakenScopes DEF f
      <3> QED BY <1>7, <1>8, <1>12, <1>18, <3>1
    <2>2. CASE KindOf(e.node) \notin Member
      <3>1. Pushed(f) = Pushed(e) /\ ScopesAfter(e, k, left) = left
        BY <1>3, <2>2, TakenOther DEF f
      <3> QED BY <1>7, <1>8, <1>12, <1>18, <3>1
    <2> QED BY <2>1, <2>2
  <1>19. f.next \in 1..(Len(doc.kids[f.node]) + 1)
    BY <1>8, <1>9
  <1>20. frames'[m] = f /\ \A i \in 1..(m - 1) : frames'[i] = frames[i]
    BY <1>2, <1>5, <1>13
  <1>21. f.node = frames[m].node /\ f.base = frames[m].base
    BY <1>8 DEF e
  <1> QED BY <1>1, <1>2, <1>8, <1>13, <1>15, <1>17, <1>18, <1>19, <1>20, <1>21, Resumed

\* visit() of the document node returns: nothing is left.
LEMMA FinishIInv ==
  ASSUME IInv, Finish
  PROVE  IInv'
  <1>1. Types /\ Chained /\ doc \in Docs /\ frames # << >> /\ Top.node = Document
    BY DEF IInv, Types, Finish, NoMoreChildren
  <1>2. doc' = doc /\ frames' = << >> /\ scopes' = scopes
    BY DEF Finish
  <1>3. Len(frames) = 1
    <2>1. Len(frames) \in Nat \ {0}
      BY <1>1, TopFacts
    <2>2. Len(frames) > 0
      BY <2>1
    <2>3. ~(Len(frames) > 1)
      BY <1>1, TopFacts
    <2>4. Len(frames) \in Nat
      BY <2>1
    <2> QED BY <2>2, <2>3, <2>4
  <1>4. ASSUME WellSpaced PROVE scopes = << >>
    <2>1. 1 \in 1..Len(frames) /\ Above(1) = scopes
      BY <1>3 DEF Above
    <2>2. scopes = frames[1].base \o Pushed(frames[1])
      BY <2>1, <1>4 DEF IInv, Stacks
    <2>3. frames[1].base = << >> /\ frames[1].node = Document
      BY <1>1 DEF Chained
    <2>4. Pushed(frames[1]) = << >>
      BY <1>1, <2>3, DocumentKind, OtherKinds DEF Pushed
    <2> QED BY <2>2, <2>3, <2>4, EmptySeq, ConcatEmptySeq
  <1>5. Len(frames') = 0 /\ frames' \in Seq(Frame)
    BY <1>2
  <1>6. WellSpaced' => WellSpaced
    BY <1>2, SameDocument
  <1>7. Types' /\ Chained'
    BY <1>1, <1>2, <1>5 DEF Types, Chained
  <1>8. OperandFlags'
    BY <1>5 DEF OperandFlags
  <1>9. WellSpaced => Stacks'
    BY <1>2, <1>4, <1>5 DEF Stacks
  <1> QED BY <1>6, <1>7, <1>8, <1>9 DEF IInv

\* Steps that change neither the activations nor the scope stack.
LEMMA StutterIInv ==
  ASSUME IInv, UNCHANGED <<doc, frames, scopes>>
  PROVE  IInv'
  <1>1. doc' = doc /\ frames' = frames /\ scopes' = scopes
    OBVIOUS
  <1>2. Types' /\ Chained'
    BY <1>1 DEF IInv, Types, Chained, KindOf
  <1>3. OperandFlags => OperandFlags'
    <2>1. SUFFICES ASSUME OperandFlags, NEW i \in 1..Len(frames),
                          KindOf(frames[i].node) \in Member
                   PROVE  Flags(frames[i], Seen(i))'
      BY <1>1 DEF OperandFlags, KindOf
    <2>2. frames'[i] = frames[i] /\ Seen(i)' = Seen(i)
      BY <1>1 DEF Seen
    <2>3. Flags(frames[i], Seen(i))
      BY <2>1 DEF OperandFlags
    <2> QED BY <1>1, <2>2, <2>3, SameFlags
  <1>4. Stacks => Stacks'
    BY <1>1 DEF Stacks, Above, Pushed, KindOf
  <1>5. WellSpaced' => WellSpaced
    BY <1>1, SameDocument
  <1> QED BY <1>2, <1>3, <1>4, <1>5 DEF IInv

\* Every step keeps the invariant.
LEMMA NextIInv == IInv /\ [Next]_vars => IInv'
  <1> SUFFICES ASSUME IInv, [Next]_vars PROVE IInv'
    OBVIOUS
  <1>1. CASE VisitChild
    BY <1>1, VisitChildIInv
  <1>2. CASE UnknownNode
    BY <1>2, StutterIInv DEF UnknownNode, Abort
  <1>3. CASE SkipComment
    BY <1>3, SkipCommentIInv
  <1>4. CASE VisitInfo
    BY <1>4, VisitInfoIInv
  <1>5. CASE FatalReturn \/ Refuse
    BY <1>5, StutterIInv DEF FatalReturn, Refuse, Abort
  <1>6. CASE Return
    BY <1>6, ReturnIInv
  <1>7. CASE Finish
    BY <1>7, FinishIInv
  <1>8. CASE Done \/ UNCHANGED vars
    BY <1>8, StutterIInv DEF Done, vars
  <1> QED BY <1>1, <1>2, <1>3, <1>4, <1>5, <1>6, <1>7, <1>8 DEF Next

\* The invariant holds in every behaviour.
LEMMA Invariance == Spec => []IInv
  BY InitIInv, NextIInv, PTL DEF Spec

\* The scope stack is what the running visitSgXxx functions pushed, each its
\* own on top of its caller's, however deep the document and however many
\* member accesses are nested in it: visit() leaves it as it found it.
THEOREM ReaderBalanced == Spec => []Balanced
  <1>1. IInv => Balanced
    BY DEF IInv, Stacks, Above, Balanced
  <1> QED BY <1>1, Invariance, PTL

-----------------------------------------------------------------------------
(* Nothing is lost, and the verdict is right.                              *)
(*                                                                         *)
(* The nodes of a running reader are in three parts: those it has read,    *)
(* those it is reading (the activations), and those to come.  A child of   *)
(* one that was read was read too, a child of one to come is to come, and  *)
(* an activation has read its children up to the present one.              *)

\* The first operand, if it comes before s, is an object whose class is entered.
Enters(n, s) ==
  \E i \in 1..(s - 1) : /\ KidKind(n, i) \in ClassTyped
                        /\ \A h \in 1..(i - 1) : KidKind(n, h) \notin Expression

\* What the pointers and the flag say of the children before s, in any document.
OperandsSeen(f, s) ==
  /\ f.lhs <=> \E h \in 1..(s - 1) : KidKind(f.node, h) \in First(KindOf(f.node))
  /\ f.rhs <=> \E h, i \in 1..(s - 1) : /\ h < i /\ KidKind(f.node, h) \in First(KindOf(f.node))
                                       /\ KidKind(f.node, i) \in Second(KindOf(f.node))
  /\ f.pushed <=> KindOf(f.node) \in Member /\ Enters(f.node, s)

FlagsKnown ==
  \A i \in 1..Len(frames) : KindOf(frames[i].node) \in NeedsTwo => OperandsSeen(frames[i], Seen(i))

Resolved(n) == KindOf(n) # "unknown" /\ (KindOf(n) \in Ref => resolved[n] # {})

Read(n) ==
  /\ Resolved(n)
  /\ n \notin doc.refused
  /\ KindOf(n) \in NeedsTwo => TwoChildren(n)
  /\ attached[n] = IF KindOf(n) \in Located THEN <<Infos(n)>> ELSE <<>>

Progress(old, new) ==
  /\ old \cap new = {}
  /\ \A i \in 1..Len(frames) : frames[i].node \notin old \cup new
  /\ \A i, j \in 1..Len(frames) : frames[i].node = frames[j].node => i = j
  /\ \A n \in old : Read(n) /\ \A h \in 1..Len(doc.kids[n]) : doc.kids[n][h] \in old
  /\ \A n \in new : attached[n] = <<>> /\ \A h \in 1..Len(doc.kids[n]) : doc.kids[n][h] \in new
  /\ \A i \in 1..Len(frames) : \A h \in 1..Len(doc.kids[frames[i].node]) :
       /\ h < Seen(i) => doc.kids[frames[i].node][h] \in old
       /\ h >= frames[i].next => doc.kids[frames[i].node][h] \in new
  /\ \A i \in 1..Len(frames) : Resolved(frames[i].node) /\ attached[frames[i].node] = <<>>

RootKinds ==
  frames # << >> =>
    \A h \in 1..Len(doc.kids[Document]) : h < Seen(1) => KidKind(Document, h) \in {"file", "type"}

RInv ==
  /\ DOMAIN attached = Node /\ DOMAIN resolved = Node
  /\ Running => \E old, new \in SUBSET Node : Progress(old, new)
  /\ FlagsKnown /\ RootKinds
  /\ NothingLost /\ Verdict

\* A child is the child of one node, at one place.
LEMMA OnePlace ==
  ASSUME doc \in Docs, NEW m \in Node, NEW n \in Node,
         NEW i \in 1..Len(doc.kids[m]), NEW j \in 1..Len(doc.kids[n]),
         doc.kids[m][i] = doc.kids[n][j]
  PROVE  m = n /\ i = j
  <1>1. IsTree(doc.kids)
    BY TreeAssumption
  <1> QED BY <1>1 DEF IsTree

\* Nothing is below a comment or a PreprocessingInfo element.
LEMMA NothingBelow ==
  ASSUME doc \in Docs, NEW n \in Node, KindOf(n) \in {"comment", "info"}
  PROVE  Len(doc.kids[n]) = 0
  BY TreeAssumption DEF KindOf

\* How far an activation has come depends on its place and its counter.
LEMMA SeenFacts ==
  ASSUME NEW i
  PROVE  /\ i = Len(frames') => Seen(i)' = frames'[i].next
         /\ i # Len(frames') => Seen(i)' = frames'[i].next - 1
         /\ i = Len(frames) => Seen(i) = frames[i].next
         /\ i # Len(frames) => Seen(i) = frames[i].next - 1
  BY DEF Seen

LEMMA SeenKept ==
  ASSUME NEW i, i # Len(frames), i # Len(frames'), frames'[i] = frames[i]
  PROVE  Seen(i)' = Seen(i)
  BY SeenFacts

\* What VisitChild does to the activations.
LEMMA VisitChildFacts ==
  ASSUME Types, Chained, VisitChild, NEW n, n = Len(frames)
  PROVE  /\ n \in Nat \ {0} /\ n \in 1..Len(frames) /\ Top = frames[n] /\ doc \in Docs
         /\ doc' = doc
         /\ frames[n].node \in Node /\ frames[n].next \in 1..Len(doc.kids[frames[n].node])
         /\ Child = doc.kids[frames[n].node][frames[n].next] /\ Child \in Node
         /\ Len(frames') = n + 1
         /\ frames'[n + 1].node = Child /\ frames'[n + 1].next = 1
         /\ ~frames'[n + 1].lhs /\ ~frames'[n + 1].rhs /\ ~frames'[n + 1].pushed
         /\ frames'[n + 1].base = scopes
         /\ frames'[n].node = frames[n].node /\ frames'[n].next = frames[n].next + 1
         /\ frames'[n].lhs = frames[n].lhs /\ frames'[n].rhs = frames[n].rhs
         /\ frames'[n].pushed = frames[n].pushed /\ frames'[n].base = frames[n].base
         /\ \A i \in 1..(n - 1) : i \in 1..Len(frames) /\ frames'[i] = frames[i]
  <1> DEFINE c == Child
             f == [frames[n] EXCEPT !.next = @ + 1]
             g == Call(c, scopes)
  <1>1. frames # << >> /\ doc' = doc /\ doc \in Docs
    BY DEF VisitChild, MoreChildren, Types
  <1>2. /\ n \in Nat \ {0} /\ frames[n] \in Frame /\ Top = frames[n]
        /\ frames \in Seq(Frame) /\ scopes \in Seq(Node)
    BY <1>1, TopFacts DEF Types
  <1>3. frames[n].next \in 1..Len(doc.kids[frames[n].node]) /\ frames[n].node \in Node
    BY <1>1, <1>2, TopFacts DEF VisitChild, MoreChildren, Chained
  <1>4. c = doc.kids[frames[n].node][frames[n].next] /\ c \in Node
    BY <1>1, <1>2, <1>3, KidType DEF Child
  <1>5. f \in Frame /\ f.next = frames[n].next + 1 /\ f.node = frames[n].node
           /\ f.base = frames[n].base /\ f.lhs = frames[n].lhs /\ f.rhs = frames[n].rhs
           /\ f.pushed = frames[n].pushed
    <2>1. frames[n] \in Frame
      BY <1>2
    <2> QED BY <2>1 DEF Frame
  <1>6. g \in Frame /\ g.next = 1 /\ g.node = c /\ g.base = scopes
           /\ ~g.lhs /\ ~g.rhs /\ ~g.pushed
    BY <1>2, <1>4 DEF Call, Frame
  <1>7. frames' = Append([frames EXCEPT ![n] = f], g)
    BY <1>2 DEF VisitChild
  <1> HIDE DEF f, g, c
  <1> DEFINE s == [frames EXCEPT ![n] = f]
  <1>8. /\ s \in Seq(Frame) /\ Len(s) = n
        /\ \A i \in 1..n : s[i] = IF i = n THEN f ELSE frames[i]
    BY <1>2, <1>5, ExceptSeq
  <1> HIDE DEF s
  <1>9. /\ Append(s, g) \in Seq(Frame) /\ Len(Append(s, g)) = n + 1
        /\ \A i \in 1..n : Append(s, g)[i] = s[i]
        /\ Append(s, g)[n + 1] = g
    BY <1>6, <1>8, AppendProperties
  <1>10. frames' = Append(s, g)
    BY <1>7 DEF s
  <1>11. /\ Len(frames') = n + 1 /\ frames'[n + 1] = g /\ frames'[n] = f
         /\ \A i \in 1..(n - 1) : i \in 1..Len(frames) /\ frames'[i] = frames[i]
    BY <1>2, <1>8, <1>9, <1>10
  <1>12. c = Child
    BY DEF c
  <1> QED BY <1>1, <1>2, <1>3, <1>4, <1>5, <1>6, <1>11, <1>12

\* What SkipComment and VisitInfo do to them: the innermost activation goes on.
LEMMA PassedFacts ==
  ASSUME Types, Chained, SkipComment \/ VisitInfo, NEW n, n = Len(frames)
  PROVE  /\ n \in Nat \ {0} /\ n \in 1..Len(frames) /\ Top = frames[n] /\ doc \in Docs
         /\ doc' = doc /\ frames[n] \in Frame
         /\ frames[n].node \in Node /\ frames[n].next \in 1..Len(doc.kids[frames[n].node])
         /\ Child = doc.kids[frames[n].node][frames[n].next] /\ Child \in Node
         /\ KindOf(Child) \in {"comment", "info"} /\ frames[n].node # Document
         /\ Len(frames') = n
         /\ frames'[n].node = frames[n].node /\ frames'[n].next = frames[n].next + 1
         /\ frames'[n].base = frames[n].base
         /\ \/ /\ frames'[n].lhs = frames[n].lhs /\ frames'[n].rhs = frames[n].rhs
               /\ frames'[n].pushed = frames[n].pushed /\ KindOf(Child) = "comment"
            \/ /\ frames'[n].lhs = Taken(frames[n], KindOf(Child)).lhs
               /\ frames'[n].rhs = Taken(frames[n], KindOf(Child)).rhs
               /\ frames'[n].pushed = Taken(frames[n], KindOf(Child)).pushed
         /\ \A i \in 1..(n - 1) : i \in 1..Len(frames) /\ frames'[i] = frames[i]
         /\ UNCHANGED <<resolved, attached, phase>> /\ Running
  <1> DEFINE e == IF KindOf(Child) = "comment" THEN frames[n] ELSE Taken(frames[n], KindOf(Child))
             f == [e EXCEPT !.next = @ + 1]
  <1>1. frames # << >> /\ doc' = doc /\ doc \in Docs /\ Top.node # Document
           /\ KindOf(Child) \in {"comment", "info"} /\ UNCHANGED <<resolved, attached, phase>>
           /\ Running /\ Top.next <= Len(doc.kids[Top.node])
    BY DEF SkipComment, VisitInfo, MoreChildren, Types
  <1>2. /\ n \in Nat \ {0} /\ frames[n] \in Frame /\ Top = frames[n]
        /\ frames \in Seq(Frame)
    BY <1>1, TopFacts DEF Types
  <1>3. frames[n].next \in 1..Len(doc.kids[frames[n].node]) /\ frames[n].node \in Node
    BY <1>1, <1>2, TopFacts DEF Chained
  <1>4. Child = doc.kids[frames[n].node][frames[n].next] /\ Child \in Node
    BY <1>1, <1>2, <1>3, KidType DEF Child
  <1>5. e \in Frame /\ e.node = frames[n].node /\ e.next = frames[n].next /\ e.base = frames[n].base
    BY <1>2, TakenType
  <1>6. frames' = [frames EXCEPT ![n] = f]
    <2>1. CASE SkipComment
      <3>1. KindOf(Child) = "comment"
        BY <2>1 DEF SkipComment
      <3>2. frames' = [frames EXCEPT ![n] = [frames[n] EXCEPT !.next = @ + 1]]
        BY <2>1 DEF SkipComment
      <3> QED BY <3>1, <3>2
    <2>2. CASE VisitInfo
      <3>1. KindOf(Child) = "info"
        BY <2>2 DEF VisitInfo
      <3>2. frames' = [frames EXCEPT ![n] = [Taken(frames[n], "info") EXCEPT !.next = @ + 1]]
        BY <2>2, <1>2 DEF VisitInfo
      <3> QED BY <3>1, <3>2
    <2> QED BY <2>1, <2>2
  <1>7. /\ e = frames[n] /\ KindOf(Child) = "comment"
        \/ e = Taken(frames[n], KindOf(Child))
    OBVIOUS
  <1> HIDE DEF e
  <1>8. f \in Frame /\ f.next = e.next + 1 /\ f.node = e.node /\ f.base = e.base
           /\ f.lhs = e.lhs /\ f.rhs = e.rhs /\ f.pushed = e.pushed
    BY <1>5 DEF Frame
  <1> HIDE DEF f
  <1>9. /\ Len(frames') = n
        /\ \A i \in 1..n : frames'[i] = IF i = n THEN f ELSE frames[i]
    BY <1>2, <1>6, <1>8, ExceptSeq
  <1>10. frames'[n] = f /\ \A i \in 1..(n - 1) : i \in 1..Len(frames) /\ frames'[i] = frames[i]
    BY <1>2, <1>9
  <1>11. \/ /\ frames'[n].lhs = frames[n].lhs /\ frames'[n].rhs = frames[n].rhs
            /\ frames'[n].pushed = frames[n].pushed /\ KindOf(Child) = "comment"
         \/ /\ frames'[n].lhs = Taken(frames[n], KindOf(Child)).lhs
            /\ frames'[n].rhs = Taken(frames[n], KindOf(Child)).rhs
            /\ frames'[n].pushed = Taken(frames[n], KindOf(Child)).pushed
    BY Zenon, <1>7, <1>8, <1>10
  <1>12. /\ frames'[n].node = frames[n].node /\ frames'[n].next = frames[n].next + 1
         /\ frames'[n].base = frames[n].base
    BY <1>5, <1>8, <1>10
  <1>13. /\ n \in Nat \ {0} /\ n \in 1..Len(frames) /\ Top = frames[n] /\ frames[n] \in Frame
         /\ frames[n].node # Document /\ Len(frames') = n
    BY <1>1, <1>2, <1>9
  <1> QED BY Zenon, <1>1, <1>3, <1>4, <1>10, <1>11, <1>12, <1>13

\* What Return does to them: the caller takes the result and goes on.
LEMMA ReturnFacts ==
  ASSUME Types, Chained, Return, NEW n, n = Len(frames)
  PROVE  /\ n \in Nat /\ n > 1 /\ n \in 1..Len(frames) /\ n - 1 \in 1..Len(frames)
         /\ Top = frames[n] /\ doc \in Docs /\ doc' = doc
         /\ frames[n] \in Frame /\ frames[n - 1] \in Frame
         /\ frames[n].node \in Node /\ frames[n].node # Document /\ frames[n - 1].node \in Node
         /\ frames[n].next = Len(doc.kids[frames[n].node]) + 1
         /\ frames[n - 1].next - 1 \in 1..Len(doc.kids[frames[n - 1].node])
         /\ frames[n].node = doc.kids[frames[n - 1].node][frames[n - 1].next - 1]
         /\ Len(frames') = n - 1
         /\ frames'[n - 1].node = frames[n - 1].node /\ frames'[n - 1].next = frames[n - 1].next
         /\ frames'[n - 1] = Taken(frames[n - 1], KindOf(frames[n].node))
         /\ \A i \in 1..(n - 2) : i \in 1..Len(frames) /\ frames'[i] = frames[i]
         /\ attached' = checkPreprocInfo(frames[n].node) /\ UNCHANGED <<resolved, phase>>
         /\ ~MissingChild /\ ~NoParent /\ Running
  <1> DEFINE m == n - 1
             e == frames[m]
             t == frames[n]
             f == Taken(e, KindOf(t.node))
  <1>1. /\ frames # << >> /\ doc' = doc /\ doc \in Docs /\ Top.node # Document /\ Running
        /\ Top.next > Len(doc.kids[Top.node]) /\ ~MissingChild /\ ~NoParent
        /\ attached' = checkPreprocInfo(Top.node) /\ UNCHANGED <<resolved, phase>>
    BY DEF Return, NoMoreChildren, Types
  <1>2. /\ n \in Nat /\ n > 1 /\ m \in Nat \ {0} /\ n = m + 1
        /\ n \in 2..Len(frames) /\ n \in 1..Len(frames) /\ m \in 1..Len(frames)
    BY <1>1, TopFacts
  <1>3. /\ Top = t /\ t \in Frame /\ t.node \in Node /\ e \in Frame /\ e.node \in Node
        /\ t.next \in Nat /\ Len(doc.kids[t.node]) \in Nat /\ Len(doc.kids[e.node]) \in Nat
    BY <1>1, <1>2, TopFacts
  <1>4. /\ t.next \in 1..(Len(doc.kids[t.node]) + 1)
        /\ e.next \in 1..(Len(doc.kids[e.node]) + 1) /\ e.next > 1
        /\ t.node = doc.kids[e.node][e.next - 1]
    BY <1>2 DEF Chained
  <1>5. t.next = Len(doc.kids[t.node]) + 1 /\ e.next - 1 \in 1..Len(doc.kids[e.node])
    <2> HIDE DEF t, e
    <2>1. t.next > Len(doc.kids[t.node])
      BY <1>1, <1>3
    <2> DEFINE l == Len(doc.kids[t.node])
    <2>2. t.next = l + 1
      <3>1. t.next \in 1..(l + 1) /\ l \in Nat /\ t.next > l
        BY <2>1, <1>3, <1>4
      <3> HIDE DEF l
      <3> QED BY <3>1
    <2>3. e.next - 1 \in 1..Len(doc.kids[e.node])
      BY SMTT(30), <1>3, <1>4
    <2> QED BY <2>2, <2>3
  <1>6. frames \in Seq(Frame)
    BY DEF Types
  <1> HIDE DEF m
  <1>7. /\ Below \in Seq(Frame) /\ Len(Below) = m
        /\ \A i \in 1..m : Below[i] = frames[i]
    <2>1. \A i \in 1..m : i \in 1..Len(frames) /\ frames[i] \in Frame
      <3>1. \A i \in 1..m : i \in 1..Len(frames)
        BY <1>2
      <3> QED BY <3>1, <1>6, ElementOfSeq
    <2>2. Below = SubSeq(frames, 1, m)
      BY <1>2 DEF Below, m
    <2>3. m \in Int /\ 1 <= m
      BY <1>2
    <2>4. /\ SubSeq(frames, 1, m) \in Seq(Frame)
          /\ Len(SubSeq(frames, 1, m)) = IF 1 <= m THEN m - 1 + 1 ELSE 0
          /\ \A i \in 1..(m - 1 + 1) : SubSeq(frames, 1, m)[i] = frames[1 + i - 1]
      BY <2>1, <2>3, SubSeqProperties
    <2> QED BY <2>2, <2>3, <2>4
  <1>8. Below[Len(Below)] = e
    BY <1>2, <1>7
  <1>9. frames' = [Below EXCEPT ![m] = f]
    BY <1>3, <1>7, <1>8 DEF Return
  <1>10. f \in Frame /\ f.node = e.node /\ f.next = e.next
    BY <1>3, TakenType
  <1>11. f = Taken(e, KindOf(t.node))
    OBVIOUS
  <1> HIDE DEF e, t, f
  <1>12. /\ Len(frames') = m
         /\ \A i \in 1..m : frames'[i] = IF i = m THEN f ELSE Below[i]
    <2>1. m \in 1..Len(Below)
      BY <1>2, <1>7
    <2> QED BY <2>1, <1>7, <1>9, <1>10, ExceptSeq
  <1>13. frames'[m] = f /\ \A i \in 1..(m - 1) : i \in 1..Len(frames) /\ frames'[i] = frames[i]
    BY <1>2, <1>7, <1>12
  <1>14. m = n - 1 /\ e = frames[m] /\ t = frames[n]
    BY DEF m, e, t
  <1>15. m - 1 = n - 2
    BY <1>2
  <1> QED BY <1>1, <1>2, <1>3, <1>5, <1>4, <1>10, <1>11, <1>12, <1>13, <1>14, <1>15

\* What the flags say depends on the flags and the node.
LEMMA SameSeen ==
  ASSUME NEW f, NEW g, NEW s,
         g.node = f.node, g.lhs = f.lhs, g.rhs = f.rhs, g.pushed = f.pushed
  PROVE  /\ OperandsSeen(f, s) <=> OperandsSeen(g, s)
         /\ KindOf(f.node) = KindOf(g.node)
  BY DEF OperandsSeen

LEMMA SeenPrimed ==
  ASSUME doc' = doc, NEW i
  PROVE  OperandsSeen(frames[i], Seen(i))' <=> OperandsSeen(frames'[i], Seen(i)')
  BY DEF OperandsSeen, Enters, KidKind, KindOf

\* What they say of the children up to s.
LEMMA SeenUpTo ==
  ASSUME NEW f, NEW s \in Nat,
         f.lhs <=> \E h \in 1..s : KidKind(f.node, h) \in First(KindOf(f.node)),
         f.rhs <=> \E h, i \in 1..s : /\ h < i /\ KidKind(f.node, h) \in First(KindOf(f.node))
                                        /\ KidKind(f.node, i) \in Second(KindOf(f.node)),
         f.pushed <=> KindOf(f.node) \in Member /\ Enters(f.node, s + 1)
  PROVE  OperandsSeen(f, s + 1)
  <1>1. s + 1 - 1 = s
    OBVIOUS
  <1> QED BY <1>1 DEF OperandsSeen

\* No loop takes a comment or a PreprocessingInfo element.
LEMMA NotTaken ==
  ASSUME NEW n, NEW k \in {"comment", "info"}
  PROVE  k \notin First(n) /\ k \notin Second(n) /\ k \notin ClassTyped
  <1>1. k \notin Expression /\ k \notin Statement /\ k \notin ClassTyped /\ k # "condition"
    BY DEF Expression, Ref, Member, ClassTyped, Statement, Scope
  <1>2. k \notin First(n)
    BY <1>1 DEF First
  <1>3. k \notin Second(n)
    BY <1>1 DEF Second
  <1> QED BY <1>1, <1>2, <1>3

\* Only the first operand can be the one whose class is entered.
LEMMA EntersKept ==
  ASSUME NEW n, NEW s \in Nat \ {0},
         \/ KidKind(n, s) \notin ClassTyped
         \/ \E j \in 1..(s - 1) : KidKind(n, j) \in Expression
  PROVE  Enters(n, s + 1) <=> Enters(n, s)
  <1>1. /\ 1..(s - 1) \subseteq 1..s /\ s + 1 - 1 = s
        /\ \A h \in 1..s : h = s \/ h \in 1..(s - 1)
    OBVIOUS
  <1>2. Enters(n, s) => Enters(n, s + 1)
    BY <1>1 DEF Enters
  <1>3. ASSUME Enters(n, s + 1) PROVE Enters(n, s)
    <2>1. PICK i \in 1..s : /\ KidKind(n, i) \in ClassTyped
                            /\ \A h \in 1..(i - 1) : KidKind(n, h) \notin Expression
      BY <1>1, <1>3 DEF Enters
    <2>2. i # s
      BY <2>1
    <2> QED BY <1>1, <2>1, <2>2 DEF Enters
  <1> QED BY <1>2, <1>3

\* It is entered if no other came before.
LEMMA EntersNow ==
  ASSUME NEW n, NEW s \in Nat \ {0}, \A h \in 1..(s - 1) : KidKind(n, h) \notin Expression
  PROVE  Enters(n, s + 1) <=> KidKind(n, s) \in ClassTyped
  <1>1. /\ s \in 1..s /\ s + 1 - 1 = s
        /\ \A h \in 1..s : h = s \/ h \in 1..(s - 1)
    OBVIOUS
  <1>2. \A h \in 1..(s - 1) : KidKind(n, h) \notin ClassTyped
    BY DEF Expression
  <1> QED BY <1>1, <1>2 DEF Enters

\* A child that no loop takes changes nothing.
LEMMA NoOperand ==
  ASSUME NEW f, NEW s \in Nat \ {0}, OperandsSeen(f, s),
         KidKind(f.node, s) \in {"comment", "info"}
  PROVE  OperandsSeen(f, s + 1)
  <1>1. \A h \in 1..s : h = s \/ h \in 1..(s - 1)
    OBVIOUS
  <1>2. 1..(s - 1) \subseteq 1..s /\ s + 1 - 1 = s /\ s \in 1..s
    OBVIOUS
  <1>3. /\ KidKind(f.node, s) \notin First(KindOf(f.node))
        /\ KidKind(f.node, s) \notin Second(KindOf(f.node))
        /\ KidKind(f.node, s) \notin ClassTyped
    BY NotTaken
  <1>4. f.pushed <=> KindOf(f.node) \in Member /\ Enters(f.node, s + 1)
    BY <1>3, EntersKept DEF OperandsSeen
  <1>5. f.lhs <=> \E h \in 1..s : KidKind(f.node, h) \in First(KindOf(f.node))
    BY <1>1, <1>2, <1>3 DEF OperandsSeen
  <1>6. f.rhs <=> \E h, i \in 1..s : /\ h < i /\ KidKind(f.node, h) \in First(KindOf(f.node))
                                     /\ KidKind(f.node, i) \in Second(KindOf(f.node))
    BY <1>1, <1>2, <1>3 DEF OperandsSeen
  <1> QED BY <1>4, <1>5, <1>6, SeenUpTo

\* The flags after a result was taken, in any document.
LEMMA TakenSeen ==
  ASSUME NEW f \in Frame, KindOf(f.node) \in NeedsTwo,
         NEW s \in Nat \ {0}, OperandsSeen(f, s)
  PROVE  OperandsSeen(Taken(f, KidKind(f.node, s)), s + 1)
  <1> DEFINE k == KidKind(f.node, s)
             g == Taken(f, k)
             A == First(KindOf(f.node))
             B == Second(KindOf(f.node))
             K(h) == KidKind(f.node, h)
  <1> SUFFICES OperandsSeen(g, s + 1)
    OBVIOUS
  <1>1. g.node = f.node
    BY TakenType
  <1>2. f.lhs \in BOOLEAN /\ f.rhs \in BOOLEAN /\ f.pushed \in BOOLEAN
    BY DEF Frame
  <1>3. \A h \in 1..s : h = s \/ h \in 1..(s - 1)
    OBVIOUS
  <1>4. 1..(s - 1) \subseteq 1..s /\ s + 1 - 1 = s /\ s \in 1..s /\ \A h \in 1..(s - 1) : h < s
    OBVIOUS
  <1>5. /\ f.lhs <=> \E h \in 1..(s - 1) : K(h) \in A
        /\ f.rhs <=> \E h, i \in 1..(s - 1) : h < i /\ K(h) \in A /\ K(i) \in B
        /\ f.pushed <=> KindOf(f.node) \in Member /\ Enters(f.node, s)
    BY DEF OperandsSeen
  <1>6. KindOf(f.node) \in Member => A = Expression
    BY MemberLoop
  <1>7. (Lhs(f, k) <=> ~f.lhs /\ k \in A) /\ (Rhs(f) <=> f.lhs /\ ~f.rhs)
    BY DEF Lhs, Rhs
  <1>8. k = K(s)
    OBVIOUS
  <1>9. CASE ~f.lhs /\ k \in A
    <2>1. g = [f EXCEPT !.lhs = TRUE, !.pushed = EntersClass(f, k)]
      BY <1>7, <1>9 DEF Taken
    <2>2. g.lhs /\ g.rhs = f.rhs /\ (g.pushed <=> EntersClass(f, k))
      BY <2>1 DEF Frame
    <2>3. g.pushed <=> KindOf(f.node) \in Member /\ k \in ClassTyped
      BY <2>2 DEF EntersClass
    <2> HIDE DEF g, k, A, B
    <2>4. \A h \in 1..(s - 1) : K(h) \notin A
      BY <1>5, <1>9
    <2>5. g.pushed <=> KindOf(f.node) \in Member /\ Enters(f.node, s + 1)
      <3>1. KindOf(f.node) \in Member => (Enters(f.node, s + 1) <=> K(s) \in ClassTyped)
        BY <1>6, <2>4, EntersNow
      <3> QED BY <1>8, <2>3, <3>1
    <2>6. g.lhs <=> \E h \in 1..s : K(h) \in A
      BY <1>4, <1>8, <1>9, <2>2
    <2>7. g.rhs <=> \E h, i \in 1..s : h < i /\ K(h) \in A /\ K(i) \in B
      <3>1. ~ \E h, i \in 1..s : h < i /\ K(h) \in A /\ K(i) \in B
        BY <2>4
      <3>2. ~f.rhs
        BY <1>5, <2>4
      <3> QED BY <3>1, <3>2, <2>2
    <2> QED BY <1>1, <2>5, <2>6, <2>7, SeenUpTo DEF A, B
  <1>10. CASE ~f.lhs /\ k \notin A
    <2>1. g = f
      BY <1>7, <1>10 DEF Taken
    <2> HIDE DEF g, k, A, B
    <2>2. \A h \in 1..s : K(h) \notin A
      BY <1>3, <1>5, <1>8, <1>10
    <2>3. f.lhs <=> \E h \in 1..s : K(h) \in A
      BY <1>10, <2>2
    <2>4. f.rhs <=> \E h, i \in 1..s : h < i /\ K(h) \in A /\ K(i) \in B
      <3>1. ~f.rhs
        BY <1>4, <1>5, <2>2
      <3> QED BY <2>2, <3>1
    <2>5. f.pushed <=> KindOf(f.node) \in Member /\ Enters(f.node, s + 1)
      <3>1. KindOf(f.node) \in Member => K(s) \notin ClassTyped
        BY <1>6, <1>8, <1>10 DEF Expression
      <3> QED BY <1>5, <3>1, EntersKept
    <2> QED BY <2>1, <2>3, <2>4, <2>5, SeenUpTo DEF A, B
  <1>11. CASE f.lhs
    <2>1. ~Lhs(f, k)
      BY <1>7, <1>11
    <2>2. g.lhs = f.lhs /\ g.pushed = f.pushed /\ (g.rhs <=> f.rhs \/ k \in B)
      <3>1. CASE f.rhs
        BY <3>1, <2>1, <1>7 DEF Taken
      <3>2. CASE ~f.rhs
        <4>1. g = [f EXCEPT !.rhs = (k \in B)]
          BY <3>2, <1>7, <1>11, <2>1 DEF Taken
        <4> QED BY <3>2, <4>1 DEF Frame
      <3> QED BY <3>1, <3>2
    <2> HIDE DEF g, k, A, B
    <2>3. PICK j \in 1..(s - 1) : K(j) \in A
      BY <1>5, <1>11
    <2>4. g.lhs <=> \E h \in 1..s : K(h) \in A
      BY <1>4, <1>11, <2>2, <2>3
    <2>5. (\E h, i \in 1..s : h < i /\ K(h) \in A /\ K(i) \in B)
             <=> \/ \E h, i \in 1..(s - 1) : h < i /\ K(h) \in A /\ K(i) \in B
                 \/ K(s) \in B
      <3>1. ASSUME NEW h \in 1..s, NEW i \in 1..s, h < i, K(h) \in A, K(i) \in B
            PROVE  \/ \E p, q \in 1..(s - 1) : p < q /\ K(p) \in A /\ K(q) \in B
                   \/ K(s) \in B
        BY <1>3, <3>1
      <3>2. K(s) \in B => \E h, i \in 1..s : h < i /\ K(h) \in A /\ K(i) \in B
        BY <1>4, <2>3
      <3> QED BY <1>4, <3>1, <3>2
    <2>6. g.rhs <=> \E h, i \in 1..s : h < i /\ K(h) \in A /\ K(i) \in B
      BY <1>5, <1>8, <2>2, <2>5
    <2>7. g.pushed <=> KindOf(f.node) \in Member /\ Enters(f.node, s + 1)
      <3>1. KindOf(f.node) \in Member => (Enters(f.node, s + 1) <=> Enters(f.node, s))
        BY <1>6, <2>3, EntersKept
      <3> QED BY <1>5, <2>2, <3>1
    <2> QED BY <1>1, <2>4, <2>6, <2>7, SeenUpTo DEF A, B
  <1> QED BY <1>2, <1>9, <1>10, <1>11

\* The flags are right in the next state if they are for the innermost
\* activation, the others having changed at most their counters.
LEMMA FlagsResumed ==
  ASSUME FlagsKnown, doc' = doc, NEW m \in 1..Len(frames), Len(frames) \in Nat,
         Len(frames') = m,
         \A i \in 1..(m - 1) : i \in 1..Len(frames) /\ frames'[i] = frames[i],
         KindOf(frames'[m].node) \in NeedsTwo => OperandsSeen(frames'[m], frames'[m].next)
  PROVE  FlagsKnown'
  <1> SUFFICES ASSUME NEW i \in 1..m, KindOf(frames'[i].node) \in NeedsTwo
               PROVE  OperandsSeen(frames'[i], Seen(i)')
    BY SeenPrimed DEF FlagsKnown, KindOf
  <1>1. CASE i = m
    <2>1. Seen(i)' = frames'[i].next
      BY <1>1, SeenFacts
    <2> QED BY <1>1, <2>1
  <1>2. CASE i # m
    <2>1. i \in 1..(m - 1) /\ i # Len(frames)
      BY <1>2
    <2>2. i \in 1..Len(frames) /\ frames'[i] = frames[i]
      BY <2>1
    <2>3. Seen(i)' = Seen(i)
      BY <1>2, <2>1, <2>2, SeenFacts
    <2>4. OperandsSeen(frames[i], Seen(i))
      BY <2>2 DEF FlagsKnown
    <2> QED BY <2>2, <2>3, <2>4
  <1> QED BY <1>1, <1>2

LEMMA FlagsVisitChild ==
  ASSUME Types, Chained, FlagsKnown, VisitChild
  PROVE  FlagsKnown'
  <1>1. PICK n : n = Len(frames)
    OBVIOUS
  <1>2. /\ n \in Nat \ {0} /\ n \in 1..Len(frames) /\ doc' = doc /\ Len(frames') = n + 1
        /\ frames[n].next \in Nat
        /\ frames'[n + 1].next = 1
        /\ ~frames'[n + 1].lhs /\ ~frames'[n + 1].rhs /\ ~frames'[n + 1].pushed
        /\ frames'[n].node = frames[n].node /\ frames'[n].next = frames[n].next + 1
        /\ frames'[n].lhs = frames[n].lhs /\ frames'[n].rhs = frames[n].rhs
        /\ frames'[n].pushed = frames[n].pushed
        /\ \A i \in 1..(n - 1) : i \in 1..Len(frames) /\ frames'[i] = frames[i]
    BY <1>1, VisitChildFacts
  <1> SUFFICES ASSUME NEW i \in 1..(n + 1), KindOf(frames'[i].node) \in NeedsTwo
               PROVE  OperandsSeen(frames'[i], Seen(i)')
    BY <1>2, SeenPrimed DEF FlagsKnown, KindOf
  <1>3. CASE i = n + 1
    <2>1. Seen(i)' = 1
      BY <1>2, <1>3, SeenFacts
    <2>2. ~Enters(frames'[i].node, 1)
      BY DEF Enters
    <2> QED BY <1>2, <1>3, <2>1, <2>2 DEF OperandsSeen
  <1>4. CASE i = n
    <2>1. Seen(i) = frames[n].next
      BY <1>1, <1>4, SeenFacts
    <2>2. Seen(i)' = frames'[i].next - 1
      BY <1>2, <1>4, SeenFacts
    <2>3. Seen(i)' = frames[n].next
      BY <1>2, <1>4, <2>2
    <2>4. KindOf(frames[i].node) \in NeedsTwo => OperandsSeen(frames[i], Seen(i))
      BY <1>2, <1>4 DEF FlagsKnown
    <2>5. OperandsSeen(frames[n], frames[n].next)
      BY <1>2, <1>4, <2>1, <2>4
    <2> QED BY <1>2, <1>4, <2>3, <2>5, SameSeen
  <1>5. CASE i < n
    <2>1. i \in 1..(n - 1) /\ i # n /\ i # n + 1
      BY <1>2, <1>5
    <2>2. i \in 1..Len(frames) /\ frames'[i] = frames[i]
      BY <1>2, <2>1
    <2>3. Seen(i)' = Seen(i)
      <3>1. i # Len(frames) /\ i # Len(frames')
        BY <1>1, <1>2, <2>1
      <3> QED BY <3>1, <2>2, SeenKept
    <2>4. OperandsSeen(frames[i], Seen(i))
      BY <2>2 DEF FlagsKnown
    <2> QED BY <2>2, <2>3, <2>4
  <1>6. i = n + 1 \/ i = n \/ i < n
    BY <1>2
  <1> QED BY <1>3, <1>4, <1>5, <1>6

LEMMA FlagsPassed ==
  ASSUME Types, Chained, FlagsKnown, SkipComment \/ VisitInfo
  PROVE  FlagsKnown'
  <1>1. PICK n : n = Len(frames)
    OBVIOUS
  <1>2. /\ n \in Nat \ {0} /\ n \in 1..Len(frames) /\ doc' = doc /\ Len(frames') = n
        /\ frames[n] \in Frame /\ frames[n].next \in Nat \ {0}
        /\ Child = doc.kids[frames[n].node][frames[n].next]
        /\ KindOf(Child) \in {"comment", "info"}
        /\ frames'[n].node = frames[n].node /\ frames'[n].next = frames[n].next + 1
        /\ \/ /\ frames'[n].lhs = frames[n].lhs /\ frames'[n].rhs = frames[n].rhs
              /\ frames'[n].pushed = frames[n].pushed /\ KindOf(Child) = "comment"
           \/ /\ frames'[n].lhs = Taken(frames[n], KindOf(Child)).lhs
              /\ frames'[n].rhs = Taken(frames[n], KindOf(Child)).rhs
              /\ frames'[n].pushed = Taken(frames[n], KindOf(Child)).pushed
        /\ \A i \in 1..(n - 1) : i \in 1..Len(frames) /\ frames'[i] = frames[i]
    BY <1>1, PassedFacts
  <1>3. ASSUME KindOf(frames'[n].node) \in NeedsTwo
        PROVE  OperandsSeen(frames'[n], frames'[n].next)
    <2>1. KindOf(frames[n].node) \in NeedsTwo /\ Seen(n) = frames[n].next
      BY <1>1, <1>2, <1>3, SeenFacts
    <2>2. OperandsSeen(frames[n], frames[n].next)
      BY <1>2, <2>1 DEF FlagsKnown
    <2>3. KidKind(frames[n].node, frames[n].next) = KindOf(Child)
      BY <1>2 DEF KidKind
    <2>5. OperandsSeen(frames[n], frames[n].next + 1)
      BY <1>2, <2>2, <2>3, NoOperand
    <2>6. OperandsSeen(Taken(frames[n], KindOf(Child)), frames[n].next + 1)
      BY <1>2, <2>1, <2>2, <2>3, TakenSeen
    <2>7. Taken(frames[n], KindOf(Child)).node = frames[n].node
      BY <1>2, TakenType
    <2>8. PICK f, g, s : f = frames[n] /\ g = frames'[n] /\ s = frames[n].next + 1
      OBVIOUS
    <2>9. PICK t : t = Taken(frames[n], KindOf(Child))
      OBVIOUS
    <2>10. CASE g.lhs = f.lhs /\ g.rhs = f.rhs /\ g.pushed = f.pushed
      <3>1. g.node = f.node /\ OperandsSeen(f, s)
        BY <1>2, <2>5, <2>8
      <3>2. OperandsSeen(g, s)
        BY <2>10, <3>1, SameSeen
      <3> QED BY <1>2, <2>8, <3>2
    <2>11. CASE g.lhs = t.lhs /\ g.rhs = t.rhs /\ g.pushed = t.pushed
      <3>1. g.node = t.node /\ OperandsSeen(t, s)
        BY <1>2, <2>6, <2>7, <2>8, <2>9
      <3>2. OperandsSeen(g, s)
        BY <2>11, <3>1, SameSeen
      <3> QED BY <1>2, <2>8, <3>2
    <2> QED BY <1>2, <2>8, <2>9, <2>10, <2>11
  <1> QED BY <1>1, <1>2, <1>3, FlagsResumed

LEMMA FlagsReturn ==
  ASSUME Types, Chained, FlagsKnown, Return
  PROVE  FlagsKnown'
  <1>1. PICK n : n = Len(frames)
    OBVIOUS
  <1>2. PICK m : m = n - 1
    OBVIOUS
  <1>3. /\ n \in Nat /\ n > 1 /\ m \in 1..Len(frames) /\ m # Len(frames) /\ doc' = doc
        /\ frames[m] \in Frame /\ frames[m].next - 1 \in Nat \ {0}
        /\ frames[m].next = (frames[m].next - 1) + 1
        /\ frames[n].node = doc.kids[frames[m].node][frames[m].next - 1]
        /\ Len(frames') = m
        /\ frames'[m].node = frames[m].node /\ frames'[m].next = frames[m].next
        /\ frames'[m] = Taken(frames[m], KindOf(frames[n].node))
        /\ \A i \in 1..(m - 1) : i \in 1..Len(frames) /\ frames'[i] = frames[i]
    <2>1. /\ n \in Nat /\ n > 1 /\ n - 1 \in 1..Len(frames) /\ doc' = doc
          /\ frames[n - 1] \in Frame
          /\ frames[n - 1].next - 1 \in 1..Len(doc.kids[frames[n - 1].node])
          /\ frames[n].node = doc.kids[frames[n - 1].node][frames[n - 1].next - 1]
          /\ Len(frames') = n - 1
          /\ frames'[n - 1].node = frames[n - 1].node /\ frames'[n - 1].next = frames[n - 1].next
          /\ frames'[n - 1] = Taken(frames[n - 1], KindOf(frames[n].node))
          /\ \A i \in 1..(n - 2) : i \in 1..Len(frames) /\ frames'[i] = frames[i]
      BY <1>1, ReturnFacts
    <2>2. frames[n - 1].next \in Nat
      BY <2>1 DEF Frame
    <2>3. /\ frames[n - 1].next - 1 \in Nat \ {0}
          /\ frames[n - 1].next = (frames[n - 1].next - 1) + 1
      BY <2>1, <2>2
    <2>4. m # Len(frames) /\ n - 2 = m - 1
      BY <1>1, <1>2, <2>1
    <2> QED BY <1>2, <2>1, <2>3, <2>4
  <1>4. ASSUME KindOf(frames'[m].node) \in NeedsTwo
        PROVE  OperandsSeen(frames'[m], frames'[m].next)
    <2>1. KindOf(frames[m].node) \in NeedsTwo /\ Seen(m) = frames[m].next - 1
      BY <1>3, <1>4, SeenFacts
    <2>2. OperandsSeen(frames[m], frames[m].next - 1)
      BY <1>3, <2>1 DEF FlagsKnown
    <2>3. KidKind(frames[m].node, frames[m].next - 1) = KindOf(frames[n].node)
      BY <1>3 DEF KidKind
    <2>4. OperandsSeen(Taken(frames[m], KindOf(frames[n].node)), (frames[m].next - 1) + 1)
      BY <1>3, <2>1, <2>2, <2>3, TakenSeen
    <2> QED BY <1>3, <2>4
  <1>5. Len(frames) \in Nat
    BY <1>1, <1>3
  <1> QED BY <1>3, <1>4, <1>5, FlagsResumed

\* What was read stays read while the steps concern other nodes.
LEMMA ReadKept ==
  ASSUME doc' = doc, NEW n, resolved'[n] = resolved[n], attached'[n] = attached[n]
  PROVE  (Read(n)' <=> Read(n)) /\ (Resolved(n)' <=> Resolved(n))
  BY DEF Read, Resolved, KindOf, TwoChildren, Infos

LEMMA ResolvedKept ==
  ASSUME doc' = doc, NEW n, resolved'[n] = resolved[n]
  PROVE  Resolved(n)' <=> Resolved(n)
  BY DEF Resolved, KindOf

\* A node that comes next leaves the nodes to come: it is the child of the
\* innermost activation and of no other node.
LEMMA ComesNext ==
  ASSUME Types, Chained, NEW old \in SUBSET Node, NEW new \in SUBSET Node, Progress(old, new),
         NEW n \in 1..Len(frames), NEW c, frames[n].next \in 1..Len(doc.kids[frames[n].node]),
         c = doc.kids[frames[n].node][frames[n].next]
  PROVE  /\ c \in new /\ c \in Node /\ c \notin old
         /\ \A i \in 1..Len(frames) : frames[i].node # c
         /\ \A m \in new : \A h \in 1..Len(doc.kids[m]) : doc.kids[m][h] \in new \ {c}
         /\ \A i \in 1..Len(frames) : \A h \in 1..Len(doc.kids[frames[i].node]) :
              h >= frames[i].next /\ ~(i = n /\ h = frames[n].next)
                => doc.kids[frames[i].node][h] \in new \ {c}
  <1>1. doc \in Docs /\ \A i \in 1..Len(frames) : frames[i].node \in Node /\ frames[i].next \in Nat
    <2>1. frames # << >>
      OBVIOUS
    <2> QED BY <2>1, TopFacts DEF Types
  <1>2. c \in new /\ c \in Node
    <2>1. frames[n].next >= frames[n].next
      BY <1>1
    <2> QED BY <1>1, <2>1 DEF Progress
  <1>3. c \notin old /\ \A i \in 1..Len(frames) : frames[i].node # c
    BY <1>2 DEF Progress
  <1>4. ASSUME NEW m \in new, NEW h \in 1..Len(doc.kids[m]) PROVE doc.kids[m][h] \in new \ {c}
    <2>1. doc.kids[m][h] \in new /\ m \in Node
      BY DEF Progress
    <2>2. ASSUME doc.kids[m][h] = c PROVE FALSE
      <3>1. m = frames[n].node
        BY SMTT(30), <1>1, <2>1, <2>2, OnePlace
      <3> QED BY <3>1 DEF Progress
    <2> QED BY <2>1, <2>2
  <1>5. ASSUME NEW i \in 1..Len(frames), NEW h \in 1..Len(doc.kids[frames[i].node]),
               h >= frames[i].next, ~(i = n /\ h = frames[n].next)
        PROVE  doc.kids[frames[i].node][h] \in new \ {c}
    <2>1. doc.kids[frames[i].node][h] \in new
      BY <1>5 DEF Progress
    <2>2. ASSUME doc.kids[frames[i].node][h] = c PROVE FALSE
      <3>1. frames[i].node = frames[n].node /\ h = frames[n].next
        <4>1. PICK m \in Node, k \in Node : m = frames[i].node /\ k = frames[n].node
          BY <1>1
        <4>2. PICK g : g = frames[n].next
          OBVIOUS
        <4>3. g \in 1..Len(doc.kids[k]) /\ h \in 1..Len(doc.kids[m]) /\ doc.kids[m][h] = doc.kids[k][g]
          BY <2>2, <4>1, <4>2
        <4>4. m = k /\ h = g
          BY <1>1, <4>3, OnePlace
        <4> QED BY <4>1, <4>2, <4>4
      <3>2. i = n
        BY <3>1 DEF Progress
      <3> QED BY <1>5, <3>1, <3>2
    <2> QED BY <2>1, <2>2
  <1> QED BY <1>2, <1>3, <1>4, <1>5

LEMMA ProgressVisitChild ==
  ASSUME Types, Chained, VisitChild, DOMAIN resolved = Node,
         NEW old \in SUBSET Node, NEW new \in SUBSET Node, Progress(old, new), NEW c, c = Child
  PROVE  Progress(old, new \ {c})'
  <1>1. PICK n : n = Len(frames)
    OBVIOUS
  <1>2. /\ n \in Nat \ {0} /\ n \in 1..Len(frames) /\ doc' = doc /\ doc \in Docs
        /\ frames[n].node \in Node /\ frames[n].next \in 1..Len(doc.kids[frames[n].node])
        /\ c = doc.kids[frames[n].node][frames[n].next] /\ c \in Node
        /\ Len(frames') = n + 1
        /\ frames'[n + 1].node = c /\ frames'[n + 1].next = 1
        /\ frames'[n].node = frames[n].node /\ frames'[n].next = frames[n].next + 1
        /\ \A i \in 1..(n - 1) : i \in 1..Len(frames) /\ frames'[i] = frames[i]
    BY <1>1, VisitChildFacts
  <1>3. /\ c \in new /\ c \notin old
        /\ \A i \in 1..Len(frames) : frames[i].node # c
        /\ \A m \in new : \A h \in 1..Len(doc.kids[m]) : doc.kids[m][h] \in new \ {c}
        /\ \A i \in 1..Len(frames) : \A h \in 1..Len(doc.kids[frames[i].node]) :
             h >= frames[i].next /\ ~(i = n /\ h = frames[n].next)
               => doc.kids[frames[i].node][h] \in new \ {c}
    <2>1. /\ n \in 1..Len(frames) /\ frames[n].next \in 1..Len(doc.kids[frames[n].node])
          /\ c = doc.kids[frames[n].node][frames[n].next]
      BY <1>2
    <2> QED BY ZenonT(30), <2>1, ComesNext
  <1>4. /\ attached' = attached /\ \A m \in Node \ {c} : resolved'[m] = resolved[m]
        /\ KindOf(c) # "unknown" /\ (KindOf(c) \in Ref => resolved'[c] # {})
    BY <1>2 DEF VisitChild
  <1>5. \A i \in 1..(n + 1) : i = n + 1 \/ (i \in 1..n /\ frames'[i].node = frames[i].node)
    <2>1. \A i \in 1..(n + 1) : i = n + 1 \/ i = n \/ i \in 1..(n - 1)
      BY <1>2
    <2> QED BY <1>2, <2>1
  <1>6. \A i \in 1..Len(frames') : frames'[i].node \notin old \cup (new \ {c})
    <2> TAKE i \in 1..Len(frames')
    <2>1. i \in 1..(n + 1)
      BY <1>2
    <2>2. CASE i = n + 1
      BY <1>2, <1>3, <2>2
    <2>3. CASE i \in 1..n /\ frames'[i].node = frames[i].node
      BY <1>1, <2>3 DEF Progress
    <2> QED BY <1>5, <2>1, <2>2, <2>3
  <1>7. \A i, j \in 1..Len(frames') : frames'[i].node = frames'[j].node => i = j
    <2>1. \A i, j \in 1..n : frames[i].node = frames[j].node => i = j
      BY <1>1 DEF Progress
    <2> SUFFICES ASSUME NEW i \in 1..(n + 1), NEW j \in 1..(n + 1),
                        frames'[i].node = frames'[j].node
                 PROVE  i = j
      BY <1>2
    <2>2. /\ i = n + 1 \/ (i \in 1..n /\ frames'[i].node = frames[i].node /\ frames[i].node # c)
          /\ j = n + 1 \/ (j \in 1..n /\ frames'[j].node = frames[j].node /\ frames[j].node # c)
      BY <1>1, <1>3, <1>5
    <2>3. frames'[n + 1].node = c
      BY <1>2
    <2> QED BY <2>1, <2>2, <2>3
  <1>8. \A m \in old : Read(m)' /\ \A h \in 1..Len(doc.kids[m]) : doc.kids[m][h] \in old
    <2> TAKE m \in old
    <2>1. m # c /\ m \in Node
      BY <1>3
    <2>2. Read(m)'
      BY <1>2, <1>4, <2>1, ReadKept DEF Progress
    <2> QED BY <2>2 DEF Progress
  <1>9. \A m \in new \ {c} : /\ attached'[m] = <<>>
                             /\ \A h \in 1..Len(doc.kids[m]) : doc.kids[m][h] \in new \ {c}
    BY <1>3, <1>4 DEF Progress
  <1>10. ASSUME NEW i \in 1..Len(frames'), NEW h \in 1..Len(doc.kids[frames'[i].node])
         PROVE  /\ h < Seen(i)' => doc.kids[frames'[i].node][h] \in old
                /\ h >= frames'[i].next => doc.kids[frames'[i].node][h] \in new \ {c}
    <2>1. CASE i = n + 1
      <3>1. Seen(i)' = 1
        BY <1>2, <2>1, SeenFacts
      <3>2. ~(h < Seen(i)')
        BY <3>1
      <3> QED BY <1>2, <1>3, <2>1, <3>2
    <2>2. CASE i = n
      <3>1. Seen(i) = frames[n].next /\ Seen(i)' = frames'[i].next - 1
        BY <1>1, <1>2, <2>2, SeenFacts
      <3>2. Seen(i)' = Seen(i)
        BY <1>2, <2>2, <3>1
      <3>3. h \in 1..Len(doc.kids[frames[i].node]) /\ frames'[i].node = frames[i].node
        BY <1>2, <2>2
      <3>4. h < Seen(i) => doc.kids[frames[i].node][h] \in old
        BY <1>2, <2>2, <3>3 DEF Progress
      <3>5. h >= frames[n].next + 1 => h >= frames[i].next /\ h # frames[n].next
        BY <1>2, <2>2
      <3>6. frames'[i].next = frames[n].next + 1 /\ i \in 1..Len(frames)
        BY <1>2, <2>2
      <3>7. h >= frames'[i].next => doc.kids[frames[i].node][h] \in new \ {c}
        BY <1>3, <3>3, <3>5, <3>6
      <3> QED BY <3>2, <3>3, <3>4, <3>7
    <2>3. CASE i < n
      <3>1. i \in 1..(n - 1) /\ i # n /\ i # n + 1
        <4>1. n \in Nat /\ Len(frames') = n + 1
          BY <1>2
        <4> QED BY <2>3, <4>1
      <3>2. i \in 1..Len(frames) /\ frames'[i] = frames[i]
        BY <1>2, <3>1
      <3>3. Seen(i)' = Seen(i)
        <4>1. i # Len(frames) /\ i # Len(frames')
          BY <1>1, <1>2, <3>1
        <4> QED BY <4>1, <3>2, SeenKept
      <3>4. h < Seen(i) => doc.kids[frames[i].node][h] \in old
        BY <3>2 DEF Progress
      <3> QED BY <1>3, <3>1, <3>2, <3>3, <3>4
    <2>4. n \in Nat /\ Len(frames') = n + 1
      BY <1>2
    <2>5. i = n + 1 \/ i = n \/ i < n
      BY <2>4
    <2> QED BY <2>1, <2>2, <2>3, <2>5
  <1>11. \A i \in 1..Len(frames') :
           /\ KindOf(frames'[i].node) # "unknown" /\ attached'[frames'[i].node] = <<>>
           /\ KindOf(frames'[i].node) \in Ref => resolved'[frames'[i].node] # {}
    <2> TAKE i \in 1..Len(frames')
    <2>1. CASE i = n + 1
      <3>1. attached[c] = <<>>
        BY <1>3 DEF Progress
      <3>2. frames'[i].node = c
        BY <1>2, <2>1
      <3> QED BY <1>4, <3>1, <3>2
    <2>2. CASE i # n + 1
      <3>1. i \in 1..Len(frames) /\ frames'[i].node = frames[i].node
        BY <1>1, <1>2, <1>5, <2>2
      <3>2. frames[i].node \in Node
        <4>1. frames # << >>
          BY <3>1
        <4> QED BY <3>1, <4>1, TopFacts
      <3>3. Resolved(frames[i].node) /\ attached[frames[i].node] = <<>>
        BY <3>1 DEF Progress
      <3>4. frames[i].node # c
        BY <1>3, <3>1
      <3>5. resolved'[frames[i].node] = resolved[frames[i].node]
        BY <1>4, <3>2, <3>4
      <3> QED BY <1>4, <3>1, <3>3, <3>5 DEF Resolved
    <2> QED BY <2>1, <2>2
  <1>12. old \cap (new \ {c}) = {}
    BY DEF Progress
  <1> QED BY <1>2, <1>6, <1>7, <1>8, <1>9, <1>10, <1>11, <1>12 DEF Progress, Resolved, KindOf

LEMMA ProgressPassed ==
  ASSUME Types, Chained, SkipComment \/ VisitInfo,
         NEW old \in SUBSET Node, NEW new \in SUBSET Node, Progress(old, new), NEW c, c = Child
  PROVE  Progress(old \cup {c}, new \ {c})'
  <1>1. PICK n : n = Len(frames)
    OBVIOUS
  <1>2. /\ n \in Nat \ {0} /\ n \in 1..Len(frames) /\ doc' = doc /\ doc \in Docs
        /\ frames[n].node \in Node /\ frames[n].next \in 1..Len(doc.kids[frames[n].node])
        /\ c = doc.kids[frames[n].node][frames[n].next] /\ c \in Node
        /\ KindOf(c) \in {"comment", "info"}
        /\ Len(frames') = n
        /\ frames'[n].node = frames[n].node /\ frames'[n].next = frames[n].next + 1
        /\ \A i \in 1..(n - 1) : i \in 1..Len(frames) /\ frames'[i] = frames[i]
        /\ resolved' = resolved /\ attached' = attached
    BY <1>1, PassedFacts
  <1>3. /\ c \in new /\ c \notin old
        /\ \A i \in 1..Len(frames) : frames[i].node # c
        /\ \A m \in new : \A h \in 1..Len(doc.kids[m]) : doc.kids[m][h] \in new \ {c}
        /\ \A i \in 1..Len(frames) : \A h \in 1..Len(doc.kids[frames[i].node]) :
             h >= frames[i].next /\ ~(i = n /\ h = frames[n].next)
               => doc.kids[frames[i].node][h] \in new \ {c}
    <2>1. /\ n \in 1..Len(frames) /\ frames[n].next \in 1..Len(doc.kids[frames[n].node])
          /\ c = doc.kids[frames[n].node][frames[n].next]
      BY <1>2
    <2> QED BY <2>1, ComesNext
  <1>4. \A i \in 1..n : frames'[i].node = frames[i].node
    BY <1>2
  <1>5. \A i \in 1..Len(frames') : frames'[i].node \notin (old \cup {c}) \cup (new \ {c})
    <2> TAKE i \in 1..Len(frames')
    <2>1. i \in 1..Len(frames) /\ frames'[i].node = frames[i].node
      BY <1>1, <1>2, <1>4
    <2> QED BY <1>3, <2>1 DEF Progress
  <1>6. \A i, j \in 1..Len(frames') : frames'[i].node = frames'[j].node => i = j
    <2>1. \A i, j \in 1..n : frames[i].node = frames[j].node => i = j
      BY <1>1 DEF Progress
    <2> QED BY <1>2, <1>4, <2>1
  <1>7. \A m \in old \cup {c} : /\ Read(m)'
                                /\ \A h \in 1..Len(doc.kids[m]) : doc.kids[m][h] \in old \cup {c}
    <2> TAKE m \in old \cup {c}
    <2>1. CASE m = c
      <3>1. attached[c] = <<>> /\ Len(doc.kids[c]) = 0
        BY <1>2, <1>3, NothingBelow DEF Progress
      <3>2. Read(c)
        <4>1. KindOf(c) \in {"comment", "info"} /\ c \notin doc.refused
          BY <1>2, DocAssumption DEF KindOf
        <4>2. KindOf(c) \notin NeedsTwo /\ KindOf(c) \notin Ref /\ KindOf(c) \notin Located
          BY <4>1, OtherKinds
        <4> QED BY <3>1, <4>1, <4>2 DEF Read, Resolved
      <3>3. Read(c)'
        BY <1>2, <3>2, ReadKept
      <3> QED BY <2>1, <3>1, <3>3
    <2>2. CASE m \in old
      <3>1. Read(m)'
        BY <1>2, <2>2, ReadKept DEF Progress
      <3> QED BY <2>2, <3>1 DEF Progress
    <2> QED BY <2>1, <2>2
  <1>8. \A m \in new \ {c} : /\ attached'[m] = <<>>
                             /\ \A h \in 1..Len(doc.kids[m]) : doc.kids[m][h] \in new \ {c}
    BY <1>2, <1>3 DEF Progress
  <1>9. ASSUME NEW i \in 1..Len(frames'), NEW h \in 1..Len(doc.kids[frames'[i].node])
        PROVE  /\ h < Seen(i)' => doc.kids[frames'[i].node][h] \in old \cup {c}
               /\ h >= frames'[i].next => doc.kids[frames'[i].node][h] \in new \ {c}
    <2>1. CASE i = n
      <3>1. Seen(i) = frames[n].next /\ Seen(i)' = frames'[i].next
        BY <1>1, <1>2, <2>1, SeenFacts
      <3>2. h \in 1..Len(doc.kids[frames[i].node]) /\ frames'[i].node = frames[i].node
        BY <1>2, <2>1
      <3>3. h < Seen(i) => doc.kids[frames[i].node][h] \in old
        BY <1>2, <2>1, <3>2 DEF Progress
      <3>4. h < Seen(i)' => h < Seen(i) \/ h = frames[n].next
        BY <1>2, <2>1, <3>1
      <3>5. h = frames[n].next => doc.kids[frames[i].node][h] = c
        BY <1>2, <2>1
      <3>6. h >= frames'[i].next => h >= frames[i].next /\ h # frames[n].next
        BY <1>2, <2>1
      <3>7. h >= frames'[i].next => doc.kids[frames[i].node][h] \in new \ {c}
        BY <1>2, <1>3, <2>1, <3>2, <3>6
      <3> QED BY <3>2, <3>3, <3>4, <3>5, <3>7
    <2>2. CASE i < n
      <3>1. i \in 1..(n - 1) /\ i # n
        BY <1>2, <2>2
      <3>2. i \in 1..Len(frames) /\ frames'[i] = frames[i]
        BY <1>2, <3>1
      <3>3. Seen(i)' = Seen(i)
        <4>1. i # Len(frames) /\ i # Len(frames')
          BY <1>1, <1>2, <3>1
        <4> QED BY <4>1, <3>2, SeenKept
      <3>4. h < Seen(i) => doc.kids[frames[i].node][h] \in old
        BY <3>2 DEF Progress
      <3> QED BY <1>3, <3>1, <3>2, <3>3, <3>4
    <2>3. i = n \/ i < n
      BY <1>2
    <2> QED BY <2>1, <2>2, <2>3
  <1>10. \A i \in 1..Len(frames') :
           /\ KindOf(frames'[i].node) # "unknown" /\ attached'[frames'[i].node] = <<>>
           /\ KindOf(frames'[i].node) \in Ref => resolved'[frames'[i].node] # {}
    <2> TAKE i \in 1..Len(frames')
    <2>1. i \in 1..Len(frames) /\ frames'[i].node = frames[i].node
      BY <1>1, <1>2, <1>4
    <2>2. Resolved(frames[i].node) /\ attached[frames[i].node] = <<>>
      BY <2>1 DEF Progress
    <2> QED BY <1>2, <2>1, <2>2 DEF Resolved
  <1>11. (old \cup {c}) \cap (new \ {c}) = {}
    BY DEF Progress
  <1> QED BY <1>2, <1>5, <1>6, <1>7, <1>8, <1>9, <1>10, <1>11 DEF Progress, Resolved, KindOf

\* The children of the innermost activation have been read when its loop ends.
LEMMA ReadAtReturn ==
  ASSUME Types, Chained, FlagsKnown, Return, DOMAIN attached = Node,
         NEW old \in SUBSET Node, NEW new \in SUBSET Node, Progress(old, new),
         NEW n, n = Len(frames), NEW t, t = frames[n].node
  PROVE  /\ Read(t)'
         /\ \A h \in 1..Len(doc.kids[t]) : doc.kids[t][h] \in old
         /\ \A m \in Node \ {t} : attached'[m] = attached[m] /\ resolved'[m] = resolved[m]
  <1>1. /\ n \in Nat /\ n > 1 /\ n \in 1..Len(frames) /\ Top = frames[n]
        /\ doc \in Docs /\ doc' = doc /\ frames[n] \in Frame /\ t \in Node
        /\ frames[n].next = Len(doc.kids[t]) + 1
        /\ attached' = checkPreprocInfo(t) /\ UNCHANGED <<resolved, phase>>
        /\ ~MissingChild
    BY ReturnFacts
  <1>11. t \notin doc.refused
    BY <1>1 DEF Return
  <1>2. Seen(n) = Len(doc.kids[t]) + 1 /\ Len(doc.kids[t]) \in Nat
    <2>1. Seen(n) = frames[n].next
      BY SeenFacts
    <2>2. doc.kids[t] \in Seq(Node)
      BY <1>1, DocAssumption DEF DocType
    <2> QED BY <1>1, <2>1, <2>2
  <1>3. ASSUME NEW h \in 1..Len(doc.kids[t]) PROVE doc.kids[t][h] \in old
    <2>1. h < Seen(n)
      BY <1>2
    <2> QED BY <1>1, <2>1 DEF Progress
  <1>4. Resolved(t) /\ attached[t] = <<>>
    BY <1>1 DEF Progress
  <1>5. attached' = IF KindOf(t) \in Located THEN [attached EXCEPT ![t] = Append(@, Infos(t))]
                    ELSE attached
    BY <1>1 DEF checkPreprocInfo
  <1>6. attached'[t] = IF KindOf(t) \in Located THEN <<Infos(t)>> ELSE <<>>
    <2>1. Append(<<>>, Infos(t)) = <<Infos(t)>>
      <3>1. ASSUME NEW x PROVE Append(<<>>, x) = <<x>>
        OBVIOUS
      <3> QED BY <3>1
    <2>2. CASE KindOf(t) \in Located
      <3>1. attached'[t] = Append(attached[t], Infos(t))
        BY <1>1, <1>5, <2>2
      <3> QED BY <1>4, <2>1, <2>2, <3>1
    <2>3. CASE KindOf(t) \notin Located
      BY <1>4, <1>5, <2>3
    <2> QED BY <2>2, <2>3
  <1>7. ASSUME KindOf(t) \in NeedsTwo PROVE TwoChildren(t)
    <2>1. frames[n].rhs
      BY <1>1, <1>7 DEF MissingChild
    <2>2. OperandsSeen(frames[n], Len(doc.kids[t]) + 1)
      BY <1>1, <1>2, <1>7 DEF FlagsKnown
    <2>3. Len(doc.kids[t]) + 1 - 1 = Len(doc.kids[t])
      BY <1>2
    <2>4. \E h, i \in 1..Len(doc.kids[t]) :
             h < i /\ KidKind(t, h) \in First(KindOf(t)) /\ KidKind(t, i) \in Second(KindOf(t))
      BY <2>1, <2>2, <2>3 DEF OperandsSeen
    <2> QED BY <2>4 DEF TwoChildren, KidKind
  <1>8. /\ Infos(t)' = Infos(t) /\ KindOf(t)' = KindOf(t)
        /\ (TwoChildren(t)' <=> TwoChildren(t)) /\ resolved' = resolved
    BY <1>1 DEF Infos, KindOf, TwoChildren
  <1>9. Read(t)'
    BY <1>1, <1>4, <1>6, <1>7, <1>8, <1>11 DEF Read, Resolved
  <1>10. \A m \in Node \ {t} : attached'[m] = attached[m] /\ resolved'[m] = resolved[m]
    BY <1>5, <1>8
  <1> QED BY <1>3, <1>9, <1>10

LEMMA ProgressReturn ==
  ASSUME Types, Chained, FlagsKnown, Return, DOMAIN attached = Node,
         NEW old \in SUBSET Node, NEW new \in SUBSET Node, Progress(old, new),
         NEW t, t = Top.node
  PROVE  Progress(old \cup {t}, new)'
  <1>1. PICK n : n = Len(frames)
    OBVIOUS
  <1>2. PICK m : m = n - 1
    OBVIOUS
  <1>3. /\ n \in Nat /\ n > 1 /\ n \in 1..Len(frames) /\ n - 1 \in 1..Len(frames)
        /\ Top = frames[n] /\ doc \in Docs /\ doc' = doc
        /\ frames[n].node \in Node /\ frames[n - 1].node \in Node
        /\ frames[n].node = doc.kids[frames[n - 1].node][frames[n - 1].next - 1]
        /\ frames[n - 1].next - 1 \in 1..Len(doc.kids[frames[n - 1].node])
        /\ Len(frames') = n - 1
        /\ frames'[n - 1].node = frames[n - 1].node /\ frames'[n - 1].next = frames[n - 1].next
        /\ \A i \in 1..(n - 2) : i \in 1..Len(frames) /\ frames'[i] = frames[i]
        /\ frames[n - 1] \in Frame
    BY <1>1, ReturnFacts
  <1>4. /\ m \in 1..Len(frames) /\ m # n /\ m # Len(frames) /\ Len(frames') = m /\ t \in Node
        /\ t = frames[n].node /\ frames[m].next \in Nat
        /\ t = doc.kids[frames[m].node][frames[m].next - 1]
        /\ frames'[m].node = frames[m].node /\ frames'[m].next = frames[m].next
        /\ \A i \in 1..(m - 1) : i \in 1..Len(frames) /\ frames'[i] = frames[i]
    <2>1. n - 2 = m - 1 /\ m # n /\ m # Len(frames)
      BY <1>1, <1>2, <1>3
    <2>2. frames[n - 1].next \in Nat
      BY <1>3 DEF Frame
    <2> QED BY <1>2, <1>3, <2>1, <2>2
  <1>5. /\ Read(t)'
        /\ \A h \in 1..Len(doc.kids[t]) : doc.kids[t][h] \in old
        /\ \A k \in Node \ {t} : attached'[k] = attached[k] /\ resolved'[k] = resolved[k]
    <2>1. t = frames[n].node
      BY <1>4
    <2>2. \A h \in 1..Len(doc.kids[t]) : doc.kids[t][h] \in old
      BY <1>1, <2>1, ReadAtReturn
    <2>3. \A k \in Node \ {t} : attached'[k] = attached[k] /\ resolved'[k] = resolved[k]
      BY <1>1, <2>1, ReadAtReturn
    <2>4. Read(t)'
      BY <1>1, <2>1, ReadAtReturn
    <2> QED BY <2>2, <2>3, <2>4
  <1>6. \A i \in 1..m : i \in 1..Len(frames) /\ frames'[i].node = frames[i].node /\ frames[i].node # t
    <2> TAKE i \in 1..m
    <2>1. i \in 1..Len(frames) /\ i # n
      BY <1>1, <1>2, <1>3
    <2>2. frames'[i].node = frames[i].node
      BY <1>4
    <2>3. frames[i].node # frames[n].node
      BY <1>3, <2>1 DEF Progress
    <2> QED BY <1>4, <2>1, <2>2, <2>3
  <1>7. t \notin old \cup new
    BY <1>3, <1>4 DEF Progress
  <1>8. \A i \in 1..Len(frames') : frames'[i].node \notin (old \cup {t}) \cup new
    <2> TAKE i \in 1..Len(frames')
    <2>1. i \in 1..Len(frames) /\ frames'[i].node = frames[i].node /\ frames[i].node # t
      BY <1>4, <1>6
    <2> QED BY <2>1 DEF Progress
  <1>9. \A i, j \in 1..Len(frames') : frames'[i].node = frames'[j].node => i = j
    <2> TAKE i, j \in 1..Len(frames')
    <2>1. /\ i \in 1..Len(frames) /\ frames'[i].node = frames[i].node
          /\ j \in 1..Len(frames) /\ frames'[j].node = frames[j].node
      BY <1>4, <1>6
    <2> QED BY <2>1 DEF Progress
  <1>10. \A k \in old \cup {t} : /\ Read(k)'
                                 /\ \A h \in 1..Len(doc.kids[k]) : doc.kids[k][h] \in old \cup {t}
    <2> TAKE k \in old \cup {t}
    <2>1. CASE k = t
      BY <1>5, <2>1
    <2>2. CASE k \in old
      <3>1. k # t /\ k \in Node
        BY <1>7, <2>2
      <3>2. Read(k)'
        BY <1>3, <1>5, <2>2, <3>1, ReadKept DEF Progress
      <3> QED BY <2>2, <3>2 DEF Progress
    <2> QED BY <2>1, <2>2
  <1>11. \A k \in new : /\ attached'[k] = <<>>
                        /\ \A h \in 1..Len(doc.kids[k]) : doc.kids[k][h] \in new
    <2> TAKE k \in new
    <2>1. k # t /\ k \in Node
      BY <1>7
    <2> QED BY <1>5, <2>1 DEF Progress
  <1>12. ASSUME NEW i \in 1..Len(frames'), NEW h \in 1..Len(doc.kids[frames'[i].node])
         PROVE  /\ h < Seen(i)' => doc.kids[frames'[i].node][h] \in old \cup {t}
                /\ h >= frames'[i].next => doc.kids[frames'[i].node][h] \in new
    <2>1. CASE i = m
      <3>1. Seen(i) = frames[m].next - 1 /\ Seen(i)' = frames[m].next
        BY <1>4, <2>1, SeenFacts
      <3>2. h \in 1..Len(doc.kids[frames[i].node]) /\ frames'[i].node = frames[i].node
        BY <1>4, <2>1
      <3>3. /\ h < Seen(i) => doc.kids[frames[i].node][h] \in old
            /\ h >= frames[i].next => doc.kids[frames[i].node][h] \in new
        BY <1>4, <2>1, <3>2 DEF Progress
      <3>4. h < Seen(i)' => h < Seen(i) \/ h = frames[m].next - 1
        BY <1>4, <3>1
      <3>5. h = frames[m].next - 1 => doc.kids[frames[i].node][h] = t
        BY <1>4, <2>1
      <3> QED BY <1>4, <2>1, <3>2, <3>3, <3>4, <3>5
    <2>2. CASE i # m
      <3>1. i \in 1..(m - 1) /\ i # Len(frames)
        BY <1>1, <1>2, <1>3, <1>4, <2>2
      <3>2. i \in 1..Len(frames) /\ frames'[i] = frames[i]
        BY <1>4, <3>1
      <3>3. Seen(i)' = Seen(i)
        <4>1. i # Len(frames) /\ i # Len(frames')
          BY <1>4, <2>2, <3>1
        <4> QED BY <4>1, <3>2, SeenKept
      <3> QED BY <3>2, <3>3 DEF Progress
    <2> QED BY <2>1, <2>2
  <1>13. \A i \in 1..Len(frames') :
           /\ KindOf(frames'[i].node) # "unknown" /\ attached'[frames'[i].node] = <<>>
           /\ KindOf(frames'[i].node) \in Ref => resolved'[frames'[i].node] # {}
    <2> TAKE i \in 1..Len(frames')
    <2>1. i \in 1..Len(frames) /\ frames'[i].node = frames[i].node /\ frames[i].node # t
      BY <1>4, <1>6
    <2>2. Resolved(frames[i].node) /\ attached[frames[i].node] = <<>>
      BY <2>1 DEF Progress
    <2>3. frames[i].node \in Node
      <3>1. frames # << >>
        BY <2>1
      <3> QED BY <2>1, <3>1, TopFacts
    <2> QED BY <1>5, <2>1, <2>2, <2>3 DEF Resolved
  <1>14. (old \cup {t}) \cap new = {}
    BY <1>7 DEF Progress
  <1> QED BY ZenonT(30), <1>3, <1>8, <1>9, <1>10, <1>11, <1>12, <1>13, <1>14
       DEF Progress, Resolved, KindOf

LEMMA InitRInv == Init => RInv
  <1> SUFFICES ASSUME Init PROVE RInv
    OBVIOUS
  <1> DEFINE f == Call(Document, << >>)
             new == Node \ {Document}
  <1>1. frames = <<f>> /\ doc \in Docs /\ phase = "running"
           /\ resolved = [n \in Node |-> {}] /\ attached = [n \in Node |-> <<>>]
    BY DEF Init
  <1>2. f.node = Document /\ f.next = 1
    BY DEF Call
  <1>3. doc.kids \in [Node -> Seq(Node)]
    BY <1>1, DocAssumption DEF DocType
  <1> HIDE DEF f
  <1>4. Len(frames) = 1 /\ frames[1] = f /\ frames # << >> /\ Seen(1) = 1
    BY <1>1, <1>2 DEF Seen
  <1>5. KindOf(Document) = "document"
    BY <1>1, DocumentKind
  <1>6. \A n \in Node : \A h \in 1..Len(doc.kids[n]) : doc.kids[n][h] \in new
    BY <1>1, KidType
  <1>7. Progress({}, new)
    <2>1. \A i \in 1..Len(frames) : i = 1 /\ frames[i].node = Document /\ frames[i].next = 1
      BY <1>2, <1>4
    <2>2. \A n \in new : attached[n] = <<>> /\ \A h \in 1..Len(doc.kids[n]) : doc.kids[n][h] \in new
      BY <1>1, <1>6
    <2>3. \A i \in 1..Len(frames) : \A h \in 1..Len(doc.kids[frames[i].node]) :
            ~(h < Seen(i)) /\ doc.kids[frames[i].node][h] \in new
      BY <1>4, <1>6, <2>1, DocAssumption
    <2>4. Resolved(Document) /\ attached[Document] = <<>>
      BY <1>1, <1>5, DocAssumption, OtherKinds DEF Resolved
    <2> HIDE DEF new
    <2>5. Document \notin new
      BY DEF new
    <2> QED BY <2>1, <2>2, <2>3, <2>4, <2>5 DEF Progress
  <1>8. FlagsKnown
    BY <1>2, <1>4, <1>5, OtherKinds DEF FlagsKnown
  <1>9. RootKinds
    BY <1>4 DEF RootKinds
  <1> QED BY <1>1, <1>7, <1>8, <1>9 DEF RInv, NothingLost, Verdict

\* No child of the document node is passed in a step that leaves its counter.
LEMMA RootKindsKept ==
  ASSUME RootKinds, doc' = doc, frames # << >>, Seen(1)' = Seen(1)
  PROVE  RootKinds'
  BY DEF RootKinds, KidKind, KindOf

LEMMA VisitChildRInv ==
  ASSUME Types, Chained, RInv, VisitChild
  PROVE  RInv'
  <1>1. Running /\ phase' = phase /\ attached' = attached /\ DOMAIN resolved' = Node /\ frames # << >>
    BY DEF RInv, VisitChild, MoreChildren
  <1>2. PICK old \in SUBSET Node, new \in SUBSET Node : Progress(old, new)
    BY <1>1 DEF RInv
  <1>3. PICK c : c = Child
    OBVIOUS
  <1>4. Progress(old, new \ {c})'
    BY <1>2, <1>3, ProgressVisitChild DEF RInv
  <1>5. (\E o, w \in SUBSET Node : Progress(o, w))'
    BY <1>4
  <1>6. FlagsKnown'
    BY FlagsVisitChild DEF RInv
  <1>7. RootKinds'
    <2>1. PICK n : n = Len(frames)
      OBVIOUS
    <2>2. /\ n \in Nat \ {0} /\ doc' = doc /\ Len(frames') = n + 1 /\ frames[n].next \in Nat
          /\ frames'[n].next = frames[n].next + 1
          /\ \A i \in 1..(n - 1) : frames'[i] = frames[i]
      BY <2>1, VisitChildFacts
    <2>3. Seen(1)' = Seen(1)
      <3>1. 1 # Len(frames') /\ Seen(1)' = frames'[1].next - 1
        BY <2>2, SeenFacts
      <3>2. CASE n = 1
        BY <2>1, <2>2, <3>1, <3>2, SeenFacts
      <3>3. CASE n # 1
        <4>1. 1 \in 1..(n - 1) /\ frames'[1] = frames[1]
          BY <2>2, <3>3
        <4> QED BY <2>1, <3>1, <3>3, <4>1, SeenFacts
      <3> QED BY <3>2, <3>3
    <2> QED BY <1>1, <2>2, <2>3, RootKindsKept DEF RInv
  <1> QED BY <1>1, <1>5, <1>6, <1>7 DEF RInv, NothingLost, Verdict, Running

LEMMA PassedRInv ==
  ASSUME Types, Chained, RInv, SkipComment \/ VisitInfo
  PROVE  RInv'
  <1>1. PICK n : n = Len(frames)
    OBVIOUS
  <1>2. /\ n \in Nat \ {0} /\ doc' = doc /\ Len(frames') = n /\ frames[n].node # Document
        /\ n \in 1..Len(frames)
        /\ \A i \in 1..(n - 1) : frames'[i] = frames[i]
        /\ UNCHANGED <<resolved, attached, phase>> /\ Running
    BY <1>1, PassedFacts
  <1>3. PICK old \in SUBSET Node, new \in SUBSET Node : Progress(old, new)
    BY <1>2 DEF RInv
  <1>4. PICK c : c = Child
    OBVIOUS
  <1>5. Progress(old \cup {c}, new \ {c})' /\ c \in Node
    <2>1. c \in Node
      BY <1>1, <1>4, PassedFacts
    <2>2. Progress(old \cup {c}, new \ {c})'
      BY <1>3, <1>4, ProgressPassed
    <2> QED BY <2>1, <2>2
  <1>6. (\E o, w \in SUBSET Node : Progress(o, w))'
    BY <1>5
  <1>7. FlagsKnown'
    BY FlagsPassed DEF RInv
  <1>8. RootKinds'
    <2>1. frames # << >> /\ n # 1
      BY <1>1, <1>2 DEF Chained
    <2>2. 1 \in 1..(n - 1) /\ frames'[1] = frames[1]
      BY <1>2, <2>1
    <2>3. Seen(1)' = Seen(1)
      <3>1. 1 # Len(frames) /\ 1 # Len(frames')
        BY <1>1, <1>2, <2>1, <2>2
      <3> QED BY <3>1, <2>2, SeenKept
    <2> QED BY <1>2, <2>1, <2>3, RootKindsKept DEF RInv
  <1> QED BY <1>2, <1>6, <1>7, <1>8 DEF RInv, NothingLost, Verdict, Running

LEMMA ReturnRInv ==
  ASSUME Types, Chained, RInv, Return
  PROVE  RInv'
  <1>1. PICK n : n = Len(frames)
    OBVIOUS
  <1>2. /\ n \in Nat /\ n > 1 /\ n - 1 \in 1..Len(frames) /\ Top = frames[n] /\ doc' = doc /\ doc \in Docs
        /\ frames[n - 1] \in Frame /\ frames[n].node \in Node
        /\ frames[n].node = doc.kids[frames[n - 1].node][frames[n - 1].next - 1]
        /\ Len(frames') = n - 1 /\ frames'[n - 1].next = frames[n - 1].next
        /\ \A i \in 1..(n - 2) : frames'[i] = frames[i]
        /\ attached' = checkPreprocInfo(frames[n].node) /\ UNCHANGED <<resolved, phase>>
        /\ ~NoParent /\ Running
    BY <1>1, ReturnFacts
  <1>3. PICK old \in SUBSET Node, new \in SUBSET Node : Progress(old, new)
    BY <1>2 DEF RInv
  <1>4. PICK t : t = Top.node
    OBVIOUS
  <1>5. Progress(old \cup {t}, new)' /\ t \in Node
    <2>1. t \in Node
      BY <1>2, <1>4
    <2>2. Progress(old \cup {t}, new)'
      BY <1>3, <1>4, ProgressReturn DEF RInv
    <2> QED BY <2>1, <2>2
  <1>6. (\E o, w \in SUBSET Node : Progress(o, w))'
    BY <1>5
  <1>7. FlagsKnown'
    BY FlagsReturn DEF RInv
  <1>8. DOMAIN attached' = Node
    BY <1>2 DEF RInv, checkPreprocInfo
  <1>9. RootKinds'
    <2>1. frames # << >> /\ frames[1].node = Document
      <3>1. frames # << >>
        BY <1>1, <1>2
      <3> QED BY <3>1 DEF Chained
    <2>2. CASE n = 2
      <3>1. KindOf(Top.node) \in {"file", "type"}
        BY <1>1, <1>2, <2>2 DEF NoParent
      <3>2. Top.node = doc.kids[Document][frames[1].next - 1] /\ frames[1].next \in Nat
        BY <1>2, <2>1, <2>2 DEF Frame
      <3>3. Seen(1) = frames[1].next - 1 /\ Seen(1)' = frames[1].next
        BY <1>1, <1>2, <2>2, SeenFacts
      <3>4. ASSUME NEW h \in 1..Len(doc.kids[Document]), h < Seen(1)'
            PROVE  KidKind(Document, h) \in {"file", "type"}
        <4>1. CASE h = frames[1].next - 1
          BY <3>1, <3>2, <4>1 DEF KidKind
        <4>2. CASE h < Seen(1)
          BY <2>1, <4>2 DEF RInv, RootKinds
        <4>3. h = frames[1].next - 1 \/ h < Seen(1)
          BY <3>2, <3>3, <3>4
        <4> QED BY <4>1, <4>2, <4>3
      <3> QED BY <1>2, <3>4 DEF RootKinds, KidKind, KindOf
    <2>3. CASE n # 2
      <3>1. 1 \in 1..(n - 2) /\ 1 # n - 1 /\ 1 # n /\ frames'[1] = frames[1]
        BY <1>2, <2>3
      <3>2. Seen(1)' = Seen(1)
        <4>1. 1 # Len(frames) /\ 1 # Len(frames')
          BY <1>1, <1>2, <3>1
        <4> QED BY <4>1, <3>1, SeenKept
      <3> QED BY <1>2, <2>1, <3>2, RootKindsKept DEF RInv
    <2> QED BY <2>2, <2>3
  <1> QED BY <1>2, <1>6, <1>7, <1>8, <1>9 DEF RInv, NothingLost, Verdict, Running

\* An element no visitSgXxx function is found for, or a node beside the root.
LEMMA UnknownRefused ==
  ASSUME Types, Chained, UnknownNode
  PROVE  ~Acceptable
  <1>1. frames # << >> /\ doc \in Docs
    BY DEF UnknownNode, MoreChildren, Types
  <1>2. PICK n : n = Len(frames)
    OBVIOUS
  <1>3. Top = frames[n] /\ frames[n].node \in Node /\ n \in 1..Len(frames)
    BY <1>1, <1>2, TopFacts
  <1>4. frames[n].next \in 1..Len(doc.kids[frames[n].node])
    BY <1>1, <1>3, TopFacts DEF UnknownNode, MoreChildren, Chained
  <1>5. Child = doc.kids[frames[n].node][frames[n].next] /\ Child \in Node
    BY <1>1, <1>3, <1>4, KidType DEF Child
  <1>6. CASE KindOf(Child) = "unknown"
    BY <1>5, <1>6 DEF Acceptable
  <1>7. CASE KindOf(Child) \in {"comment", "info"} /\ Top.node = Document
    <2>1. KindOf(doc.kids[Document][frames[n].next]) \notin {"file", "type"}
             /\ frames[n].next \in 1..Len(doc.kids[Document])
      BY <1>3, <1>4, <1>5, <1>7
    <2> QED BY <2>1 DEF Acceptable
  <1> QED BY <1>6, <1>7 DEF UnknownNode

\* An element without its two children, or a root that is not SgSourceFile.
LEMMA FatalRefused ==
  ASSUME Types, Chained, FlagsKnown, FatalReturn
  PROVE  ~Acceptable
  <1>1. frames # << >> /\ doc \in Docs
    BY DEF FatalReturn, NoMoreChildren, Types
  <1>2. PICK n : n = Len(frames)
    OBVIOUS
  <1>3. /\ Top = frames[n] /\ frames[n] \in Frame /\ frames[n].node \in Node /\ n \in 1..Len(frames)
        /\ n \in Nat \ {0} /\ Len(doc.kids[frames[n].node]) \in Nat /\ frames[n].next \in Nat
    BY <1>1, <1>2, TopFacts
  <1>4. frames[n].next = Len(doc.kids[frames[n].node]) + 1
    <2>1. frames[n].next > Len(doc.kids[frames[n].node])
      BY <1>3 DEF FatalReturn, NoMoreChildren
    <2>2. frames[n].next \in 1..(Len(doc.kids[frames[n].node]) + 1)
      BY <1>3 DEF Chained
    <2> QED BY <1>3, <2>1, <2>2
  <1>5. CASE MissingChild
    <2>1. Seen(n) = Len(doc.kids[frames[n].node]) + 1
      BY <1>2, <1>4, SeenFacts
    <2>2. KindOf(frames[n].node) \in NeedsTwo /\ ~(frames[n].lhs /\ frames[n].rhs)
      BY <1>3, <1>5 DEF MissingChild
    <2>3. OperandsSeen(frames[n], Len(doc.kids[frames[n].node]) + 1)
      BY <1>3, <2>1, <2>2 DEF FlagsKnown
    <2>4. Len(doc.kids[frames[n].node]) + 1 - 1 = Len(doc.kids[frames[n].node])
      BY <1>3
    <2>5. ~TwoChildren(frames[n].node)
      BY <2>2, <2>3, <2>4 DEF OperandsSeen, TwoChildren, KidKind
    <2> QED BY <1>3, <2>2, <2>5 DEF Acceptable
  <1>6. CASE NoParent
    <2>1. n = 2 /\ KindOf(frames[n].node) \notin {"file", "type"}
      BY <1>2, <1>3, <1>6 DEF NoParent
    <2>2. /\ frames[1].node = Document /\ frames[1].next > 1
          /\ frames[1].next \in 1..(Len(doc.kids[Document]) + 1)
          /\ frames[2].node = doc.kids[Document][frames[1].next - 1]
      BY <1>1, <1>2, <2>1 DEF Chained
    <2>3. Len(doc.kids[Document]) \in Nat
      BY <1>1, DocAssumption DEF DocType
    <2>4. frames[1].next - 1 \in 1..Len(doc.kids[Document])
      BY <2>2, <2>3
    <2> QED BY <2>1, <2>2, <2>4 DEF Acceptable
  <1> QED BY <1>5, <1>6 DEF FatalReturn

\* An element that is refused is an element of the document.
LEMMA RefuseRefused ==
  ASSUME Types, Chained, Refuse
  PROVE  ~Acceptable
  <1>1. frames # << >> /\ Top.node \in doc.refused
    BY DEF Refuse
  <1>2. Top.node \in Node
    BY <1>1, TopFacts
  <1> QED BY <1>1, <1>2 DEF Acceptable

\* The reader stops at an error and leaves everything as it is.
LEMMA AbortRInv ==
  ASSUME RInv, Abort, ~Acceptable
  PROVE  RInv'
  <1>1. UNCHANGED <<doc, frames, resolved, attached>> /\ phase' = "fatal"
    BY DEF Abort
  <1>2. ~Running' /\ NothingLost'
    BY <1>1 DEF Running, NothingLost
  <1>3. ~Acceptable'
    BY <1>1 DEF Acceptable, KindOf, TwoChildren
  <1>4. FlagsKnown'
    <2>1. FlagsKnown
      BY DEF RInv
    <2>2. SUFFICES ASSUME NEW i \in 1..Len(frames), KindOf(frames[i].node) \in NeedsTwo
                   PROVE  OperandsSeen(frames[i], Seen(i))'
      BY <1>1 DEF FlagsKnown, KindOf
    <2>3. frames'[i] = frames[i] /\ Seen(i)' = Seen(i)
      BY <1>1 DEF Seen
    <2>4. OperandsSeen(frames[i], Seen(i))
      BY <2>1, <2>2 DEF FlagsKnown
    <2> QED BY <1>1, <2>3, <2>4, SeenPrimed
  <1>5. RootKinds'
    BY <1>1 DEF RInv, RootKinds, Seen, KidKind, KindOf
  <1> QED BY <1>1, <1>2, <1>3, <1>4, <1>5 DEF RInv, Verdict

\* When visit() of the document node returns, every node was read.
LEMMA FinishFacts ==
  ASSUME Types, Chained, RInv, Finish
  PROVE  /\ \A n \in Node \ {Document} : Read(n)
         /\ \A h \in 1..Len(doc.kids[Document]) : KidKind(Document, h) \in {"file", "type"}
  <1>1. frames # << >> /\ doc \in Docs /\ Running /\ Top.node = Document
    BY DEF Finish, NoMoreChildren, Types
  <1>2. Len(frames) = 1
    <2>1. Len(frames) \in Nat \ {0} /\ ~(Len(frames) > 1)
      BY <1>1, TopFacts
    <2> QED BY <2>1
  <1>3. frames[1].node = Document /\ Top = frames[1] /\ Seen(1) = frames[1].next
    BY <1>1, <1>2, SeenFacts DEF Top
  <1>4. Len(doc.kids[Document]) \in Nat /\ frames[1].next \in Nat
           /\ frames[1].next > Len(doc.kids[Document])
    <2>1. frames[1].next \in Nat /\ Len(doc.kids[frames[1].node]) \in Nat
      BY <1>1, <1>2, TopFacts
    <2> QED BY <1>3, <2>1 DEF Finish, NoMoreChildren
  <1>5. \A h \in 1..Len(doc.kids[Document]) : h < Seen(1)
    BY <1>3, <1>4
  <1>6. PICK old \in SUBSET Node, new \in SUBSET Node : Progress(old, new)
    BY <1>1 DEF RInv
  <1>7. \A h \in 1..Len(doc.kids[Document]) : doc.kids[Document][h] \in old
    BY <1>2, <1>3, <1>5, <1>6 DEF Progress
  <1> DEFINE all == old \cup {Document}
  <1>8. \A n \in all : \A h \in 1..Len(doc.kids[n]) : doc.kids[n][h] \in all
    BY <1>6, <1>7 DEF Progress
  <1>9. all \in SUBSET Node /\ Document \in all
    BY DocAssumption
  <1>10. IsTree(doc.kids)
    BY <1>1, TreeAssumption
  <1> HIDE DEF all
  <1>11. all = Node
    BY <1>8, <1>9, <1>10 DEF IsTree
  <1>12. \A n \in Node \ {Document} : n \in old
    BY <1>11 DEF all
  <1> QED BY <1>1, <1>5, <1>6, <1>12 DEF Progress, RInv, RootKinds

LEMMA FinishRInv ==
  ASSUME Types, Chained, RInv, Finish
  PROVE  RInv'
  <1>1. UNCHANGED <<doc, resolved, attached>> /\ phase' = "done" /\ frames' = << >> /\ doc \in Docs
    BY DEF Finish, Types
  <1>2. /\ \A n \in Node \ {Document} : Read(n)
        /\ \A h \in 1..Len(doc.kids[Document]) : KidKind(Document, h) \in {"file", "type"}
    BY FinishFacts
  <1>3. FlagsKnown' /\ RootKinds' /\ ~Running'
    <2>1. Len(frames') = 0
      BY <1>1
    <2>2. 1..Len(frames') = {}
      BY <2>1
    <2>3. FlagsKnown'
      BY <2>2 DEF FlagsKnown
    <2> QED BY <1>1, <2>3 DEF RootKinds, Running
  <1>4. NothingLost'
    BY <1>1, <1>2 DEF NothingLost, Read, Resolved, Infos, KindOf
  <1>5. KindOf(Document) = "document"
    BY <1>1, DocumentKind
  <1>6. Acceptable
    <2>1. \A n \in Node : KindOf(n) # "unknown" /\ n \notin doc.refused
      <3>1. Document \notin doc.refused
        BY <1>1, DocAssumption
      <3> QED BY <1>2, <1>5, <3>1 DEF Read, Resolved
    <2>2. \A m \in Node : KindOf(m) \in NeedsTwo => TwoChildren(m)
      BY <1>2, <1>5 DEF Read, NeedsTwo, Member
    <2> QED BY <1>2, <2>1, <2>2 DEF Acceptable, KidKind
  <1>7. Acceptable'
    BY <1>1, <1>6 DEF Acceptable, KindOf, TwoChildren
  <1> QED BY <1>1, <1>3, <1>4, <1>7 DEF RInv, Verdict

LEMMA StutterRInv ==
  ASSUME RInv, UNCHANGED vars
  PROVE  RInv'
  <1>1. UNCHANGED <<doc, frames, resolved, attached, phase>>
    BY DEF vars
  <1>2. FlagsKnown'
    <2>1. FlagsKnown
      BY DEF RInv
    <2>2. SUFFICES ASSUME NEW i \in 1..Len(frames), KindOf(frames[i].node) \in NeedsTwo
                   PROVE  OperandsSeen(frames[i], Seen(i))'
      BY <1>1 DEF FlagsKnown, KindOf
    <2>3. frames'[i] = frames[i] /\ Seen(i)' = Seen(i)
      BY <1>1 DEF Seen
    <2>4. OperandsSeen(frames[i], Seen(i))
      BY <2>1, <2>2 DEF FlagsKnown
    <2> QED BY <1>1, <2>3, <2>4, SeenPrimed
  <1>3. RootKinds'
    BY <1>1 DEF RInv, RootKinds, Seen, KidKind, KindOf
  <1>4. Running => \E old, new \in SUBSET Node : Progress(old, new)'
    <2> SUFFICES ASSUME Running PROVE \E old, new \in SUBSET Node : Progress(old, new)'
      OBVIOUS
    <2>1. PICK old \in SUBSET Node, new \in SUBSET Node : Progress(old, new)
      BY DEF RInv
    <2>2. Progress(old, new)'
      BY <1>1, <2>1 DEF Progress, Read, Resolved, Seen, KindOf, TwoChildren, Infos
    <2> QED BY <2>2
  <1>5. NothingLost'
    BY <1>1 DEF RInv, NothingLost, KindOf, Infos
  <1>6. Verdict'
    BY <1>1 DEF RInv, Verdict, Acceptable, KindOf, TwoChildren
  <1> QED BY <1>1, <1>2, <1>3, <1>4, <1>5, <1>6 DEF RInv, Running

LEMMA NextRInv == IInv /\ RInv /\ [Next]_vars => RInv'
  <1> SUFFICES ASSUME IInv, RInv, [Next]_vars PROVE RInv'
    OBVIOUS
  <1>1. Types /\ Chained
    BY DEF IInv
  <1>2. FlagsKnown
    BY DEF RInv
  <1>3. CASE VisitChild
    BY <1>1, <1>3, VisitChildRInv
  <1>4. CASE UnknownNode
    BY <1>1, <1>4, UnknownRefused, AbortRInv DEF UnknownNode
  <1>5. CASE SkipComment \/ VisitInfo
    BY <1>1, <1>5, PassedRInv
  <1>6. CASE FatalReturn
    BY <1>1, <1>2, <1>6, FatalRefused, AbortRInv DEF FatalReturn
  <1>10. CASE Refuse
    BY <1>1, <1>10, RefuseRefused, AbortRInv DEF Refuse
  <1>7. CASE Return
    BY <1>1, <1>7, ReturnRInv
  <1>8. CASE Finish
    BY <1>1, <1>8, FinishRInv
  <1>9. CASE Done \/ UNCHANGED vars
    BY <1>9, StutterRInv DEF Done
  <1> QED BY <1>3, <1>4, <1>5, <1>6, <1>7, <1>8, <1>9, <1>10 DEF Next

LEMMA ReadInvariance == Spec => []RInv
  BY InitRInv, NextRInv, Invariance, PTL DEF Spec

\* A document that visit() reads to the end has lost nothing: every name was
\* looked up, and checkPreprocInfo attached to every located node its
\* preprocessing information, all of it, in order, and once.
THEOREM ReaderLosesNothing == Spec => []NothingLost
  <1>1. RInv => NothingLost
    BY DEF RInv
  <1> QED BY <1>1, ReadInvariance, PTL

\* visit() gives up on exactly the documents it cannot read: an unknown
\* element, a node beside the root, a root without parent, a member access,
\* SgIfStmt or SgSwitchStatement that lacks one of its two children, an element
\* that its own visitSgXxx function refuses.
THEOREM ReaderVerdict == Spec => []Verdict
  <1>1. RInv => Verdict
    BY DEF RInv
  <1> QED BY <1>1, ReadInvariance, PTL

-----------------------------------------------------------------------------
(* Every name is looked up in its own scope.                               *)

\* f is what P stops at, or the value above it.
Solution(f, P, Stop) ==
  /\ f = [n \in Node |-> f[n]]
  /\ \A n \in Node : f[n] = IF n = Document THEN Document
                            ELSE IF n \in Stop THEN P[n] ELSE f[P[n]]

\* A recursive definition along the tree has a solution: the values that
\* every relation closed under the definition gives are unique.
LEMMA TreeRecursion ==
  ASSUME NEW kids, IsTree(kids), Document \in Node,
         NEW P \in [Node -> Node], NEW Stop \in SUBSET Node,
         \A m \in Node : \A i \in 1..Len(kids[m]) : kids[m][i] \in Node /\ P[kids[m][i]] = m
  PROVE  \E f : Solution(f, P, Stop)
  <1> DEFINE Pairs == Node \X Node
             Closed(Q) ==
               /\ <<Document, Document>> \in Q
               /\ \A n \in Node \ {Document} :
                    /\ n \in Stop => <<n, P[n]>> \in Q
                    /\ n \notin Stop => \A v \in Node : <<P[n], v>> \in Q => <<n, v>> \in Q
             L == {p \in Pairs : \A Q \in SUBSET Pairs : Closed(Q) => p \in Q}
             S == {n \in Node : \E v \in Node : \A w \in Node : <<n, w>> \in L <=> w = v}
             Val(n) == CHOOSE v \in Node : <<n, v>> \in L
             F == [n \in Node |-> Val(n)]
  <1>1. L \in SUBSET Pairs
    OBVIOUS
  <1>2. Closed(L)
    <2>1. <<Document, Document>> \in L
      OBVIOUS
    <2>2. ASSUME NEW n \in Node \ {Document}, n \in Stop PROVE <<n, P[n]>> \in L
      <3>1. P[n] \in Node
        OBVIOUS
      <3> QED BY <2>2, <3>1
    <2>3. ASSUME NEW n \in Node \ {Document}, n \notin Stop, NEW v \in Node, <<P[n], v>> \in L
          PROVE  <<n, v>> \in L
      BY <2>3
    <2> HIDE DEF L
    <2> QED BY <2>1, <2>2, <2>3
  <1>3. ASSUME NEW Q \in SUBSET Pairs, Closed(Q) PROVE L \subseteq Q
    BY <1>3
  <1> HIDE DEF L
  <1>4. ASSUME NEW v \in Node, <<Document, v>> \in L PROVE v = Document
    <2> SUFFICES ASSUME v # Document PROVE FALSE
      OBVIOUS
    <2> DEFINE Q == L \ {<<Document, v>>}
    <2>1. Closed(Q)
      BY <1>2
    <2>2. Q \in SUBSET Pairs
      BY <1>1
    <2> HIDE DEF Closed
    <2>3. L \subseteq Q
      BY <2>1, <2>2, <1>3
    <2> QED BY <2>3, <1>4
  <1>5. ASSUME NEW n \in Node \ {Document}, NEW v \in Node, <<n, v>> \in L
        PROVE  /\ n \in Stop => v = P[n]
               /\ n \notin Stop => <<P[n], v>> \in L
    <2> SUFFICES ASSUME n \in Stop => v # P[n], n \notin Stop => <<P[n], v>> \notin L PROVE FALSE
      OBVIOUS
    <2> DEFINE Q == L \ {<<n, v>>}
    <2>1. <<Document, Document>> \in Q
      BY <1>2
    <2>2. ASSUME NEW k \in Node \ {Document}, k \in Stop PROVE <<k, P[k]>> \in Q
      BY <1>2, <2>2
    <2>3. ASSUME NEW k \in Node \ {Document}, k \notin Stop, NEW w \in Node, <<P[k], w>> \in Q
          PROVE  <<k, w>> \in Q
      BY <1>2, <2>3
    <2>4. Closed(Q)
      BY <2>1, <2>2, <2>3
    <2>5. Q \in SUBSET Pairs
      BY <1>1
    <2> HIDE DEF Closed
    <2>6. L \subseteq Q
      BY <2>4, <2>5, <1>3
    <2> QED BY <2>6, <1>5
  <1>6. Document \in S
    BY <1>2, <1>4
  <1>7. ASSUME NEW m \in S, NEW i \in 1..Len(kids[m]) PROVE kids[m][i] \in S
    <2>1. PICK c \in Node : c = kids[m][i]
      OBVIOUS
    <2>2. P[c] = m /\ m \in Node
      BY <2>1
    <2>3. CASE c = Document
      BY <1>6, <2>1, <2>3
    <2>4. CASE c # Document /\ c \in Stop
      <3>1. \A w \in Node : <<c, w>> \in L <=> w = m
        BY <1>2, <1>5, <2>2, <2>4
      <3> QED BY <2>1, <2>2, <3>1
    <2>5. CASE c # Document /\ c \notin Stop
      <3>1. PICK v \in Node : \A w \in Node : <<m, w>> \in L <=> w = v
        OBVIOUS
      <3>2. ASSUME NEW w \in Node PROVE <<c, w>> \in L <=> <<m, w>> \in L
        <4>1. <<m, w>> \in L => <<c, w>> \in L
          BY <1>2, <2>2, <2>5
        <4>2. ASSUME <<c, w>> \in L PROVE <<m, w>> \in L
          <5>1. c \in Node \ {Document}
            BY <2>5
          <5>2. <<P[c], w>> \in L
            BY <1>5, <2>5, <4>2, <5>1
          <5> QED BY <2>2, <5>2
        <4> QED BY <4>1, <4>2
      <3>3. \A w \in Node : <<c, w>> \in L <=> w = v
        BY <3>1, <3>2
      <3>4. c \in S
        BY <3>3
      <3> QED BY <2>1, <3>4
    <2> QED BY <2>3, <2>4, <2>5
  <1>8. S = Node
    <2>1. S \in SUBSET Node
      OBVIOUS
    <2> HIDE DEF S
    <2> QED BY <1>6, <1>7, <2>1 DEF IsTree
  <1> HIDE DEF Closed
  <1>9. ASSUME NEW n \in Node PROVE Val(n) \in Node /\ \A w \in Node : <<n, w>> \in L <=> w = Val(n)
    <2>1. PICK v \in Node : \A w \in Node : <<n, w>> \in L <=> w = v
      BY <1>8
    <2> QED BY <2>1
  <1> HIDE DEF S, Val
  <1>10. ASSUME NEW n \in Node
         PROVE  Val(n) = IF n = Document THEN Document ELSE IF n \in Stop THEN P[n] ELSE Val(P[n])
    <2>1. CASE n = Document
      BY <1>9, <1>4, <2>1
    <2>2. CASE n # Document
      <3>1. Val(n) \in Node /\ <<n, Val(n)>> \in L /\ P[n] \in Node
        BY <1>9
      <3>2. n \notin Stop => Val(n) = Val(P[n])
        BY <1>5, <1>9, <2>2, <3>1
      <3> QED BY <1>5, <2>2, <3>1, <3>2
    <2> QED BY <2>1, <2>2
  <1>11. PICK f : f = F
    OBVIOUS
  <1>12. f = [n \in Node |-> f[n]] /\ \A n \in Node : f[n] = Val(n) /\ P[n] \in Node
    BY <1>11 DEF F
  <1>13. \A n \in Node : f[n] = IF n = Document THEN Document
                                ELSE IF n \in Stop THEN P[n] ELSE f[P[n]]
    BY <1>10, <1>12
  <1> QED BY <1>12, <1>13 DEF Solution

\* Every node but the document node has a parent, and every child its own.
LEMMA Parents ==
  ASSUME NEW d \in Docs
  PROVE  /\ \A n \in Node \ {Document} : ParentOf(d, n) \in Node
         /\ \A m \in Node : \A i \in 1..Len(d.kids[m]) :
              d.kids[m][i] \in Node \ {Document} /\ ParentOf(d, d.kids[m][i]) = m
  <1>1. IsTree(d.kids) /\ d \in DocType
    BY TreeAssumption, DocAssumption
  <1>2. ASSUME NEW m \in Node, NEW i \in 1..Len(d.kids[m])
        PROVE  d.kids[m][i] \in Node \ {Document}
    BY <1>1, <1>2, DocAssumption DEF DocType
  <1>3. ASSUME NEW m \in Node, NEW i \in 1..Len(d.kids[m])
        PROVE  ParentOf(d, d.kids[m][i]) = m
    <2>1. PICK c : c = d.kids[m][i]
      OBVIOUS
    <2>2. \A k \in Node : (\E j \in 1..Len(d.kids[k]) : d.kids[k][j] = c) <=> k = m
      BY <1>1, <2>1 DEF IsTree
    <2> QED BY <2>1, <2>2 DEF ParentOf
  <1> DEFINE S == {Document} \cup {n \in Node : ParentOf(d, n) \in Node}
  <1>4. S \in SUBSET Node /\ Document \in S
    BY DocAssumption
  <1>5. \A n \in S : \A i \in 1..Len(d.kids[n]) : d.kids[n][i] \in S
    BY <1>2, <1>3, <1>4
  <1>6. S = Node
    <2> HIDE DEF S
    <2> QED BY <1>1, <1>4, <1>5 DEF IsTree
  <1> QED BY <1>2, <1>3, <1>6

\* The equation that defines the scopes of a document has a solution.
LEMMA ScopeEquation ==
  ASSUME NEW d \in Docs
  PROVE  /\ ScopeOf(d)[Document] = Document
         /\ \A m \in Node : \A i \in 1..Len(d.kids[m]) :
              ScopeOf(d)[d.kids[m][i]] = IF OpensScope(d, m, d.kids[m][i]) THEN m ELSE ScopeOf(d)[m]
  <1> DEFINE Solves(f) ==
               f = [n \in Node |->
                      IF n = Document THEN Document
                      ELSE IF OpensScope(d, ParentOf(d, n), n) THEN ParentOf(d, n)
                      ELSE f[ParentOf(d, n)]]
  <1>1. /\ \A n \in Node \ {Document} : ParentOf(d, n) \in Node
        /\ \A m \in Node : \A i \in 1..Len(d.kids[m]) :
             d.kids[m][i] \in Node \ {Document} /\ ParentOf(d, d.kids[m][i]) = m
    BY Parents
  <1>2. Document \in Node /\ IsTree(d.kids)
    BY DocAssumption, TreeAssumption
  <1>3. \E f : Solves(f)
    <2>1. PICK P : P = [n \in Node |-> IF n = Document THEN Document ELSE ParentOf(d, n)]
      OBVIOUS
    <2>2. PICK Stop : Stop = {n \in Node \ {Document} : OpensScope(d, ParentOf(d, n), n)}
      OBVIOUS
    <2>3. PICK kids : kids = d.kids
      OBVIOUS
    <2>4. P \in [Node -> Node]
      BY <1>1, <1>2, <2>1
    <2>5. \A m \in Node : \A i \in 1..Len(kids[m]) : kids[m][i] \in Node /\ P[kids[m][i]] = m
      BY <1>1, <2>1, <2>3
    <2>6. IsTree(kids) /\ Stop \in SUBSET Node
      BY <1>2, <2>2, <2>3
    <2>7. PICK f : Solution(f, P, Stop)
      BY <1>2, <2>4, <2>5, <2>6, TreeRecursion
    <2>8. \A n \in Node : f[n] = IF n = Document THEN Document
                                 ELSE IF OpensScope(d, ParentOf(d, n), n) THEN ParentOf(d, n)
                                 ELSE f[ParentOf(d, n)]
      <3> TAKE n \in Node
      <3>1. CASE n = Document
        BY <2>7, <3>1 DEF Solution
      <3>2. CASE n # Document
        <4>1. P[n] = ParentOf(d, n) /\ (n \in Stop <=> OpensScope(d, ParentOf(d, n), n))
          BY <2>1, <2>2, <3>2
        <4> QED BY <2>7, <3>2, <4>1 DEF Solution
      <3> QED BY <3>1, <3>2
    <2>9. f = [n \in Node |-> f[n]]
      BY <2>7 DEF Solution
    <2>10. Solves(f)
      BY <2>8, <2>9
    <2> QED BY <2>10
  <1>4. ScopeOf(d) = CHOOSE f : Solves(f)
    BY Zenon DEF ScopeOf
  <1> HIDE DEF Solves
  <1>5. Solves(ScopeOf(d))
    BY <1>3, <1>4
  <1>6. PICK f : f = ScopeOf(d)
    OBVIOUS
  <1>7. \A n \in Node : f[n] = IF n = Document THEN Document
                               ELSE IF OpensScope(d, ParentOf(d, n), n) THEN ParentOf(d, n)
                               ELSE f[ParentOf(d, n)]
    BY <1>5, <1>6 DEF Solves
  <1>8. ASSUME NEW m \in Node, NEW i \in 1..Len(d.kids[m])
        PROVE  f[d.kids[m][i]] = IF OpensScope(d, m, d.kids[m][i]) THEN m ELSE f[m]
    BY <1>1, <1>7
  <1> QED BY <1>2, <1>6, <1>7, <1>8

\* What the scope stack of an activation has on top is its own scope.
NamesInv ==
  WellSpaced =>
    /\ \A n \in Node : resolved[n] # {} => resolved[n] = {ScopeOf(doc)[n]}
    /\ \A i \in 1..Len(frames) : topScopeStack(frames[i].base) = ScopeOf(doc)[frames[i].node]

LEMMA TopOfPush ==
  ASSUME NEW stack \in Seq(Node), NEW n \in Node
  PROVE  topScopeStack(stack \o <<n>>) = n
  <1>1. stack \o <<n>> # << >> /\ Len(stack \o <<n>>) = Len(stack) + 1
    OBVIOUS
  <1>2. (stack \o <<n>>)[Len(stack) + 1] = n
    OBVIOUS
  <1> QED BY <1>1, <1>2 DEF topScopeStack

\* An activation has pushed itself exactly if it is the scope of the child it
\* is about to visit.
LEMMA PushedOpens ==
  ASSUME doc \in Docs, NEW f \in Frame, NEW s \in 1..Len(doc.kids[f.node]),
         KindOf(f.node) \in Member => OperandsSeen(f, s)
  PROVE  Pushed(f) = IF OpensScope(doc, f.node, doc.kids[f.node][s]) THEN <<f.node>> ELSE << >>
  <1>1. PICK m \in Node : m = f.node
    BY DEF Frame
  <1>2. PICK c : c = doc.kids[m][s]
    OBVIOUS
  <1>3. Len(doc.kids[m]) \in Nat
    BY DocAssumption DEF DocType
  <1>4. \A j \in 1..Len(doc.kids[m]) : doc.kids[m][j] = c <=> j = s
    BY <1>1, <1>2, OnePlace
  <1>5. ASSUME KindOf(m) \in Member
        PROVE  IsSecond(doc, m, c) <=> f.pushed /\ ~f.rhs
    <2>1. OperandsSeen(f, s) /\ First(KindOf(m)) = Expression /\ Second(KindOf(m)) = Expression
      BY <1>1, <1>5, MemberLoop
    <2>2. IsSecond(doc, m, c) <=>
            \E i \in 1..(s - 1) :
              /\ KidKind(m, i) \in ClassTyped
              /\ \A h \in 1..(s - 1) : h # i => KidKind(m, h) \notin Expression
      <3>1. s \in 1..Len(doc.kids[m]) /\ \A i \in 1..(s - 1) : i \in 1..Len(doc.kids[m]) /\ i < s
        BY <1>1, <1>3
      <3>2. \A i \in 1..Len(doc.kids[m]) : i < s => i \in 1..(s - 1)
        BY <1>3, <3>1
      <3> QED BY <1>4, <3>1, <3>2 DEF IsSecond, KidKind, KindOf
    <2>3. f.rhs <=> \E h, i \in 1..(s - 1) :
                      h < i /\ KidKind(m, h) \in Expression /\ KidKind(m, i) \in Expression
      BY <1>1, <2>1 DEF OperandsSeen
    <2>4. f.pushed <=> \E i \in 1..(s - 1) :
                         /\ KidKind(m, i) \in ClassTyped
                         /\ \A h \in 1..(i - 1) : KidKind(m, h) \notin Expression
      BY <1>1, <1>5, <2>1 DEF OperandsSeen, Enters
    <2>5. \A i \in 1..(s - 1) : KidKind(m, i) \in ClassTyped => KidKind(m, i) \in Expression
      BY DEF Expression
    <2>6. ASSUME IsSecond(doc, m, c) PROVE f.pushed /\ ~f.rhs
      <3>1. PICK i \in 1..(s - 1) :
              /\ KidKind(m, i) \in ClassTyped
              /\ \A h \in 1..(s - 1) : h # i => KidKind(m, h) \notin Expression
        BY <2>2, <2>6
      <3>2. \A h \in 1..(i - 1) : h \in 1..(s - 1) /\ h # i
        OBVIOUS
      <3>3. f.pushed
        BY <2>4, <3>1, <3>2
      <3>4. ~f.rhs
        BY <2>3, <3>1
      <3> QED BY <3>3, <3>4
    <2>7. ASSUME f.pushed, ~f.rhs PROVE IsSecond(doc, m, c)
      <3>1. PICK i \in 1..(s - 1) :
              /\ KidKind(m, i) \in ClassTyped
              /\ \A h \in 1..(i - 1) : KidKind(m, h) \notin Expression
        BY <2>4, <2>7
      <3>2. ASSUME NEW h \in 1..(s - 1), h # i PROVE KidKind(m, h) \notin Expression
        <4>1. CASE h < i
          BY <3>1, <4>1
        <4>2. CASE i < h
          BY <2>3, <2>5, <2>7, <3>1, <4>2
        <4> QED BY <3>2, <4>1, <4>2
      <3> QED BY <2>2, <3>1, <3>2
    <2> QED BY <2>6, <2>7
  <1>6. OpensScope(doc, m, c) <=> KindOf(m) \in Scope \/ (KindOf(m) \in Member /\ f.pushed /\ ~f.rhs)
    BY <1>5 DEF OpensScope, KindOf
  <1> QED BY <1>1, <1>2, <1>6 DEF Pushed

LEMMA InitNames == Init => NamesInv
  <1> SUFFICES ASSUME Init PROVE NamesInv
    OBVIOUS
  <1> DEFINE f == Call(Document, << >>)
  <1>1. frames = <<f>> /\ doc \in Docs /\ \A n \in Node : resolved[n] = {}
    BY DEF Init
  <1>2. f.node = Document /\ f.base = << >>
    BY DEF Call
  <1> HIDE DEF f
  <1>3. \A i \in 1..Len(frames) : frames[i] = f
    BY <1>1
  <1>4. topScopeStack(<< >>) = Document
    BY DEF topScopeStack
  <1>5. ScopeOf(doc)[Document] = Document
    BY <1>1, ScopeEquation
  <1> QED BY <1>1, <1>2, <1>3, <1>4, <1>5 DEF NamesInv

\* The activations that remain are the visits they were.
LEMMA NamesKept ==
  ASSUME NamesInv, UNCHANGED <<doc, resolved>>,
         \A i \in 1..Len(frames') :
           i \in 1..Len(frames) /\ frames'[i].node = frames[i].node /\ frames'[i].base = frames[i].base
  PROVE  NamesInv'
  <1>1. WellSpaced' => WellSpaced
    BY SameDocument
  <1> QED BY <1>1 DEF NamesInv, topScopeStack

\* The new activation begins with its own scope on top of the stack.
LEMMA VisitChildNames ==
  ASSUME IInv, FlagsKnown, DOMAIN resolved = Node, NamesInv, VisitChild
  PROVE  NamesInv'
  <1>1. PICK n : n = Len(frames)
    OBVIOUS
  <1>2. PICK c : c = Child
    OBVIOUS
  <1>3. PICK f : f = frames[n]
    OBVIOUS
  <1>4. Types /\ Chained /\ scopes \in Seq(Node)
    BY DEF IInv, Types
  <1>5. /\ n \in Nat \ {0} /\ n \in 1..Len(frames) /\ doc \in Docs /\ doc' = doc /\ f.node \in Node
        /\ f.next \in 1..Len(doc.kids[f.node]) /\ c = doc.kids[f.node][f.next] /\ c \in Node
        /\ Len(frames') = n + 1 /\ frames'[n + 1].node = c /\ frames'[n + 1].base = scopes
        /\ frames'[n].node = f.node /\ frames'[n].base = f.base
        /\ \A i \in 1..(n - 1) : i \in 1..Len(frames) /\ frames'[i] = frames[i]
    BY <1>1, <1>2, <1>3, <1>4, VisitChildFacts
  <1>6. f \in Frame /\ f.base \in Seq(Node)
    <2>1. frames # << >>
      BY <1>1, <1>5
    <2> QED BY <1>3, <1>4, <1>5, <2>1, TopFacts
  <1>7. resolved' = IF KindOf(c) \in Ref THEN [resolved EXCEPT ![c] = {topScopeStack(scopes)}]
                    ELSE resolved
    BY <1>2 DEF VisitChild
  <1>8. WellSpaced' => WellSpaced
    BY <1>5, SameDocument
  <1> SUFFICES ASSUME WellSpaced
               PROVE  /\ \A k \in Node : resolved'[k] # {} => resolved'[k] = {ScopeOf(doc')[k]}
                      /\ \A i \in 1..Len(frames') :
                           topScopeStack(frames'[i].base) = ScopeOf(doc')[frames'[i].node]
    BY <1>8 DEF NamesInv, topScopeStack
  <1>9. /\ \A k \in Node : resolved[k] # {} => resolved[k] = {ScopeOf(doc)[k]}
        /\ \A i \in 1..Len(frames) : topScopeStack(frames[i].base) = ScopeOf(doc)[frames[i].node]
    BY DEF NamesInv
  <1>10. scopes = f.base \o Pushed(f)
    BY <1>1, <1>3, <1>5 DEF IInv, Stacks, Above
  <1>11. Pushed(f) = IF OpensScope(doc, f.node, c) THEN <<f.node>> ELSE << >>
    <2>1. Seen(n) = f.next
      BY <1>1, <1>3, SeenFacts
    <2>2. KindOf(f.node) \in Member => OperandsSeen(f, f.next)
      BY <1>3, <1>5, <2>1 DEF FlagsKnown, NeedsTwo
    <2> QED BY <1>5, <1>6, <2>2, PushedOpens
  <1>12. ScopeOf(doc)[c] = IF OpensScope(doc, f.node, c) THEN f.node ELSE ScopeOf(doc)[f.node]
    BY <1>5, ScopeEquation
  <1>13. topScopeStack(scopes) = ScopeOf(doc)[c]
    <2>1. CASE OpensScope(doc, f.node, c)
      BY <1>5, <1>6, <1>10, <1>11, <1>12, <2>1, TopOfPush
    <2>2. CASE ~OpensScope(doc, f.node, c)
      <3>1. scopes = f.base
        BY <1>6, <1>10, <1>11, <2>2, ConcatEmptySeq
      <3> QED BY <1>3, <1>5, <1>9, <1>12, <2>2, <3>1
    <2> QED BY <2>1, <2>2
  <1>14. \A k \in Node : resolved'[k] # {} => resolved'[k] = {ScopeOf(doc)[k]}
    <2> TAKE k \in Node
    <2>1. resolved'[k] = IF k = c /\ KindOf(c) \in Ref THEN {topScopeStack(scopes)} ELSE resolved[k]
      BY <1>7
    <2> QED BY <1>9, <1>13, <2>1
  <1>15. \A i \in 1..Len(frames') : topScopeStack(frames'[i].base) = ScopeOf(doc)[frames'[i].node]
    <2> TAKE i \in 1..Len(frames')
    <2>1. CASE i = n + 1
      BY <1>5, <1>13, <2>1
    <2>2. CASE i # n + 1
      <3>1. i \in 1..Len(frames) /\ frames'[i].node = frames[i].node /\ frames'[i].base = frames[i].base
        BY <1>1, <1>3, <1>5, <2>2
      <3> QED BY <1>9, <3>1
    <2> QED BY <2>1, <2>2
  <1> QED BY <1>5, <1>14, <1>15

LEMMA NextNames == IInv /\ RInv /\ NamesInv /\ [Next]_vars => NamesInv'
  <1> SUFFICES ASSUME IInv, RInv, NamesInv, [Next]_vars PROVE NamesInv'
    OBVIOUS
  <1>1. Types /\ Chained /\ FlagsKnown /\ DOMAIN resolved = Node
    BY DEF IInv, RInv
  <1>2. CASE VisitChild
    BY <1>1, <1>2, VisitChildNames
  <1>3. CASE UNCHANGED <<doc, resolved, frames>>
    BY <1>3, NamesKept
  <1>4. CASE SkipComment \/ VisitInfo
    <2>1. PICK n : n = Len(frames)
      OBVIOUS
    <2>2. /\ UNCHANGED <<doc, resolved>> /\ Len(frames') = n /\ n \in Nat \ {0} /\ n \in 1..Len(frames)
          /\ frames'[n].node = frames[n].node /\ frames'[n].base = frames[n].base
          /\ \A i \in 1..(n - 1) : i \in 1..Len(frames) /\ frames'[i] = frames[i]
      BY <1>1, <1>4, <2>1, PassedFacts
    <2>3. \A i \in 1..Len(frames') :
            i \in 1..Len(frames) /\ frames'[i].node = frames[i].node /\ frames'[i].base = frames[i].base
      BY <2>1, <2>2
    <2> QED BY <2>2, <2>3, NamesKept
  <1>5. CASE Return
    <2>1. PICK n : n = Len(frames)
      OBVIOUS
    <2>2. /\ UNCHANGED <<doc, resolved>> /\ Len(frames') = n - 1 /\ n \in Nat /\ n > 1
          /\ n - 1 \in 1..Len(frames)
          /\ frames'[n - 1].node = frames[n - 1].node /\ frames[n - 1] \in Frame
          /\ frames'[n - 1] = Taken(frames[n - 1], KindOf(frames[n].node))
          /\ \A i \in 1..(n - 2) : i \in 1..Len(frames) /\ frames'[i] = frames[i]
      BY <1>1, <1>5, <2>1, ReturnFacts
    <2>3. frames'[n - 1].base = frames[n - 1].base
      BY <2>2, TakenType
    <2>4. ASSUME NEW i \in 1..Len(frames')
          PROVE  i \in 1..Len(frames) /\ frames'[i].node = frames[i].node /\ frames'[i].base = frames[i].base
      <3>1. i = n - 1 \/ i \in 1..(n - 2)
        BY <2>2
      <3> QED BY <2>2, <2>3, <3>1
    <2> QED BY <2>2, <2>4, NamesKept
  <1>6. CASE Finish
    <2>1. Len(frames') = 0 /\ UNCHANGED <<doc, resolved>>
      BY <1>6 DEF Finish
    <2>2. \A i \in 1..Len(frames') : FALSE
      BY <2>1
    <2> QED BY <2>1, <2>2, NamesKept
  <1> QED BY <1>2, <1>3, <1>4, <1>5, <1>6
          DEF Next, UnknownNode, FatalReturn, Refuse, Abort, Done, vars

\* Every name that visit() meets is looked up in the scope it is written in:
\* the class of the object for the second operand of a member access, the
\* nearest enclosing scope for anything else, whatever was pushed and popped
\* in between.
THEOREM ReaderResolves == Spec => []NamesResolved
  <1>1. Spec => []NamesInv
    BY InitNames, NextNames, Invariance, ReadInvariance, PTL DEF Spec
  <1>2. NamesInv => NamesResolved
    BY DEF NamesInv, NamesResolved
  <1> QED BY <1>1, <1>2, PTL
=============================================================================
