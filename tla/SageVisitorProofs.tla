------------------------- MODULE SageVisitorProofs -------------------------
(***************************************************************************)
(* The XML writer, for every AST: its state is well typed, the call stack  *)
(* of visit() and the open elements stay in step, and the text it writes   *)
(* is a well-formed XML document.                                          *)
(***************************************************************************)
EXTENDS SageVisitor, TLAPS, SequenceTheorems

\* The inductive invariant.
IInv == TypeOK /\ ast \in Asts /\ Nesting /\ OneRoot /\ DepthIsNesting

-----------------------------------------------------------------------------
(* Lemmas on the operators the model is built from.                        *)

\* Removing the last element of a non-empty sequence.
LEMMA PopFacts ==
  ASSUME NEW S, NEW s \in Seq(S), s # <<>>
  PROVE  /\ Len(s) \in Nat \ {0}
         /\ Pop(s) \in Seq(S)
         /\ Len(Pop(s)) = Len(s) - 1
         /\ \A i \in 1..(Len(s) - 1) : Pop(s)[i] = s[i]
  <1> DEFINE m == Len(s) - 1
  <1>1. Len(s) \in Nat \ {0} /\ m \in Nat /\ \A i \in 1..Len(s) : s[i] \in S
    BY EmptySeq, ElementOfSeq
  <1> HIDE DEF m
  <1>2. \A i \in 1..m : s[i] \in S
    BY <1>1 DEF m
  <1>3. /\ SubSeq(s, 1, m) \in Seq(S)
        /\ Len(SubSeq(s, 1, m)) = IF 1 <= m THEN m - 1 + 1 ELSE 0
        /\ \A i \in 1..(m - 1 + 1) : SubSeq(s, 1, m)[i] = s[1 + i - 1]
    BY <1>1, <1>2, SubSeqProperties
  <1>4. Len(SubSeq(s, 1, m)) = m /\ \A i \in 1..m : SubSeq(s, 1, m)[i] = s[i]
    BY <1>1, <1>3
  <1>5. QED
    BY <1>1, <1>3, <1>4 DEF Pop, m

\* What AstAssumption says of the AST being written.
LEMMA AstFacts ==
  ASSUME ast \in Asts
  PROVE  /\ ast \in AstType
         /\ ast.root \in Node
         /\ ast.root \notin ast.foreign
         /\ ast.root \notin ast.generated
         /\ ast.root \notin ast.info
         /\ \A n \in Node : /\ ast.inode[n] \in Seq(Node \cup {NULL})
                            /\ Successors(n) \in Seq(Node \cup {NULL})
  <1>1. ast \in AstType /\ ast.root \notin ast.foreign \cup ast.generated \cup ast.info
    BY AstAssumption
  <1>2. \A n \in Node : Successors(n) \in Seq(Node \cup {NULL})
    BY <1>1, EmptySeq DEF AstType, Successors
  <1>3. QED
    BY <1>1, <1>2 DEF AstType

\* The items an activation adds are sequences of items.
LEMMA ItemFacts ==
  ASSUME NEW n \in Node
  PROVE  /\ BeforeElement(n) \in Seq(Item)
         /\ FirstInside(n) \in Seq(Item)
         /\ PreprocessingInfo(n) \in Seq(Item)
         /\ \A pos \in Position : FortranPragma(n, pos) \in Seq(Item)
         /\ << <<"element", n>> >> \in Seq(Item)
  <1>1. \A k \in ItemKind : << <<k, n>> >> \in Seq(Item)
    BY DEF Item
  <1>2. <<>> \in Seq(Item)
    BY EmptySeq
  <1>3. \A pos \in Position : pos \in ItemKind /\ FortranPragma(n, pos) \in Seq(Item)
    BY <1>1, <1>2 DEF FortranPragma, ItemKind
  <1>4. {"element", "info"} \subseteq ItemKind /\ "before" \in Position
    BY DEF ItemKind, Position
  <1>5. QED
    BY <1>1, <1>2, <1>3, <1>4 DEF BeforeElement, FirstInside, PreprocessingInfo

\* Appending items under an element keeps kids a function to sequences of
\* items.
LEMMA KidsFacts ==
  ASSUME NEW k \in [Node \cup {Doc} -> Seq(Item)], NEW e \in Node \cup {Doc},
         NEW s \in Seq(Item)
  PROVE  [k EXCEPT ![e] = @ \o s] \in [Node \cup {Doc} -> Seq(Item)]
  BY ConcatProperties

\* The innermost activation, while visit() runs.
LEMMA TopFacts ==
  ASSUME TypeOK, frames # <<>>
  PROVE  /\ Len(frames) \in Nat \ {0}
         /\ Top \in Frame
         /\ Top.node \in Node
         /\ Top.todo \in Seq(Node \cup {NULL})
         /\ Top.base \in Nat
         /\ Innermost \in Node \cup {Doc}
         /\ Enclosing \in Node \cup {Doc}
  <1>1. Len(frames) \in Nat \ {0} /\ Top \in Frame
    BY EmptySeq, ElementOfSeq DEF TypeOK, Top
  <1>2. Innermost \in Node \cup {Doc}
    BY EmptySeq, ElementOfSeq DEF TypeOK, Innermost
  <1>3. Enclosing \in Node \cup {Doc}
    <2>1. CASE Len(open) < 2
      BY <2>1 DEF Enclosing
    <2>2. CASE ~(Len(open) < 2)
      BY <2>2, LenProperties, ElementOfSeq DEF TypeOK, Enclosing
    <2>3. QED
      BY <2>1, <2>2
  <1>4. QED
    BY <1>1, <1>2, <1>3 DEF Frame

\* The types of an activation's fields.
LEMMA FrameFacts ==
  ASSUME TypeOK
  PROVE  /\ Len(frames) \in Nat /\ Len(open) \in Nat
         /\ \A i \in 1..Len(frames) : /\ frames[i].node \in Node
                                       /\ frames[i].pc \in Phase
                                       /\ frames[i].base \in Nat
                                       /\ Height(frames[i]) \in Nat
  <1>1. frames \in Seq(Frame) /\ open \in Seq(Node)
    BY DEF TypeOK
  <1>2. \A i \in 1..Len(frames) : frames[i] \in Frame
    BY <1>1, ElementOfSeq
  <1>3. \A f \in Frame : f.node \in Node /\ f.pc \in Phase /\ f.base \in Nat /\ Height(f) \in Nat
    BY DEF Frame, Height
  <1>4. QED
    BY <1>1, <1>2, <1>3, LenProperties

\* The outermost activation, visit(root), has either called nobody or holds
\* the root element open.
LEMMA BottomFacts ==
  ASSUME TypeOK, Nesting, OneRoot, frames # <<>>
  PROVE  /\ 1 \in 1..Len(frames)
         /\ frames[1].pc = "enter" => Len(frames) = 1
         /\ Len(frames) # 1 => Opened(frames[1])
  <1>1. 1 \in 1..Len(frames)
    BY TopFacts
  <1>2. frames[1].pc = "enter" => 1 = Len(frames)
    BY <1>1 DEF Nesting, OnlyTopEnters
  <1>3. frames[1].pc \in {"enter", "skip", "succ", "inode"} /\ frames[1].pc # "skip"
    BY <1>1, FrameFacts DEF Phase, OneRoot
  <1>4. QED
    BY <1>1, <1>2, <1>3 DEF Opened

\* Goto changes the innermost activation only.
LEMMA GotoFacts ==
  ASSUME TypeOK, frames # <<>>, NEW p \in Phase, NEW t \in Seq(Node \cup {NULL}), Goto(p, t)
  PROVE  /\ frames' \in Seq(Frame)
         /\ Len(frames') = Len(frames)
         /\ \A i \in 1..(Len(frames) - 1) : frames'[i] = frames[i]
         /\ frames'[Len(frames)].node = Top.node
         /\ frames'[Len(frames)].base = Top.base
         /\ frames'[Len(frames)].pc = p
         /\ frames'[Len(frames)].todo = t
  <1> DEFINE f == [Top EXCEPT !.pc = p, !.todo = t]
  <1>1. Len(frames) \in 1..Len(frames) /\ Top \in Frame /\ frames \in Seq(Frame)
    BY TopFacts DEF TypeOK
  <1>2. f \in Frame /\ f.node = Top.node /\ f.base = Top.base /\ f.pc = p /\ f.todo = t
    BY <1>1 DEF Frame
  <1>3. frames' = [frames EXCEPT ![Len(frames)] = f]
    BY <1>1 DEF Goto, Top
  <1> HIDE DEF f
  <1>4. QED
    BY <1>1, <1>2, <1>3, ExceptSeq

\* A recursive call advances the caller's loop and puts the callee on top.
LEMMA VisitNextFacts ==
  ASSUME TypeOK, VisitNext
  PROVE  /\ frames' \in Seq(Frame)
         /\ Head(Top.todo) \in Node \cup {NULL}
         /\ \A i \in 1..Len(frames) : /\ frames'[i].node = frames[i].node
                                       /\ frames'[i].pc = frames[i].pc
                                       /\ frames'[i].base = frames[i].base
         /\ \A i \in 1..(Len(frames) - 1) : frames'[i] = frames[i]
         /\ frames'[Len(frames)].todo = Tail(Top.todo)
         /\ \/ Head(Top.todo) = NULL /\ Len(frames') = Len(frames)
            \/ /\ Head(Top.todo) # NULL
               /\ Len(frames') = Len(frames) + 1
               /\ frames'[Len(frames')].node = Head(Top.todo)
               /\ frames'[Len(frames')].base = Len(open)
               /\ frames'[Len(frames')].pc = "enter"
  <1> DEFINE f == [Top EXCEPT !.todo = Tail(@)]
             rest == [frames EXCEPT ![Len(frames)] = f]
             h == Head(Top.todo)
  <1>1. frames # <<>> /\ Top.todo # <<>> /\ frames \in Seq(Frame)
    BY DEF VisitNext, TypeOK
  <1>2. /\ Len(frames) \in Nat \ {0} /\ Len(frames) \in 1..Len(frames)
        /\ Top \in Frame /\ Top.todo \in Seq(Node \cup {NULL})
    BY <1>1, TopFacts
  <1>3. h \in Node \cup {NULL} /\ Tail(Top.todo) \in Seq(Node \cup {NULL})
    BY <1>1, <1>2, HeadTailProperties
  <1>4. /\ f \in Frame /\ f.node = Top.node /\ f.pc = Top.pc /\ f.base = Top.base
        /\ f.todo = Tail(Top.todo)
    BY <1>2, <1>3 DEF Frame
  <1>5. frames' = IF h = NULL THEN rest ELSE Append(rest, Call(h))
    BY <1>2 DEF VisitNext, Top
  <1>6. Len(open) \in Nat
    BY LenProperties DEF TypeOK
  <1> HIDE DEF f
  <1>7. /\ rest \in Seq(Frame) /\ Len(rest) = Len(frames)
        /\ \A i \in 1..Len(frames) : rest[i] = IF i = Len(frames) THEN f ELSE frames[i]
    BY <1>1, <1>2, <1>4, ExceptSeq
  <1>8. /\ \A i \in 1..Len(frames) : /\ rest[i].node = frames[i].node
                                     /\ rest[i].pc = frames[i].pc
                                     /\ rest[i].base = frames[i].base
        /\ \A i \in 1..(Len(frames) - 1) : rest[i] = frames[i]
        /\ rest[Len(frames)].todo = Tail(Top.todo)
    <2>1. \A i \in 1..Len(frames) : /\ rest[i].node = frames[i].node
                                    /\ rest[i].pc = frames[i].pc
                                    /\ rest[i].base = frames[i].base
      BY <1>4, <1>7 DEF Top
    <2>2. \A i \in 1..(Len(frames) - 1) : i \in 1..Len(frames) /\ i # Len(frames)
      BY <1>2
    <2>3. QED
      BY <1>2, <1>4, <1>7, <2>1, <2>2
  <1> HIDE DEF rest, h
  <1>9. CASE h = NULL
    BY <1>3, <1>5, <1>7, <1>8, <1>9 DEF h
  <1>10. CASE h # NULL
    <2>1. /\ Call(h) \in Frame /\ Call(h).node = h
          /\ Call(h).base = Len(open) /\ Call(h).pc = "enter"
      BY <1>3, <1>6, <1>10, EmptySeq DEF Call, Frame, Phase
    <2>2. frames' = Append(rest, Call(h))
      BY <1>5, <1>10
    <2>3. /\ frames' \in Seq(Frame) /\ Len(frames') = Len(frames) + 1
          /\ \A i \in 1..Len(frames) : frames'[i] = rest[i]
          /\ frames'[Len(frames) + 1] = Call(h)
      BY <1>2, <1>7, <2>1, <2>2, AppendProperties
    <2>4. /\ \A i \in 1..(Len(frames) - 1) : frames'[i] = frames[i]
          /\ frames'[Len(frames)].todo = Tail(Top.todo)
      BY <1>2, <1>8, <2>3
    <2>5. QED
      BY <1>3, <1>8, <1>10, <2>1, <2>3, <2>4 DEF h
  <1>11. QED
    BY <1>9, <1>10

-----------------------------------------------------------------------------
(* Nesting, OneRoot and the type of frames, for the ways an activation can *)
(* change.                                                                 *)

\* The shape of the call stack.
FramesOK == frames \in Seq(Frame) /\ Nesting /\ OneRoot

\* What remains of the stack when the innermost activation returns: nobody is
\* about to decide what to write, and the heights are as they were.
LEMMA ShorterStack ==
  ASSUME Len(frames) \in Nat \ {0}, Nesting,
         Len(frames') = Len(frames) - 1,
         \A i \in 1..(Len(frames) - 1) : frames'[i] = frames[i],
         frames' # <<>> <=> Len(frames') # 0, frames # <<>>
  PROVE  OnlyTopEnters' /\ Heights' /\ BottomHeight'
  <1>1. OnlyTopEnters /\ Heights /\ BottomHeight
    BY DEF Nesting
  <1>2. \A i \in 1..(Len(frames) - 1) : i \in 1..Len(frames) /\ i # Len(frames)
    OBVIOUS
  <1>3. OnlyTopEnters'
    <2>1. \A i \in 1..(Len(frames) - 1) : frames'[i].pc # "enter"
      BY <1>1, <1>2 DEF OnlyTopEnters
    <2>2. QED
      BY <2>1 DEF OnlyTopEnters
  <1>4. Heights'
    <2> SUFFICES ASSUME NEW i \in 1..(Len(frames) - 1), NEW j \in 1..(Len(frames) - 1), i < j
                 PROVE  /\ Height(frames'[i]) <= frames'[j].base
                        /\ j = i + 1 => frames'[j].base = Height(frames'[i])
      BY DEF Heights
    <2>1. frames'[i] = frames[i] /\ frames'[j] = frames[j]
      OBVIOUS
    <2>2. i \in 1..Len(frames) /\ j \in 1..Len(frames)
      BY <1>2
    <2>3. /\ Height(frames[i]) <= frames[j].base
          /\ j = i + 1 => frames[j].base = Height(frames[i])
      BY <1>1, <2>2 DEF Heights
    <2>4. QED
      BY <2>1, <2>3
  <1>5. BottomHeight'
    <2> SUFFICES ASSUME Len(frames') # 0
                 PROVE  frames'[1].base = 0
      BY DEF BottomHeight
    <2>1. 1 \in 1..(Len(frames) - 1)
      OBVIOUS
    <2>2. frames'[1] = frames[1]
      BY <2>1
    <2>3. QED
      BY <1>1, <2>2 DEF BottomHeight
  <1>6. QED
    BY <1>3, <1>4, <1>5

\* visit() returns without having opened an element.
LEMMA PlainReturn ==
  ASSUME IInv, frames # <<>>, ~Opened(Top), Return, UNCHANGED <<ast, open>>,
         Len(frames) = 1 \/ UNCHANGED tag \/ frames[1].pc # "enter"
  PROVE  FramesOK'
  <1> USE DEF IInv
  <1>1. /\ frames \in Seq(Frame) /\ Len(frames) \in Nat \ {0} /\ frames' \in Seq(Frame)
        /\ Len(frames') = Len(frames) - 1
        /\ \A i \in 1..(Len(frames) - 1) : frames'[i] = frames[i]
        /\ frames' # <<>> <=> Len(frames') # 0
        /\ open \in Seq(Node) /\ Len(open) = Top.base /\ Top.base \in Nat
    BY PopFacts, EmptySeq, TopFacts DEF TypeOK, Return, Nesting, TopHeight, Height
  <1>2. OneRoot'
    <2>1. CASE Len(frames) = 1
      <3>1. frames' = <<>>
        BY <1>1, <2>1
      <3>2. QED
        BY <3>1 DEF OneRoot
    <2>2. CASE Len(frames) # 1
      <3>1. 1 \in 1..(Len(frames) - 1)
        BY <1>1, <2>2
      <3>2. frames'[1] = frames[1]
        BY <1>1, <3>1
      <3>3. QED
        BY <2>2, <3>2 DEF OneRoot
    <2>3. QED
      BY <2>1, <2>2
  <1>3. TopHeight'
    <2>1. CASE Len(frames) = 1
      BY <1>1, <2>1 DEF Nesting, BottomHeight, TopHeight, Top
    <2>2. CASE Len(frames) # 1
      <3>1. Top.base = Height(frames[Len(frames) - 1]) /\ Len(frames') # 0
        BY <1>1, <2>2 DEF Nesting, Heights, Top
      <3>2. Top' = frames[Len(frames) - 1]
        BY <1>1, <2>2 DEF Top
      <3>3. QED
        BY <1>1, <3>1, <3>2 DEF TopHeight, Height, Opened
    <2>3. QED
      BY <2>1, <2>2
  <1>4. Nesting'
    <2>1. OwnElement'
      BY <1>1 DEF Nesting, OwnElement
    <2>2. OnlyTopEnters' /\ Heights' /\ BottomHeight'
      BY <1>1, ShorterStack
    <2>3. QED
      BY <1>3, <2>1, <2>2 DEF Nesting
  <1>5. QED
    BY <1>1, <1>2, <1>4 DEF FramesOK

\* visit() moves on without opening or closing an element.
LEMMA PlainGoto ==
  ASSUME IInv, frames # <<>>, NEW p \in Phase, NEW t \in Seq(Node \cup {NULL}), Goto(p, t),
         p # "enter", Opened(Top) <=> p \in {"succ", "inode"},
         p = "skip" => Top.node # ast.root,
         UNCHANGED <<ast, open, tag>>
  PROVE  FramesOK'
  <1> USE DEF IInv
  <1>1. /\ frames' \in Seq(Frame)
        /\ Len(frames') = Len(frames)
        /\ \A i \in 1..(Len(frames) - 1) : frames'[i] = frames[i]
        /\ frames'[Len(frames)].node = Top.node
        /\ frames'[Len(frames)].base = Top.base
        /\ frames'[Len(frames)].pc = p
    BY GotoFacts
  <1>2. Len(frames) \in Nat \ {0} /\ frames' # <<>> /\ frames \in Seq(Frame)
    BY <1>1, TopFacts, EmptySeq DEF TypeOK
  <1>3. OneRoot'
    BY <1>1, <1>2 DEF OneRoot, Top
  <1>4. \A i \in 1..Len(frames) : /\ frames'[i].node = frames[i].node
                                  /\ frames'[i].base = frames[i].base
                                  /\ Opened(frames'[i]) <=> Opened(frames[i])
    BY <1>1, <1>2 DEF Top, Opened
  <1>5. \A i \in 1..Len(frames) : Height(frames'[i]) = Height(frames[i])
    BY <1>4 DEF Height
  <1>6. Nesting'
    <2>1. OwnElement'
      BY <1>1, <1>4, <1>5 DEF Nesting, OwnElement
    <2>2. Heights' /\ BottomHeight'
      BY <1>1, <1>2, <1>4, <1>5 DEF Nesting, Heights, BottomHeight
    <2>3. OnlyTopEnters'
      BY <1>1, <1>2 DEF Nesting, OnlyTopEnters
    <2>4. TopHeight'
      BY <1>1, <1>2, <1>5 DEF Nesting, TopHeight, Top
    <2>5. QED
      BY <2>1, <2>2, <2>3, <2>4 DEF Nesting
  <1>7. QED
    BY <1>1, <1>3, <1>6 DEF FramesOK

\* The start tag: the activation's element becomes the innermost one.
LEMMA StartTagFrames ==
  ASSUME IInv, WriteStartTag
  PROVE  FramesOK' /\ open' \in Seq(Node) /\ Len(open') = Len(open) + 1
  <1> USE DEF IInv
  <1>1. /\ frames # <<>> /\ Top.pc = "enter" /\ ast' = ast
        /\ open' = Append(open, Top.node) /\ Goto("succ", Successors(Top.node))
    BY DEF WriteStartTag, Written
  <1>2. /\ Top.node \in Node /\ Top.base \in Nat /\ Len(frames) \in Nat \ {0}
        /\ Successors(Top.node) \in Seq(Node \cup {NULL})
        /\ frames \in Seq(Frame) /\ open \in Seq(Node)
    BY <1>1, TopFacts, AstFacts DEF TypeOK
  <1>3. /\ frames' \in Seq(Frame)
        /\ Len(frames') = Len(frames)
        /\ \A i \in 1..(Len(frames) - 1) : frames'[i] = frames[i]
        /\ frames'[Len(frames)].node = Top.node
        /\ frames'[Len(frames)].base = Top.base
        /\ frames'[Len(frames)].pc = "succ"
    BY <1>1, <1>2, GotoFacts DEF Phase
  <1>4. /\ open' \in Seq(Node) /\ Len(open) \in Nat /\ Len(open') = Len(open) + 1
        /\ \A i \in 1..Len(open) : open'[i] = open[i]
        /\ open'[Len(open) + 1] = Top.node
    BY <1>1, <1>2, AppendProperties, LenProperties
  <1>5. frames' # <<>> /\ Len(open) = Top.base
    BY <1>1, <1>2, <1>3, EmptySeq DEF Nesting, TopHeight, Height, Opened
  <1>6. OneRoot'
    <2>1. CASE Len(frames) = 1
      <3>1. frames'[1].node = frames[1].node /\ frames'[1].pc = "succ"
        BY <1>3, <2>1 DEF Top
      <3>2. QED
        BY <1>1, <3>1 DEF OneRoot
    <2>2. CASE Len(frames) # 1
      <3>1. frames'[1] = frames[1] /\ frames[1].pc # "enter"
        BY <1>1, <1>2, <1>3, <2>2, BottomFacts
      <3>2. QED
        BY <1>1, <3>1 DEF OneRoot
    <2>3. QED
      BY <2>1, <2>2
  <1>7. /\ \A i \in 1..Len(frames) : frames'[i].base = frames[i].base
        /\ \A i \in 1..(Len(frames) - 1) : Height(frames'[i]) = Height(frames[i])
        /\ Height(frames'[Len(frames)]) = Len(open) + 1
        /\ \A i \in 1..Len(frames) : Height(frames[i]) \in Nat
    <2>1. \A i \in 1..Len(frames) : i = Len(frames) \/ i \in 1..(Len(frames) - 1)
      BY <1>2
    <2>2. \A i \in 1..Len(frames) : frames'[i].base = frames[i].base
      BY <1>3, <2>1 DEF Top
    <2>3. \A i \in 1..(Len(frames) - 1) : Height(frames'[i]) = Height(frames[i])
      BY <1>3
    <2>4. Height(frames'[Len(frames)]) = Len(open) + 1
      BY <1>3, <1>5 DEF Height, Opened
    <2>5. QED
      BY <2>2, <2>3, <2>4, FrameFacts
  <1>8. OwnElement'
    <2> SUFFICES ASSUME NEW i \in 1..Len(frames), Opened(frames'[i])
                 PROVE  /\ Height(frames'[i]) <= Len(open')
                        /\ open'[Height(frames'[i])] = frames'[i].node
      BY <1>3 DEF OwnElement
    <2>1. CASE i = Len(frames)
      BY <1>3, <1>4, <1>7, <2>1
    <2>2. CASE i # Len(frames)
      <3>1. i \in 1..(Len(frames) - 1) /\ Opened(frames[i]) /\ frames'[i] = frames[i]
        BY <1>2, <1>3, <2>2
      <3>2. Height(frames[i]) <= Len(open) /\ open[Height(frames[i])] = frames[i].node
        BY <3>1 DEF Nesting, OwnElement
      <3>3. Height(frames[i]) \in 1..Len(open)
        BY <1>4, <3>1, <3>2, FrameFacts DEF Height
      <3>4. QED
        BY <1>4, <3>1, <3>2, <3>3
    <2>3. QED
      BY <2>1, <2>2
  <1>9. Heights'
    BY <1>2, <1>3, <1>7 DEF Nesting, Heights
  <1>10. OnlyTopEnters' /\ BottomHeight' /\ TopHeight'
    <2>1. OnlyTopEnters'
      <3> SUFFICES ASSUME NEW i \in 1..Len(frames), i # Len(frames)
                   PROVE  frames'[i].pc # "enter"
        BY <1>3 DEF OnlyTopEnters
      <3>1. i \in 1..(Len(frames) - 1)
        BY <1>2
      <3>2. frames'[i] = frames[i]
        BY <1>3, <3>1
      <3>3. OnlyTopEnters
        BY DEF Nesting
      <3>4. frames[i].pc # "enter"
        BY <3>3 DEF OnlyTopEnters
      <3>5. QED
        BY <3>2, <3>4
    <2>2. BottomHeight'
      BY <1>1, <1>2, <1>7 DEF Nesting, BottomHeight
    <2>3. TopHeight'
      BY <1>3, <1>4, <1>5, <1>7 DEF TopHeight, Top
    <2>4. QED
      BY <2>1, <2>2, <2>3
  <1>11. QED
    BY <1>3, <1>4, <1>6, <1>8, <1>9, <1>10 DEF FramesOK, Nesting

\* A recursive call starts at the height its caller has reached.
LEMMA VisitNextFrames ==
  ASSUME IInv, VisitNext
  PROVE  FramesOK'
  <1> USE DEF IInv
  <1>1. /\ frames # <<>> /\ Top.pc # "enter" /\ UNCHANGED <<ast, open, tag>>
        /\ frames \in Seq(Frame) /\ Len(frames) \in Nat \ {0}
    BY TopFacts DEF VisitNext, TypeOK
  <1>2. /\ frames' \in Seq(Frame)
        /\ \A i \in 1..Len(frames) : /\ frames'[i].node = frames[i].node
                                      /\ frames'[i].pc = frames[i].pc
                                      /\ frames'[i].base = frames[i].base
    BY VisitNextFacts
  <1>3. \/ Len(frames') = Len(frames)
        \/ /\ Len(frames') = Len(frames) + 1
           /\ frames'[Len(frames')].base = Len(open)
           /\ frames'[Len(frames')].pc = "enter"
    BY VisitNextFacts
  <1>4. frames' # <<>>
    BY <1>1, <1>2, <1>3, EmptySeq
  <1>5. OneRoot'
    BY <1>1, <1>2, <1>3 DEF OneRoot
  <1>6. \A i \in 1..Len(frames) : /\ Opened(frames'[i]) <=> Opened(frames[i])
                                  /\ Height(frames'[i]) = Height(frames[i])
    BY <1>2 DEF Height, Opened
  <1>7. CASE Len(frames') = Len(frames)
    <2>1. OwnElement' /\ OnlyTopEnters' /\ Heights' /\ BottomHeight'
      BY <1>1, <1>2, <1>6, <1>7 DEF Nesting, OwnElement, OnlyTopEnters, Heights, BottomHeight
    <2>2. TopHeight'
      BY <1>1, <1>2, <1>4, <1>6, <1>7 DEF Nesting, TopHeight, Top
    <2>3. QED
      BY <1>2, <1>5, <2>1, <2>2 DEF FramesOK, Nesting
  <1>8. CASE /\ Len(frames') = Len(frames) + 1
             /\ frames'[Len(frames')].base = Len(open)
             /\ frames'[Len(frames')].pc = "enter"
    <2>1. /\ ~Opened(frames'[Len(frames) + 1])
          /\ Height(frames'[Len(frames) + 1]) = Len(open)
          /\ frames'[Len(frames) + 1].base = Len(open)
          /\ Len(open) = Height(frames[Len(frames)])
          /\ frames[Len(frames)].pc # "enter"
      BY <1>1, <1>8 DEF Opened, Height, Nesting, TopHeight, Top
    <2>2. OwnElement'
      BY <1>1, <1>2, <1>6, <1>8, <2>1 DEF Nesting, OwnElement
    <2>3. OnlyTopEnters'
      BY <1>1, <1>2, <1>8, <2>1 DEF Nesting, OnlyTopEnters
    <2>4. \A i \in 1..Len(frames) : Height(frames[i]) <= Len(open)
      <3>1. \A i \in 1..Len(frames) : Height(frames[i]) \in Nat /\ frames[i].base \in Nat
        BY FrameFacts
      <3>2. frames[Len(frames)].base <= Height(frames[Len(frames)])
        BY <1>1, <3>1 DEF Height
      <3>3. QED
        BY <1>1, <2>1, <3>1, <3>2 DEF Nesting, Heights
    <2>5. Heights'
      BY <1>1, <1>2, <1>6, <1>8, <2>1, <2>4 DEF Nesting, Heights
    <2>6. BottomHeight' /\ TopHeight'
      BY <1>1, <1>2, <1>4, <1>8, <2>1 DEF Nesting, BottomHeight, TopHeight, Top
    <2>7. QED
      BY <1>2, <1>5, <2>2, <2>3, <2>5, <2>6 DEF FramesOK, Nesting
  <1>9. QED
    BY <1>3, <1>7, <1>8

\* The end tag closes the element of the activation that returns.
LEMMA EndTagFrames ==
  ASSUME IInv, WriteEndTag
  PROVE  /\ FramesOK'
         /\ open # <<>> /\ open[Len(open)] = Top.node
         /\ open' \in Seq(Node) /\ Len(open') = Len(open) - 1
  <1> USE DEF IInv
  <1>1. /\ frames # <<>> /\ Top.pc = "inode" /\ ast' = ast
        /\ open' = Pop(open) /\ frames' = Pop(frames)
        /\ frames \in Seq(Frame) /\ open \in Seq(Node)
    BY DEF WriteEndTag, Return, TypeOK
  <1>2. Top.base \in Nat /\ Len(frames) \in Nat \ {0}
    BY <1>1, TopFacts
  <1>3. Opened(Top) /\ Height(Top) = Top.base + 1
    BY <1>1 DEF Opened, Height
  <1>4. Len(open) = Top.base + 1 /\ open[Len(open)] = Top.node
    BY <1>1, <1>2, <1>3 DEF Nesting, OwnElement, TopHeight, Top
  <1>5. open # <<>>
    BY <1>2, <1>4, EmptySeq
  <1>6. /\ frames' \in Seq(Frame) /\ Len(frames') = Len(frames) - 1
        /\ \A i \in 1..(Len(frames) - 1) : frames'[i] = frames[i]
        /\ frames' # <<>> <=> Len(frames') # 0
    BY <1>1, PopFacts, EmptySeq
  <1>7. /\ open' \in Seq(Node) /\ Len(open') = Len(open) - 1
        /\ \A i \in 1..(Len(open) - 1) : open'[i] = open[i]
    BY <1>1, <1>5, PopFacts
  <1>8. OneRoot'
    BY <1>1, <1>2, <1>6 DEF OneRoot, Nesting, OnlyTopEnters
  <1>9. TopHeight'
    <2>1. CASE Len(frames) = 1
      BY <1>1, <1>2, <1>4, <1>6, <1>7, <2>1 DEF Nesting, BottomHeight, TopHeight, Top
    <2>2. CASE Len(frames) # 1
      <3>1. Top.base = Height(frames[Len(frames) - 1]) /\ Len(frames') # 0
        BY <1>2, <1>6, <2>2 DEF Nesting, Heights, Top
      <3>2. Top' = frames[Len(frames) - 1]
        BY <1>2, <1>6, <2>2 DEF Top
      <3>3. Len(open') = Top.base
        BY <1>2, <1>4, <1>7
      <3>4. frames' # <<>>
        BY <1>6, <3>1
      <3>5. Len(open') = Height(Top')
        BY <3>1, <3>2, <3>3
      <3>6. QED
        BY <3>4, <3>5 DEF TopHeight, Height, Opened
    <2>3. QED
      BY <2>1, <2>2
  <1>10. OwnElement'
    <2> SUFFICES ASSUME NEW i \in 1..(Len(frames) - 1), Opened(frames[i])
                 PROVE  /\ Height(frames[i]) <= Len(open')
                        /\ open'[Height(frames[i])] = frames[i].node
      BY <1>6 DEF OwnElement
    <2>1. Height(frames[i]) <= Top.base
      BY <1>2 DEF Nesting, Heights, Top
    <2>2. open[Height(frames[i])] = frames[i].node
      BY <1>2 DEF Nesting, OwnElement
    <2>3. Height(frames[i]) \in 1..(Len(open) - 1)
      BY <1>2, <1>4, <2>1, FrameFacts DEF Height
    <2>4. QED
      BY <1>2, <1>4, <1>7, <2>1, <2>2, <2>3
  <1>11. OnlyTopEnters' /\ Heights' /\ BottomHeight'
    BY <1>1, <1>2, <1>6, ShorterStack
  <1>12. QED
    BY <1>4, <1>5, <1>6, <1>7, <1>8, <1>9, <1>10, <1>11 DEF FramesOK, Nesting

-----------------------------------------------------------------------------
(* The inductive step, one action at a time.                               *)

\* The call of visit() on the file establishes the invariant.
LEMMA InitInv ==
  Init => IInv
  <1> SUFFICES ASSUME Init PROVE IInv
    OBVIOUS
  <1> DEFINE f == [node |-> ast.root, pc |-> "enter", todo |-> <<>>, base |-> 0]
  <1>1. ast \in Asts /\ frames = <<f>> /\ depth = 0 /\ open = <<>>
        /\ kids = [e \in Node \cup {Doc} |-> <<>>] /\ tag = <<"none", NULL>>
    BY DEF Init
  <1>2. f \in Frame
    BY <1>1, AstFacts, EmptySeq DEF Frame, Phase
  <1>3. frames \in Seq(Frame) /\ Len(frames) = 1 /\ frames[1] = f /\ frames # <<>>
    BY <1>1, <1>2
  <1>4. Len(open) = 0
    BY <1>1, EmptySeq
  <1>5. TypeOK
    <2>1. ast \in AstType /\ depth \in Nat /\ tag \in Tag
      BY <1>1, AstFacts DEF Tag
    <2>2. open \in Seq(Node) /\ kids \in [Node \cup {Doc} -> Seq(Item)]
      BY <1>1, EmptySeq
    <2>3. QED
      BY <1>3, <2>1, <2>2 DEF TypeOK
  <1>6. Nesting
    BY <1>3, <1>4 DEF Nesting, OwnElement, OnlyTopEnters, Heights, BottomHeight, TopHeight,
                      Opened, Height, Top
  <1>7. OneRoot /\ DepthIsNesting
    BY <1>1, <1>3, <1>4 DEF OneRoot, DepthIsNesting
  <1>8. QED
    BY <1>1, <1>5, <1>6, <1>7 DEF IInv

\* Steps that write nothing.
LEMMA SilentStep ==
  ASSUME IInv, FramesOK', UNCHANGED <<ast, depth, open, kids, tag>>
  PROVE  IInv'
  BY DEF IInv, FramesOK, TypeOK, DepthIsNesting

\* Returning from a node of another file keeps the invariant.
LEMMA LeaveForeignInv ==
  ASSUME IInv, LeaveForeign
  PROVE  IInv'
  <1>1. ~Opened(Top) /\ frames # <<>> /\ Return /\ UNCHANGED <<ast, depth, open, kids, tag>>
    BY DEF LeaveForeign, Opened
  <1>2. FramesOK'
    BY <1>1, PlainReturn
  <1>3. QED
    BY <1>1, <1>2, SilentStep

\* Passing over a compiler-generated node keeps the invariant.
LEMMA SkipGeneratedInv ==
  ASSUME IInv, SkipGenerated
  PROVE  IInv'
  <1>1. /\ frames # <<>> /\ ~Opened(Top) /\ Goto("skip", Successors(Top.node))
        /\ UNCHANGED <<ast, depth, open, kids, tag>>
        /\ Top.node \in ast.generated
    BY DEF SkipGenerated, Skipped, Opened
  <1>2. Successors(Top.node) \in Seq(Node \cup {NULL}) /\ Top.node # ast.root
    BY <1>1, TopFacts, AstFacts DEF IInv
  <1>3. "skip" \in Phase /\ "skip" # "enter" /\ "skip" \notin {"succ", "inode"}
    BY DEF Phase
  <1>4. FramesOK'
    BY <1>1, <1>2, <1>3, PlainGoto
  <1>5. QED
    BY <1>1, <1>4, SilentStep

\* A recursive call of visit() keeps the invariant.
LEMMA VisitNextInv ==
  ASSUME IInv, VisitNext
  PROVE  IInv'
  <1>1. UNCHANGED <<ast, depth, open, kids, tag>>
    BY DEF VisitNext
  <1>2. QED
    BY <1>1, VisitNextFrames, SilentStep

\* Moving on from the successors to inodeSgXxx keeps the invariant.
LEMMA VisitInodeInv ==
  ASSUME IInv, VisitInode
  PROVE  IInv'
  <1>1. /\ frames # <<>> /\ Opened(Top) /\ Goto("inode", ast.inode[Top.node])
        /\ UNCHANGED <<ast, depth, open, kids, tag>>
    BY DEF VisitInode, Opened
  <1>2. ast.inode[Top.node] \in Seq(Node \cup {NULL})
    BY <1>1, TopFacts, AstFacts DEF IInv
  <1>3. "inode" \in Phase /\ "inode" # "enter" /\ "inode" # "skip"
    BY DEF Phase
  <1>4. FramesOK'
    BY <1>1, <1>2, <1>3, PlainGoto
  <1>5. QED
    BY <1>1, <1>4, SilentStep

\* Returning from a compiler-generated node keeps the invariant.
LEMMA LeaveSkippedInv ==
  ASSUME IInv, LeaveSkipped
  PROVE  IInv'
  <1>1. ~Opened(Top) /\ frames # <<>> /\ Return /\ UNCHANGED <<ast, depth, open, kids, tag>>
    BY DEF LeaveSkipped, Opened
  <1>2. FramesOK'
    BY <1>1, PlainReturn
  <1>3. QED
    BY <1>1, <1>2, SilentStep

\* Writing an element without end tag keeps the invariant.
LEMMA WriteEmptyElementInv ==
  ASSUME IInv, WriteEmptyElement
  PROVE  IInv'
  <1> DEFINE new == BeforeElement(Top.node) \o << <<"element", Top.node>> >>
  <1>1. /\ frames # <<>> /\ Top.pc = "enter" /\ ~Opened(Top) /\ Return
        /\ UNCHANGED <<ast, depth, open>> /\ tag' = <<"empty", Top.node>>
        /\ kids' = [kids EXCEPT ![Innermost] =
                      @ \o BeforeElement(Top.node) \o << <<"element", Top.node>> >>]
    BY DEF WriteEmptyElement, Written, Opened
  <1>2. Top.node \in Node /\ Innermost \in Node \cup {Doc} /\ TypeOK
    BY <1>1, TopFacts DEF IInv
  <1>3. BeforeElement(Top.node) \in Seq(Item) /\ << <<"element", Top.node>> >> \in Seq(Item)
    BY <1>2, ItemFacts
  <1>4. kids' \in [Node \cup {Doc} -> Seq(Item)]
    BY <1>1, <1>2, <1>3, ConcatProperties DEF TypeOK
  <1>5. Len(frames) = 1 \/ frames[1].pc # "enter"
    BY <1>1, BottomFacts DEF IInv
  <1>6. FramesOK'
    BY <1>1, <1>5, PlainReturn
  <1>7. tag' \in Tag
    BY <1>1, <1>2 DEF Tag
  <1>8. QED
    BY <1>1, <1>4, <1>6, <1>7 DEF IInv, FramesOK, TypeOK, DepthIsNesting

\* Writing a start tag keeps the invariant.
LEMMA WriteStartTagInv ==
  ASSUME IInv, WriteStartTag
  PROVE  IInv'
  <1>1. /\ frames # <<>> /\ ast' = ast /\ depth' = depth + 1 /\ tag' = <<"start", Top.node>>
        /\ kids' = [kids EXCEPT
                      ![Innermost] =
                         @ \o BeforeElement(Top.node) \o << <<"element", Top.node>> >>,
                      ![Top.node] = @ \o FirstInside(Top.node)]
    BY DEF WriteStartTag, Written
  <1>2. Top.node \in Node /\ Innermost \in Node \cup {Doc} /\ TypeOK
    BY <1>1, TopFacts DEF IInv
  <1>3. /\ BeforeElement(Top.node) \in Seq(Item) /\ << <<"element", Top.node>> >> \in Seq(Item)
        /\ FirstInside(Top.node) \in Seq(Item)
    BY <1>2, ItemFacts
  <1>4. kids' \in [Node \cup {Doc} -> Seq(Item)]
    BY <1>1, <1>2, <1>3, ConcatProperties DEF TypeOK
  <1>5. FramesOK' /\ open' \in Seq(Node) /\ Len(open') = Len(open) + 1
    BY StartTagFrames
  <1>6. tag' \in Tag
    BY <1>1, <1>2 DEF Tag
  <1>7. depth' \in Nat /\ DepthIsNesting'
    BY <1>1, <1>2, <1>5 DEF IInv, DepthIsNesting, TypeOK
  <1>8. QED
    BY <1>1, <1>2, <1>4, <1>5, <1>6, <1>7 DEF IInv, FramesOK, TypeOK

\* Writing an end tag keeps the invariant.
LEMMA WriteEndTagInv ==
  ASSUME IInv, WriteEndTag
  PROVE  IInv'
  <1>1. /\ frames # <<>> /\ ast' = ast /\ depth' = depth - 1 /\ tag' = <<"end", Top.node>>
        /\ kids' = [kids EXCEPT
                      ![Innermost] = @ \o PreprocessingInfo(Top.node)
                                       \o FortranPragma(Top.node, "inside"),
                      ![Enclosing] = @ \o FortranPragma(Top.node, "after")]
    BY DEF WriteEndTag
  <1>2. /\ Top.node \in Node /\ Innermost \in Node \cup {Doc}
        /\ Enclosing \in Node \cup {Doc} /\ TypeOK
    BY <1>1, TopFacts DEF IInv
  <1>3. /\ PreprocessingInfo(Top.node) \in Seq(Item)
        /\ FortranPragma(Top.node, "inside") \in Seq(Item)
        /\ FortranPragma(Top.node, "after") \in Seq(Item)
    BY <1>2, ItemFacts DEF Position
  <1>4. kids' \in [Node \cup {Doc} -> Seq(Item)]
    BY <1>1, <1>2, <1>3, ConcatProperties DEF TypeOK
  <1>5. FramesOK' /\ open # <<>> /\ open' \in Seq(Node) /\ Len(open') = Len(open) - 1
    BY EndTagFrames
  <1>6. tag' \in Tag
    BY <1>1, <1>2 DEF Tag
  <1>7. Len(open) \in Nat \ {0}
    BY <1>2, <1>5, EmptySeq DEF TypeOK
  <1>8. depth' \in Nat /\ DepthIsNesting'
    BY <1>1, <1>2, <1>5, <1>7 DEF IInv, DepthIsNesting, TypeOK
  <1>9. QED
    BY <1>1, <1>2, <1>4, <1>5, <1>6, <1>8 DEF IInv, FramesOK, TypeOK

\* Every step of the writer keeps the invariant.
LEMMA StepInv ==
  IInv /\ [Next]_vars => IInv'
  <1> SUFFICES ASSUME IInv, [Next]_vars PROVE IInv'
    OBVIOUS
  <1> USE DEF IInv, TypeOK, Nesting, OwnElement, OnlyTopEnters, Heights, BottomHeight,
              TopHeight, OneRoot, DepthIsNesting, Top
  <1>1. CASE UNCHANGED vars
    BY <1>1 DEF vars
  <1>2. CASE Done
    BY <1>2 DEF Done, vars
  <1>3. QED
    BY <1>1, <1>2, LeaveForeignInv, SkipGeneratedInv, WriteEmptyElementInv, WriteStartTagInv,
       VisitNextInv, VisitInodeInv, WriteEndTagInv, LeaveSkippedInv DEF Next

-----------------------------------------------------------------------------
(* The theorems.                                                           *)

\* Every state the writer reaches satisfies the inductive invariant.
THEOREM Invariance == Spec => []IInv
  BY InitInv, StepInv, PTL DEF Spec

\* The state of the writer is well typed, for every AST: in particular
\* depth_ is never decremented below zero.
THEOREM TypeCorrect == Spec => []TypeOK
  <1>1. IInv => TypeOK
    BY DEF IInv
  <1>2. QED
    BY <1>1, Invariance, PTL

\* The call stack of visit() and the open elements of the document agree.
THEOREM NestingCorrect == Spec => []Nesting
  <1>1. IInv => Nesting
    BY DEF IInv
  <1>2. QED
    BY <1>1, Invariance, PTL

\* depth_ counts the open elements.
THEOREM DepthCorrect == Spec => []DepthIsNesting
  <1>1. IInv => DepthIsNesting
    BY DEF IInv
  <1>2. QED
    BY <1>1, Invariance, PTL

\* Every behaviour of the writer is one of the XML stream: one root element,
\* every end tag names the innermost open element, nothing follows the root.
THEOREM WriterIsWellFormed == Spec => WellFormed
  <1>1. Init => Stream!Init
    BY DEF Init, Stream!Init
  <1>2. IInv /\ [Next]_vars => [Stream!Next]_(Stream!vars)
    <2> SUFFICES ASSUME IInv, [Next]_vars PROVE [Stream!Next]_(Stream!vars)
      OBVIOUS
    <2> USE DEF Stream!vars
    <2>1. CASE WriteEmptyElement \/ WriteStartTag
      <3>1. frames # <<>> /\ Top.pc = "enter" /\ Top.node \in Node
        BY <2>1, TopFacts DEF WriteEmptyElement, WriteStartTag, Written, IInv
      <3>2. Stream!MayBegin
        <4>1. CASE Len(frames) = 1
          BY <3>1, <4>1 DEF IInv, OneRoot, Top, Stream!MayBegin
        <4>2. CASE Len(frames) # 1
          <5>1. Len(frames) \in Nat \ {0} /\ frames[1] \in Frame /\ open \in Seq(Node)
            BY <3>1, TopFacts, ElementOfSeq DEF IInv, TypeOK
          <5>2. Opened(frames[1])
            BY <4>2, <3>1, BottomFacts DEF IInv
          <5>3. 1 <= Len(open)
            BY <3>1, <5>1, <5>2 DEF IInv, Nesting, OwnElement, BottomHeight, Height
          <5>4. QED
            BY <5>1, <5>3, EmptySeq DEF Stream!MayBegin
        <4>3. QED
          BY <4>1, <4>2
      <3>3. CASE WriteEmptyElement
        BY <3>1, <3>2, <3>3 DEF WriteEmptyElement, Stream!Empty, Stream!Next
      <3>4. CASE WriteStartTag
        BY <3>1, <3>2, <3>4 DEF WriteStartTag, Stream!Start, Stream!Next
      <3>5. QED
        BY <2>1, <3>3, <3>4
    <2>2. CASE WriteEndTag
      <3>1. open # <<>> /\ open[Len(open)] = Top.node
        BY <2>2, EndTagFrames
      <3>2. QED
        BY <2>2, <3>1 DEF WriteEndTag, Pop, Stream!End, Stream!Next
    <2>3. CASE LeaveForeign \/ SkipGenerated \/ VisitNext \/ VisitInode \/ LeaveSkipped
      BY <2>3 DEF LeaveForeign, SkipGenerated, VisitNext, VisitInode, LeaveSkipped
    <2>4. CASE Done \/ UNCHANGED vars
      BY <2>4 DEF Done, vars
    <2>5. QED
      BY <2>1, <2>2, <2>3, <2>4 DEF Next
  <1>3. QED
    BY <1>1, <1>2, Invariance, PTL DEF Spec, WellFormed, Stream!Spec
=============================================================================
