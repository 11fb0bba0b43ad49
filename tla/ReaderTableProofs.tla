-------------------------- MODULE ReaderTableProofs --------------------------
(***************************************************************************)
(* The positional readers, for lists of children of every length: a Sound  *)
(* reader never dereferences an empty slot, and a Rooted one never builds  *)
(* a node with a child that points elsewhere.  Every reader of the tables  *)
(* is Sound or in UnguardedClass, and Rooted or in StrayClass: the         *)
(* invariant holds for all of them.                                        *)
(***************************************************************************)
EXTENDS SlotReader, NodeClasses, TLAPS, SequenceTheorems

\* The slots of a chain are filled in order.
ChainPrefix ==
  phase = "reading" /\ Mode = "chain" =>
    \A i, j \in Indices : i < j /\ slot[j] # << >> => slot[i] # << >>

\* The slots whose parent is already right.
Visited ==
  phase = "reading" /\ class \notin Stray /\ Reader[class].visits =>
    \A i \in Indices : slot[i] # << >> /\ Slots[i].accepts \cap Orphan = {} => parent[i] = "ret"

\* The inductive invariant.
IInv == TypeOK /\ ChainPrefix /\ Visited /\ NoNullDeref /\ ParentLinks

\* Unguarded and Stray name all the readers that are not safe.
Classified ==
  /\ \A c \in Class \ Unguarded : Sound(Reader[c])
  /\ \A c \in Class \ Stray : Rooted(Reader[c])

\* What ReaderAssumption says of the reader at work.
LEMMA ReaderFacts ==
  ASSUME class \in Class
  PROVE  /\ Len(Slots) \in Nat
         /\ \A i \in Indices : Slots[i] \in Slot
         /\ Reader[class].visits \in BOOLEAN
         /\ Mode \in {"chain", "scan", "last", "array"}
         /\ Compatible(Reader[class])
         /\ Mode = "array" => Indices = {1, 2, 3} /\ \A i \in Indices : ~Slots[i].many
  <1>1. Reader[class] \in ReaderType /\ Compatible(Reader[class])
    BY ReaderAssumption
  <1>2. Slots \in Seq(Slot)
    BY <1>1 DEF Slots, ReaderType
  <1>3. Mode = "array" => Len(Slots) = 3 /\ \A i \in 1..3 : ~Slots[i].many
    BY <1>1 DEF Compatible, Slots, Mode
  <1>4. Mode = "array" => Indices = {1, 2, 3}
    <2>1. 1..3 = {1, 2, 3}
      OBVIOUS
    <2>2. QED
      BY <1>3, <2>1 DEF Indices
  <1>5. QED
    BY <1>1, <1>2, <1>3, <1>4, LenProperties, ElementOfSeq DEF ReaderType, Indices, Mode

\* Before the first child is read no slot is filled.
LEMMA InitInv ==
  ASSUME Init
  PROVE  IInv
  <1>1. class \in Class /\ doc \in Seq(Child \cup {NULL})
    BY ReaderAssumption DEF Init
  <1>2. TypeOK
    BY <1>1 DEF Init, TypeOK, Fits
  <1>3. QED
    BY <1>2 DEF IInv, Init, ChainPrefix, Visited, NoNullDeref, ParentLinks

\* What a child does to one slot.
LEMMA OneSlot ==
  ASSUME IInv, ReadChild, NEW i \in Indices
  PROVE  LET child == Head(todo)
         IN /\ i \in Claim(child) =>
                 /\ child \in Child /\ child.kind \in Slots[i].accepts
                 /\ slot'[i] = IF Slots[i].many THEN Append(slot[i], child) ELSE <<child>>
                 /\ parent'[i] = Begot(child)
            /\ i \notin Claim(child) /\ ~(Moves /\ i = 2) =>
                 /\ slot'[i] \in {slot[i], << >>}
                 /\ parent'[i] = parent[i]
            /\ i \notin Claim(child) /\ Moves /\ i = 2 =>
                 /\ slot'[i] = slot[3] /\ parent'[i] = parent[3]
                 /\ Mode = "array"
  <1> DEFINE child == Head(todo)
  <1>1. /\ phase = "reading" /\ todo # << >> /\ todo \in Seq(Child \cup {NULL})
        /\ slot \in [Indices -> Seq(Child)]
    BY DEF ReadChild, IInv, TypeOK
  <1>2. child \in Child \cup {NULL}
    BY <1>1, HeadTailProperties
  <1>3. /\ slot' = [j \in Indices |->
                      IF j \notin Claim(child) THEN Kept(j)
                      ELSE IF Slots[j].many THEN Append(slot[j], child) ELSE <<child>>]
        /\ parent' = [j \in Indices |->
                        IF j \in Claim(child) THEN Begot(child)
                        ELSE IF Moves /\ j = 2 THEN parent[3] ELSE parent[j]]
    BY DEF ReadChild
  <1>4. i \in Claim(child) => child # NULL /\ child.kind \in Slots[i].accepts
    BY DEF Claim
  <1>5. Moves => Mode = "array" /\ Mode # "last"
    BY DEF Moves
  <1>6. CASE i \in Claim(child)
    BY <1>2, <1>3, <1>4, <1>6
  <1>7. CASE i \notin Claim(child) /\ ~(Moves /\ i = 2)
    <2>1. Kept(i) \in {slot[i], << >>}
      BY <1>7 DEF Kept
    <2>2. QED
      BY <1>3, <1>7, <2>1
  <1>8. CASE i \notin Claim(child) /\ Moves /\ i = 2
    <2>1. Kept(i) = slot[3]
      BY <1>5, <1>8 DEF Kept
    <2>2. QED
      BY <1>3, <1>5, <1>8, <2>1
  <1>9. QED
    BY <1>6, <1>7, <1>8

\* A list that is moved passes the test of the slot it is moved to.
LEMMA MovedFits ==
  ASSUME IInv, phase = "reading", Moves
  PROVE  /\ slot[3] \in Seq(Child) /\ slot[3] # << >> /\ Len(slot[3]) = 1
         /\ \A k \in 1..Len(slot[3]) : slot[3][k].kind \in Slots[2].accepts
  <1>1. class \in Class /\ Mode = "array" /\ slot \in [Indices -> Seq(Child)] /\ Fits
    BY DEF IInv, TypeOK, Moves
  <1>2. Indices = {1, 2, 3} /\ ~Slots[3].many
    BY <1>1, ReaderFacts
  <1>3. slot[3] \in Seq(Child) /\ slot[3] # << >> /\ slot[3][1].kind \in Slots[2].accepts
    BY <1>1, <1>2 DEF Moves, Empty
  <1>4. Len(slot[3]) <= 1
    BY <1>1, <1>2 DEF Fits
  <1>5. Len(slot[3]) = 1
    <2>1. Len(slot[3]) \in Nat \ {0}
      BY <1>3, EmptySeq
    <2>2. \A n \in Nat \ {0} : n <= 1 => n = 1
      OBVIOUS
    <2>3. QED
      BY <1>4, <2>1, <2>2
  <1>6. QED
    BY <1>3, <1>5

\* A child goes into the first empty slot of a chain, or into none.
LEMMA ReadChildInv ==
  ASSUME IInv, ReadChild, Classified
  PROVE  IInv'
  <1> DEFINE child == Head(todo)
             claim == Claim(child)
  <1>1. /\ phase = "reading" /\ todo # << >> /\ todo \in Seq(Child \cup {NULL})
        /\ UNCHANGED <<class, doc, phase>> /\ todo' = Tail(todo) /\ class \in Class
        /\ slot \in [Indices -> Seq(Child)] /\ Fits
        /\ parent \in [Indices -> {"none", "astParent", "ret"}]
    BY DEF ReadChild, IInv, TypeOK
  <1>2. /\ DOMAIN slot' = Indices /\ slot' = [i \in Indices |-> slot'[i]]
        /\ DOMAIN parent' = Indices /\ parent' = [i \in Indices |-> parent'[i]]
    BY DEF ReadChild
  <1>3. Tail(todo) \in Seq(Child \cup {NULL})
    BY <1>1, HeadTailProperties
  <1>4. Indices' = Indices /\ Slots' = Slots /\ Reader[class]' = Reader[class] /\ Mode' = Mode
    BY <1>1 DEF Indices, Slots, Mode
  <1>5. ASSUME NEW i \in Indices
        PROVE  /\ slot'[i] \in Seq(Child)
               /\ parent'[i] \in {"none", "astParent", "ret"}
               /\ Slots[i].many \/ Len(slot'[i]) <= 1
               /\ \A k \in 1..Len(slot'[i]) : slot'[i][k].kind \in Slots[i].accepts
    <2>0. /\ slot[i] \in Seq(Child) /\ parent[i] \in {"none", "astParent", "ret"}
          /\ Slots[i].many \/ Len(slot[i]) <= 1
          /\ \A k \in 1..Len(slot[i]) : slot[i][k].kind \in Slots[i].accepts
          /\ Len(slot[i]) \in Nat
      BY <1>1, LenProperties DEF Fits
    <2>1. CASE i \in claim
      <3>1. /\ child \in Child /\ child.kind \in Slots[i].accepts
            /\ slot'[i] = IF Slots[i].many THEN Append(slot[i], child) ELSE <<child>>
            /\ parent'[i] = Begot(child)
        BY <2>1, OneSlot
      <3> HIDE DEF child, claim
      <3>2. parent'[i] \in {"none", "astParent", "ret"}
        BY <3>1 DEF Begot
      <3>3. CASE Slots[i].many
        <4>1. /\ Append(slot[i], child) \in Seq(Child)
              /\ Len(Append(slot[i], child)) = Len(slot[i]) + 1
              /\ \A k \in 1..Len(slot[i]) : Append(slot[i], child)[k] = slot[i][k]
              /\ Append(slot[i], child)[Len(slot[i]) + 1] = child
          BY <2>0, <3>1, AppendProperties
        <4>2. QED
          BY <2>0, <3>1, <3>2, <3>3, <4>1
      <3>4. CASE ~Slots[i].many
        <4>1. slot'[i] = <<child>>
          BY <3>1, <3>4
        <4>2. <<child>> \in Seq(Child) /\ Len(<<child>>) = 1 /\ <<child>>[1] = child
          BY <3>1
        <4>3. Len(slot'[i]) = 1 /\ slot'[i] \in Seq(Child) /\ slot'[i][1] = child
          BY <4>1, <4>2
        <4>4. \A k \in 1..1 : k = 1
          OBVIOUS
        <4>5. \A k \in 1..Len(slot'[i]) : slot'[i][k].kind \in Slots[i].accepts
          BY <3>1, <4>3, <4>4
        <4>6. QED
          BY <3>2, <4>3, <4>5
      <3>5. QED
        BY <3>3, <3>4
    <2>2. CASE i \notin claim /\ ~(Moves /\ i = 2)
      <3>1. slot'[i] \in {slot[i], << >>} /\ parent'[i] = parent[i]
        BY <2>2, OneSlot
      <3>2. << >> \in Seq(Child) /\ Len(<< >>) = 0
        BY EmptySeq
      <3>3. \A k \in 1..0 : FALSE
        OBVIOUS
      <3>4. CASE slot'[i] = slot[i]
        BY <2>0, <3>1, <3>4
      <3>5. CASE slot'[i] = << >>
        <4>1. Len(slot'[i]) = 0
          BY <3>2, <3>5
        <4>2. QED
          BY <2>0, <3>1, <3>2, <3>3, <3>5, <4>1
      <3>6. QED
        BY <3>1, <3>4, <3>5
    <2>3. CASE i \notin claim /\ Moves /\ i = 2
      <3>1. slot'[i] = slot[3] /\ parent'[i] = parent[3] /\ Mode = "array"
        BY <2>3, OneSlot
      <3>2. 3 \in Indices
        BY <1>1, <3>1, ReaderFacts
      <3>3. /\ slot[3] \in Seq(Child) /\ Len(slot[3]) = 1
            /\ \A k \in 1..Len(slot[3]) : slot[3][k].kind \in Slots[2].accepts
        BY <1>1, <2>3, MovedFits
      <3>4. QED
        BY <1>1, <2>3, <3>1, <3>2, <3>3
    <2>4. QED
      BY <2>1, <2>2, <2>3
  <1> HIDE DEF child, claim
  <1>6. TypeOK'
    <2>1. slot' \in [Indices -> Seq(Child)] /\ parent' \in [Indices -> {"none", "astParent", "ret"}]
      BY <1>2, <1>5
    <2>2. Fits'
      BY <1>4, <1>5 DEF Fits
    <2>3. QED
      BY <1>1, <1>3, <1>4, <2>1, <2>2 DEF IInv, TypeOK
  <1>7. ChainPrefix'
    <2> SUFFICES ASSUME Mode = "chain", NEW i \in Indices, NEW j \in Indices,
                        i < j, slot'[j] # << >>
                 PROVE  slot'[i] # << >>
      BY <1>1, <1>4 DEF ChainPrefix
    <2>1. ~Moves /\ Mode # "last"
      BY DEF Moves
    <2>2. slot[i] # << >>
      <3>1. CASE j \in claim
        BY <3>1 DEF claim, Claim, Tested, Empty
      <3>2. CASE j \notin claim
        <4>1. slot'[j] \in {slot[j], << >>}
          BY <2>1, <3>2, OneSlot DEF claim, child
        <4>2. slot[j] # << >>
          BY <4>1
        <4>3. QED
          BY <1>1, <4>2 DEF IInv, ChainPrefix
      <3>3. QED
        BY <3>1, <3>2
    <2>3. CASE i \in claim
      <3>1. /\ child \in Child
            /\ slot'[i] = IF Slots[i].many THEN Append(slot[i], child) ELSE <<child>>
        BY <2>3, OneSlot DEF claim, child
      <3>2. Append(slot[i], child) # << >>
        <4>1. slot[i] \in Seq(Child)
          BY <1>1
        <4>2. QED
          BY <3>1, <4>1, AppendProperties
      <3>3. <<child>> # << >>
        OBVIOUS
      <3>4. QED
        BY <3>1, <3>2, <3>3
    <2>4. CASE i \notin claim
      <3>1. slot'[i] = Kept(i)
        BY <2>4 DEF ReadChild, claim, child
      <3>2. Kept(i) = slot[i]
        BY <2>1 DEF Kept
      <3>3. QED
        BY <2>2, <3>1, <3>2
    <2>5. QED
      BY <2>3, <2>4
  <1>8. Visited'
    <2> SUFFICES ASSUME class \notin Stray, Reader[class].visits, NEW i \in Indices,
                        slot'[i] # << >>, Slots[i].accepts \cap Orphan = {}
                 PROVE  parent'[i] = "ret"
      BY <1>1, <1>4 DEF Visited
    <2>1. CASE i \in claim
      <3>1. child.kind \in Slots[i].accepts /\ parent'[i] = Begot(child)
        BY <2>1, OneSlot DEF claim, child
      <3>2. QED
        BY <3>1 DEF Begot
    <2>2. CASE i \notin claim /\ ~(Moves /\ i = 2)
      <3>1. slot'[i] \in {slot[i], << >>} /\ parent'[i] = parent[i]
        BY <2>2, OneSlot DEF claim, child
      <3>2. slot[i] # << >>
        BY <3>1
      <3>3. QED
        BY <1>1, <3>1, <3>2 DEF IInv, Visited
    <2>3. CASE i \notin claim /\ Moves /\ i = 2
      <3>1. slot'[i] = slot[3] /\ parent'[i] = parent[3] /\ Mode = "array"
        BY <2>3, OneSlot DEF claim, child
      <3>2. 3 \in Indices /\ slot[3] # << >>
        BY <1>1, <2>3, <3>1, ReaderFacts, MovedFits
      <3>3. Slots[3].accepts \cap Orphan = {}
        BY <1>1, <3>1 DEF Classified, Rooted, Mode, Slots
      <3>4. QED
        BY <1>1, <3>1, <3>2, <3>3 DEF IInv, Visited
    <2>4. QED
      BY <2>1, <2>2, <2>3
  <1>9. QED
    BY <1>1, <1>6, <1>7, <1>8 DEF IInv, NoNullDeref, ParentLinks

\* Steps that change nothing but the phase.
LEMMA PhaseInv ==
  ASSUME IInv, UNCHANGED <<class, doc, todo, slot, parent>>,
         \/ phase' = phase
         \/ phase' = "fatal"
         \/ phase' = "null dereference" /\ class \in Unguarded
  PROVE  IInv'
  <1>1. /\ Indices' = Indices /\ Slots' = Slots /\ Mode' = Mode
        /\ \A m : Marked(m)' = Marked(m)
    BY DEF Indices, Slots, Mode, Marked
  <1>2. TypeOK'
    BY <1>1 DEF IInv, TypeOK, Fits
  <1>3. ChainPrefix' /\ Visited'
    BY <1>1 DEF IInv, ChainPrefix, Visited
  <1>4. NoNullDeref' /\ ParentLinks'
    BY <1>1 DEF IInv, NoNullDeref, ParentLinks
  <1>5. QED
    BY <1>2, <1>3, <1>4 DEF IInv

\* Only an unguarded reader uses a pointer before it reads.
LEMMA EarlyUseInv ==
  ASSUME IInv, EarlyUse, Classified
  PROVE  IInv'
  <1>1. PICK i \in Indices : "early" \in Slots[i].marks
    BY DEF EarlyUse, Marked
  <1>2. class \in Class
    BY DEF IInv, TypeOK
  <1>3. class \in Unguarded
    BY <1>1, <1>2 DEF Classified, Sound, Indices, Slots
  <1>4. QED
    BY <1>3, PhaseInv DEF EarlyUse

\* What a slot holds when the node is built.
LEMMA CompletedSlot ==
  ASSUME IInv, phase = "reading", NEW i \in Indices
  PROVE  /\ Completed(i) \in Seq(Child)
         /\ ~Empty(i) /\ i \notin Marked("lost") \cup Marked("spill") => Completed(i) = slot[i]
         /\ Completed(i) # << >> /\ Completed(i) # slot[i] =>
              \/ i \in Marked("default") \cup Marked("spill")
              \/ i - 1 \in Marked("spill")
         /\ i \in Marked("default") /\ i \notin Marked("lost") \cup Marked("spill")
              => Completed(i) # << >>
         /\ i \in Marked("lost") => Completed(i) = << >>
  <1>1. class \in Class /\ slot \in [Indices -> Seq(Child)]
    BY DEF IInv, TypeOK
  <1>2. i \in Nat
    BY DEF Indices
  <1>3. << >> \in Seq(Child) /\ <<Default>> \in Seq(Child) /\ <<Default>> # << >>
    BY ReaderAssumption
  <1>4. i - 1 \in Marked("spill") => slot[i - 1] \in Seq(Child)
    BY <1>1 DEF Marked
  <1>5. i \in Marked("lost") => Completed(i) = << >>
    BY DEF Completed
  <1>6. CASE i \notin Marked("lost")
    BY <1>1, <1>2, <1>3, <1>4, <1>6 DEF Completed, Empty
  <1>7. QED
    BY <1>3, <1>5, <1>6

\* The node is built: in a chain, a tested slot vouches for those before it.
LEMMA BuildInv ==
  ASSUME IInv, Build, Classified
  PROVE  IInv'
  <1>1. /\ phase = "reading" /\ ~Refused /\ UNCHANGED <<class, doc, todo>>
        /\ slot' = [i \in Indices |-> Completed(i)]
        /\ parent' = [i \in Indices |-> IF i \in Adopting THEN "ret" ELSE parent[i]]
        /\ phase' = IF \E i \in Marked("set_parent") : slot'[i] = << >>
                    THEN "null dereference" ELSE "built"
    BY DEF Build
  <1>2. /\ class \in Class /\ slot \in [Indices -> Seq(Child)] /\ Fits
        /\ parent \in [Indices -> {"none", "astParent", "ret"}]
    BY DEF IInv, TypeOK
  <1>3. /\ Indices' = Indices /\ Slots' = Slots /\ Mode' = Mode
        /\ \A m : Marked(m)' = Marked(m)
    BY <1>1 DEF Indices, Slots, Mode, Marked
  <1>4. \A i \in Indices : slot'[i] = Completed(i)
    BY <1>1
  <1>5. \A i \in Marked("required") : i \in Indices /\ ~Empty(i)
    BY <1>1 DEF Refused, Marked
  <1>6. /\ Compatible(Reader[class])
        /\ \A i \in Indices : i \in Nat
    BY <1>2, ReaderFacts DEF Indices
  <1>7. \A i \in Marked("required") \cup Marked("set_parent") :
           i \in Indices /\ i \notin Marked("lost") \cup Marked("spill")
    BY <1>6 DEF Compatible, Marked, Indices, Slots
  <1>8. ASSUME class \notin Unguarded, NEW i \in Marked("set_parent")
        PROVE  slot'[i] # << >>
    <2>1. i \in Indices /\ Guarded(Reader[class], i)
      BY <1>2, <1>8 DEF Classified, Sound, Indices, Slots, Marked
    <2>2. CASE i \in Marked("default")
      BY <1>1, <1>4, <1>7, <2>1, <2>2, CompletedSlot
    <2>3. CASE i \in Marked("required")
      BY <1>1, <1>4, <1>5, <1>7, <2>1, <2>3, CompletedSlot DEF Empty
    <2>4. CASE Mode = "chain" /\ \E j \in Indices : i < j /\ "required" \in Slots[j].marks
      <3>1. PICK j \in Indices : i < j /\ j \in Marked("required")
        BY <2>4 DEF Marked
      <3>2. slot[j] # << >>
        BY <1>5, <3>1 DEF Empty
      <3>3. slot[i] # << >>
        BY <1>1, <2>1, <2>4, <3>1, <3>2 DEF IInv, ChainPrefix
      <3>4. QED
        BY <1>1, <1>4, <1>7, <2>1, <3>3, CompletedSlot DEF Empty
    <2>5. QED
      BY <2>1, <2>2, <2>3, <2>4 DEF Guarded, Indices, Slots, Mode, Marked
  <1>9. NoNullDeref'
    BY <1>1, <1>8 DEF NoNullDeref
  <1>10. TypeOK'
    <2>1. slot' \in [Indices -> Seq(Child)]
      BY <1>1, CompletedSlot
    <2>2. parent' \in [Indices -> {"none", "astParent", "ret"}]
      BY <1>1, <1>2
    <2>3. phase' \in {"built", "null dereference"}
      BY <1>1
    <2>4. QED
      BY <1>1, <1>3, <2>1, <2>2, <2>3 DEF IInv, TypeOK, Fits
  <1>11. ASSUME class \notin Stray, NEW i \in Indices \ Marked("ctor"),
                NEW k \in 1..Len(slot'[i])
         PROVE  slot'[i][k].kind \in Orphan \/ parent'[i] = "ret"
    <2>1. /\ Adopted(Reader[class], i)
          /\ \A j \in Indices : "spill" \in Slots[j].marks =>
               Handed(Reader[class], j) /\ Handed(Reader[class], j + 1)
      BY <1>2, <1>11 DEF Classified, Rooted, Indices, Slots
    <2>2. CASE i \in Adopting
      BY <1>1, <2>2
    <2>3. CASE i \notin Adopting
      <3>1. ~Handed(Reader[class], i)
        BY <1>11, <2>3 DEF Handed, Adopting, Marked, Slots
      <3>2. i \notin Marked("spill") /\ i - 1 \notin Marked("spill")
        <4>1. i \notin Marked("spill")
          BY <2>1, <3>1 DEF Marked
        <4>2. ASSUME i - 1 \in Marked("spill")
              PROVE  FALSE
          <5>1. i - 1 \in Indices /\ "spill" \in Slots[i - 1].marks
            BY <4>2 DEF Marked
          <5>2. Handed(Reader[class], (i - 1) + 1)
            BY <2>1, <5>1
          <5>3. (i - 1) + 1 = i
            BY <1>6, <1>11
          <5>4. QED
            BY <3>1, <5>2, <5>3
        <4>3. QED
          BY <4>1, <4>2
      <3>3. slot'[i] # << >>
        BY <1>11
      <3>4. i \notin Marked("lost")
        BY <1>1, <3>3, CompletedSlot
      <3>5. i \notin Marked("default")
        BY <2>1, <3>1, <3>4 DEF Adopted, Marked, Slots
      <3>6. slot'[i] = slot[i] /\ slot[i] # << >> /\ k \in 1..Len(slot[i])
        BY <1>1, <1>4, <1>11, <3>2, <3>3, <3>5, CompletedSlot
      <3>7. slot[i][k].kind \in Slots[i].accepts
        BY <1>1, <1>2, <3>6 DEF Fits
      <3>8. CASE Slots[i].accepts \subseteq Orphan
        BY <3>6, <3>7, <3>8
      <3>9. CASE Reader[class].visits /\ Slots[i].accepts \cap Orphan = {}
        <4>1. parent[i] = "ret"
          BY <1>1, <1>11, <3>6, <3>9 DEF IInv, Visited
        <4>2. QED
          BY <1>1, <2>3, <4>1
      <3>10. QED
        BY <2>1, <3>1, <3>4, <3>8, <3>9 DEF Adopted, Slots, Marked
    <2>4. QED
      BY <2>2, <2>3
  <1>12. \A i \in Marked("required") : slot'[i] # << >>
    BY <1>1, <1>4, <1>5, <1>7, CompletedSlot DEF Empty
  <1>13. ParentLinks'
    BY <1>1, <1>3, <1>11, <1>12 DEF ParentLinks
  <1>14. phase' # "reading"
    BY <1>1
  <1>15. QED
    BY <1>9, <1>10, <1>13, <1>14 DEF IInv, ChainPrefix, Visited

\* Every step preserves the invariant.
LEMMA StepInv ==
  ASSUME IInv, [Next]_vars, Classified
  PROVE  IInv'
  <1>1. CASE EarlyUse
    BY <1>1, EarlyUseInv
  <1>2. CASE ReadChild
    BY <1>2, ReadChildInv
  <1>3. CASE MissingNode
    BY <1>3, PhaseInv DEF MissingNode
  <1>4. CASE Build
    BY <1>4, BuildInv
  <1>5. CASE Done \/ UNCHANGED vars
    BY <1>5, PhaseInv DEF Done, vars
  <1>6. QED
    BY <1>1, <1>2, <1>3, <1>4, <1>5 DEF Next

\* If Unguarded and Stray name all the unsafe readers, the inductive
\* invariant holds whatever the children are.
THEOREM Invariance ==
  ASSUME Classified
  PROVE  Spec => []IInv
  <1>1. Init => IInv
    BY InitInv
  <1>2. IInv /\ [Next]_vars => IInv'
    BY StepInv
  <1>3. QED
    BY <1>1, <1>2, PTL DEF Spec
-----------------------------------------------------------------------------

\* A reader that is neither unguarded nor stray.
Good(r) == Sound(r) /\ Rooted(r)

\* A slot whose node gets the right parent after the loop.
Takes(s) == /\ s.marks \cap {"set_parent", "if_set", "builder", "ctor"} # {}
            /\ "early" \notin s.marks /\ "spill" \notin s.marks

\* A slot that is safe whatever the other slots of the reader are; v says
\* whether its child is visited under ret.
Safe(s, v) ==
  /\ "early" \notin s.marks /\ "spill" \notin s.marks
  /\ "set_parent" \in s.marks => s.marks \cap {"required", "default"} # {}
  /\ \/ Takes(s)
     \/ "lost" \in s.marks
     \/ /\ "default" \notin s.marks
        /\ s.accepts \subseteq Orphan \/ (v /\ s.accepts \cap Orphan = {})

\* A reader of safe slots is good.
LEMMA SafeSlots ==
  ASSUME NEW m, m # "array", NEW v, NEW slots, \A i \in 1..Len(slots) : Safe(slots[i], v)
  PROVE  Good([mode |-> m, visits |-> v, slots |-> slots])
  BY DEF Good, Sound, Rooted, Guarded, Adopted, Handed, Safe, Takes

\* A chain that ends with a tested slot is good if all its slots are given
\* their parent.
LEMMA TestedChain ==
  ASSUME NEW v, NEW slots, Len(slots) \in Nat \ {0},
         \A i \in 1..Len(slots) : Takes(slots[i]), "required" \in slots[Len(slots)].marks
  PROVE  Good([mode |-> "chain", visits |-> v, slots |-> slots])
  <1> DEFINE n == Len(slots)
             r == [mode |-> "chain", visits |-> v, slots |-> slots]
  <1>1. \A i \in 1..n : Guarded(r, i)
    <2>1. SUFFICES ASSUME NEW i \in 1..n
                   PROVE  Guarded(r, i)
      OBVIOUS
    <2>2. CASE i = n
      BY <2>2 DEF Guarded
    <2>3. CASE i # n
      <3>1. n \in 1..n /\ i < n
        BY <2>3
      <3>2. QED
        BY <3>1 DEF Guarded
    <2>4. QED
      BY <2>2, <2>3
  <1>2. QED
    BY <1>1 DEF Good, Sound, Rooted, Adopted, Handed, Takes

\* Readers without slots, and with one, two, three or four safe ones.
LEMMA GoodNone ==
  Good(Chain(<< >>))
  BY SafeSlots DEF Chain

LEMMA GoodOne ==
  ASSUME NEW a, NEW v, Safe(a, v)
  PROVE  LET slots == <<a>>
         IN /\ v = TRUE => Good(Chain(slots)) /\ Good(Scan(slots))
            /\ v = FALSE => Good(Outer(slots)) /\ Good(OuterScan(slots)) /\ Good(LastOf(slots))
  <1>1. \A i \in 1..Len(<<a>>) : Safe(<<a>>[i], v)
    OBVIOUS
  <1>2. QED
    BY <1>1, SafeSlots DEF Chain, Scan, Outer, OuterScan, LastOf

LEMMA GoodTwo ==
  ASSUME NEW a, NEW b, NEW v, Safe(a, v), Safe(b, v)
  PROVE  LET slots == <<a, b>>
         IN /\ v = TRUE => Good(Chain(slots)) /\ Good(Scan(slots))
            /\ v = FALSE => Good(Outer(slots)) /\ Good(OuterScan(slots)) /\ Good(LastOf(slots))
  <1>1. \A i \in 1..Len(<<a, b>>) : Safe(<<a, b>>[i], v)
    OBVIOUS
  <1>2. QED
    BY <1>1, SafeSlots DEF Chain, Scan, Outer, OuterScan, LastOf

LEMMA GoodThree ==
  ASSUME NEW a, NEW b, NEW c, NEW v, Safe(a, v), Safe(b, v), Safe(c, v)
  PROVE  LET slots == <<a, b, c>>
         IN /\ v = TRUE => Good(Chain(slots)) /\ Good(Scan(slots))
            /\ v = FALSE => Good(Outer(slots)) /\ Good(OuterScan(slots)) /\ Good(LastOf(slots))
  <1>1. \A i \in 1..Len(<<a, b, c>>) : Safe(<<a, b, c>>[i], v)
    OBVIOUS
  <1>2. QED
    BY <1>1, SafeSlots DEF Chain, Scan, Outer, OuterScan, LastOf

LEMMA GoodFour ==
  ASSUME NEW a, NEW b, NEW c, NEW d, NEW v, Safe(a, v), Safe(b, v), Safe(c, v), Safe(d, v)
  PROVE  LET slots == <<a, b, c, d>>
         IN /\ v = TRUE => Good(Chain(slots)) /\ Good(Scan(slots))
            /\ v = FALSE => Good(Outer(slots)) /\ Good(OuterScan(slots)) /\ Good(LastOf(slots))
  <1>1. \A i \in 1..Len(<<a, b, c, d>>) : Safe(<<a, b, c, d>>[i], v)
    OBVIOUS
  <1>2. QED
    BY <1>1, SafeSlots DEF Chain, Scan, Outer, OuterScan, LastOf

\* A chain of two of which the last is tested.
LEMMA ChainOfTwo ==
  ASSUME NEW a, NEW b, Takes(a), Takes(b),
         "required" \in b.marks
  PROVE  Good(Chain(<<a, b>>)) /\ Good(Outer(<<a, b>>))
  <1>1. /\ \A i \in 1..Len(<<a, b>>) : Takes(<<a, b>>[i])
        /\ Len(<<a, b>>) \in Nat \ {0} /\ "required" \in <<a, b>>[Len(<<a, b>>)].marks
    OBVIOUS
  <1>2. \A v : Good([mode |-> "chain", visits |-> v, slots |-> <<a, b>>])
    BY <1>1, TestedChain
  <1>3. QED
    BY <1>2 DEF Chain, Outer

\* A chain of three of which the last is tested.
LEMMA ChainOfThree ==
  ASSUME NEW a, NEW b, NEW c, Takes(a), Takes(b), Takes(c),
         "required" \in c.marks
  PROVE  Good(Chain(<<a, b, c>>)) /\ Good(Outer(<<a, b, c>>))
  <1>1. /\ \A i \in 1..Len(<<a, b, c>>) : Takes(<<a, b, c>>[i])
        /\ Len(<<a, b, c>>) \in Nat \ {0} /\ "required" \in <<a, b, c>>[Len(<<a, b, c>>)].marks
    OBVIOUS
  <1>2. \A v : Good([mode |-> "chain", visits |-> v, slots |-> <<a, b, c>>])
    BY <1>1, TestedChain
  <1>3. QED
    BY <1>2 DEF Chain, Outer

\* A chain of four of which the last is tested.
LEMMA ChainOfFour ==
  ASSUME NEW a, NEW b, NEW c, NEW d, Takes(a), Takes(b), Takes(c), Takes(d),
         "required" \in d.marks
  PROVE  Good(Chain(<<a, b, c, d>>)) /\ Good(Outer(<<a, b, c, d>>))
  <1>1. /\ \A i \in 1..Len(<<a, b, c, d>>) : Takes(<<a, b, c, d>>[i])
        /\ Len(<<a, b, c, d>>) \in Nat \ {0} /\ "required" \in <<a, b, c, d>>[Len(<<a, b, c, d>>)].marks
    OBVIOUS
  <1>2. \A v : Good([mode |-> "chain", visits |-> v, slots |-> <<a, b, c, d>>])
    BY <1>1, TestedChain
  <1>3. QED
    BY <1>2 DEF Chain, Outer

\* visitSgProcedureHeaderStatement dereferences var untested, but no child of
\* it ends with a wrong parent.
LEMMA RootedScan ==
  ASSUME NEW X, NEW a, NEW b, NEW c, NEW d, Takes(a), Takes(b), Takes(c), Takes(d),
         SageType \subseteq Orphan
  PROVE  LET t == S("typ", SageType, {"required"})
         IN Rooted(OuterScan(<<t, a, b, c>>)) /\ Rooted(OuterScan(<<t, a, b, c, d>>))
  <1> DEFINE t == S("typ", SageType, {"required"})
  <1>1. \A i \in 1..4 : Takes(<<t, a, b, c>>[i]) \/ <<t, a, b, c>>[i] = t
    OBVIOUS
  <1>2. \A i \in 1..5 : Takes(<<t, a, b, c, d>>[i]) \/ <<t, a, b, c, d>>[i] = t
    OBVIOUS
  <1>3. t.accepts \subseteq Orphan /\ "default" \notin t.marks /\ "spill" \notin t.marks
    BY DEF S
  <1>4. QED
    BY <1>1, <1>2, <1>3 DEF OuterScan, Rooted, Adopted, Handed, Takes

\* The marks that make a slot safe whatever it accepts.
LEMMA HandedSlots ==
  ASSUME NEW role, NEW X
  PROVE  /\ Takes(S(role, X, {"set_parent"})) /\ Takes(S(role, X, {"default", "set_parent"}))
         /\ Takes(S(role, X, {"ctor"}))
         /\ Takes(S(role, X, Needed)) /\ "required" \in S(role, X, Needed).marks
         /\ \A v : Safe(S(role, X, Needed), v)
         /\ \A v : Safe(S(role, X, {"builder"}), v)
         /\ \A v : Safe(List(role, X, {"builder"}), v)
         /\ \A v : Safe(S(role, X, {"ctor"}), v)
         /\ \A v : Safe(S(role, X, {"default", "ctor"}), v)
         /\ \A v : Safe(S(role, X, {"default", "set_parent"}), v)
         /\ \A v : Safe(S(role, X, {"either", "builder"}), v)
         /\ \A v : Safe(S(role, X, {"either", "ctor"}), v)
         /\ \A v : Safe(S(role, X, {"either", "if_set"}), v)
         /\ \A v : Safe(S(role, X, {"if_set"}), v)
         /\ \A v : Safe(List(role, X, {"if_set"}), v)
         /\ \A v : Safe(S(role, X, {"required", "builder"}), v)
         /\ \A v : Safe(S(role, X, {"required", "if_set"}), v)
         /\ \A v : Safe(List(role, X, {"required", "if_set"}), v)
  BY DEF Safe, Takes, S, List, Needed

\* The kinds of the slots that keep the parent their child was visited with.
LEMMA Located ==
  ASSUME Orphan = OrphanKind
  PROVE  /\ SageType \subseteq Orphan
         /\ Expression \cap Orphan = {} /\ Statement \cap Orphan = {}
         /\ {"DataStatementGroup"} \subseteq Orphan
         /\ {"DataStatementObject"} \subseteq Orphan
         /\ {"DataStatementValue"} \subseteq Orphan
         /\ {"FormatItem"} \subseteq Orphan
         /\ {"NameGroup"} \subseteq Orphan
         /\ {"BasicBlock"} \cap Orphan = {}
         /\ {"ClassDefinition"} \cap Orphan = {}
         /\ {"ElseWhereStatement"} \cap Orphan = {}
         /\ {"ExprListExp"} \cap Orphan = {}
         /\ {"ExprStatement"} \cap Orphan = {}
         /\ {"RenamePair"} \cap Orphan = {}
         /\ {"ValueExp"} \cap Orphan = {}
         /\ {"VariableDeclaration"} \cap Orphan = {}
  BY DEF Expression, Statement, ScopeStmt, Declaration, FuncDecl, ClassDecl, Initializer,
         SageType, OrphanKind

\* The slots of the tables that are left with the parent of the visit.
LEMMA KeptSlots ==
  ASSUME Orphan = OrphanKind, NEW role
  PROVE  /\ \A v : Safe(List(role, SageType, {}), v)
         /\ \A v : Safe(S(role, {}, {"required"}), v)
         /\ \A v : Safe(S(role, Expression, {"lost"}), v)
         /\ \A v : Safe(S(role, SageType, {"either"}), v)
         /\ \A v : Safe(S(role, SageType, {"required"}), v)
         /\ \A v : Safe(S(role, SageType, {}), v)
         /\ \A v : Safe(List(role, {"DataStatementGroup"}, {}), v)
         /\ \A v : Safe(List(role, {"DataStatementObject"}, {}), v)
         /\ \A v : Safe(List(role, {"DataStatementValue"}, {}), v)
         /\ \A v : Safe(List(role, {"FormatItem"}, {}), v)
         /\ \A v : Safe(List(role, {"NameGroup"}, {}), v)
         /\ Safe(S(role, Expression, {"needs_next"}), TRUE)
         /\ Safe(S(role, Expression, {"required"}), TRUE)
         /\ Safe(S(role, Expression, {}), TRUE)
         /\ Safe(S(role, Statement, {"required"}), TRUE)
         /\ Safe(S(role, Statement, {}), TRUE)
         /\ Safe(S(role, {"BasicBlock"}, {"required"}), TRUE)
         /\ Safe(S(role, {"BasicBlock"}, {}), TRUE)
         /\ Safe(S(role, {"ClassDefinition"}, {}), TRUE)
         /\ Safe(S(role, {"ElseWhereStatement"}, {}), TRUE)
         /\ Safe(S(role, {"ExprListExp"}, {"required"}), TRUE)
         /\ Safe(S(role, {"ExprListExp"}, {}), TRUE)
         /\ Safe(S(role, {"ExprStatement"}, {"required"}), TRUE)
         /\ Safe(List(role, {"RenamePair"}, {}), TRUE)
         /\ Safe(List(role, {"ValueExp"}, {}), TRUE)
         /\ Safe(S(role, {"VariableDeclaration"}, {"required"}), TRUE)
  BY Located DEF Safe, Takes, S, List

\* The readers of the operands: expressions that are no operators.
LEMMA OperandNodeGood ==
  ASSUME Orphan = OrphanKind
  PROVE  \A c \in DOMAIN OperandNode :
           /\ c \notin UnguardedClass => Sound(OperandNode[c].reads)
           /\ c \notin StrayClass => Rooted(OperandNode[c].reads)
  <1>1. Good(ActualArgumentExpression.reads)
    BY GoodOne, HandedSlots DEF ActualArgumentExpression, Node
  <1>2. Good(AggregateInitializer.reads)
    BY GoodTwo, HandedSlots, KeptSlots DEF AggregateInitializer, Node
  <1>3. Good(AsmOp.reads)
    BY GoodOne, HandedSlots DEF AsmOp, Node
  <1>4. Good(AssignInitializer.reads)
    BY GoodOne, HandedSlots DEF AssignInitializer, Node
  <1>5. Good(AsteriskShapeExp.reads)
    BY GoodNone DEF AsteriskShapeExp, Node, NoSlots
  <1>6. Good(CastExp.reads)
    BY GoodThree, HandedSlots, KeptSlots DEF CastExp, Node
  <1>7. Good(ColonShapeExp.reads)
    BY GoodNone DEF ColonShapeExp, Node, NoSlots
  <1>8. Good(CompoundLiteralExp.reads)
    BY GoodOne, HandedSlots DEF CompoundLiteralExp, Node
  <1>9. Good(ConditionalExp.reads)
    BY ChainOfThree, HandedSlots DEF ConditionalExp, Node
  <1>10. Good(ConstructorInitializer.reads)
    BY GoodThree, HandedSlots DEF ConstructorInitializer, Node
  <1>11. Good(DesignatedInitializer.reads)
    BY GoodTwo, HandedSlots DEF DesignatedInitializer, Node
  <1>12. Good(ExprListExp.reads)
    BY GoodOne, HandedSlots DEF ExprListExp, Node
  <1>13. Good(FunctionCallExp.reads)
    BY GoodTwo, HandedSlots DEF FunctionCallExp, Node
  <1>14. Good(FunctionRefExp.reads)
    BY GoodOne, KeptSlots DEF FunctionRefExp, Node
  <1>15. Good(ImpliedDo.reads)
    BY ChainOfFour, HandedSlots DEF ImpliedDo, Node
  <1>16. Good(LabelRefExp.reads)
    BY GoodNone DEF LabelRefExp, Node, NoSlots
  <1>17. Good(NullExpression.reads)
    BY GoodNone DEF NullExpression, Node, NoSlots
  <1>18. Good(PointerDerefExp.reads)
    BY GoodTwo, HandedSlots DEF PointerDerefExp, Node
  <1>19. Good(SizeOfOp.reads)
    BY GoodTwo, HandedSlots, KeptSlots DEF SizeOfOp, Node
  <1>20. Good(StatementExpression.reads)
    BY GoodOne, HandedSlots DEF StatementExpression, Node
  <1>21. Good(SubscriptExpression.reads)
    BY ChainOfThree, HandedSlots DEF SubscriptExpression, Node
  <1>22. Good(VarArgCopyOp.reads)
    BY ChainOfTwo, HandedSlots DEF VarArgCopyOp, Node
  <1>23. Good(VarArgEndOp.reads)
    BY GoodOne, HandedSlots DEF VarArgEndOp, Node
  <1>24. Good(VarArgOp.reads)
    BY GoodTwo, HandedSlots, KeptSlots DEF VarArgOp, Node
  <1>25. Good(VarArgStartOp.reads)
    BY ChainOfTwo, HandedSlots DEF VarArgStartOp, Node
  <1>26. Good(VarRefExp.reads)
    BY GoodOne, KeptSlots DEF VarRefExp, Node
  <1>27. Good(ImplicitCastExp.reads)
    BY GoodThree, HandedSlots, KeptSlots DEF ImplicitCastExp, Node
  <1>28. QED
    BY <1>1, <1>2, <1>3, <1>4, <1>5, <1>6, <1>7, <1>8, <1>9, <1>10, <1>11, <1>12, <1>13,
       <1>14, <1>15, <1>16, <1>17, <1>18, <1>19, <1>20, <1>21, <1>22, <1>23, <1>24, <1>25, <1>26,
       <1>27
       DEF OperandNode, Good, UnguardedClass, StrayClass

\* The readers of the operators.
LEMMA OperatorNodeGood ==
  ASSUME Orphan = OrphanKind
  PROVE  \A c \in DOMAIN OperatorNode :
           /\ c \notin UnguardedClass => Sound(OperatorNode[c].reads)
           /\ c \notin StrayClass => Rooted(OperatorNode[c].reads)
  <1>1. Good(BinaryOp.reads)
    BY GoodThree, KeptSlots DEF BinaryOp, Node
  <1>2. Good(UnaryOp.reads)
    BY GoodOne, HandedSlots DEF UnaryOp, Node
  <1>3. Good(UnaryOpMode.reads)
    BY GoodOne, HandedSlots DEF UnaryOpMode, Node
  <1>4. Good(PointerAssignOp.reads)
    BY GoodTwo, HandedSlots DEF PointerAssignOp, Node
  <1>5. Good(UserDefinedBinaryOp.reads)
    BY GoodTwo, KeptSlots DEF UserDefinedBinaryOp, Node
  <1>6. Rooted(UserDefinedUnaryOp.reads)
    <2>1. UserDefinedUnaryOp.reads = Chain(<<S("lhs", Expression, {"required", "early"})>>)
      BY DEF UserDefinedUnaryOp, Node
    <2> DEFINE s == S("lhs", Expression, {"required", "early"})
    <2>2. s.accepts = Expression /\ s.marks = {"required", "early"}
      BY DEF S
    <2>3. Expression \cap Orphan = {}
      BY Located
    <2> HIDE DEF s
    <2>4. Rooted(Chain(<<s>>))
      BY <2>2, <2>3 DEF Chain, Rooted, Adopted, Handed
    <2> QED BY <2>1, <2>4 DEF s
  <1>7. QED
    BY <1>1, <1>2, <1>3, <1>4, <1>5, <1>6
       DEF OperatorNode, Good, UnguardedClass, StrayClass

\* The readers of the constants.
LEMMA ValueNodeGood ==
  ASSUME Orphan = OrphanKind
  PROVE  \A c \in DOMAIN ValueNode :
           /\ c \notin UnguardedClass => Sound(ValueNode[c].reads)
           /\ c \notin StrayClass => Rooted(ValueNode[c].reads)
  <1>1. Good(NumberVal.reads)
    BY GoodOne, KeptSlots DEF NumberVal, OriginalSlot, Node
  <1>2. Good(BoolValExp.reads)
    BY GoodOne, KeptSlots DEF BoolValExp, OriginalSlot, Node
  <1>3. Good(CharVal.reads)
    BY GoodOne, KeptSlots DEF CharVal, OriginalSlot, Node
  <1>4. Good(EnumVal.reads)
    BY GoodOne, KeptSlots DEF EnumVal, OriginalSlot, Node
  <1>5. Good(ComplexVal.reads)
    <2>1. ComplexVal.reads.slots = <<S("real", {"ValueExp"}, {"spill", "builder"}),
                                     S("imag", {"ValueExp"}, {"builder"}),
                                     S("original", {}, {"lost"})>>
      BY DEF ComplexVal, Node, Outer
    <2>2. ComplexVal.reads.mode = "chain" /\ ComplexVal.reads.visits = FALSE
      BY DEF ComplexVal, Node, Outer
    <2>3. QED
      BY <2>1, <2>2 DEF Good, Sound, Rooted, Guarded, Adopted, Handed, S
  <1>6. Good(StringVal.reads)
    BY GoodOne, KeptSlots DEF StringVal, OriginalSlot, Node
  <1>7. QED
    BY <1>1, <1>2, <1>3, <1>4, <1>5, <1>6
       DEF ValueNode, Good, UnguardedClass, StrayClass

\* The readers of the statements.
LEMMA StmtNodeGood ==
  ASSUME Orphan = OrphanKind
  PROVE  \A c \in DOMAIN StmtNode :
           /\ c \notin UnguardedClass => Sound(StmtNode[c].reads)
           /\ c \notin StrayClass => Rooted(StmtNode[c].reads)
  <1>1. Good(AllocateStatement.reads)
    BY GoodTwo, KeptSlots DEF AllocateStatement, Node
  <1>2. Good(ArithmeticIfStatement.reads)
    BY ChainOfFour, HandedSlots DEF ArithmeticIfStatement, Node
  <1>3. Good(AssociateStatement.reads)
    BY GoodTwo, KeptSlots DEF AssociateStatement, Node
  <1>4. Good(BreakStmt.reads)
    BY GoodNone DEF BreakStmt, Node, NoSlots
  <1>5. Good(CaseOptionStmt.reads)
    BY GoodThree, HandedSlots, KeptSlots DEF CaseOptionStmt, Node
  <1>6. Good(ClassDefinition.reads)
    BY GoodOne, HandedSlots DEF ClassDefinition, Node
  <1>7. Good(ComputedGotoStatement.reads)
    BY GoodTwo, HandedSlots DEF ComputedGotoStatement, Node
  <1>8. Good(ContinueStmt.reads)
    BY GoodNone DEF ContinueStmt, Node, NoSlots
  <1>9. Good(DeallocateStatement.reads)
    BY GoodTwo, KeptSlots DEF DeallocateStatement, AllocateStatement, Node
  <1>10. Good(DefaultOptionStmt.reads)
    BY GoodOne, KeptSlots DEF DefaultOptionStmt, Node
  <1>11. Good(DoWhileStmt.reads)
    BY GoodTwo, HandedSlots DEF DoWhileStmt, Node
  <1>12. Good(ElseWhereStatement.reads)
    BY GoodThree, HandedSlots, KeptSlots DEF ElseWhereStatement, Node
  <1>13. Good(ExprStatement.reads)
    BY GoodOne, HandedSlots DEF ExprStatement, Node
  <1>14. Good(ForAllStatement.reads)
    BY GoodTwo, HandedSlots DEF ForAllStatement, Node
  <1>15. Good(ForInitStatement.reads)
    BY GoodOne, HandedSlots DEF ForInitStatement, Node
  <1>16. Good(ForStatement.reads)
    BY ChainOfFour, HandedSlots DEF ForStatement, Node
  <1>17. Good(FortranDo.reads)
    BY GoodFour, HandedSlots DEF FortranDo, Node
  <1>18. Good(FunctionDefinition.reads)
    BY GoodOne, HandedSlots DEF FunctionDefinition, Node
  <1>19. Good(GotoStatement.reads)
    BY GoodNone DEF GotoStatement, Node, NoSlots
  <1>20. Good(IfStmt.reads)
    BY GoodThree, KeptSlots DEF IfStmt, Node
  <1>21. Good(LabelStatement.reads)
    BY GoodTwo, HandedSlots DEF LabelStatement, Node
  <1>22. Good(NullStatement.reads)
    BY GoodNone DEF NullStatement, Node, NoSlots
  <1>23. Good(NullifyStatement.reads)
    BY GoodOne, HandedSlots DEF NullifyStatement, Node
  <1>24. Good(ReturnStmt.reads)
    BY GoodOne, HandedSlots DEF ReturnStmt, Node
  <1>25. Good(StopOrPauseStatement.reads)
    BY GoodOne, HandedSlots DEF StopOrPauseStatement, Node
  <1>26. Good(SwitchStatement.reads)
    BY GoodTwo, HandedSlots DEF SwitchStatement, Node
  <1>27. Good(WhereStatement.reads)
    BY GoodThree, KeptSlots DEF WhereStatement, Node
  <1>28. Good(WhileStmt.reads)
    BY GoodThree, HandedSlots DEF WhileStmt, Node
  <1>29. QED
    BY <1>1, <1>2, <1>3, <1>4, <1>5, <1>6, <1>7, <1>8, <1>9, <1>10, <1>11, <1>12, <1>13,
       <1>14, <1>15, <1>16, <1>17, <1>18, <1>19, <1>20, <1>21, <1>22, <1>23, <1>24, <1>25, <1>26,
       <1>27, <1>28
       DEF StmtNode, Good, UnguardedClass, StrayClass

\* The readers of the declarations.
LEMMA DeclNodeGood ==
  ASSUME Orphan = OrphanKind
  PROVE  \A c \in DOMAIN DeclNode :
           /\ c \notin UnguardedClass => Sound(DeclNode[c].reads)
           /\ c \notin StrayClass => Rooted(DeclNode[c].reads)
  <1>1. Good(AsmStmt.reads)
    BY GoodOne, HandedSlots DEF AsmStmt, Node
  <1>2. Good(AttributeSpecExprs.reads)
    BY GoodOne, HandedSlots DEF AttributeSpecExprs, Node
  <1>3. Good(AttributeSpecDimension.reads)
    BY GoodOne, HandedSlots DEF AttributeSpecDimension, Node
  <1>4. Good(AttributeSpecData.reads)
    BY GoodOne, KeptSlots DEF AttributeSpecData, Node
  <1>5. Good(AttributeSpecNames.reads)
    BY GoodOne, KeptSlots DEF AttributeSpecNames, Node
  <1>6. Good(ClassDeclaration.reads)
    BY GoodOne, HandedSlots DEF ClassDeclaration, Node
  <1>7. Good(CommonBlock.reads)
    BY GoodOne, HandedSlots DEF CommonBlock, Node
  <1>8. Good(ContainsStatement.reads)
    BY GoodNone DEF ContainsStatement, Node, NoSlots
  <1>9. Good(DerivedTypeStatement.reads)
    BY GoodOne, HandedSlots DEF DerivedTypeStatement, Node
  <1>10. Good(EntryStatement.reads)
    BY GoodThree, HandedSlots, KeptSlots DEF EntryStatement, Node
  <1>11. Good(EnumDeclaration.reads)
    BY GoodOne, HandedSlots DEF EnumDeclaration, Node
  <1>12. Good(EquivalenceStatement.reads)
    BY GoodOne, HandedSlots DEF EquivalenceStatement, Node
  <1>13. Good(FormatStatement.reads)
    BY GoodOne, KeptSlots DEF FormatStatement, Node
  <1>14. Good(FortranIncludeLine.reads)
    BY GoodNone DEF FortranIncludeLine, Node, NoSlots
  <1>15. Good(FunctionDeclaration.reads)
    BY GoodThree, HandedSlots, KeptSlots DEF FunctionDeclaration, Node
  <1>16. Good(FunctionParameterList.reads)
    BY GoodOne, HandedSlots DEF FunctionParameterList, Node
  <1>17. Good(ImplicitStatement.reads)
    BY GoodOne, HandedSlots DEF ImplicitStatement, Node
  <1>18. Good(ImportStatement.reads)
    BY GoodOne, HandedSlots DEF ImportStatement, Node
  <1>19. Good(InterfaceStatement.reads)
    BY GoodOne, HandedSlots DEF InterfaceStatement, Node
  <1>20. Good(ModuleStatement.reads)
    BY GoodOne, HandedSlots DEF ModuleStatement, Node
  <1>21. Good(NamelistStatement.reads)
    BY GoodOne, KeptSlots DEF NamelistStatement, Node
  <1>22. Good(PragmaDeclaration.reads)
    BY GoodOne, HandedSlots DEF PragmaDeclaration, Node
  <1>23. Rooted(ProcedureHeaderStatement.reads)
    BY RootedScan, HandedSlots, Located DEF ProcedureHeaderStatement, Node
  <1>24. Rooted(BlockDataHeader.reads)
    BY RootedScan, HandedSlots, Located DEF BlockDataHeader, Node
  <1>25. Good(ProgramHeaderStatement.reads)
    BY GoodTwo, HandedSlots DEF ProgramHeaderStatement, Node
  <1>26. Good(TypedefDeclaration.reads)
    BY GoodTwo, HandedSlots, KeptSlots DEF TypedefDeclaration, Node
  <1>27. Good(UseStatement.reads)
    BY GoodOne, KeptSlots DEF UseStatement, Node
  <1>28. Good(VariableDeclaration.reads)
    BY GoodThree, HandedSlots DEF VariableDeclaration, Node
  <1>29. Good(AttributeSpecOther.reads)
    BY GoodOne, KeptSlots DEF AttributeSpecOther, Node, Fatal
  <1>30. QED
    BY <1>1, <1>2, <1>3, <1>4, <1>5, <1>6, <1>7, <1>8, <1>9, <1>10, <1>11, <1>12, <1>13,
       <1>14, <1>15, <1>16, <1>17, <1>18, <1>19, <1>20, <1>21, <1>22, <1>23, <1>24, <1>25, <1>26,
       <1>27, <1>28, <1>29
       DEF DeclNode, Good, UnguardedClass, StrayClass

\* The readers of the types.
LEMMA TypeNodeGood ==
  ASSUME Orphan = OrphanKind
  PROVE  \A c \in DOMAIN TypeNode :
           /\ c \notin UnguardedClass => Sound(TypeNode[c].reads)
           /\ c \notin StrayClass => Rooted(TypeNode[c].reads)
  <1>1. Good(IntrinsicType.reads)
    BY GoodOne, HandedSlots DEF IntrinsicType, Node
  <1>2. Good(BareType.reads)
    BY GoodNone DEF BareType, Node, NoSlots
  <1>3. Good(ArrayType.reads)
    <2>1. ArrayType.reads.slots = <<S("typ", SageType, Needed),
                                    S("lst", {"ExprListExp"}, {"counted"}),
                                    S("iexp", Expression, {"if_set"})>>
      BY DEF ArrayType, Node
    <2>2. ArrayType.reads.mode = "array" /\ ArrayType.reads.visits = TRUE
      BY DEF ArrayType, Node
    <2>3. Sound(ArrayType.reads)
      BY <2>1, <2>2 DEF Sound, Guarded, S, Needed
    <2>4. {"ExprListExp"} \cap Orphan = {} /\ Expression \cap Orphan = {}
      BY Located
    <2>5. Rooted(ArrayType.reads)
      <3>1. /\ Handed(ArrayType.reads, 1) /\ Handed(ArrayType.reads, 3)
            /\ Adopted(ArrayType.reads, 2)
        BY <2>1, <2>2, <2>4 DEF Adopted, Handed, S, Needed
      <3>2. \A i \in 1..3 : Adopted(ArrayType.reads, i)
        BY <3>1 DEF Adopted
      <3>3. /\ Len(ArrayType.reads.slots) = 3
            /\ \A i \in 1..3 : "spill" \notin ArrayType.reads.slots[i].marks
            /\ ArrayType.reads.slots[3].accepts = Expression
        BY <2>1 DEF S, Needed
      <3>4. QED
        BY <2>4, <3>2, <3>3 DEF Rooted
    <2>6. QED
      BY <2>3, <2>5 DEF Good
  <1>4. Good(ClassType.reads)
    BY GoodOne, KeptSlots DEF ClassType, Node
  <1>5. Good(EnumType.reads)
    BY GoodNone DEF EnumType, Node, NoSlots
  <1>6. Good(FunctionType.reads)
    BY GoodTwo, HandedSlots DEF FunctionType, Node
  <1>7. Good(ModifierType.reads)
    BY GoodOne, KeptSlots DEF ModifierType, Node
  <1>8. Good(TypeStringLen.reads)
    BY GoodTwo, HandedSlots DEF TypeStringLen, Node
  <1>9. Good(TypeString.reads)
    BY GoodOne, HandedSlots DEF TypeString, Node
  <1>10. Good(TypedefType.reads)
    BY GoodNone DEF TypedefType, Node, NoSlots
  <1>11. Sound(TypeComplex.reads)
    <2>1. TypeComplex.reads.slots = <<S("typ", SageType, {"required"}), S("kexp", Expression, {})>>
      BY DEF TypeComplex, Node, OuterScan
    <2>2. QED
      BY <2>1 DEF Sound, Guarded, S
  <1>12. Sound(TypeImaginary.reads)
    <2>1. TypeImaginary.reads.slots = <<S("typ", SageType, {"required"}), S("kexp", Expression, {})>>
      BY DEF TypeImaginary, TypeComplex, Node, OuterScan
    <2>2. QED
      BY <2>1 DEF Sound, Guarded, S
  <1>13. Good(TypeInt.reads)
    BY GoodOne, HandedSlots DEF TypeInt, Node
  <1>14. Good(TypeLabel.reads)
    BY GoodOne, HandedSlots DEF TypeLabel, Node
  <1>15. Good(TypeOfType.reads)
    BY GoodTwo, HandedSlots, KeptSlots DEF TypeOfType, Node
  <1>16. Good(PointerType.reads)
    BY GoodOne, KeptSlots DEF PointerType, Node
  <1>17. QED
    BY <1>1, <1>2, <1>3, <1>4, <1>5, <1>6, <1>7, <1>8, <1>9, <1>10, <1>11, <1>12, <1>13,
       <1>14, <1>15, <1>16
       DEF TypeNode, Good, UnguardedClass, StrayClass

\* The readers of the support nodes.
LEMMA SupportNodeGood ==
  ASSUME Orphan = OrphanKind
  PROVE  \A c \in DOMAIN SupportNode :
           /\ c \notin UnguardedClass => Sound(SupportNode[c].reads)
           /\ c \notin StrayClass => Rooted(SupportNode[c].reads)
  <1>1. Good(DataStatementGroup.reads)
    BY GoodTwo, KeptSlots DEF DataStatementGroup, Node
  <1>2. Good(DataStatementObject.reads)
    BY GoodOne, KeptSlots DEF DataStatementObject, Node
  <1>3. Good(DataStatementValue.reads)
    BY GoodThree, KeptSlots DEF DataStatementValue, Node
  <1>4. Good(FormatItem.reads)
    BY GoodTwo, KeptSlots DEF FormatItem, Node
  <1>5. Good(FormatItemOnce.reads)
    BY GoodTwo, KeptSlots DEF FormatItemOnce, Node
  <1>6. Good(FunctionParameterTypeList.reads)
    BY GoodTwo, HandedSlots, KeptSlots DEF FunctionParameterTypeList, Node
  <1>7. Good(NameGroup.reads)
    BY GoodNone DEF NameGroup, Node, NoSlots
  <1>8. Good(Pragma.reads)
    BY GoodNone DEF Pragma, Node, NoSlots
  <1>9. Good(SourceFile.reads)
    BY GoodNone DEF SourceFile, Node, NoSlots
  <1>10. Good(TypedefSeq.reads)
    BY GoodNone DEF TypedefSeq, Node, NoSlots
  <1>11. Good(CommonBlockObject.reads)
    BY GoodOne, HandedSlots DEF CommonBlockObject, Node
  <1>12. Good(InitializedName.reads)
    BY GoodTwo, HandedSlots DEF InitializedName, Node
  <1>13. Good(InterfaceBody.reads)
    BY GoodOne, HandedSlots DEF InterfaceBody, Node
  <1>14. Good(InterfaceBodyName.reads)
    BY GoodOne, HandedSlots DEF InterfaceBodyName, Node
  <1>15. Good(RenamePair.reads)
    BY GoodNone DEF RenamePair, Node, NoSlots
  <1>16. QED
    BY <1>1, <1>2, <1>3, <1>4, <1>5, <1>6, <1>7, <1>8, <1>9, <1>10, <1>11, <1>12, <1>13,
       <1>14, <1>15
       DEF SupportNode, Good, UnguardedClass, StrayClass

\* The tables as a whole.
LEMMA TablesClassified ==
  ASSUME Reader = NodeReader, Orphan = OrphanKind, Unguarded = UnguardedClass, Stray = StrayClass
  PROVE  Classified
  <1>1. SUFFICES ASSUME NEW c \in NodeClass
                 PROVE  /\ c \notin UnguardedClass => Sound(NodeReader[c])
                        /\ c \notin StrayClass => Rooted(NodeReader[c])
    BY DEF Classified, Class, NodeReader
  <1>2. NodeReader[c] = NodeOf(c).reads
    BY DEF NodeReader
  <1>3. QED
    BY <1>2, OperandNodeGood, OperatorNodeGood, ValueNodeGood, StmtNodeGood, DeclNodeGood,
       TypeNodeGood, SupportNodeGood DEF NodeOf, NodeClass

\* The readers keep their slots and local variables well typed.
THEOREM ReadersTypeCorrect ==
  ASSUME Reader = NodeReader, Orphan = OrphanKind, Unguarded = UnguardedClass, Stray = StrayClass
  PROVE  Spec => []TypeOK
  <1>1. Spec => []IInv
    BY TablesClassified, Invariance
  <1>2. IInv => TypeOK
    BY DEF IInv
  <1>3. QED
    BY <1>1, <1>2, PTL

\* No reader but visitSgUserDefinedUnaryOp and visitSgProcedureHeaderStatement
\* dereferences an empty slot, for any list of children: the tests the others
\* leave out are not needed.
THEOREM ReadersNoNullDeref ==
  ASSUME Reader = NodeReader, Orphan = OrphanKind, Unguarded = UnguardedClass, Stray = StrayClass
  PROVE  Spec => []NoNullDeref
  <1>1. Spec => []IInv
    BY TablesClassified, Invariance
  <1>2. IInv => NoNullDeref
    BY DEF IInv
  <1>3. QED
    BY <1>1, <1>2, PTL

\* Every child a reader keeps points back to the node, but for the kind of a
\* complex type, and nothing required is missing.
THEOREM ReadersParentLinks ==
  ASSUME Reader = NodeReader, Orphan = OrphanKind, Unguarded = UnguardedClass, Stray = StrayClass
  PROVE  Spec => []ParentLinks
  <1>1. Spec => []IInv
    BY TablesClassified, Invariance
  <1>2. IInv => ParentLinks
    BY DEF IInv
  <1>3. QED
    BY <1>1, <1>2, PTL
==============================================================================
