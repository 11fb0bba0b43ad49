-------------------------- MODULE TextAttachProofs --------------------------
(***************************************************************************)
(* Every text between two statements stays between them, for blocks of any *)
(* length.                                                                 *)
(*                                                                         *)
(* The properties speak of the finished block; the invariant says the same *)
(* of the children read so far: prev is the last statement, remain the     *)
(* last text if there is no statement yet, each piece of information is in *)
(* its place (Placed), and no text that has its place is missing           *)
(* (Covered).                                                              *)
(***************************************************************************)
EXTENDS TextAttach, TLAPS

Info == [at: Nat, position: {"before", "after", "inside"}, from: Nat]

Types ==
  /\ doc \in Docs
  /\ pos \in 1..(Len(doc) + 2)
  /\ prev \in Nat /\ remain \in Nat
  /\ stmts \in Seq(Nat)
  /\ texts \in Seq(Info)

\* What the local variables of the loop stand for.
Locals ==
  /\ prev = 0 => \A s \in Statements : pos <= s
  /\ prev # 0 => prev \in Statements /\ prev < pos /\ \A s \in Statements : s < pos => s <= prev
  /\ remain # 0 => prev = 0 /\ remain \in Texts /\ remain < pos
  /\ prev = 0 => \A t \in Texts : t < pos => remain # 0 /\ t <= remain
  /\ prev = 0 /\ ~Finished => texts = << >>

\* The statements appended so far.
Ascending ==
  /\ \A n \in 1..Len(stmts) : stmts[n] < pos
  /\ \A m, n \in 1..Len(stmts) : m < n => stmts[m] < stmts[n]

\* Of the texts T before the first of the statements S, k is the last.
Last(k, S, T) == \A t \in T : t <= k \/ \E s \in S : s < t

\* One piece of preprocessing information is where it belongs.
Placed(i, S, T) ==
  /\ i.from \in T
  /\ i.position = "after" =>
       /\ i.at \in S /\ i.at < i.from
       /\ \A s \in S : s <= i.at \/ i.from < s
  /\ i.position = "before" =>
       /\ i.at \in S /\ i.from < i.at
       /\ \A s \in S : i.at <= s
       /\ Last(i.from, S, T)
  /\ i.position = "inside" => i.at = 0 /\ S = {} /\ Last(i.from, S, T)

AllPlaced ==
  /\ \A n \in 1..Len(texts) : Placed(texts[n], Statements, Texts) /\ texts[n].from < pos
  /\ \A m, n \in 1..Len(texts) : m < n => texts[m].from < texts[n].from

Attached(k, infos) == \E n \in 1..Len(infos) : infos[n].from = k

\* No text is missing.
Covered ==
  \A k \in Texts :
    /\ k < pos /\ (\E s \in Statements : s < k) => Attached(k, texts)
    /\ (prev # 0 \/ Finished) /\ (\A s \in Statements : k < s) /\ Last(k, Statements, Texts) =>
         Attached(k, texts)

IInv == Types /\ Locals /\ Ascending /\ AllPlaced /\ Covered

-----------------------------------------------------------------------------
LEMMA AppendFacts ==
  ASSUME NEW S, NEW s \in Seq(S), NEW x \in S
  PROVE  /\ Append(s, x) \in Seq(S)
         /\ Len(Append(s, x)) = Len(s) + 1
         /\ \A n \in 1..Len(s) : Append(s, x)[n] = s[n]
         /\ Append(s, x)[Len(s) + 1] = x
OBVIOUS

LEMMA DocFacts ==
  ASSUME doc \in Docs
  PROVE  Len(doc) \in Nat /\ Statements \subseteq 1..Len(doc) /\ Texts \subseteq 1..Len(doc)
BY DocsAssumption DEF Statements, Texts

\* One more statement.
LEMMA Grows ==
  ASSUME Types, stmts' = Append(stmts, pos)
  PROVE  /\ stmts' \in Seq(Nat)
         /\ Len(stmts') = Len(stmts) + 1 /\ Len(stmts) \in Nat
         /\ \A n \in 1..Len(stmts) : stmts'[n] = stmts[n]
         /\ stmts'[Len(stmts) + 1] = pos
<1>1. stmts \in Seq(Nat) /\ pos \in Nat
  BY DocFacts DEF Types
<1>2. Len(stmts) \in Nat
  BY <1>1
<1> QED
  BY <1>1, <1>2, AppendFacts

\* One more text.
LEMMA Attaches ==
  ASSUME Types, NEW at \in Nat, NEW position \in {"before", "after", "inside"}, NEW from \in Nat,
         Attach(at, position, from)
  PROVE  /\ texts' \in Seq(Info)
         /\ Len(texts') = Len(texts) + 1 /\ Len(texts) \in Nat
         /\ \A n \in 1..Len(texts) : texts'[n] = texts[n]
         /\ texts'[Len(texts) + 1] = [at |-> at, position |-> position, from |-> from]
<1>1. texts \in Seq(Info)
  BY DEF Types
<1>2. Len(texts) \in Nat
  BY <1>1
<1>3. [at |-> at, position |-> position, from |-> from] \in Info
  BY DEF Info
<1>4. texts' = Append(texts, [at |-> at, position |-> position, from |-> from])
  BY DEF Attach
<1> QED
  BY <1>1, <1>2, <1>3, <1>4, AppendFacts


-----------------------------------------------------------------------------
(* What each step reads.                                                   *)

LEMMA SameDoc ==
  ASSUME doc' = doc
  PROVE  Statements' = Statements /\ Texts' = Texts
BY DEF Statements, Texts, Visible

LEMMA Unchanging == Next => doc' = doc
BY DEF Next, AppendStatement, AttachText, SkipChild, Finish, Done, vars

\* A child is a statement, a visible text, or neither.
LEMMA ReadsStatement ==
  ASSUME Types, AppendStatement
  PROVE  pos \in Statements /\ pos \notin Texts /\ ~Finished /\ pos' = pos + 1
BY DocFacts DEF Types, AppendStatement, Reading, Statements, Texts, Finished

LEMMA ReadsText ==
  ASSUME Types, AttachText
  PROVE  pos \in Texts /\ pos \notin Statements /\ ~Finished /\ pos' = pos + 1
BY DocFacts DEF Types, AttachText, Reading, Statements, Texts, Finished

LEMMA ReadsOther ==
  ASSUME Types, SkipChild
  PROVE  pos \notin Texts /\ pos \notin Statements /\ ~Finished /\ pos' = pos + 1
BY DocFacts DEF Types, SkipChild, Statements, Texts, Finished

LEMMA ReadsAll ==
  ASSUME Types, Finish
  PROVE  /\ pos = Len(doc) + 1 /\ pos' = pos + 1 /\ ~Finished
         /\ \A k \in Statements \cup Texts : k < pos
BY DocFacts DEF Types, Finish, Finished

-----------------------------------------------------------------------------
(* IInv /\ Next => IInv', part by part.                                    *)

LEMMA TypesStep ==
  ASSUME IInv, Next
  PROVE  Types'
<1>1. /\ doc \in Docs /\ pos \in 1..(Len(doc) + 2) /\ prev \in Nat /\ remain \in Nat
      /\ Len(doc) \in Nat /\ pos \in Nat /\ doc' = doc
  BY DocFacts, Unchanging DEF IInv, Types
<1>2. Types /\ stmts \in Seq(Nat) /\ texts \in Seq(Info)
  BY DEF IInv, Types
<1>3. CASE AppendStatement
  <2>1. pos' \in 1..(Len(doc) + 2)
    BY <1>1, <1>2, <1>3, ReadsStatement DEF Finished
  <2>2. stmts' \in Seq(Nat)
    BY <1>2, <1>3, Grows DEF AppendStatement
  <2>3. texts' \in Seq(Info)
    <3>1. texts' = texts \/ Attach(pos, "before", remain)
      BY <1>3 DEF AppendStatement
    <3> QED
      BY <1>1, <1>2, <3>1, Attaches
  <2>4. prev' \in Nat /\ remain' \in Nat
    BY <1>1, <1>3 DEF AppendStatement
  <2> QED
    BY <1>1, <2>1, <2>2, <2>3, <2>4 DEF Types
<1>4. CASE AttachText
  <2>1. pos' \in 1..(Len(doc) + 2)
    BY <1>1, <1>2, <1>4, ReadsText DEF Finished
  <2>2. texts' \in Seq(Info)
    <3>1. texts' = texts \/ Attach(prev, "after", pos)
      BY <1>4 DEF AttachText
    <3> QED
      BY <1>1, <1>2, <3>1, Attaches
  <2>3. prev' \in Nat /\ remain' \in Nat /\ stmts' = stmts
    BY <1>1, <1>4 DEF AttachText
  <2> QED
    BY <1>1, <1>2, <2>1, <2>2, <2>3 DEF Types
<1>5. CASE SkipChild
  BY <1>1, <1>2, <1>5, ReadsOther DEF Types, SkipChild, Finished
<1>6. CASE Finish
  <2>1. pos' \in 1..(Len(doc) + 2)
    BY <1>1, <1>2, <1>6, ReadsAll
  <2>2. texts' \in Seq(Info)
    <3>1. texts' = texts \/ Attach(0, "inside", remain)
      BY <1>6 DEF Finish
    <3> QED
      BY <1>1, <1>2, <3>1, Attaches
  <2> QED
    BY <1>1, <1>2, <1>6, <2>1, <2>2 DEF Types, Finish
<1>7. CASE Done
  BY <1>1, <1>2, <1>7 DEF Types, Done, vars
<1> QED
  BY <1>3, <1>4, <1>5, <1>6, <1>7 DEF Next

LEMMA LocalsStep ==
  ASSUME IInv, Next
  PROVE  Locals'
<1>1. /\ pos \in Nat /\ prev \in Nat /\ remain \in Nat /\ Types /\ Locals
      /\ Len(doc) \in Nat /\ Statements \subseteq Nat /\ Texts \subseteq Nat
  BY DocFacts DEF IInv, Types
<1>2. Statements' = Statements /\ Texts' = Texts /\ doc' = doc
  BY SameDoc, Unchanging
<1>3. CASE AppendStatement
  <2>1. prev' = pos /\ remain' = 0
    BY <1>3 DEF AppendStatement
  <2>2. pos \in Statements /\ pos' = pos + 1
    BY <1>1, <1>3, ReadsStatement
  <2>3. pos # 0
    BY <1>1 DEF Types
  <2> QED
    BY <1>1, <1>2, <2>1, <2>2, <2>3 DEF Locals
<1>4. CASE AttachText
  <2>1. /\ prev' = prev
        /\ prev # 0 => remain' = remain
        /\ prev = 0 => remain' = pos /\ texts' = texts
    BY <1>4 DEF AttachText
  <2>2. pos \in Texts /\ pos \notin Statements /\ pos' = pos + 1 /\ ~Finished
    BY <1>1, <1>4, ReadsText
  <2>3. pos # 0
    BY <1>1 DEF Types
  <2>4. prev = 0 => texts' = << >>
    BY <1>1, <2>1, <2>2 DEF Locals
  <2>5. prev = 0 => \A s \in Statements : pos + 1 <= s
    BY <1>1, <2>2 DEF Locals
  <2>6. prev # 0 => /\ prev \in Statements /\ prev < pos + 1
                    /\ \A s \in Statements : s < pos + 1 => s <= prev
    BY <1>1, <2>2 DEF Locals
  <2>7. remain' # 0 => prev = 0 /\ remain' \in Texts /\ remain' < pos + 1
    BY <1>1, <2>1, <2>2 DEF Locals
  <2>8. prev = 0 => \A t \in Texts : t < pos + 1 => remain' # 0 /\ t <= remain'
    BY <1>1, <2>1, <2>2, <2>3
  <2> QED
    BY <1>2, <2>1, <2>2, <2>4, <2>5, <2>6, <2>7, <2>8 DEF Locals
<1>5. CASE SkipChild
  BY <1>1, <1>2, <1>5, ReadsOther DEF SkipChild, Locals, Finished
<1>6. CASE Finish
  BY <1>1, <1>2, <1>6, ReadsAll DEF Finish, Locals, Finished
<1>7. CASE Done
  BY <1>1, <1>2, <1>7 DEF Done, vars, Locals, Finished
<1> QED
  BY <1>3, <1>4, <1>5, <1>6, <1>7 DEF Next

LEMMA AscendingStep ==
  ASSUME IInv, Next
  PROVE  Ascending'
<1>1. pos \in Nat /\ Types /\ Ascending /\ stmts \in Seq(Nat)
  BY DocFacts DEF IInv, Types
<1>2. CASE AppendStatement
  <2>1. stmts' = Append(stmts, pos) /\ pos' = pos + 1
    BY <1>2 DEF AppendStatement
  <2>2. /\ Len(stmts') = Len(stmts) + 1 /\ Len(stmts) \in Nat
        /\ \A n \in 1..Len(stmts) : stmts'[n] = stmts[n] /\ stmts[n] \in Nat
        /\ stmts'[Len(stmts) + 1] = pos
    BY <1>1, <2>1, Grows
  <2>3. \A n \in 1..Len(stmts') : n \in 1..Len(stmts) \/ n = Len(stmts) + 1
    BY <2>2
  <2>4. \A n \in 1..Len(stmts') : stmts'[n] < pos'
    <3>1. \A n \in 1..Len(stmts) : stmts[n] < pos
      BY <1>1 DEF Ascending
    <3>2. pos' = pos + 1
      BY <2>1
    <3> QED
      BY <1>1, <2>2, <2>3, <3>1, <3>2
  <2>5. \A m, n \in 1..Len(stmts') : m < n => stmts'[m] < stmts'[n]
    <3>1. \A n \in 1..Len(stmts) : stmts[n] < pos
      BY <1>1 DEF Ascending
    <3>2. \A m, n \in 1..Len(stmts) : m < n => stmts[m] < stmts[n]
      BY <1>1 DEF Ascending
    <3>3. SUFFICES ASSUME NEW m \in 1..Len(stmts'), NEW n \in 1..Len(stmts'), m < n
                   PROVE  stmts'[m] < stmts'[n]
      OBVIOUS
    <3>4. m \in 1..Len(stmts)
      BY <2>2, <3>3
    <3>5. CASE n \in 1..Len(stmts)
      BY <2>2, <3>2, <3>3, <3>4, <3>5
    <3>6. CASE n = Len(stmts) + 1
      BY <2>2, <3>1, <3>4, <3>6
    <3> QED
      BY <2>3, <3>5, <3>6
  <2> QED
    BY <2>4, <2>5 DEF Ascending
<1>3. CASE ~AppendStatement
  <2>1. stmts' = stmts /\ (pos' = pos + 1 \/ pos' = pos)
    BY <1>3 DEF Next, AttachText, SkipChild, Finish, Done, vars
  <2>2. \A n \in 1..Len(stmts) : stmts[n] \in Nat
    BY <1>1
  <2> QED
    BY <1>1, <2>1, <2>2 DEF Ascending
<1> QED
  BY <1>2, <1>3

LEMMA InfoFacts ==
  ASSUME Types
  PROVE  \A n \in 1..Len(texts) :
           /\ texts[n].at \in Nat /\ texts[n].from \in Nat
           /\ texts[n].position \in {"before", "after", "inside"}
<1>1. \A n \in 1..Len(texts) : texts[n] \in Info
  BY DEF Types
<1> QED
  BY <1>1 DEF Info

\* A text attached in its place, after all the others.
LEMMA AddPlaced ==
  ASSUME IInv, doc' = doc, pos' = pos + 1,
         NEW at \in Nat, NEW position \in {"before", "after", "inside"}, NEW from \in Nat,
         Attach(at, position, from),
         Placed([at |-> at, position |-> position, from |-> from], Statements, Texts),
         from <= pos,
         \A n \in 1..Len(texts) : texts[n].from < from
  PROVE  AllPlaced'
<1> DEFINE new == [at |-> at, position |-> position, from |-> from]
<1>1. /\ Len(texts') = Len(texts) + 1 /\ Len(texts) \in Nat
      /\ \A n \in 1..Len(texts) : texts'[n] = texts[n]
      /\ texts'[Len(texts) + 1] = new
  BY Attaches DEF IInv
<1>2. Statements' = Statements /\ Texts' = Texts
  BY SameDoc
<1>3. pos \in Nat /\ new.from = from
  BY DocFacts DEF IInv, Types
<1>4. \A n \in 1..Len(texts) : texts[n].from \in Nat
  BY InfoFacts DEF IInv
<1>5. \A n \in 1..Len(texts') : n \in 1..Len(texts) \/ n = Len(texts) + 1
  BY <1>1
<1> HIDE DEF new
<1>6. AllPlaced
  BY DEF IInv
<1>7. ASSUME NEW n \in 1..Len(texts')
      PROVE  Placed(texts'[n], Statements', Texts') /\ texts'[n].from < pos'
  <2>1. CASE n \in 1..Len(texts)
    <3>1. Placed(texts[n], Statements, Texts) /\ texts[n].from < pos
      BY <1>6, <2>1 DEF AllPlaced
    <3> QED
      BY <1>1, <1>2, <1>3, <1>4, <2>1, <3>1
  <2>2. CASE n = Len(texts) + 1
    <3>1. Placed(new, Statements, Texts)
      BY DEF new
    <3> QED
      BY <1>1, <1>2, <1>3, <2>2, <3>1
  <2> QED
    BY <1>5, <1>7, <2>1, <2>2
<1>8. ASSUME NEW m \in 1..Len(texts'), NEW n \in 1..Len(texts'), m < n
      PROVE  texts'[m].from < texts'[n].from
  <2>1. m \in 1..Len(texts)
    BY <1>1, <1>8
  <2>2. CASE n \in 1..Len(texts)
    BY <1>1, <1>6, <1>8, <2>1, <2>2 DEF AllPlaced
  <2>3. CASE n = Len(texts) + 1
    BY <1>1, <1>3, <2>1, <2>3
  <2> QED
    BY <1>5, <2>2, <2>3
<1> QED
  BY <1>7, <1>8 DEF AllPlaced

LEMMA AllPlacedStep ==
  ASSUME IInv, Next
  PROVE  AllPlaced'
<1>1. /\ pos \in Nat \ {0} /\ prev \in Nat /\ remain \in Nat /\ Types /\ Locals /\ AllPlaced
      /\ Statements \subseteq Nat /\ Texts \subseteq Nat /\ doc' = doc
  BY DocFacts, Unchanging DEF IInv, Types
<1>2. Statements' = Statements /\ Texts' = Texts
  BY <1>1, SameDoc
<1>3. \A n \in 1..Len(texts) : texts[n].from \in Nat
  BY <1>1, InfoFacts
<1>4. ASSUME texts' = texts, pos' = pos \/ pos' = pos + 1
      PROVE  AllPlaced'
  BY <1>1, <1>2, <1>3, <1>4 DEF AllPlaced
<1>5. CASE AppendStatement
  <2>1. pos \in Statements /\ pos' = pos + 1 /\ ~Finished
    BY <1>1, <1>5, ReadsStatement
  <2>2. CASE remain # 0
    <3>1. Attach(pos, "before", remain)
      BY <1>5, <2>2 DEF AppendStatement
    <3>2. prev = 0 /\ remain \in Texts /\ remain < pos
      BY <1>1, <2>2 DEF Locals
    <3>3. /\ \A s \in Statements : pos <= s
          /\ \A t \in Texts : t < pos => t <= remain
          /\ texts = << >>
      BY <1>1, <2>1, <3>2 DEF Locals
    <3>4. pos \notin Texts
      BY <1>1, <1>5, ReadsStatement
    <3>5. Last(remain, Statements, Texts)
      BY <1>1, <2>1, <3>3, <3>4 DEF Last
    <3> DEFINE new == [at |-> pos, position |-> "before", from |-> remain]
    <3>6. new.at = pos /\ new.position = "before" /\ new.from = remain
      OBVIOUS
    <3> HIDE DEF new
    <3>7. Placed(new, Statements, Texts)
      BY <2>1, <3>2, <3>3, <3>5, <3>6 DEF Placed
    <3>8. \A n \in 1..Len(texts) : texts[n].from < remain
      BY <3>3
    <3>9. Placed([at |-> pos, position |-> "before", from |-> remain], Statements, Texts)
      BY <3>7 DEF new
    <3> QED
      BY <1>1, <2>1, <3>1, <3>2, <3>8, <3>9, AddPlaced
  <2>3. CASE remain = 0
    BY <1>4, <1>5, <2>1, <2>3 DEF AppendStatement
  <2> QED
    BY <2>2, <2>3
<1>6. CASE AttachText
  <2>1. pos \in Texts /\ pos' = pos + 1 /\ pos \notin Statements
    BY <1>1, <1>6, ReadsText
  <2>2. CASE prev # 0
    <3>1. Attach(prev, "after", pos)
      BY <1>6, <2>2 DEF AttachText
    <3>2. prev \in Statements /\ prev < pos /\ \A s \in Statements : s < pos => s <= prev
      BY <1>1, <2>2 DEF Locals
    <3> DEFINE new == [at |-> prev, position |-> "after", from |-> pos]
    <3>3. new.at = prev /\ new.position = "after" /\ new.from = pos
      OBVIOUS
    <3> HIDE DEF new
    <3>4. \A s \in Statements : s <= prev \/ pos < s
      BY <1>1, <2>1, <3>2
    <3>5. Placed(new, Statements, Texts)
      BY <2>1, <3>2, <3>3, <3>4 DEF Placed
    <3>6. \A n \in 1..Len(texts) : texts[n].from < pos
      BY <1>1 DEF AllPlaced
    <3>7. Placed([at |-> prev, position |-> "after", from |-> pos], Statements, Texts)
      BY <3>5 DEF new
    <3> QED
      BY <1>1, <2>1, <3>1, <3>6, <3>7, AddPlaced
  <2>3. CASE prev = 0
    BY <1>4, <1>6, <2>1, <2>3 DEF AttachText
  <2> QED
    BY <2>2, <2>3
<1>7. CASE SkipChild
  BY <1>4, <1>7 DEF SkipChild
<1>8. CASE Finish
  <2>1. pos' = pos + 1 /\ ~Finished /\ \A k \in Statements \cup Texts : k < pos
    BY <1>1, <1>8, ReadsAll
  <2>2. CASE remain # 0
    <3>1. Attach(0, "inside", remain)
      BY <1>8, <2>2 DEF Finish
    <3>2. prev = 0 /\ remain \in Texts /\ remain < pos
      BY <1>1, <2>2 DEF Locals
    <3>3. /\ \A s \in Statements : pos <= s
          /\ \A t \in Texts : t < pos => t <= remain
          /\ texts = << >>
      BY <1>1, <2>1, <3>2 DEF Locals
    <3>4. Statements = {} /\ Last(remain, Statements, Texts)
      BY <1>1, <2>1, <3>3 DEF Last
    <3> DEFINE new == [at |-> 0, position |-> "inside", from |-> remain]
    <3>5. new.at = 0 /\ new.position = "inside" /\ new.from = remain
      OBVIOUS
    <3> HIDE DEF new
    <3>6. Placed(new, Statements, Texts)
      BY <3>2, <3>4, <3>5 DEF Placed
    <3>7. \A n \in 1..Len(texts) : texts[n].from < remain
      BY <3>3
    <3>8. Placed([at |-> 0, position |-> "inside", from |-> remain], Statements, Texts)
      BY <3>6 DEF new
    <3>9. 0 \in Nat /\ remain <= pos
      BY <1>1, <3>2
    <3> QED
      BY <1>1, <2>1, <3>1, <3>7, <3>8, <3>9, AddPlaced
  <2>3. CASE remain = 0
    BY <1>4, <1>8, <2>1, <2>3 DEF Finish
  <2> QED
    BY <2>2, <2>3
<1>9. CASE Done
  BY <1>4, <1>9 DEF Done, vars
<1> QED
  BY <1>5, <1>6, <1>7, <1>8, <1>9 DEF Next

\* What is attached stays attached.
LEMMA StaysAttached ==
  ASSUME Types, NEW at \in Nat, NEW position \in {"before", "after", "inside"}, NEW from \in Nat,
         Attach(at, position, from)
  PROVE  /\ Attached(from, texts')
         /\ \A k : Attached(k, texts) => Attached(k, texts')
<1> DEFINE new == [at |-> at, position |-> position, from |-> from]
<1>1. /\ Len(texts') = Len(texts) + 1 /\ Len(texts) \in Nat
      /\ \A n \in 1..Len(texts) : texts'[n] = texts[n]
      /\ texts'[Len(texts) + 1] = new
  BY Attaches
<1>2. new.from = from
  OBVIOUS
<1> HIDE DEF new
<1> QED
  BY <1>1, <1>2 DEF Attached

LEMMA CoveredStep ==
  ASSUME IInv, Next
  PROVE  Covered'
<1>1. /\ pos \in Nat \ {0} /\ prev \in Nat /\ remain \in Nat /\ Types /\ Locals /\ Covered
      /\ Statements \subseteq Nat /\ Texts \subseteq Nat /\ doc' = doc /\ Len(doc) \in Nat
  BY DocFacts, Unchanging DEF IInv, Types
<1>2. Statements' = Statements /\ Texts' = Texts
  BY <1>1, SameDoc
<1>3. SUFFICES ASSUME NEW k \in Texts
               PROVE  /\ k < pos' /\ (\E s \in Statements : s < k) => Attached(k, texts')
                      /\ /\ prev' # 0 \/ Finished'
                         /\ \A s \in Statements : k < s
                         /\ Last(k, Statements, Texts)
                         => Attached(k, texts')
  BY <1>2 DEF Covered
<1>4. /\ k < pos /\ (\E s \in Statements : s < k) => Attached(k, texts)
      /\ (prev # 0 \/ Finished) /\ (\A s \in Statements : k < s) /\ Last(k, Statements, Texts) =>
           Attached(k, texts)
  BY <1>1 DEF Covered
<1>5. k \in Nat
  BY <1>1
\* If no statement was read and k is the last text before the first one, it
\* waits.
<1>6. ASSUME prev = 0, k < pos, \A s \in Statements : k < s, Last(k, Statements, Texts)
      PROVE  remain # 0 /\ remain = k
  <2>1. remain # 0 /\ k <= remain
    BY <1>1, <1>6 DEF Locals
  <2>2. remain \in Texts /\ remain < pos /\ \A s \in Statements : pos <= s
    BY <1>1, <1>6, <2>1 DEF Locals
  <2>3. remain <= k
    BY <1>1, <1>6, <2>2 DEF Last
  <2> QED
    BY <1>1, <1>5, <2>1, <2>3
<1>7. CASE AppendStatement
  <2>1. pos \in Statements /\ pos \notin Texts /\ pos' = pos + 1 /\ ~Finished
    BY <1>1, <1>7, ReadsStatement
  <2>2. Attached(k, texts) => Attached(k, texts')
    <3>1. texts' = texts \/ Attach(pos, "before", remain)
      BY <1>7 DEF AppendStatement
    <3> QED
      BY <1>1, <3>1, StaysAttached
  <2>3. k < pos' => k < pos
    BY <1>1, <1>5, <2>1
  <2>4. ASSUME \A s \in Statements : k < s, Last(k, Statements, Texts)
        PROVE  Attached(k, texts')
    <3>1. CASE prev # 0
      BY <1>4, <2>2, <2>4, <3>1
    <3>2. CASE prev = 0
      <4>1. remain # 0 /\ remain = k
        BY <1>6, <2>1, <2>4, <3>2
      <4>2. Attach(pos, "before", remain)
        BY <1>7, <4>1 DEF AppendStatement
      <4>3. Attached(remain, texts')
        BY <1>1, <4>2, StaysAttached
      <4> QED
        BY <4>1, <4>3
    <3> QED
      BY <3>1, <3>2
  <2> QED
    BY <1>4, <2>2, <2>3, <2>4
<1>8. CASE AttachText
  <2>1. pos \in Texts /\ pos' = pos + 1 /\ ~Finished
    BY <1>1, <1>8, ReadsText
  <2>2. ~Finished'
    BY <1>1, <2>1, DocFacts DEF Finished, Types
  <2>3. prev' = prev /\ (texts' = texts \/ Attach(prev, "after", pos))
    BY <1>8 DEF AttachText
  <2>4. Attached(k, texts) => Attached(k, texts')
    BY <1>1, <2>3, StaysAttached
  <2>5. ASSUME k < pos', NEW s \in Statements, s < k
        PROVE  Attached(k, texts')
    <3>1. CASE k < pos
      BY <1>4, <2>4, <2>5, <3>1
    <3>2. CASE k = pos
      <4>1. prev # 0
        BY <1>1, <2>5, <3>2 DEF Locals
      <4>2. Attach(prev, "after", pos)
        BY <1>8, <4>1 DEF AttachText
      <4>3. Attached(pos, texts')
        BY <1>1, <4>2, StaysAttached
      <4> QED
        BY <3>2, <4>3
    <3> QED
      BY <1>1, <1>5, <2>1, <2>5, <3>1, <3>2
  <2> QED
    BY <1>4, <2>2, <2>3, <2>4, <2>5
<1>9. CASE SkipChild
  <2>1. pos \notin Texts /\ pos' = pos + 1
    BY <1>1, <1>9, ReadsOther
  <2>2. ~Finished' /\ texts' = texts /\ prev' = prev
    BY <1>1, <1>9, <2>1 DEF Finished, SkipChild
  <2>3. k < pos' => k < pos
    BY <1>1, <1>5, <2>1
  <2> QED
    BY <1>4, <2>2, <2>3
<1>10. CASE Finish
  <2>1. \A j \in Statements \cup Texts : j < pos
    BY <1>1, <1>10, ReadsAll
  <2>2. prev' = prev /\ (texts' = texts \/ Attach(0, "inside", remain))
    BY <1>10 DEF Finish
  <2>3. Attached(k, texts) => Attached(k, texts')
    BY <1>1, <2>2, StaysAttached
  <2>4. ASSUME \A s \in Statements : k < s, Last(k, Statements, Texts)
        PROVE  Attached(k, texts')
    <3>1. CASE prev # 0
      BY <1>4, <2>3, <2>4, <3>1
    <3>2. CASE prev = 0
      <4>1. remain # 0 /\ remain = k
        BY <1>6, <2>1, <2>4, <3>2
      <4>2. Attach(0, "inside", remain)
        BY <1>10, <4>1 DEF Finish
      <4>3. Attached(remain, texts')
        BY <1>1, <4>2, StaysAttached
      <4> QED
        BY <4>1, <4>3
    <3> QED
      BY <3>1, <3>2
  <2> QED
    BY <1>4, <2>1, <2>3, <2>4
<1>11. CASE Done
  BY <1>1, <1>4, <1>11 DEF Done, vars, Finished
<1> QED
  BY <1>7, <1>8, <1>9, <1>10, <1>11 DEF Next

-----------------------------------------------------------------------------
(* The invariant, and what follows from it.                                *)

LEMMA InitIInv == Init => IInv
<1> SUFFICES ASSUME Init PROVE IInv
  OBVIOUS
<1>1. doc \in Docs /\ pos = 1 /\ prev = 0 /\ remain = 0 /\ stmts = << >> /\ texts = << >>
  BY DEF Init
<1>2. Len(doc) \in Nat /\ \A k \in Statements \cup Texts : k \in Nat /\ 1 <= k /\ k <= Len(doc)
  BY <1>1, DocFacts
<1>3. Types
  BY <1>1, <1>2 DEF Types
<1>4. Locals /\ Covered
  BY <1>1, <1>2 DEF Locals, Covered, Finished
<1>5. Ascending /\ AllPlaced
  BY <1>1 DEF Ascending, AllPlaced
<1> QED
  BY <1>3, <1>4, <1>5 DEF IInv

LEMMA Stutter == IInv /\ UNCHANGED vars => IInv'
<1> SUFFICES ASSUME IInv, UNCHANGED vars PROVE IInv'
  OBVIOUS
<1>1. Statements' = Statements /\ Texts' = Texts
  BY SameDoc DEF vars
<1>2. (Types /\ Ascending)'
  BY DEF IInv, Types, Ascending, vars
<1>3. (Locals /\ AllPlaced /\ Covered)'
  BY <1>1 DEF IInv, Locals, AllPlaced, Covered, Finished, vars
<1> QED
  BY <1>2, <1>3 DEF IInv

LEMMA Always == Spec => []IInv
<1>1. IInv /\ [Next]_vars => IInv'
  BY TypesStep, LocalsStep, AscendingStep, AllPlacedStep, CoveredStep, Stutter DEF IInv
<1> QED
  BY <1>1, InitIInv, PTL DEF Spec

\* A text after a statement is attached after the nearest statement before it,
\* in a block of any length with any number of texts between the statements.
THEOREM TextBetweenStatements == Spec => []BetweenStatements
<1>1. IInv => BetweenStatements
  <2> SUFFICES ASSUME IInv, Finished, NEW k \in Texts, NEW s \in Statements, s < k,
                      \A t \in Statements : t < k => t <= s
               PROVE  Homes(k) = {<<s, "after">>}
    BY DEF BetweenStatements
  <2>1. /\ Statements \subseteq Nat /\ Texts \subseteq Nat /\ Len(doc) \in Nat
        /\ k <= Len(doc) /\ pos \in Nat
    BY DocFacts DEF IInv, Types
  <2>2. Attached(k, texts)
    BY <2>1 DEF IInv, Covered, Finished
  <2>3. ASSUME NEW n \in 1..Len(texts), texts[n].from = k
        PROVE  texts[n].at = s /\ texts[n].position = "after"
    <3>1. Placed(texts[n], Statements, Texts)
      BY DEF IInv, AllPlaced
    <3>2. texts[n].position \in {"before", "after", "inside"} /\ texts[n].at \in Nat
      BY InfoFacts DEF IInv
    <3> QED
      BY <2>1, <2>3, <3>1, <3>2 DEF Placed
  <2> QED
    BY <2>2, <2>3 DEF Homes, Attached
<1> QED
  BY <1>1, Always, PTL

\* Of the texts before the first statement the last is attached before it, or
\* inside a block that has no statement.
THEOREM TextBeforeStatements == Spec => []LeadingText
<1>1. IInv => LeadingText
  <2> DEFINE First == CHOOSE s \in Statements : \A t \in Statements : s <= t
             Home == IF Statements = {} THEN <<0, "inside">> ELSE <<First, "before">>
  <2> SUFFICES ASSUME IInv, Finished, NEW k \in Texts, \A s \in Statements : k < s,
                      Last(k, Statements, Texts)
               PROVE  Homes(k) = {Home}
    BY DEF LeadingText, Last
  <2>1. Statements \subseteq Nat /\ Texts \subseteq Nat
    BY DocFacts DEF IInv, Types
  <2>2. Attached(k, texts)
    BY DEF IInv, Covered
  <2>3. ASSUME NEW n \in 1..Len(texts), texts[n].from = k
        PROVE  <<texts[n].at, texts[n].position>> = Home
    <3>1. Placed(texts[n], Statements, Texts)
      BY DEF IInv, AllPlaced
    <3>2. texts[n].position \in {"before", "after", "inside"} /\ texts[n].at \in Nat
      BY InfoFacts DEF IInv
    <3>3. texts[n].position # "after"
      BY <2>1, <2>3, <3>1, <3>2 DEF Placed
    <3>4. CASE texts[n].position = "before"
      <4>1. /\ texts[n].at \in Statements /\ \A t \in Statements : texts[n].at <= t
            /\ Statements # {}
        BY <3>1, <3>4 DEF Placed
      <4>2. First \in Statements /\ \A t \in Statements : First <= t
        BY <4>1
      <4> HIDE DEF First
      <4>3. texts[n].at = First
        BY <2>1, <4>1, <4>2
      <4> QED
        BY <3>4, <4>1, <4>3
    <3>5. CASE texts[n].position = "inside"
      BY <3>1, <3>5 DEF Placed
    <3> QED
      BY <3>2, <3>3, <3>4, <3>5
  <2> HIDE DEF Home
  <2> QED
    BY <2>2, <2>3 DEF Homes, Attached
<1> QED
  BY <1>1, Always, PTL

\* Statements and texts keep the order of the document: no text is moved across
\* a statement or across another text, however long the block is.
THEOREM TextOrderKept == Spec => []OrderKept
<1>1. IInv => OrderKept
  <2> SUFFICES ASSUME IInv PROVE OrderKept
    OBVIOUS
  <2>1. \A m, n \in 1..Len(stmts) : m < n => stmts[m] < stmts[n]
    BY DEF IInv, Ascending
  <2>2. \A m, n \in 1..Len(texts) : m < n => texts[m].from < texts[n].from
    BY DEF IInv, AllPlaced
  <2>3. ASSUME NEW n \in 1..Len(texts)
        PROVE  /\ texts[n].position = "after" =>
                    texts[n].at < texts[n].from
                    /\ \A s \in Statements : s <= texts[n].at \/ texts[n].from < s
               /\ texts[n].position = "before" =>
                    \A s \in Statements : texts[n].at <= s /\ texts[n].from < s
               /\ texts[n].position = "inside" => Statements = {}
    <3>1. Placed(texts[n], Statements, Texts)
      BY DEF IInv, AllPlaced
    <3>2. texts[n].at \in Nat /\ texts[n].from \in Nat /\ Statements \subseteq Nat
      BY DocFacts, InfoFacts DEF IInv, Types
    <3> QED
      BY <3>1, <3>2 DEF Placed
  <2> QED
    BY <2>1, <2>2, <2>3 DEF OrderKept
<1> QED
  BY <1>1, Always, PTL
=============================================================================
