--------------------------- MODULE ClassDeclsProofs ---------------------------
(***************************************************************************)
(* Class declarations, for any number of names, elements and scopes: the   *)
(* definitions of a document are kept, types and forward declarations are  *)
(* linked to them, and a symbol does not lose the definition it has.       *)
(*                                                                         *)
(* The invariant says how the four structures of the reader hold together: *)
(* the scope stack is the path from the global scope (Scopes), an open     *)
(* class is the one its scope belongs to (Classes), a symbol has a         *)
(* declaration in its own scope and every declaration finds a symbol       *)
(* around it (Symbols).                                                    *)
(***************************************************************************)
EXTENDS ClassDecls, Integers, FiniteSets, FiniteSetTheorems, WellFoundedInduction,
        SequenceTheorems, TLAPS

-----------------------------------------------------------------------------
(* Induction over numbers, from the well-foundedness of finite sets.       *)

LEMMA Least ==
  ASSUME NEW T, T \subseteq Nat, T # {}
  PROVE  \E m \in T : \A k \in T : m <= k
  <1> DEFINE F == {1..m : m \in T}
  <1>1. IsWellFoundedOn(StrictSubsetOrdering(Nat), FiniteSubsetsOf(Nat))
    BY FS_StrictSubsetOrderingWellFounded
  <1>2. ASSUME NEW m \in T PROVE 1..m \in FiniteSubsetsOf(Nat)
    <2>1. m \in Int /\ 1..m \in SUBSET Nat
      OBVIOUS
    <2>2. IsFiniteSet(1..m)
      BY <2>1, FS_Interval
    <2> QED BY <2>1, <2>2 DEF FiniteSubsetsOf
  <1>3. F \subseteq FiniteSubsetsOf(Nat) /\ F # {}
    BY <1>2
  <1>4. \E x \in F : \A y \in F : ~(<<y, x>> \in StrictSubsetOrdering(Nat))
    <2> HIDE DEF F
    <2> QED BY <1>1, <1>3, WFMin
  <1>5. PICK m \in T : \A y \in F : ~(<<y, 1..m>> \in StrictSubsetOrdering(Nat))
    BY <1>4
  <1>6. ASSUME NEW k \in T, k < m PROVE FALSE
    <2>1. 1..k \subseteq 1..m /\ 1..k \in SUBSET Nat /\ 1..m \in SUBSET Nat
      BY <1>6
    <2>2. m \in 1..m /\ m \notin 1..k
      BY <1>6
    <2>3. <<1..k, 1..m>> \in StrictSubsetOrdering(Nat)
      BY <2>1, <2>2 DEF StrictSubsetOrdering
    <2> QED BY <2>3, <1>5
  <1> QED BY <1>6

\* Induction: S has every number up to n if it has the one after any that it
\* has all of.
LEMMA UpTo ==
  ASSUME NEW n \in Nat, NEW S,
         \A s \in 0..n : (\A t \in 0..n : t < s => t \in S) => s \in S
  PROVE  0..n \subseteq S
  <1> SUFFICES ASSUME (0..n) \ S # {} PROVE FALSE
    OBVIOUS
  <1> DEFINE T == (0..n) \ S
  <1>1. T \subseteq Nat
    OBVIOUS
  <1> HIDE DEF T
  <1>2. PICK m \in T : \A k \in T : m <= k
    BY <1>1, Least DEF T
  <1>3. m \in 0..n /\ m \notin S
    BY DEF T
  <1>4. \A t \in 0..n : t < m => t \in S
    BY <1>2, <1>3 DEF T
  <1> QED BY <1>3, <1>4

-----------------------------------------------------------------------------
(* The scopes around a scope.                                              *)

\* A scope is made after the one around it.
Numbered(u) == u \in Seq(Nat) /\ \A s \in 1..Len(u) : u[s] \in 0..(s - 1)

\* The recursive definition has a solution: what every set has that has s,
\* and with a scope the one around it.
LEMMA AroundEquation ==
  ASSUME NEW u, Numbered(u)
  PROVE  /\ ScopesAround(u)[0] = {}
         /\ \A s \in 1..Len(u) : ScopesAround(u)[s] = {s} \cup ScopesAround(u)[u[s]]
  <1> DEFINE n == Len(u)
             Solves(f) == f = [s \in 0..n |-> IF s = 0 THEN {} ELSE {s} \cup f[u[s]]]
             Up(Q) == \A q \in Q : q # 0 => u[q] \in Q
             A(s) == {t \in 1..n : \A Q \in SUBSET (0..n) : s \in Q /\ Up(Q) => t \in Q}
             F == [s \in 0..n |-> A(s)]
  <1>1. n \in Nat /\ \A s \in 1..n : u[s] \in 0..n /\ u[s] < s
    BY DEF Numbered
  <1>2. A(0) = {}
    <2>1. {0} \in SUBSET (0..n) /\ 0 \in {0} /\ Up({0})
      BY <1>1
    <2>2. ASSUME NEW t \in A(0) PROVE FALSE
      <3> HIDE DEF Up
      <3>1. t \in 1..n /\ t \in {0}
        BY <2>1
      <3> QED BY <1>1, <3>1
    <2> HIDE DEF A
    <2> QED BY <2>2
  <1>3. ASSUME NEW s \in 1..n PROVE A(s) = {s} \cup A(u[s])
    <2>1. s \in A(s)
      OBVIOUS
    <2>2. ASSUME NEW t \in A(u[s]) PROVE t \in A(s)
      <3>1. ASSUME NEW Q \in SUBSET (0..n), s \in Q, Up(Q) PROVE t \in Q
        <4>1. u[s] \in Q
          BY <1>1, <3>1
        <4> QED BY <3>1, <4>1
      <3> HIDE DEF Up
      <3> QED BY <3>1
    <2>3. ASSUME NEW t \in A(s), t # s PROVE t \in A(u[s])
      <3>1. ASSUME NEW Q \in SUBSET (0..n), u[s] \in Q, Up(Q) PROVE t \in Q
        <4> DEFINE P == Q \cup {s}
        <4>1. P \in SUBSET (0..n) /\ s \in P /\ Up(P)
          BY <1>1, <3>1
        <4> HIDE DEF P, Up
        <4>2. t \in P
          BY <4>1
        <4> QED BY <2>3, <4>2 DEF P
      <3> HIDE DEF Up
      <3> QED BY <3>1
    <2> HIDE DEF A
    <2> QED BY <2>1, <2>2, <2>3
  <1> HIDE DEF A
  <1>4. Solves(F)
    <2>1. \A s \in 0..n : s # 0 => s \in 1..n /\ F[u[s]] = A(u[s])
      BY <1>1
    <2>2. \A s \in 0..n : A(s) = IF s = 0 THEN {} ELSE {s} \cup F[u[s]]
      BY <1>2, <1>3, <2>1
    <2> QED BY <2>2
  <1>5. ScopesAround(u) = CHOOSE f : Solves(f)
    BY Zenon DEF ScopesAround
  <1> HIDE DEF Solves, F
  <1>6. Solves(ScopesAround(u))
    BY <1>4, <1>5
  <1>7. PICK f : f = ScopesAround(u)
    OBVIOUS
  <1>8. \A s \in 0..n : f[s] = IF s = 0 THEN {} ELSE {s} \cup f[u[s]]
    BY <1>6, <1>7 DEF Solves
  <1>9. f[0] = {} /\ \A s \in 1..n : f[s] = {s} \cup f[u[s]]
    <2>1. 0 \in 0..n /\ \A s \in 1..n : s \in 0..n /\ s # 0
      BY <1>1
    <2> QED BY <1>8, <2>1
  <1> QED BY <1>7, <1>9

\* The scopes around s are older than s.
LEMMA AroundBelow ==
  ASSUME NEW u, Numbered(u), NEW s \in 0..Len(u)
  PROVE  /\ \A t \in ScopesAround(u)[s] : t \in 1..s /\ t \in 1..Len(u)
         /\ s # 0 => s \in ScopesAround(u)[s]
  <1> DEFINE S == {r \in 0..Len(u) : \A t \in ScopesAround(u)[r] : t \in 1..r}
  <1>1. Len(u) \in Nat
    BY DEF Numbered
  <1>2. ASSUME NEW r \in 0..Len(u), \A q \in 0..Len(u) : q < r => q \in S
        PROVE  r \in S
    <2>1. CASE r = 0
      BY <2>1, AroundEquation
    <2>2. CASE r # 0
      <3>1. r \in 1..Len(u) /\ u[r] \in 0..Len(u) /\ u[r] < r
        BY <1>1, <2>2 DEF Numbered
      <3>2. ScopesAround(u)[r] = {r} \cup ScopesAround(u)[u[r]]
        BY <3>1, AroundEquation
      <3>3. \A t \in ScopesAround(u)[u[r]] : t \in 1..u[r]
        BY <1>2, <3>1
      <3> QED BY <3>1, <3>2, <3>3
    <2> QED BY <2>1, <2>2
  <1> HIDE DEF S
  <1>3. s \in S
    BY <1>1, <1>2, UpTo
  <1>4. s # 0 => s \in 1..Len(u)
    BY <1>1
  <1> QED BY <1>1, <1>3, <1>4, AroundEquation DEF S

\* What is around a scope that is around s is around s; of two scopes around
\* s one is around the other.
LEMMA AroundPath ==
  ASSUME NEW u, Numbered(u), NEW s \in 0..Len(u), NEW t \in ScopesAround(u)[s]
  PROVE  /\ ScopesAround(u)[t] \subseteq ScopesAround(u)[s]
         /\ \A r \in ScopesAround(u)[s] : r \in ScopesAround(u)[t] \/ t \in ScopesAround(u)[r]
  <1> DEFINE A == ScopesAround(u)
             S == {q \in 0..Len(u) : \A v \in A[q] :
                     /\ A[v] \subseteq A[q]
                     /\ \A r \in A[q] : r \in A[v] \/ v \in A[r]}
  <1>1. Len(u) \in Nat
    BY DEF Numbered
  <1>2. A[0] = {} /\ \A q \in 1..Len(u) : A[q] = {q} \cup A[u[q]]
    BY AroundEquation
  <1>3. \A q \in 1..Len(u) : u[q] \in 0..Len(u) /\ u[q] < q
    BY <1>1 DEF Numbered
  <1> HIDE DEF A
  <1>4. ASSUME NEW q \in 0..Len(u), \A p \in 0..Len(u) : p < q => p \in S
        PROVE  q \in S
    <2>1. CASE q = 0
      BY <1>2, <2>1
    <2>2. CASE q # 0
      <3>1. q \in 1..Len(u) /\ u[q] \in S /\ A[q] = {q} \cup A[u[q]]
        BY <1>2, <1>3, <1>4, <2>2
      <3>2. ASSUME NEW v \in A[q] PROVE A[v] \subseteq A[q]
        BY <3>1
      <3>3. ASSUME NEW v \in A[q], NEW r \in A[q] PROVE r \in A[v] \/ v \in A[r]
        BY <3>1
      <3> QED BY <3>2, <3>3
    <2> QED BY <2>1, <2>2
  <1> HIDE DEF S
  <1>5. s \in S
    BY <1>1, <1>4, UpTo
  <1> QED BY <1>5 DEF S, A

\* New scopes leave what is around the old ones.
LEMMA AroundStays ==
  ASSUME NEW u, Numbered(u), NEW v, Numbered(v), Len(u) <= Len(v),
         \A s \in 1..Len(u) : v[s] = u[s]
  PROVE  \A s \in 0..Len(u) : ScopesAround(v)[s] = ScopesAround(u)[s]
  <1> DEFINE A == ScopesAround(u)
             B == ScopesAround(v)
             S == {s \in 0..Len(u) : B[s] = A[s]}
  <1>1. Len(u) \in Nat /\ \A s \in 1..Len(u) : u[s] \in 0..Len(u) /\ u[s] < s
    BY SMTT(30) DEF Numbered
  <1>2. A[0] = {} /\ \A s \in 1..Len(u) : A[s] = {s} \cup A[u[s]]
    BY AroundEquation
  <1>3. B[0] = {} /\ \A s \in 1..Len(u) : B[s] = {s} \cup B[u[s]]
    <2>1. Len(v) \in Nat /\ \A s \in 1..Len(u) : s \in 1..Len(v)
      BY <1>1 DEF Numbered
    <2> QED BY <2>1, AroundEquation
  <1> HIDE DEF A, B
  <1>4. ASSUME NEW s \in 0..Len(u), \A t \in 0..Len(u) : t < s => t \in S
        PROVE  s \in S
    <2>1. CASE s = 0
      BY <1>2, <1>3, <2>1
    <2>2. CASE s # 0
      <3>1. s \in 1..Len(u) /\ u[s] \in S
        BY <1>1, <1>4, <2>2
      <3>2. B[u[s]] = A[u[s]]
        BY <3>1
      <3>3. A[s] = {s} \cup A[u[s]] /\ B[s] = {s} \cup B[u[s]]
        BY <1>2, <1>3, <3>1
      <3> QED BY <3>2, <3>3
    <2> QED BY <2>1, <2>2
  <1>5. 0..Len(u) \subseteq S
    <2> HIDE DEF S
    <2> QED BY <1>1, <1>4, UpTo
  <1> QED BY <1>5 DEF A, B

-----------------------------------------------------------------------------
(* The scope stack.                                                        *)

Types ==
  /\ lang \in {"C", "Fortran"}
  /\ up \in Seq(0..MaxScopes)
  /\ symbols \in Seq(Symbol)
  /\ decls \in Seq(Decl)
  /\ stack \in Seq([scope: 1..MaxScopes, decl: 0..MaxDecls])

\* The stack is a path of scopes, each made after the one around it.
Scopes ==
  /\ Len(up) \in 1..MaxScopes
  /\ \A s \in 1..Len(up) : up[s] \in 0..(s - 1)
  /\ Len(stack) > 0 /\ stack[1].scope = 1 /\ stack[1].decl = 0
  /\ \A k \in 1..Len(stack) : stack[k].scope \in 1..Len(up)
  /\ \A k \in 2..Len(stack) : up[stack[k].scope] = stack[k - 1].scope

\* The types of what the variables have.
LEMMA Parts ==
  ASSUME Types, Scopes
  PROVE  /\ MaxDecls \in Nat /\ MaxScopes \in Nat \ {0}
         /\ Numbered(up) /\ Len(up) \in Nat \ {0} /\ Len(up) <= MaxScopes
         /\ Len(stack) \in Nat \ {0} /\ Top = stack[Len(stack)] /\ Len(stack) \in 1..Len(stack)
         /\ \A k \in 1..Len(stack) : /\ stack[k].scope \in 1..MaxScopes
                                     /\ stack[k].decl \in 0..MaxDecls
         /\ Len(decls) \in Nat /\ \A d \in 1..Len(decls) : decls[d] \in Decl
         /\ Len(symbols) \in Nat /\ \A k \in 1..Len(symbols) : symbols[k] \in Symbol
         /\ Top.scope \in 1..Len(up)
  <1>1. MaxDecls \in Nat /\ MaxScopes \in Nat \ {0}
    BY ClassAssumption
  <1>2. Len(up) \in Nat \ {0} /\ Len(up) <= MaxScopes
    BY <1>1 DEF Scopes
  <1>3. Numbered(up)
    <2>1. up \in Seq(Nat)
      BY <1>1 DEF Types
    <2> QED BY <2>1 DEF Scopes, Numbered
  <1>4. Len(stack) \in Nat \ {0} /\ Top = stack[Len(stack)] /\ Len(stack) \in 1..Len(stack)
    BY DEF Types, Scopes, Top
  <1>5. ASSUME NEW k \in 1..Len(stack)
        PROVE  stack[k].scope \in 1..MaxScopes /\ stack[k].decl \in 0..MaxDecls
    <2>1. stack[k] \in [scope: 1..MaxScopes, decl: 0..MaxDecls]
      BY ElementOfSeq DEF Types
    <2> QED BY <2>1
  <1>6. Len(decls) \in Nat /\ \A d \in 1..Len(decls) : decls[d] \in Decl
    BY DEF Types
  <1>7. Len(symbols) \in Nat /\ \A k \in 1..Len(symbols) : symbols[k] \in Symbol
    BY DEF Types
  <1>8. Top.scope \in 1..Len(up)
    BY <1>4 DEF Scopes
  <1> QED BY <1>1, <1>2, <1>3, <1>4, <1>5, <1>6, <1>7, <1>8

\* What is open below a place of the stack is what is around its scope.
LEMMA OpenBelow ==
  ASSUME Types, Scopes, NEW k \in 1..Len(stack)
  PROVE  \A s : s \in Around(stack[k].scope) <=> \E j \in 1..k : stack[j].scope = s
  <1> DEFINE S == {i \in 0..Len(stack) : i # 0 =>
                     \A s : s \in Around(stack[i].scope) <=> \E j \in 1..i : stack[j].scope = s}
  <1>1. Numbered(up) /\ Len(stack) \in Nat /\ Len(up) \in Nat
    BY Parts
  <1>2. ASSUME NEW i \in 0..Len(stack), \A j \in 0..Len(stack) : j < i => j \in S
        PROVE  i \in S
    <2>1. CASE i = 0
      BY <2>1
    <2>2. CASE i = 1
      <3>1. stack[1].scope = 1 /\ 1 \in 1..Len(up) /\ up[1] = 0
        BY DEF Scopes
      <3>2. Around(1) = {1}
        BY <1>1, <3>1, AroundEquation DEF Around
      <3>3. \A j : j \in 1..1 <=> j = 1
        OBVIOUS
      <3> QED BY <2>2, <3>1, <3>2, <3>3
    <2>3. CASE i > 1
      <3>1. i \in 2..Len(stack) /\ i \in 1..Len(stack) /\ i - 1 \in 0..Len(stack) /\ i - 1 < i /\ i - 1 # 0
        BY <1>1, <2>3
      <3>2. up[stack[i].scope] = stack[i - 1].scope /\ stack[i].scope \in 1..Len(up)
        BY <3>1 DEF Scopes
      <3>3. Around(stack[i].scope) = {stack[i].scope} \cup Around(stack[i - 1].scope)
        BY <1>1, <3>2, AroundEquation DEF Around
      <3>4. \A s : s \in Around(stack[i - 1].scope) <=> \E j \in 1..(i - 1) : stack[j].scope = s
        BY <1>2, <3>1
      <3>5. \A j : j \in 1..i <=> j = i \/ j \in 1..(i - 1)
        BY <2>3
      <3> QED BY <3>3, <3>4, <3>5
    <2> QED BY <2>1, <2>2, <2>3
  <1> HIDE DEF S
  <1>3. k \in S /\ k # 0
    <2>1. 0..Len(stack) \subseteq S
      BY <1>1, <1>2, UpTo
    <2> QED BY <1>1, <2>1
  <1> QED BY <1>3 DEF S

\* The scopes on the stack are different ones.
LEMMA StackGrows ==
  ASSUME Types, Scopes, NEW j \in 1..Len(stack), NEW k \in 1..Len(stack), j < k
  PROVE  stack[j].scope < stack[k].scope
  <1>1. Numbered(up) /\ Len(stack) \in Nat /\ Len(up) \in Nat
    BY Parts
  <1>2. k - 1 \in 1..Len(stack) /\ j \in 1..(k - 1) /\ k \in 2..Len(stack)
    BY <1>1
  <1>3. stack[j].scope \in Around(stack[k - 1].scope)
    BY <1>2, OpenBelow
  <1>4. stack[k - 1].scope \in 0..Len(up) /\ stack[k].scope \in 1..Len(up)
           /\ stack[k - 1].scope = up[stack[k].scope]
    BY <1>2 DEF Scopes
  <1>5. stack[j].scope \in 1..stack[k - 1].scope
    BY <1>1, <1>3, <1>4, AroundBelow DEF Around
  <1>6. up[stack[k].scope] < stack[k].scope
    BY <1>4 DEF Scopes
  <1> QED BY <1>4, <1>5, <1>6

\* What is open is what is around the innermost scope; without it, what is
\* around the one below it.
LEMMA OpenIs ==
  ASSUME Types, Scopes
  PROVE  /\ Open = Around(Top.scope)
         /\ Len(stack) > 1 => Open \ {Top.scope} = Around(stack[Len(stack) - 1].scope)
  <1>1. Len(stack) \in Nat \ {0} /\ Top = stack[Len(stack)] /\ Len(stack) \in 1..Len(stack)
    BY Parts
  <1>2. Open = Around(Top.scope)
    <2>1. \A s : s \in Around(Top.scope) <=> \E j \in 1..Len(stack) : stack[j].scope = s
      BY <1>1, OpenBelow
    <2> QED BY <2>1 DEF Open
  <1>3. ASSUME Len(stack) > 1 PROVE Open \ {Top.scope} = Around(stack[Len(stack) - 1].scope)
    <2>1. PICK m : m = Len(stack) - 1
      OBVIOUS
    <2>2. m \in 1..Len(stack) /\ \A j : j \in 1..Len(stack) <=> j = Len(stack) \/ j \in 1..m
      BY <1>1, <1>3, <2>1
    <2>3. \A s : s \in Around(stack[m].scope) <=> \E j \in 1..m : stack[j].scope = s
      BY <2>2, OpenBelow
    <2>4. ASSUME NEW j \in 1..m PROVE stack[j].scope # Top.scope
      <3>1. j \in 1..Len(stack) /\ j < Len(stack)
        BY <1>1, <2>1
      <3>2. stack[j].scope < stack[Len(stack)].scope
        BY <1>1, <3>1, StackGrows
      <3>3. stack[j].scope \in Nat /\ stack[Len(stack)].scope \in Nat
        BY <1>1, <3>1, Parts
      <3> QED BY <1>1, <3>2, <3>3
    <2>5. \A s : s \in Open <=> s = Top.scope \/ \E j \in 1..m : stack[j].scope = s
      BY <1>1, <2>2 DEF Open
    <2> QED BY <2>1, <2>3, <2>4, <2>5
  <1> QED BY <1>2, <1>3

\* SageBuilder::pushScopeStack.
LEMMA PushFacts ==
  ASSUME Types, Scopes, NEW d \in 0..MaxDecls, Push(d)
  PROVE  /\ up' \in Seq(0..MaxScopes) /\ Len(up') = Len(up) + 1 /\ Len(up') <= MaxScopes
         /\ \A s \in 1..Len(up) : up'[s] = up[s]
         /\ stack' \in Seq([scope: 1..MaxScopes, decl: 0..MaxDecls])
         /\ Len(stack') = Len(stack) + 1
         /\ \A k \in 1..Len(stack) : stack'[k] = stack[k]
         /\ stack'[Len(stack) + 1].scope = Len(up) + 1
         /\ stack'[Len(stack) + 1].decl = d
         /\ Scopes'
  <1> DEFINE e == [scope |-> Len(up) + 1, decl |-> d]
  <1>1. /\ Len(up) \in Nat \ {0} /\ Len(stack) \in Nat \ {0} /\ Top = stack[Len(stack)]
        /\ MaxScopes \in Nat /\ Top.scope \in 1..Len(up) /\ Len(stack) \in 1..Len(stack)
        /\ up \in Seq(0..MaxScopes) /\ stack \in Seq([scope: 1..MaxScopes, decl: 0..MaxDecls])
    BY Parts DEF Types
  <1>2. Len(up) < MaxScopes /\ up' = Append(up, Top.scope) /\ stack' = Append(stack, e)
    BY DEF Push
  <1>3. Top.scope \in 0..MaxScopes
    BY SMTT(30), <1>1, <1>2
  <1>4. e \in [scope: 1..MaxScopes, decl: 0..MaxDecls] /\ e.scope = Len(up) + 1 /\ e.decl = d
    BY <1>1, <1>2
  <1> HIDE DEF e
  <1>5. /\ up' \in Seq(0..MaxScopes) /\ Len(up') = Len(up) + 1
        /\ \A s \in 1..Len(up) : up'[s] = up[s]
        /\ up'[Len(up) + 1] = Top.scope
    BY <1>1, <1>2, <1>3, AppendProperties
  <1>6. /\ stack' \in Seq([scope: 1..MaxScopes, decl: 0..MaxDecls])
        /\ Len(stack') = Len(stack) + 1
        /\ \A k \in 1..Len(stack) : stack'[k] = stack[k]
        /\ stack'[Len(stack) + 1] = e
    BY <1>1, <1>2, <1>4, AppendProperties
  <1>7. Len(up') \in 1..MaxScopes
    BY <1>1, <1>2, <1>5
  <1>8. \A s \in 1..Len(up') : up'[s] \in 0..(s - 1)
    <2> TAKE s \in 1..Len(up')
    <2>1. CASE s = Len(up) + 1
      BY SMTT(30), <1>1, <1>5, <2>1
    <2>2. CASE s \in 1..Len(up)
      BY <1>5, <2>2 DEF Scopes
    <2> QED BY <1>1, <1>5, <2>1, <2>2
  <1>9. Len(stack') > 0 /\ stack'[1] = stack[1]
    BY <1>1, <1>6
  <1>10. \A k \in 1..Len(stack') : stack'[k].scope \in 1..Len(up')
    <2> TAKE k \in 1..Len(stack')
    <2>1. CASE k = Len(stack) + 1
      <3>1. stack'[k].scope = Len(up) + 1
        BY <1>4, <1>6, <2>1
      <3> QED BY <1>1, <1>5, <3>1
    <2>2. CASE k \in 1..Len(stack)
      <3>1. stack'[k].scope \in 1..Len(up)
        BY <1>6, <2>2 DEF Scopes
      <3>2. \A s \in 1..Len(up) : s \in 1..Len(up')
        BY <1>1, <1>5
      <3> QED BY <3>1, <3>2
    <2> QED BY <1>1, <1>6, <2>1, <2>2
  <1>11. \A k \in 2..Len(stack') : up'[stack'[k].scope] = stack'[k - 1].scope
    <2> TAKE k \in 2..Len(stack')
    <2>1. CASE k = Len(stack) + 1
      <3>1. k - 1 = Len(stack)
        BY <1>1, <2>1
      <3> QED BY <1>1, <1>4, <1>5, <1>6, <2>1, <3>1
    <2>2. CASE k \in 2..Len(stack)
      <3>1. k \in 1..Len(stack) /\ k - 1 \in 1..Len(stack)
        BY <1>1, <2>2
      <3>2. stack[k].scope \in 1..Len(up) /\ up[stack[k].scope] = stack[k - 1].scope
        BY <2>2, <3>1 DEF Scopes
      <3> QED BY <1>5, <1>6, <3>1, <3>2
    <2> QED BY <1>1, <1>6, <2>1, <2>2
  <1>12. Scopes'
    BY <1>7, <1>8, <1>9, <1>10, <1>11 DEF Scopes
  <1> QED BY <1>2, <1>4, <1>5, <1>6, <1>7, <1>12

\* SageBuilder::popScopeStack.
LEMMA PopFacts ==
  ASSUME Types, Scopes, Len(stack) > 1, stack' = Pop, up' = up
  PROVE  /\ stack' \in Seq([scope: 1..MaxScopes, decl: 0..MaxDecls])
         /\ Len(stack') = Len(stack) - 1
         /\ \A k \in 1..(Len(stack) - 1) : k \in 1..Len(stack) /\ stack'[k] = stack[k]
         /\ Scopes'
  <1> DEFINE R == [scope: 1..MaxScopes, decl: 0..MaxDecls]
             m == Len(stack) - 1
  <1>1. Len(stack) \in Nat \ {0} /\ stack \in Seq(R) /\ m \in Nat \ {0}
    BY Parts DEF Types
  <1>2. stack' = SubSeq(stack, 1, m)
    BY DEF Pop
  <1>3. \A k \in 1..m : k \in 1..Len(stack)
    BY <1>1
  <1> HIDE DEF m
  <1>4. \A k \in 1..m : stack[k] \in R
    BY <1>1, <1>3, ElementOfSeq
  <1> HIDE DEF R
  <1>5. /\ SubSeq(stack, 1, m) \in Seq(R)
        /\ Len(SubSeq(stack, 1, m)) = m
        /\ \A k \in 1..m : SubSeq(stack, 1, m)[k] = stack[k]
    <2>1. m \in Int /\ 1 <= m
      BY <1>1
    <2>2. /\ SubSeq(stack, 1, m) \in Seq(R)
          /\ Len(SubSeq(stack, 1, m)) = IF 1 <= m THEN m - 1 + 1 ELSE 0
          /\ \A k \in 1..(m - 1 + 1) : SubSeq(stack, 1, m)[k] = stack[1 + k - 1]
      BY <1>1, <1>4, <2>1, SubSeqProperties
    <2> QED BY <2>1, <2>2
  <1>6. /\ stack' \in Seq(R) /\ Len(stack') = m
        /\ \A k \in 1..m : k \in 1..Len(stack) /\ stack'[k] = stack[k]
    BY <1>2, <1>3, <1>5
  <1>7. Len(stack') > 0 /\ stack'[1] = stack[1]
    BY <1>1, <1>6
  <1>8. \A k \in 1..Len(stack') : stack'[k].scope \in 1..Len(up')
    BY <1>6 DEF Scopes
  <1>9. \A k \in 2..Len(stack') : up'[stack'[k].scope] = stack'[k - 1].scope
    <2> TAKE k \in 2..Len(stack')
    <2>1. k \in 1..m /\ k - 1 \in 1..m /\ k \in 2..Len(stack)
      BY <1>1, <1>6 DEF m
    <2> QED BY <1>6, <2>1 DEF Scopes
  <1>10. Scopes'
    BY <1>7, <1>8, <1>9 DEF Scopes
  <1> QED BY <1>6, <1>10 DEF m, R

-----------------------------------------------------------------------------
(* The invariant.                                                          *)

\* Everything refers to what is there; a Fortran class that is being read has
\* no symbol yet.
Refs ==
  /\ Len(decls) <= MaxDecls
  /\ \A d \in Elements : /\ decls[d].scope \in 1..Len(up)
                         /\ decls[d].inner \in 0..Len(up)
                         /\ decls[d].sym \in 0..Len(symbols)
  /\ \A k \in 1..Len(symbols) : symbols[k].scope \in 1..Len(up)
  /\ Len(symbols) + (IF lang = "Fortran" /\ InClass THEN 1 ELSE 0) <= Len(decls)

\* An SgClassDefinition that is open is the one of a declaration in the scope
\* below; its symbol has no definition yet.
ClassAt(k) ==
  stack[k].decl # 0 =>
    /\ k > 1 /\ stack[k].decl \in Elements
    /\ LET d == decls[stack[k].decl]
       IN /\ d.kind = "decl" /\ d.written
          /\ d.scope = stack[k - 1].scope /\ d.inner = stack[k].scope
          /\ lang = "Fortran" => k = Len(stack) /\ d.sym = 0
          /\ lang = "C" => symbols[d.sym].def = 0

Classes ==
  /\ \A k \in 1..Len(stack) : ClassAt(k)
  /\ \A d \in Elements, k \in 1..Len(stack) : decls[d].inner = stack[k].scope => stack[k].decl = d
  /\ \A j, k \in 1..Len(stack) :
       stack[j].decl # 0 /\ stack[k].decl # 0
         /\ decls[stack[j].decl].name = decls[stack[k].decl].name => j = k

\* A symbol has a declaration in its own scope, and its definition has the
\* symbol.
SymbolAt(k) ==
  /\ \E e \in Elements : /\ decls[e].kind = "decl" /\ decls[e].sym = k
                         /\ decls[e].name = symbols[k].name
                         /\ decls[e].scope = symbols[k].scope
  /\ symbols[k].def # 0 => /\ symbols[k].def \in Elements
                           /\ decls[symbols[k].def].written
                           /\ decls[symbols[k].def].sym = k

\* A symbol of the name is there, in a scope around the declaration.
Announced(d) ==
  \E k \in 1..Len(symbols) :
    symbols[k].name = decls[d].name /\ symbols[k].scope \in Around(decls[d].scope)

LinkAt(d) ==
  /\ decls[d].sym # 0 => /\ symbols[decls[d].sym].name = decls[d].name
                         /\ symbols[decls[d].sym].scope \in Around(decls[d].scope)
  /\ decls[d].kind = "decl" => /\ lang = "C" => decls[d].sym # 0
                               /\ ~Reading(d) => Announced(d)

\* No two symbols of a name in a scope, and no two Fortran classes.
Unique ==
  /\ \A j, k \in 1..Len(symbols) :
       symbols[j].name = symbols[k].name /\ symbols[j].scope = symbols[k].scope => j = k
  /\ lang = "Fortran" => \A d, e \in Elements :
       decls[d].written /\ decls[e].written /\ SameClass(d, e) => d = e

\* The properties, element by element.
KeptAt(d) ==
  decls[d].written /\ ~Reading(d) /\ ~Shadowed(d) =>
    /\ decls[d].def = d
    /\ decls[d].sym # 0 => symbols[decls[d].sym].def = d
    /\ decls[d].sym = 0 => decls[d].kind = "type"

Candidates(u) == {d \in 1..(u - 1) : /\ decls[d].kind = "decl"
                                     /\ decls[d].name = decls[u].name
                                     /\ decls[d].scope \in Around(decls[u].scope)}

UsesAt(u) ==
  decls[u].kind = "type" /\ Candidates(u) # {} /\ (\A d \in Candidates(u) : ~Shadowed(d)) =>
    /\ decls[u].sym # 0 <=> (lang = "C" \/ \E d \in Candidates(u) : ~Inside(u, d))
    /\ decls[u].sym # 0 => \A d \in Candidates(u) : symbols[decls[u].sym].scope = decls[d].scope

Before(d) == {e \in 1..(d - 1) : decls[e].written /\ SameClass(d, e) /\ decls[e].sym # 0}

ForwardAt(d) ==
  lang = "C" /\ decls[d].kind = "decl" /\ ~decls[d].written /\ ~Shadowed(d) =>
    IF Before(d) = {} THEN decls[d].def = 0 ELSE decls[d].def \in Before(d)

Inv ==
  /\ Types /\ Scopes /\ Refs /\ Classes /\ Unique
  /\ \A k \in 1..Len(symbols) : SymbolAt(k)
  /\ \A d \in Elements : LinkAt(d) /\ KeptAt(d) /\ UsesAt(d) /\ ForwardAt(d)

-----------------------------------------------------------------------------
(* What stays when the structures grow.                                    *)

Grows ==
  /\ lang' = lang /\ Len(up) <= Len(up')
  /\ \A s \in 0..Len(up) : ScopesAround(up')[s] = ScopesAround(up)[s]
  /\ Len(decls) <= Len(decls')
  /\ \A d \in Elements :
       /\ decls'[d].kind = decls[d].kind /\ decls'[d].name = decls[d].name
       /\ decls'[d].scope = decls[d].scope /\ decls'[d].written = decls[d].written
       /\ decls'[d].inner = decls[d].inner
       /\ decls[d].sym # 0 \/ decls[d].kind = "type" \/ lang = "C" => decls'[d].sym = decls[d].sym
       /\ ~decls[d].written => decls'[d].def = decls[d].def
  /\ Len(symbols) <= Len(symbols')
  /\ \A k \in 1..Len(symbols) :
       symbols'[k].name = symbols[k].name /\ symbols'[k].scope = symbols[k].scope

\* What the elements refer to is there.
LEMMA InRange ==
  ASSUME Types, Scopes, Refs, NEW d \in Elements
  PROVE  /\ d \in Nat \ {0} /\ decls[d].scope \in 0..Len(up) /\ decls[d].inner \in 0..Len(up)
         /\ decls[d].sym # 0 => decls[d].sym \in 1..Len(symbols)
         /\ decls[d].written \in BOOLEAN /\ decls[d].kind \in {"decl", "type"}
         /\ \A e \in 1..(d - 1) : e \in Elements
         /\ \A t \in Around(decls[d].scope) : t \in 1..Len(up)
  <1>1. Len(decls) \in Nat /\ Len(symbols) \in Nat /\ Len(up) \in Nat /\ Numbered(up)
    BY Parts
  <1>2. decls[d] \in Decl
    BY Parts DEF Elements
  <1>3. d \in Nat \ {0} /\ \A e \in 1..(d - 1) : e \in Elements
    BY <1>1 DEF Elements
  <1>4. decls[d].sym \in 0..Len(symbols) /\ decls[d].scope \in 0..Len(up) /\ decls[d].inner \in 0..Len(up)
    BY <1>1 DEF Refs
  <1>5. decls[d].written \in BOOLEAN /\ decls[d].kind \in {"decl", "type"}
    BY <1>2 DEF Decl
  <1>6. decls[d].sym # 0 => decls[d].sym \in 1..Len(symbols)
    BY <1>1, <1>4
  <1>7. \A t \in Around(decls[d].scope) : t \in 1..Len(up)
    BY <1>1, <1>4, AroundBelow DEF Around
  <1> QED BY <1>3, <1>4, <1>5, <1>6, <1>7

\* The elements that are there keep their places.
LEMMA SamePlaces ==
  ASSUME Types, Scopes, Refs, Grows, Len(decls') \in Nat,
         NEW d \in Elements
  PROVE  /\ d \in Elements'
         /\ Around(decls[d].scope)' = Around(decls[d].scope)
         /\ \A e \in Elements : /\ Nested(decls[d].scope, decls[e].scope)' <=> Nested(decls[d].scope, decls[e].scope)
                                /\ SameClass(d, e)' <=> SameClass(d, e)
                                /\ Inside(d, e)' <=> Inside(d, e)
                                /\ Declares(e)' <=> Declares(e)
  <1>1. d \in Elements'
    BY Parts DEF Elements, Grows
  <1>2. \A e \in Elements : /\ decls[e].scope \in 0..Len(up)
                            /\ ScopesAround(up')[decls[e].scope] = ScopesAround(up)[decls[e].scope]
                            /\ decls'[e].scope = decls[e].scope
    BY InRange DEF Grows
  <1>3. Around(decls[d].scope)' = Around(decls[d].scope)
    BY <1>2 DEF Around
  <1>4. ASSUME NEW e \in Elements
        PROVE  /\ Nested(decls[d].scope, decls[e].scope)' <=> Nested(decls[d].scope, decls[e].scope)
               /\ SameClass(d, e)' <=> SameClass(d, e)
               /\ Inside(d, e)' <=> Inside(d, e)
               /\ Declares(e)' <=> Declares(e)
    <2>1. Nested(decls[d].scope, decls[e].scope)' <=> Nested(decls[d].scope, decls[e].scope)
      BY <1>2 DEF Nested, Around
    <2>2. SameClass(d, e)' <=> SameClass(d, e)
      BY DEF Grows, SameClass
    <2>3. decls'[e].inner = decls[e].inner
      BY DEF Grows
    <2>4. Inside(d, e)' <=> Inside(d, e)
      BY <1>3, <2>3 DEF Inside
    <2>5. Declares(e)' <=> Declares(e)
      BY DEF Grows, Declares
    <2> QED BY <2>1, <2>2, <2>4, <2>5
  <1> QED BY <1>1, <1>3, <1>4

LEMMA ShadowGrows ==
  ASSUME Types, Scopes, Refs, Grows, Len(decls') \in Nat,
         NEW d \in Elements, Shadowed(d)
  PROVE  Shadowed(d)'
  <1>1. PICK e \in Elements : /\ Declares(e) /\ decls[e].name = decls[d].name
                              /\ Nested(decls[d].scope, decls[e].scope)
    BY DEF Shadowed
  <1>2. e \in Elements' /\ Declares(e)' /\ Nested(decls[d].scope, decls[e].scope)'
    BY <1>1, SamePlaces
  <1>3. decls'[e].name = decls'[d].name
    BY <1>1 DEF Grows
  <1> QED BY <1>2, <1>3 DEF Shadowed

LEMMA UsesOld ==
  ASSUME Types, Scopes, Refs, Grows, Len(decls') \in Nat,
         NEW u \in Elements, UsesAt(u)
  PROVE  UsesAt(u)'
  <1>1. \A e \in 1..(u - 1) : e \in Elements
    BY InRange
  <1>2. Candidates(u)' = Candidates(u)
    <2>1. Around(decls[u].scope)' = Around(decls[u].scope) /\ decls'[u].name = decls[u].name
      BY SamePlaces DEF Grows
    <2>2. \A e \in 1..(u - 1) : /\ decls'[e].kind = decls[e].kind /\ decls'[e].name = decls[e].name
                                /\ decls'[e].scope = decls[e].scope
      BY <1>1 DEF Grows
    <2> QED BY <2>1, <2>2 DEF Candidates
  <1>3. \A e \in Candidates(u) : e \in Elements
    BY <1>1 DEF Candidates
  <1> SUFFICES ASSUME decls'[u].kind = "type", Candidates(u) # {},
                      \A d \in Candidates(u) : ~Shadowed(d)'
               PROVE  /\ decls'[u].sym # 0 <=> (lang' = "C" \/ \E d \in Candidates(u) : ~Inside(u, d)')
                      /\ decls'[u].sym # 0 =>
                           \A d \in Candidates(u) : symbols'[decls'[u].sym].scope = decls'[d].scope
    BY <1>2 DEF UsesAt
  <1>4. decls[u].kind = "type" /\ decls'[u].sym = decls[u].sym /\ lang' = lang
    BY DEF Grows
  <1>5. \A d \in Candidates(u) : ~Shadowed(d)
    BY <1>3, ShadowGrows
  <1>6. \A d \in Candidates(u) : (Inside(u, d)' <=> Inside(u, d)) /\ decls'[d].scope = decls[d].scope
    BY <1>3, SamePlaces DEF Grows
  <1>7. /\ decls[u].sym # 0 <=> (lang = "C" \/ \E d \in Candidates(u) : ~Inside(u, d))
        /\ decls[u].sym # 0 => \A d \in Candidates(u) : symbols[decls[u].sym].scope = decls[d].scope
    BY <1>4, <1>5 DEF UsesAt
  <1>8. decls[u].sym # 0 => symbols'[decls[u].sym].scope = symbols[decls[u].sym].scope
    BY InRange DEF Grows
  <1> QED BY <1>4, <1>6, <1>7, <1>8

LEMMA ForwardOld ==
  ASSUME Types, Scopes, Refs, Grows, Len(decls') \in Nat,
         NEW d \in Elements, ForwardAt(d)
  PROVE  ForwardAt(d)'
  <1> SUFFICES ASSUME lang' = "C", decls'[d].kind = "decl", ~decls'[d].written, ~Shadowed(d)'
               PROVE  IF Before(d)' = {} THEN decls'[d].def = 0 ELSE decls'[d].def \in Before(d)'
    BY DEF ForwardAt
  <1>1. /\ lang = "C" /\ decls[d].kind = "decl" /\ ~decls[d].written /\ decls'[d].def = decls[d].def
    BY DEF Grows
  <1>2. ~Shadowed(d)
    BY ShadowGrows
  <1>3. Before(d)' = Before(d)
    <2>1. \A e \in 1..(d - 1) : e \in Elements
      BY InRange
    <2>2. \A e \in 1..(d - 1) : /\ decls'[e].written = decls[e].written /\ decls'[e].sym = decls[e].sym
                                /\ SameClass(d, e)' <=> SameClass(d, e)
      BY <1>1, <2>1, SamePlaces DEF Grows
    <2> QED BY <2>2 DEF Before
  <1> QED BY <1>1, <1>2, <1>3 DEF ForwardAt

LEMMA KeptOld ==
  ASSUME Types, Scopes, Refs, Grows, Len(decls') \in Nat,
         NEW d \in Elements, KeptAt(d),
         Reading(d) => Reading(d)', decls[d].written => decls'[d].def = decls[d].def,
         decls[d].sym # 0 /\ symbols[decls[d].sym].def # 0 =>
           symbols'[decls[d].sym].def = symbols[decls[d].sym].def
  PROVE  KeptAt(d)'
  <1> SUFFICES ASSUME decls'[d].written, ~Reading(d)', ~Shadowed(d)'
               PROVE  /\ decls'[d].def = d
                      /\ decls'[d].sym # 0 => symbols'[decls'[d].sym].def = d
                      /\ decls'[d].sym = 0 => decls'[d].kind = "type"
    BY DEF KeptAt
  <1>1. decls[d].written /\ decls'[d].kind = decls[d].kind /\ d # 0
    BY InRange DEF Grows
  <1>2. ~Shadowed(d)
    BY ShadowGrows
  <1>3. /\ decls[d].def = d
        /\ decls[d].sym # 0 => symbols[decls[d].sym].def = d
        /\ decls[d].sym = 0 => decls[d].kind = "type"
    BY <1>1, <1>2 DEF KeptAt
  <1>4. decls'[d].sym = decls[d].sym
    BY <1>3 DEF Grows
  <1>5. decls'[d].def = d
    BY <1>1, <1>3
  <1>6. decls[d].sym # 0 => symbols'[decls[d].sym].def = d
    BY <1>1, <1>3
  <1> QED BY <1>1, <1>3, <1>4, <1>5, <1>6

LEMMA SymbolOld ==
  ASSUME Types, Scopes, Refs, Grows, Len(decls') \in Nat,
         NEW k \in 1..Len(symbols), SymbolAt(k), symbols'[k].def = symbols[k].def
  PROVE  SymbolAt(k)'
  <1>1. PICK e \in Elements : /\ decls[e].kind = "decl" /\ decls[e].sym = k
                              /\ decls[e].name = symbols[k].name
                              /\ decls[e].scope = symbols[k].scope
    BY DEF SymbolAt
  <1>2. k # 0
    BY Parts
  <1>3. \A d \in Elements : d \in Elements'
    BY SamePlaces
  <1>4. /\ decls'[e].kind = "decl" /\ decls'[e].sym = k
        /\ decls'[e].name = symbols'[k].name /\ decls'[e].scope = symbols'[k].scope
    BY <1>1, <1>2 DEF Grows
  <1>5. ASSUME symbols'[k].def # 0
        PROVE  /\ symbols'[k].def \in Elements' /\ decls'[symbols'[k].def].written
               /\ decls'[symbols'[k].def].sym = k
    <2>1. PICK d \in Elements : d = symbols[k].def /\ decls[d].written /\ decls[d].sym = k
      BY <1>5 DEF SymbolAt
    <2>2. decls'[d].written /\ decls'[d].sym = k
      BY <1>2, <2>1 DEF Grows
    <2> QED BY <1>3, <2>1, <2>2
  <1> QED BY <1>1, <1>3, <1>4, <1>5 DEF SymbolAt

LEMMA LinkOld ==
  ASSUME Types, Scopes, Refs, Grows, Len(decls') \in Nat, Len(symbols') \in Nat,
         NEW d \in Elements, LinkAt(d),
         Reading(d) => Reading(d)', decls'[d].sym = decls[d].sym
  PROVE  LinkAt(d)'
  <1>1. Around(decls[d].scope)' = Around(decls[d].scope)
    BY SamePlaces
  <1>2. /\ decls'[d].name = decls[d].name /\ decls'[d].kind = decls[d].kind /\ lang' = lang
        /\ decls'[d].scope = decls[d].scope
    BY DEF Grows
  <1>3. \A k \in 1..Len(symbols) : /\ k \in 1..Len(symbols')
                                   /\ symbols'[k].name = symbols[k].name
                                   /\ symbols'[k].scope = symbols[k].scope
    BY SMTT(30), Parts DEF Grows
  <1>4. decls'[d].sym # 0 => /\ symbols'[decls'[d].sym].name = decls'[d].name
                             /\ symbols'[decls'[d].sym].scope \in Around(decls[d].scope)'
    <2>1. decls[d].sym # 0 => decls[d].sym \in 1..Len(symbols)
      BY InRange
    <2> QED BY <1>1, <1>2, <1>3, <2>1 DEF LinkAt
  <1>5. Announced(d) => Announced(d)'
    BY <1>1, <1>2, <1>3 DEF Announced
  <1> QED BY <1>2, <1>4, <1>5 DEF LinkAt

\* A class that stays open.
LEMMA ClassOld ==
  ASSUME Types, Scopes, Refs, Grows, Len(decls') \in Nat,
         NEW k \in 1..Len(stack), ClassAt(k), \A j \in 1..k : stack'[j] = stack[j],
         stack[k].decl # 0 /\ lang = "Fortran" =>
           Len(stack') = Len(stack) /\ decls'[stack[k].decl].sym = 0,
         stack[k].decl # 0 /\ lang = "C" => symbols'[decls[stack[k].decl].sym].def = 0
  PROVE  ClassAt(k)'
  <1>1. k \in Nat \ {0} /\ stack'[k] = stack[k]
    <2>1. k \in Nat \ {0}
      BY Parts
    <2>2. k \in 1..k
      BY <2>1
    <2> QED BY <2>1, <2>2
  <1> SUFFICES ASSUME stack[k].decl # 0
               PROVE  /\ k > 1 /\ stack[k].decl \in Elements'
                      /\ LET d == decls'[stack[k].decl]
                         IN /\ d.kind = "decl" /\ d.written
                            /\ d.scope = stack'[k - 1].scope /\ d.inner = stack[k].scope
                            /\ lang' = "Fortran" => k = Len(stack') /\ d.sym = 0
                            /\ lang' = "C" => symbols'[d.sym].def = 0
    BY <1>1 DEF ClassAt
  <1>2. PICK d \in Elements : d = stack[k].decl
    BY DEF ClassAt
  <1>3. /\ k > 1 /\ decls[d].kind = "decl" /\ decls[d].written
        /\ decls[d].scope = stack[k - 1].scope /\ decls[d].inner = stack[k].scope
        /\ lang = "Fortran" => k = Len(stack)
    BY <1>2 DEF ClassAt
  <1>4. /\ decls'[d].kind = decls[d].kind /\ decls'[d].written = decls[d].written
        /\ decls'[d].scope = decls[d].scope /\ decls'[d].inner = decls[d].inner /\ lang' = lang
        /\ lang = "C" => decls'[d].sym = decls[d].sym
    BY DEF Grows
  <1>5. stack'[k - 1] = stack[k - 1] /\ d \in Elements'
    <2>1. k - 1 \in 1..k
      BY <1>1, <1>3
    <2> QED BY <2>1, SamePlaces
  <1> QED BY <1>2, <1>3, <1>4, <1>5

-----------------------------------------------------------------------------
(* Symbols.                                                                *)

\* si::lookupClassSymbolInParentScopes finds a symbol if there is one.
LEMMA LookupFacts ==
  ASSUME Types, Scopes, NEW n, NEW scopes
  PROVE  /\ LookupIn(n, scopes) \in 0..Len(symbols)
         /\ LookupIn(n, scopes) = 0 =>
              \A k \in 1..Len(symbols) : ~(symbols[k].name = n /\ symbols[k].scope \in scopes)
         /\ LookupIn(n, scopes) # 0 => /\ LookupIn(n, scopes) \in 1..Len(symbols)
                                       /\ symbols[LookupIn(n, scopes)].name = n
                                       /\ symbols[LookupIn(n, scopes)].scope \in scopes
  <1> DEFINE hits == {k \in 1..Len(symbols) : symbols[k].name = n /\ symbols[k].scope \in scopes}
             Inner(k) == \A j \in hits : symbols[j].scope <= symbols[k].scope
  <1>1. /\ MaxScopes \in Nat /\ Len(symbols) \in Nat
        /\ \A k \in hits : symbols[k].scope \in 1..MaxScopes /\ k \in 1..Len(symbols)
    BY Parts DEF Symbol
  <1>2. ASSUME hits # {} PROVE \E k \in hits : Inner(k)
    <2> DEFINE T == {MaxScopes - symbols[k].scope : k \in hits}
    <2>1. T \subseteq Nat /\ T # {}
      <3>1. \A k \in hits : MaxScopes - symbols[k].scope \in Nat
        BY <1>1
      <3> HIDE DEF hits
      <3> QED BY <1>2, <3>1
    <2>2. PICK m \in T : \A i \in T : m <= i
      <3> HIDE DEF T
      <3> QED BY <2>1, Least
    <2>3. PICK k \in hits : m = MaxScopes - symbols[k].scope
      OBVIOUS
    <2>4. ASSUME NEW j \in hits PROVE symbols[j].scope <= symbols[k].scope
      <3>1. m <= MaxScopes - symbols[j].scope
        BY <2>2
      <3> QED BY <1>1, <2>3, <3>1
    <2> QED BY <2>4
  <1>3. LookupIn(n, scopes) = IF hits = {} THEN 0 ELSE CHOOSE k \in hits : Inner(k)
    BY DEF LookupIn
  <1> HIDE DEF Inner
  <1>4. CASE hits = {}
    BY <1>1, <1>3, <1>4
  <1>5. CASE hits # {}
    <2>1. LookupIn(n, scopes) \in hits
      BY <1>2, <1>3, <1>5
    <2> QED BY <1>1, <2>1
  <1> QED BY <1>4, <1>5

\* The symbol a declaration finds is in its own scope, unless there is an
\* inner or an outer class of the name.
LEMMA Alone ==
  ASSUME Types, Scopes, Refs,
         NEW d \in Elements, ~Shadowed(d), NEW k \in 1..Len(symbols), SymbolAt(k),
         symbols[k].name = decls[d].name,
         \/ symbols[k].scope \in Around(decls[d].scope)
         \/ decls[d].scope \in Around(symbols[k].scope)
  PROVE  symbols[k].scope = decls[d].scope
  <1>1. PICK e \in Elements : /\ decls[e].kind = "decl" /\ decls[e].name = symbols[k].name
                              /\ decls[e].scope = symbols[k].scope
    BY DEF SymbolAt
  <1>2. Declares(e)
    BY <1>1 DEF Declares
  <1> QED BY <1>1, <1>2 DEF Shadowed, Nested

\* So is its definition.
LEMMA AloneDefined ==
  ASSUME Types, Scopes, Refs,
         NEW d \in Elements, ~Shadowed(d), NEW e \in Elements, decls[e].written,
         decls[e].name = decls[d].name, decls[d].scope \in Around(decls[e].scope)
  PROVE  decls[e].scope = decls[d].scope
  <1>1. Declares(e)
    BY DEF Declares
  <1> QED BY <1>1 DEF Shadowed, Nested

-----------------------------------------------------------------------------
(* A new element.                                                          *)

\* What is appended to the declarations, and perhaps to the symbols.
LEMMA NewElement ==
  ASSUME Types, Scopes, Refs, Scopes', Numbered(up)', lang' = lang,
         Len(up) <= Len(up'), \A s \in 1..Len(up) : up'[s] = up[s],
         NEW e \in Decl, decls' = Append(decls, e),
         Len(symbols) <= Len(symbols'),
         \A k \in 1..Len(symbols) : symbols'[k].name = symbols[k].name /\ symbols'[k].scope = symbols[k].scope
  PROVE  /\ Grows
         /\ decls' \in Seq(Decl) /\ Len(decls') = Here /\ Here \in Nat /\ Here \notin Elements
         /\ Elements' = Elements \cup {Here}
         /\ decls'[Here] = e /\ \A d \in Elements : decls'[d] = decls[d]
         /\ \A d \in 1..(Here - 1) : d \in Elements
  <1>1. Len(decls) \in Nat /\ decls \in Seq(Decl)
    BY Parts DEF Types
  <1>2. /\ decls' \in Seq(Decl) /\ Len(decls') = Len(decls) + 1
        /\ \A d \in 1..Len(decls) : decls'[d] = decls[d]
        /\ decls'[Len(decls) + 1] = e
    BY <1>1, AppendProperties
  <1>3. \A s \in 0..Len(up) : ScopesAround(up')[s] = ScopesAround(up)[s]
    <2>1. PICK v : v = up'
      OBVIOUS
    <2>2. Numbered(v) /\ Len(up) <= Len(v) /\ \A s \in 1..Len(up) : v[s] = up[s]
      BY <2>1
    <2>3. Numbered(up)
      BY Parts
    <2> QED BY <2>1, <2>2, <2>3, AroundStays
  <1>4. Grows
    BY <1>1, <1>2, <1>3 DEF Grows, Elements
  <1> QED BY <1>1, <1>2, <1>4 DEF Here, Elements

\* A symbol that has no definition may get one.
DefsGrow ==
  \A k \in 1..Len(symbols) :
    \/ symbols'[k].def = symbols[k].def
    \/ /\ symbols[k].def = 0
       /\ symbols'[k].def \in Elements' /\ decls'[symbols'[k].def].written
       /\ decls'[symbols'[k].def].sym = k

LEMMA SymbolGrown ==
  ASSUME Types, Scopes, Refs, Grows, DefsGrow, Len(decls') \in Nat,
         NEW k \in 1..Len(symbols), SymbolAt(k)
  PROVE  SymbolAt(k)'
  <1>1. CASE symbols'[k].def = symbols[k].def
    BY <1>1, SymbolOld
  <1>2. CASE symbols'[k].def # symbols[k].def
    <2>1. PICK e \in Elements : /\ decls[e].kind = "decl" /\ decls[e].sym = k
                                /\ decls[e].name = symbols[k].name
                                /\ decls[e].scope = symbols[k].scope
      BY DEF SymbolAt
    <2>2. k # 0 /\ e \in Elements'
      BY Parts, SamePlaces
    <2>3. /\ decls'[e].kind = "decl" /\ decls'[e].sym = k
          /\ decls'[e].name = symbols'[k].name /\ decls'[e].scope = symbols'[k].scope
      BY <2>1, <2>2 DEF Grows
    <2>4. /\ symbols'[k].def \in Elements' /\ decls'[symbols'[k].def].written
          /\ decls'[symbols'[k].def].sym = k
      BY <1>2 DEF DefsGrow
    <2> QED BY <2>2, <2>3, <2>4 DEF SymbolAt
  <1> QED BY <1>1, <1>2

\* Elements that do not change keep what is true of them.
LEMMA OldElement ==
  ASSUME Types, Scopes, Refs, Grows, DefsGrow, Len(decls') \in Nat, Len(symbols') \in Nat,
         NEW d \in Elements, LinkAt(d), KeptAt(d), UsesAt(d), ForwardAt(d),
         Reading(d) => Reading(d)', decls'[d].sym = decls[d].sym, decls'[d].def = decls[d].def
  PROVE  LinkAt(d)' /\ KeptAt(d)' /\ UsesAt(d)' /\ ForwardAt(d)'
  <1>1. LinkAt(d)'
    BY LinkOld
  <1>2. decls[d].sym # 0 /\ symbols[decls[d].sym].def # 0 =>
          symbols'[decls[d].sym].def = symbols[decls[d].sym].def
    BY InRange DEF DefsGrow
  <1>3. KeptAt(d)'
    BY <1>2, KeptOld
  <1>4. UsesAt(d)'
    BY UsesOld
  <1>5. ForwardAt(d)'
    BY ForwardOld
  <1> QED BY <1>1, <1>3, <1>4, <1>5

\* Symbols of the names there were, at least one symbol fewer than elements.
SymbolsGrow(e) ==
  /\ symbols' \in Seq(Symbol)
  /\ Len(symbols) <= Len(symbols') /\ Len(symbols') <= Len(symbols) + 1
  /\ \A k \in 1..Len(symbols) :
       /\ symbols'[k].name = symbols[k].name /\ symbols'[k].scope = symbols[k].scope
       /\ \/ symbols'[k].def = symbols[k].def
          \/ symbols[k].def = 0 /\ symbols'[k].def = Here /\ e.written /\ e.sym = k
  /\ \A k \in (Len(symbols) + 1)..Len(symbols') : symbols'[k].scope \in 1..Len(up')
  /\ lang = "C" => \A j \in 1..Len(stack) :
       stack[j].decl # 0 => symbols'[decls[stack[j].decl].sym].def = 0

\* What has to be shown of the new element and its symbol.
NewAt(d) ==
  /\ \A k \in (Len(symbols) + 1)..Len(symbols') : SymbolAt(k)'
  /\ Unique'
  /\ LinkAt(d)' /\ KeptAt(d)' /\ UsesAt(d)' /\ ForwardAt(d)'

-----------------------------------------------------------------------------
(* The steps that append an element outside any class.                     *)

\* What is around the innermost scope is open; nothing is open that is not.
LEMMA InvFacts ==
  ASSUME Inv
  PROVE  /\ Types /\ Scopes /\ Refs /\ Classes
         /\ Len(decls) \in Nat /\ Len(symbols) \in Nat /\ Len(up) \in Nat \ {0}
         /\ Len(stack) \in Nat \ {0} /\ MaxDecls \in Nat /\ Numbered(up)
         /\ Open = Around(Top.scope) /\ Top.scope \in 1..Len(up) /\ Top.scope \in 1..MaxScopes
         /\ Top = stack[Len(stack)] /\ Len(stack) \in 1..Len(stack)
         /\ Len(symbols) <= MaxDecls /\ Len(decls) <= MaxDecls
         /\ \A d \in Elements : Reading(d) =>
              \E k \in 1..Len(stack) : stack[k].decl = d /\ ClassAt(k) /\ d # 0
         /\ \A k \in 1..Len(symbols) :
              /\ SymbolAt(k) /\ symbols[k] \in Symbol /\ symbols[k].scope \in 1..Len(up)
         /\ \A d \in Elements : LinkAt(d) /\ KeptAt(d) /\ UsesAt(d) /\ ForwardAt(d)
  <1>1. Types /\ Scopes /\ Refs /\ Classes
    BY DEF Inv
  <1>2. /\ Len(decls) \in Nat /\ Len(symbols) \in Nat /\ Len(up) \in Nat \ {0} /\ Numbered(up)
        /\ Len(stack) \in Nat \ {0} /\ MaxDecls \in Nat /\ Top.scope \in 1..Len(up)
        /\ Top = stack[Len(stack)] /\ Len(stack) \in 1..Len(stack)
    BY <1>1, Parts
  <1>3. Open = Around(Top.scope)
    BY <1>1, OpenIs
  <1>4. Top.scope \in 1..MaxScopes
    BY <1>1, <1>2, Parts
  <1>5. Len(symbols) <= MaxDecls /\ Len(decls) <= MaxDecls
    BY <1>1, <1>2 DEF Refs
  <1>6. \A d \in Elements : Reading(d) => \E k \in 1..Len(stack) : stack[k].decl = d /\ ClassAt(k) /\ d # 0
    <2>1. \A d \in Elements : d # 0
      BY <1>2 DEF Elements
    <2> QED BY <1>1, <2>1 DEF Reading, Classes
  <1>7. \A k \in 1..Len(symbols) : SymbolAt(k) /\ symbols[k] \in Symbol /\ symbols[k].scope \in 1..Len(up)
    <2>1. \A k \in 1..Len(symbols) : SymbolAt(k)
      BY DEF Inv
    <2>2. \A k \in 1..Len(symbols) : symbols[k] \in Symbol
      BY <1>1, Parts
    <2>3. \A k \in 1..Len(symbols) : symbols[k].scope \in 1..Len(up)
      BY <1>1 DEF Refs
    <2> QED BY <2>1, <2>2, <2>3
  <1>8. \A d \in Elements : LinkAt(d) /\ KeptAt(d) /\ UsesAt(d) /\ ForwardAt(d)
    BY DEF Inv
  <1> QED BY <1>1, <1>2, <1>3, <1>4, <1>5, <1>6, <1>7, <1>8

\* The new element and the ones before it.
LEMMA AppendFacts ==
  ASSUME Inv, NEW e \in Decl, decls' = Append(decls, e), UNCHANGED <<lang, up, stack>>,
         SymbolsGrow(e), NEW h, h = Here
  PROVE  /\ Grows /\ Len(decls') = h /\ Len(decls') \in Nat /\ h \in Nat /\ h \notin Elements
         /\ Elements' = Elements \cup {h} /\ decls'[h] = e
         /\ \A d \in Elements : decls'[d] = decls[d]
         /\ \A d \in 1..(h - 1) : d \in Elements
         /\ \A s \in 0..Len(up) : Around(s)' = Around(s)
         /\ ~Reading(h)'
         /\ Len(symbols') \in Nat
  <1>1. Types /\ Scopes /\ Refs /\ Classes /\ Numbered(up) /\ Len(decls) \in Nat
    BY InvFacts
  <1>2. Scopes' /\ Numbered(up)' /\ lang' = lang
    BY <1>1 DEF Scopes, Numbered
  <1>3. /\ Grows
        /\ decls' \in Seq(Decl) /\ Len(decls') = h /\ h \in Nat /\ h \notin Elements
        /\ Elements' = Elements \cup {h} /\ decls'[h] = e
        /\ \A d \in Elements : decls'[d] = decls[d]
        /\ \A d \in 1..(h - 1) : d \in Elements
    <2>1. Len(up) <= Len(up') /\ \A s \in 1..Len(up) : up'[s] = up[s]
      BY <1>1, InvFacts
    <2>2. Len(symbols) <= Len(symbols')
      BY DEF SymbolsGrow
    <2>3. \A k \in 1..Len(symbols) :
            symbols'[k].name = symbols[k].name /\ symbols'[k].scope = symbols[k].scope
      BY DEF SymbolsGrow
    <2> QED BY <1>1, <1>2, <2>1, <2>2, <2>3, NewElement
  <1>4. \A s \in 0..Len(up) : Around(s)' = Around(s)
    BY DEF Around
  <1>5. ~Reading(h)'
    <2>1. \A k \in 1..Len(stack) : stack[k].decl = 0 \/ stack[k].decl \in Elements
      BY <1>1 DEF Classes, ClassAt
    <2>2. h # 0
      BY <1>1 DEF Here
    <2>3. \A k \in 1..Len(stack) : stack[k].decl # h
      BY <1>3, <2>1, <2>2
    <2> QED BY <2>3 DEF Reading
  <1>6. Len(symbols') \in Nat
    BY DEF SymbolsGrow
  <1> QED BY <1>3, <1>4, <1>5, <1>6

\* The invariant after a step that appends an element outside any class.
LEMMA AppendInv ==
  ASSUME Inv, NEW e \in Decl, decls' = Append(decls, e), UNCHANGED <<lang, up, stack>>,
         Here <= MaxDecls, SymbolsGrow(e),
         e.scope \in 1..Len(up), e.inner = 0, e.sym \in 0..Len(symbols'),
         NEW h, h = Here, NewAt(h)
  PROVE  Inv'
  <1>1. Types /\ Scopes /\ Refs /\ Classes
    BY DEF Inv
  <1>2. /\ Len(up) \in Nat /\ Len(symbols) \in Nat /\ Len(symbols') \in Nat /\ Len(decls) \in Nat
        /\ Numbered(up)' /\ MaxDecls \in Nat /\ Len(stack) \in Nat \ {0}
    BY <1>1, Parts DEF SymbolsGrow, Numbered
  <1>3. Scopes'
    BY <1>1 DEF Scopes
  <1>4. /\ Grows /\ Len(decls') = h /\ h \in Nat /\ h \notin Elements
        /\ Elements' = Elements \cup {h} /\ decls'[h] = e
        /\ \A d \in Elements : decls'[d] = decls[d]
    BY AppendFacts
  <1>5. Types'
    <2>1. decls' \in Seq(Decl)
      BY <1>1, AppendProperties DEF Types
    <2> QED BY <1>1, <2>1 DEF Types, SymbolsGrow
  <1>6. DefsGrow
    BY <1>4 DEF SymbolsGrow, DefsGrow
  <1>7. \A d \in Elements : Reading(d)' <=> Reading(d)
    BY DEF Reading
  <1>8. ASSUME NEW d \in Elements PROVE LinkAt(d)' /\ KeptAt(d)' /\ UsesAt(d)' /\ ForwardAt(d)'
    <2>1. LinkAt(d) /\ KeptAt(d) /\ UsesAt(d) /\ ForwardAt(d)
      BY DEF Inv
    <2> QED BY <1>1, <1>2, <1>4, <1>6, <1>7, <2>1, OldElement
  <1>9. \A d \in Elements' : LinkAt(d)' /\ KeptAt(d)' /\ UsesAt(d)' /\ ForwardAt(d)'
    BY <1>4, <1>8 DEF NewAt
  <1>10. \A k \in 1..Len(symbols') : SymbolAt(k)'
    <2>1. \A k \in 1..Len(symbols) : SymbolAt(k)'
      BY <1>1, <1>4, <1>6, SymbolGrown DEF Inv
    <2>2. \A k \in 1..Len(symbols') : k \in 1..Len(symbols) \/ k \in (Len(symbols) + 1)..Len(symbols')
      BY <1>2
    <2> QED BY <2>1, <2>2 DEF NewAt
  <1>11. Refs'
    <2>1. Len(decls') <= MaxDecls
      BY <1>4
    <2>2. ASSUME NEW d \in Elements'
          PROVE  /\ decls'[d].scope \in 1..Len(up) /\ decls'[d].inner \in 0..Len(up)
                 /\ decls'[d].sym \in 0..Len(symbols')
      <3>1. CASE d = h
        BY <1>2, <1>4, <3>1
      <3>2. CASE d \in Elements
        <4>1. decls'[d] = decls[d] /\ decls[d].sym \in 0..Len(symbols)
              /\ decls[d].scope \in 1..Len(up) /\ decls[d].inner \in 0..Len(up)
          BY <1>1, <1>4, <3>2 DEF Refs
        <4> QED BY SMTT(30), <1>2, <4>1 DEF SymbolsGrow
      <3> QED BY <1>4, <3>1, <3>2
    <2>3. ASSUME NEW k \in 1..Len(symbols') PROVE symbols'[k].scope \in 1..Len(up)
      <3>1. CASE k \in 1..Len(symbols)
        BY <1>1, <3>1 DEF Refs, SymbolsGrow
      <3>2. CASE k \in (Len(symbols) + 1)..Len(symbols')
        BY <3>2 DEF SymbolsGrow
      <3> QED BY <1>2, <3>1, <3>2
    <2>4. Len(symbols') + (IF lang = "Fortran" /\ InClass THEN 1 ELSE 0) <= Len(decls')
      <3>1. Len(symbols) + (IF lang = "Fortran" /\ InClass THEN 1 ELSE 0) <= Len(decls)
        BY <1>1 DEF Refs
      <3>2. Len(decls') = Len(decls) + 1 /\ Len(symbols') <= Len(symbols) + 1
        BY <1>4 DEF Here, SymbolsGrow
      <3> QED BY <1>2, <3>1, <3>2
    <2>5. InClass' <=> InClass
      BY DEF InClass, Top
    <2> QED BY <2>1, <2>2, <2>3, <2>4, <2>5 DEF Refs
  <1>12. Classes'
    <2>1. ASSUME NEW k \in 1..Len(stack) PROVE ClassAt(k)'
      <3>1. ClassAt(k)
        BY <1>1 DEF Classes
      <3>2. ASSUME stack[k].decl # 0, lang = "Fortran"
            PROVE  Len(stack') = Len(stack) /\ decls'[stack[k].decl].sym = 0
        BY <1>4, <3>1, <3>2 DEF ClassAt
      <3>3. stack[k].decl # 0 /\ lang = "C" => symbols'[decls[stack[k].decl].sym].def = 0
        BY DEF SymbolsGrow
      <3> QED BY <1>1, <1>4, <3>1, <3>2, <3>3, ClassOld
    <2>2. ASSUME NEW d \in Elements', NEW k \in 1..Len(stack), decls'[d].inner = stack[k].scope
          PROVE  stack[k].decl = d
      <3>1. stack[k].scope \in 1..Len(up)
        BY <1>1 DEF Scopes
      <3>2. d # h
        BY <1>2, <1>4, <2>2, <3>1
      <3> QED BY ZenonT(30), <1>1, <1>4, <2>2, <3>2 DEF Classes
    <2>3. \A j \in 1..Len(stack) : stack[j].decl # 0 => stack[j].decl \in Elements
      BY <1>1 DEF Classes, ClassAt
    <2>4. ASSUME NEW j \in 1..Len(stack), NEW k \in 1..Len(stack),
                 stack[j].decl # 0, stack[k].decl # 0,
                 decls'[stack[j].decl].name = decls'[stack[k].decl].name
          PROVE  j = k
      <3>1. decls[stack[j].decl].name = decls[stack[k].decl].name
        BY <1>4, <2>3, <2>4
      <3> QED BY <1>1, <2>4, <3>1 DEF Classes
    <2>5. /\ \A k \in 1..Len(stack') : ClassAt(k)'
          /\ \A d \in Elements', k \in 1..Len(stack') :
               decls'[d].inner = stack'[k].scope => stack'[k].decl = d
          /\ \A j, k \in 1..Len(stack') :
               stack'[j].decl # 0 /\ stack'[k].decl # 0
                 /\ decls'[stack'[j].decl].name = decls'[stack'[k].decl].name => j = k
      <3>1. stack' = stack
        OBVIOUS
      <3>2. \A k \in 1..Len(stack') : ClassAt(k)'
        BY <2>1, <3>1
      <3>3. \A d \in Elements', k \in 1..Len(stack') :
              decls'[d].inner = stack'[k].scope => stack'[k].decl = d
        BY <2>2, <3>1
      <3>4. \A j, k \in 1..Len(stack') :
              stack'[j].decl # 0 /\ stack'[k].decl # 0
                /\ decls'[stack'[j].decl].name = decls'[stack'[k].decl].name => j = k
        <4> TAKE j, k \in 1..Len(stack')
        <4> HAVE stack'[j].decl # 0 /\ stack'[k].decl # 0
                   /\ decls'[stack'[j].decl].name = decls'[stack'[k].decl].name
        <4>1. j \in 1..Len(stack) /\ k \in 1..Len(stack)
          BY <3>1
        <4>2. /\ stack[j].decl # 0 /\ stack[k].decl # 0
              /\ decls'[stack[j].decl].name = decls'[stack[k].decl].name
          BY <3>1
        <4> QED BY <2>4, <4>1, <4>2
      <3> QED BY <3>2, <3>3, <3>4
    <2> QED BY <2>5 DEF Classes
  <1> QED BY <1>3, <1>5, <1>9, <1>10, <1>11, <1>12 DEF Inv, NewAt

\* A new element that is not shadowed: the declarations and the symbols of its
\* name around it, or around which it is, are in its scope.
LEMMA NewAlone ==
  ASSUME Types, Scopes, Refs, Grows, Len(decls') \in Nat,
         \A k \in 1..Len(symbols) : SymbolAt(k),
         NEW h, h \in Elements', decls'[h].scope \in 0..Len(up), ~Shadowed(h)'
  PROVE  /\ \A f \in Elements :
              /\ Declares(f) /\ decls[f].name = decls'[h].name
              /\ \/ decls'[h].scope \in Around(decls[f].scope)
                 \/ decls[f].scope \in Around(decls'[h].scope)
              => decls[f].scope = decls'[h].scope
         /\ \A k \in 1..Len(symbols) :
              /\ symbols[k].name = decls'[h].name
              /\ symbols[k].scope \in Around(decls'[h].scope)
              => symbols[k].scope = decls'[h].scope
  <1>1. ASSUME NEW f \in Elements, Declares(f), decls[f].name = decls'[h].name,
               \/ decls'[h].scope \in Around(decls[f].scope)
               \/ decls[f].scope \in Around(decls'[h].scope)
        PROVE  decls[f].scope = decls'[h].scope
    <2>1. f \in Elements' /\ Declares(f)' /\ decls'[f].name = decls[f].name /\ decls'[f].scope = decls[f].scope
      BY <1>1, SamePlaces DEF Grows
    <2>2. decls[f].scope \in 0..Len(up)
      BY InRange
    <2>3. Around(decls[f].scope) = ScopesAround(up')[decls[f].scope]
      BY <2>2 DEF Grows, Around
    <2>4. Around(decls'[h].scope) = ScopesAround(up')[decls'[h].scope]
      BY DEF Grows, Around
    <2>5. decls[f].scope # decls'[h].scope => Nested(decls[h].scope, decls[f].scope)'
      BY <1>1, <2>1, <2>3, <2>4 DEF Nested, Around
    <2> QED BY <1>1, <2>1, <2>5 DEF Shadowed
  <1>2. ASSUME NEW k \in 1..Len(symbols), symbols[k].name = decls'[h].name,
               symbols[k].scope \in Around(decls'[h].scope)
        PROVE  symbols[k].scope = decls'[h].scope
    <2>1. PICK f \in Elements : /\ decls[f].kind = "decl" /\ decls[f].name = symbols[k].name
                                /\ decls[f].scope = symbols[k].scope
      BY DEF SymbolAt
    <2>2. Declares(f)
      BY <2>1 DEF Declares
    <2> QED BY <1>1, <1>2, <2>1, <2>2
  <1> QED BY <1>1, <1>2

LEMMA NewDeclFacts ==
  ASSUME Inv, NEW n \in Name, NEW w \in BOOLEAN, NEW s \in 0..MaxDecls, NEW d \in 0..MaxDecls
  PROVE  /\ NewDecl(n, w, s, d) \in Decl
         /\ NewDecl(n, w, s, d).kind = "decl" /\ NewDecl(n, w, s, d).name = n
         /\ NewDecl(n, w, s, d).scope = Top.scope /\ NewDecl(n, w, s, d).written = w
         /\ NewDecl(n, w, s, d).inner = 0 /\ NewDecl(n, w, s, d).sym = s
         /\ NewDecl(n, w, s, d).def = d
  <1>1. Top.scope \in 1..MaxScopes /\ 0 \in 0..MaxScopes
    <2>1. Top.scope \in 1..MaxScopes
      BY InvFacts
    <2> QED BY <2>1, ClassAssumption
  <1> QED BY <1>1 DEF NewDecl, Decl

\* A name that is looked up from here.
LEMMA LookupHere ==
  ASSUME Inv, NEW n
  PROVE  /\ Lookup(n) \in 0..Len(symbols) /\ Lookup(n) \in 0..MaxDecls
         /\ Lookup(n) # 0 => /\ Lookup(n) \in 1..Len(symbols)
                             /\ symbols[Lookup(n)].name = n
                             /\ symbols[Lookup(n)].scope \in Around(Top.scope)
                             /\ symbols[Lookup(n)].scope \in 1..Len(up)
                             /\ symbols[Lookup(n)].def \in 0..MaxDecls
         /\ \A k \in 1..Len(symbols) :
              symbols[k].name = n /\ symbols[k].scope \in Around(Top.scope) => Lookup(n) # 0
         /\ \A d \in Elements :
              /\ decls[d].name = n /\ decls[d].sym # 0
              /\ decls[d].scope \in Around(Top.scope)
              => Lookup(n) # 0
  <1>1. PICK l : l = Lookup(n)
    OBVIOUS
  <1>2. /\ Types /\ Scopes /\ Refs /\ Open = Around(Top.scope) /\ Len(symbols) \in Nat /\ MaxDecls \in Nat
        /\ Len(symbols) <= MaxDecls /\ Numbered(up) /\ Len(up) \in Nat /\ Top.scope \in 0..Len(up)
    BY InvFacts
  <1>3. /\ l \in 0..Len(symbols)
        /\ l = 0 => \A k \in 1..Len(symbols) : ~(symbols[k].name = n /\ symbols[k].scope \in Open)
        /\ l # 0 => /\ l \in 1..Len(symbols) /\ symbols[l].name = n /\ symbols[l].scope \in Open
    BY <1>1, <1>2, LookupFacts DEF Lookup
  <1>4. l # 0 => symbols[l].scope \in 1..Len(up) /\ symbols[l].def \in 0..MaxDecls
    BY <1>3, InvFacts DEF Symbol
  <1>5. ASSUME NEW d \in Elements, decls[d].name = n, decls[d].sym # 0,
               decls[d].scope \in Around(Top.scope)
        PROVE  l # 0
    <2>1. decls[d].sym \in 1..Len(symbols)
      BY <1>2, <1>5, InRange
    <2>2. LinkAt(d)
      BY InvFacts
    <2>3. /\ symbols[decls[d].sym].name = n
          /\ symbols[decls[d].sym].scope \in Around(decls[d].scope)
      BY <1>5, <2>2 DEF LinkAt
    <2>4. Around(decls[d].scope) \subseteq Around(Top.scope)
      BY <1>2, <1>5, AroundPath DEF Around
    <2> QED BY <1>2, <1>3, <2>1, <2>3, <2>4
  <1> QED BY <1>1, <1>2, <1>3, <1>4, <1>5

\* The symbols of the classes that are open have no definition in C.
LEMMA OpenUndefined ==
  ASSUME Inv, lang = "C", NEW j \in 1..Len(stack), stack[j].decl # 0
  PROVE  /\ stack[j].decl \in Elements /\ decls[stack[j].decl].sym \in 1..Len(symbols)
         /\ symbols[decls[stack[j].decl].sym].def = 0
         /\ symbols[decls[stack[j].decl].sym].name = decls[stack[j].decl].name
  <1>1. Types /\ Scopes /\ Refs /\ ClassAt(j)
    BY InvFacts DEF Classes
  <1>2. PICK d \in Elements : d = stack[j].decl
    BY <1>1 DEF ClassAt
  <1>3. decls[d].kind = "decl" /\ symbols[decls[d].sym].def = 0
    BY <1>1, <1>2 DEF ClassAt
  <1>4. LinkAt(d)
    BY InvFacts
  <1>5. decls[d].sym # 0 /\ symbols[decls[d].sym].name = decls[d].name
    BY <1>3, <1>4 DEF LinkAt
  <1>6. decls[d].sym \in 1..Len(symbols)
    BY <1>1, <1>5, InRange
  <1> QED BY <1>2, <1>3, <1>5, <1>6

\* visitSgClassDeclaration, of a class that is defined already.
LEMMA RepeatedInv ==
  ASSUME Inv, NEW n \in Name, NEW w \in BOOLEAN, RepeatedClass(n, w)
  PROVE  Inv'
  <1>1. PICK l : l = Lookup(n)
    OBVIOUS
  <1>2. PICK f : f = symbols[l].def
    OBVIOUS
  <1>3. /\ lang = "C" /\ Valid(n, w) /\ l # 0 /\ f # 0
        /\ decls' = Append(decls, NewDecl(n, w, l, f))
        /\ UNCHANGED <<lang, up, stack>> /\ symbols' = symbols
    BY <1>1, <1>2 DEF RepeatedClass, Defined, Known
  <1>4. /\ l \in 1..Len(symbols) /\ l \in 0..MaxDecls /\ f \in 0..MaxDecls /\ symbols[l].name = n
        /\ symbols[l].scope \in Around(Top.scope) /\ symbols[l].scope \in 1..Len(up)
    BY <1>1, <1>2, <1>3, LookupHere
  <1>5. PICK e \in Decl : /\ e = NewDecl(n, w, l, f)
                          /\ e.kind = "decl" /\ e.name = n /\ e.scope = Top.scope /\ e.written = w
                          /\ e.inner = 0 /\ e.sym = l /\ e.def = f
    BY <1>4, NewDeclFacts
  <1>6. SymbolsGrow(e)
    <2>1. symbols' \in Seq(Symbol) /\ Len(symbols') = Len(symbols) /\ Len(symbols) \in Nat
      BY <1>3, InvFacts DEF Types
    <2>2. \A j \in 1..Len(stack) : stack[j].decl # 0 => symbols[decls[stack[j].decl].sym].def = 0
      BY <1>3, OpenUndefined
    <2> QED BY <1>3, <2>1, <2>2 DEF SymbolsGrow
  <1>7. PICK h : h = Here
    OBVIOUS
  <1>8. decls' = Append(decls, e) /\ e.scope \in 1..Len(up) /\ Here <= MaxDecls
    BY <1>3, <1>5, InvFacts DEF Valid
  <1>9. /\ Grows /\ Len(decls') \in Nat /\ Elements' = Elements \cup {h} /\ decls'[h] = e /\ h \in Nat
        /\ \A d \in Elements : decls'[d] = decls[d]
        /\ Around(Top.scope)' = Around(Top.scope) /\ Len(decls') = h
    <2>1. Top.scope \in 0..Len(up) /\ Top' = Top
      BY <1>3, InvFacts DEF Top
    <2> QED BY <1>3, <1>6, <1>7, <1>8, <2>1, AppendFacts
  <1>10. PICK d \in Elements : d = f /\ decls[d].written /\ decls[d].sym = l /\ d # 0
    <2>1. SymbolAt(l)
      BY <1>4, InvFacts
    <2> QED BY <1>2, <1>3, <2>1 DEF SymbolAt
  <1>11. decls[d].name = n /\ symbols[l].scope \in Around(decls[d].scope) /\ Declares(d)
    <2>1. LinkAt(d)
      BY InvFacts
    <2> QED BY <1>3, <1>4, <1>10, <2>1 DEF LinkAt, Declares
  <1>12. ~Shadowed(h)' => symbols[l].scope = Top.scope /\ decls[d].scope = Top.scope
    <2>1. Types /\ Scopes /\ Refs /\ (\A k \in 1..Len(symbols) : SymbolAt(k))
      BY InvFacts
    <2>2. h \in Elements' /\ decls'[h].scope \in 0..Len(up)
      BY <1>5, <1>8, <1>9, InvFacts
    <2> SUFFICES ASSUME ~Shadowed(h)' PROVE symbols[l].scope = Top.scope /\ decls[d].scope = Top.scope
      OBVIOUS
    <2>3. symbols[l].scope = Top.scope
      BY <1>4, <1>5, <1>9, <2>1, <2>2, NewAlone
    <2> QED BY <1>5, <1>9, <1>10, <1>11, <2>1, <2>2, <2>3, NewAlone
  <1>13. NewAt(h)
    <2>1. \A k \in (Len(symbols) + 1)..Len(symbols') : SymbolAt(k)'
      BY <1>3, InvFacts
    <2>2. Unique'
      BY <1>3 DEF Inv, Unique
    <2>3. LinkAt(h)'
      <3>1. Announced(h)'
        BY <1>3, <1>4, <1>5, <1>9 DEF Announced, Around
      <3> QED BY <1>3, <1>4, <1>5, <1>9, <3>1 DEF LinkAt, Around
    <2>4. KeptAt(h)'
      <3>1. ASSUME w, ~Shadowed(h)' PROVE FALSE
        BY <1>3, <1>10, <1>11, <1>12, <3>1 DEF Valid, Elements
      <3> QED BY <1>5, <1>9, <3>1 DEF KeptAt
    <2>5. UsesAt(h)'
      BY <1>5, <1>9 DEF UsesAt
    <2>6. ForwardAt(h)'
      <3>1. ASSUME ~Shadowed(h)' PROVE f \in Before(h)'
        <4>1. d \in 1..(h - 1)
          BY <1>9, <1>7, InvFacts DEF Elements, Here
        <4>2. decls'[d].written /\ SameClass(h, d)' /\ decls'[d].sym # 0
          <5>1. decls'[d] = decls[d]
            BY <1>9
          <5>2. decls'[h].name = decls[d].name /\ decls'[h].scope = decls[d].scope
            BY <1>5, <1>9, <1>11, <1>12, <3>1
          <5>3. decls[d].written /\ decls[d].sym # 0
            BY <1>3, <1>10
          <5> QED BY <5>1, <5>2, <5>3 DEF SameClass
        <4> QED BY <1>10, <4>1, <4>2 DEF Before
      <3> QED BY <1>5, <1>9, <3>1 DEF ForwardAt
    <2> QED BY <2>1, <2>2, <2>3, <2>4, <2>5, <2>6 DEF NewAt
  <1> QED BY <1>3, <1>4, <1>5, <1>6, <1>7, <1>8, <1>13, AppendInv

\* The symbols after a declaration whose name may be new.
LEMMA EnteredFacts ==
  ASSUME Inv, NEW n \in Name, symbols' = Entered(n)
  PROVE  /\ symbols' \in Seq(Symbol)
         /\ \A k \in 1..Len(symbols) : symbols'[k] = symbols[k]
         /\ Len(symbols') \in Nat /\ Len(symbols') <= Len(symbols) + 1
         /\ Known(n) => SymbolOf(n) = Lookup(n)
         /\ \A k \in (Len(symbols) + 1)..Len(symbols') :
              /\ ~Known(n) /\ k = SymbolOf(n)
              /\ symbols'[k].name = n /\ symbols'[k].scope = Top.scope /\ symbols'[k].def = 0
         /\ SymbolOf(n) \in 1..Len(symbols') /\ Len(symbols) <= Len(symbols')
         /\ symbols'[SymbolOf(n)].name = n /\ symbols'[SymbolOf(n)].scope \in Around(Top.scope)
         /\ \A j, k \in 1..Len(symbols') :
              symbols'[j].name = symbols'[k].name /\ symbols'[j].scope = symbols'[k].scope => j = k
  <1> DEFINE s == [name |-> n, scope |-> Top.scope, def |-> 0]
  <1>1. /\ Len(symbols) \in Nat /\ symbols \in Seq(Symbol) /\ Top.scope \in 1..MaxScopes
        /\ Top.scope \in 1..Len(up) /\ Len(up) \in Nat /\ Numbered(up)
    BY InvFacts DEF Types
  <1>2. s \in Symbol /\ s.name = n /\ s.scope = Top.scope /\ s.def = 0
    BY <1>1, ClassAssumption DEF Symbol
  <1> HIDE DEF s
  <1>3. Top.scope \in Around(Top.scope)
    BY <1>1, AroundBelow DEF Around
  <1>4. \A j, k \in 1..Len(symbols) :
          symbols[j].name = symbols[k].name /\ symbols[j].scope = symbols[k].scope => j = k
    BY DEF Inv, Unique
  <1>5. CASE Known(n)
    <2>1. symbols' = symbols /\ SymbolOf(n) = Lookup(n) /\ Lookup(n) # 0
      BY <1>5 DEF Entered, SymbolOf, Known
    <2>2. Lookup(n) \in 1..Len(symbols) /\ symbols[Lookup(n)].name = n
          /\ symbols[Lookup(n)].scope \in Around(Top.scope)
      BY <2>1, LookupHere
    <2>3. \A k \in (Len(symbols) + 1)..Len(symbols') : FALSE
      BY <1>1, <2>1
    <2> QED BY <1>1, <1>4, <2>1, <2>2, <2>3
  <1>6. CASE ~Known(n)
    <2>1. symbols' = Append(symbols, s) /\ SymbolOf(n) = Len(symbols) + 1
      BY <1>6 DEF Entered, SymbolOf, Insert, s
    <2>2. /\ symbols' \in Seq(Symbol) /\ Len(symbols') = Len(symbols) + 1
          /\ \A k \in 1..Len(symbols) : symbols'[k] = symbols[k]
          /\ symbols'[Len(symbols) + 1] = s
      BY <1>1, <1>2, <2>1, AppendProperties
    <2>3. \A k \in 1..Len(symbols) : ~(symbols[k].name = n /\ symbols[k].scope = Top.scope)
      BY <1>3, <1>6, LookupHere DEF Known
    <2>4. ASSUME NEW j \in 1..Len(symbols'), NEW k \in 1..Len(symbols'),
                 symbols'[j].name = symbols'[k].name, symbols'[j].scope = symbols'[k].scope
          PROVE  j = k
      <3>1. \A i \in 1..Len(symbols') : i \in 1..Len(symbols) \/ i = Len(symbols) + 1
        BY <1>1, <2>2
      <3>2. CASE j \in 1..Len(symbols) /\ k \in 1..Len(symbols)
        BY <1>4, <2>2, <2>4, <3>2
      <3>3. CASE j \in 1..Len(symbols) /\ k = Len(symbols) + 1
        BY <1>2, <2>2, <2>3, <2>4, <3>3
      <3>4. CASE j = Len(symbols) + 1 /\ k \in 1..Len(symbols)
        BY <1>2, <2>2, <2>3, <2>4, <3>4
      <3> QED BY <3>1, <3>2, <3>3, <3>4
    <2>5. SymbolOf(n) \in 1..Len(symbols') /\ Len(symbols) <= Len(symbols')
      BY <1>1, <2>1, <2>2
    <2>6. \A k \in (Len(symbols) + 1)..Len(symbols') : k = Len(symbols) + 1
      BY <1>1, <2>2
    <2>7. \A k \in (Len(symbols) + 1)..Len(symbols') :
            /\ ~Known(n) /\ k = SymbolOf(n)
            /\ symbols'[k].name = n /\ symbols'[k].scope = Top.scope /\ symbols'[k].def = 0
      BY <1>2, <1>6, <2>1, <2>2, <2>6
    <2>8. Len(symbols') \in Nat /\ Len(symbols') <= Len(symbols) + 1
      BY <1>1, <2>2
    <2>9. symbols'[SymbolOf(n)].name = n /\ symbols'[SymbolOf(n)].scope \in Around(Top.scope)
      BY <1>2, <1>3, <2>1, <2>2
    <2> QED BY <1>6, <2>2, <2>4, <2>5, <2>7, <2>8, <2>9
  <1> QED BY <1>5, <1>6

LEMMA SymbolRange ==
  ASSUME Inv, NEW n \in Name, Here <= MaxDecls, symbols' = Entered(n)
  PROVE  /\ SymbolOf(n) \in 0..MaxDecls /\ SymbolOf(n) # 0 /\ Here \in 1..MaxDecls
         /\ SymbolOf(n) \in 0..Len(symbols')
  <1>1. /\ Len(symbols) \in Nat /\ Len(decls) \in Nat /\ MaxDecls \in Nat
        /\ Lookup(n) \in 0..Len(symbols)
    BY InvFacts, LookupHere
  <1>2. Len(symbols) <= Len(decls)
    <2>1. Len(symbols) + (IF lang = "Fortran" /\ InClass THEN 1 ELSE 0) <= Len(decls)
      BY InvFacts DEF Refs
    <2> QED BY <1>1, <2>1
  <1>3. SymbolOf(n) \in 1..Len(symbols')
    BY EnteredFacts
  <1>4. SymbolOf(n) = Lookup(n) \/ SymbolOf(n) = Len(symbols) + 1
    BY DEF SymbolOf
  <1>5. Len(symbols') \in Nat
    BY EnteredFacts
  <1>6. Len(decls) + 1 <= MaxDecls
    BY DEF Here
  <1> QED BY <1>1, <1>2, <1>3, <1>4, <1>5, <1>6 DEF Here

\* visitSgClassDeclaration, without a definition.
LEMMA ForwardInv ==
  ASSUME Inv, NEW n \in Name, ForwardClass(n)
  PROVE  Inv'
  <1>1. PICK l : l = SymbolOf(n)
    OBVIOUS
  <1>2. /\ lang = "C" /\ Valid(n, FALSE) /\ ~Defined(n) /\ Here <= MaxDecls
        /\ decls' = Append(decls, NewDecl(n, FALSE, l, 0))
        /\ UNCHANGED <<lang, up, stack>> /\ symbols' = Entered(n)
    BY <1>1 DEF ForwardClass, Valid
  <1>3. /\ symbols' \in Seq(Symbol) /\ Len(symbols') \in Nat /\ Len(symbols) \in Nat
        /\ \A k \in 1..Len(symbols) : symbols'[k] = symbols[k]
        /\ l \in 1..Len(symbols') /\ symbols'[l].name = n /\ symbols'[l].scope \in Around(Top.scope)
        /\ Len(symbols) <= Len(symbols') /\ Len(symbols') <= Len(symbols) + 1
    <2>1. symbols' = Entered(n) /\ Len(symbols) \in Nat
      BY <1>2, InvFacts
    <2> QED BY <1>1, <2>1, EnteredFacts
  <1>4. l \in 0..MaxDecls /\ l # 0 /\ 0 \in 0..MaxDecls
    BY <1>1, <1>2, SymbolRange, ClassAssumption
  <1>5. PICK e \in Decl : /\ e = NewDecl(n, FALSE, l, 0)
                          /\ e.kind = "decl" /\ e.name = n /\ e.scope = Top.scope /\ ~e.written
                          /\ e.inner = 0 /\ e.sym = l /\ e.def = 0
    <2> DEFINE f == NewDecl(n, FALSE, l, 0)
    <2>1. /\ f \in Decl /\ f.kind = "decl" /\ f.name = n /\ f.scope = Top.scope /\ ~f.written
          /\ f.inner = 0 /\ f.sym = l /\ f.def = 0
      <3>1. Top.scope \in 1..MaxScopes /\ 0 \in 0..MaxScopes /\ FALSE \in BOOLEAN
        BY InvFacts, ClassAssumption
      <3> QED BY <1>4, <3>1 DEF NewDecl, Decl
    <2> HIDE DEF f
    <2>2. \E e \in Decl : /\ e = f
                          /\ e.kind = "decl" /\ e.name = n /\ e.scope = Top.scope /\ ~e.written
                          /\ e.inner = 0 /\ e.sym = l /\ e.def = 0
      BY <2>1
    <2> QED BY <2>2 DEF f
  <1>6. ASSUME NEW k \in (Len(symbols) + 1)..Len(symbols')
        PROVE  /\ k = l /\ symbols'[k].name = n /\ symbols'[k].scope = Top.scope /\ symbols'[k].def = 0
    <2>1. symbols' = Entered(n)
      BY <1>2
    <2> QED BY <1>1, <2>1, EnteredFacts
  <1>7. SymbolsGrow(e)
    <2>1. \A j \in 1..Len(stack) : stack[j].decl # 0 => symbols'[decls[stack[j].decl].sym].def = 0
      BY <1>2, <1>3, OpenUndefined
    <2>2. \A k \in (Len(symbols) + 1)..Len(symbols') : symbols'[k].scope \in 1..Len(up')
      BY <1>2, <1>6, InvFacts
    <2> QED BY <1>3, <2>1, <2>2 DEF SymbolsGrow
  <1>8. PICK h : h = Here
    OBVIOUS
  <1>9. decls' = Append(decls, e) /\ e.scope \in 1..Len(up)
    BY <1>2, <1>5, InvFacts
  <1>10. /\ Grows /\ Len(decls') \in Nat /\ Elements' = Elements \cup {h} /\ decls'[h] = e /\ h \in Nat
         /\ \A d \in Elements : decls'[d] = decls[d]
         /\ \A d \in 1..(h - 1) : d \in Elements
         /\ Around(Top.scope)' = Around(Top.scope)
    <2>1. Top.scope \in 0..Len(up) /\ Top' = Top
      BY <1>2, InvFacts DEF Top
    <2> QED BY <1>2, <1>7, <1>8, <1>9, <2>1, AppendFacts
  <1>11. ASSUME ~Shadowed(h)' PROVE Before(h)' = {}
    <2> SUFFICES ASSUME NEW f \in Before(h)' PROVE FALSE
      OBVIOUS
    <2>1. /\ f \in Elements /\ decls[f].written /\ decls[f].sym # 0
          /\ decls[f].name = n /\ decls[f].scope = Top.scope
      BY <1>5, <1>10 DEF Before, SameClass
    <2>2. LinkAt(f) /\ KeptAt(f)
      BY <2>1, InvFacts
    <2>3. decls[f].sym \in 1..Len(symbols) /\ f # 0
      BY <2>1, InRange, InvFacts
    <2>4. symbols[decls[f].sym].name = n /\ symbols[decls[f].sym].scope \in Around(Top.scope)
      BY <2>1, <2>2 DEF LinkAt
    <2>5. Types /\ Scopes /\ Refs /\ (\A k \in 1..Len(symbols) : SymbolAt(k))
      BY InvFacts
    <2>6. h \in Elements' /\ decls'[h].scope \in 0..Len(up)
      <3>1. Top.scope \in 0..Len(up)
        BY InvFacts
      <3> QED BY <1>5, <1>10, <3>1
    <2>7. \A k \in 1..Len(symbols) :
            symbols[k].name = n /\ symbols[k].scope \in Around(Top.scope)
            => symbols[k].scope = Top.scope
      <3>1. decls'[h].name = n /\ decls'[h].scope = Top.scope
        BY <1>5, <1>10
      <3> QED BY <1>10, <1>11, <2>5, <2>6, <3>1, NewAlone
    <2>8. Lookup(n) # 0
      BY <2>3, <2>4, LookupHere
    <2>9. /\ Lookup(n) \in 1..Len(symbols) /\ symbols[Lookup(n)].name = n
          /\ symbols[Lookup(n)].scope \in Around(Top.scope)
      BY <2>8, LookupHere
    <2>10. Lookup(n) = decls[f].sym
      BY <2>3, <2>4, <2>7, <2>9 DEF Inv, Unique
    <2>11. symbols[decls[f].sym].def = 0
      BY <1>2, <2>8, <2>10 DEF Defined, Known
    <2>12. ~Reading(f)
      BY <1>2, <2>1, <2>3, InvFacts DEF Valid, Reading
    <2>13. ASSUME Shadowed(f) PROVE FALSE
      <3>1. PICK g \in Elements : /\ Declares(g) /\ decls[g].name = n
                                  /\ Nested(Top.scope, decls[g].scope)
        BY <2>1, <2>13 DEF Shadowed
      <3>2. decls[g].scope = Top.scope
        <4>1. decls'[h].name = n /\ decls'[h].scope = Top.scope
          BY <1>5, <1>10
        <4>2. Top.scope \in Around(decls[g].scope) \/ decls[g].scope \in Around(Top.scope)
          BY <3>1 DEF Nested
        <4> QED BY <1>10, <1>11, <2>5, <2>6, <3>1, <4>1, <4>2, NewAlone
      <3> QED BY <3>1, <3>2 DEF Nested
    <2> QED BY <2>1, <2>2, <2>3, <2>11, <2>12, <2>13 DEF KeptAt
  <1>12. NewAt(h)
    <2>1. \A k \in (Len(symbols) + 1)..Len(symbols') : SymbolAt(k)'
      <3>1. h \in Elements' /\ decls'[h].kind = "decl" /\ decls'[h].sym = l
            /\ decls'[h].name = n /\ decls'[h].scope = Top.scope
        BY <1>5, <1>10
      <3> QED BY <1>6, <3>1 DEF SymbolAt
    <2>2. Unique'
      <3>1. \A j, k \in 1..Len(symbols') :
              symbols'[j].name = symbols'[k].name /\ symbols'[j].scope = symbols'[k].scope => j = k
        BY <1>2, EnteredFacts
      <3> QED BY <1>2, <3>1 DEF Unique
    <2>3. LinkAt(h)'
      <3>1. Announced(h)'
        BY <1>2, <1>3, <1>5, <1>10 DEF Announced, Around
      <3> QED BY <1>2, <1>3, <1>4, <1>5, <1>10, <3>1 DEF LinkAt, Around
    <2>4. KeptAt(h)'
      BY <1>5, <1>10 DEF KeptAt
    <2>5. UsesAt(h)'
      BY <1>5, <1>10 DEF UsesAt
    <2>6. ForwardAt(h)'
      BY <1>5, <1>10, <1>11 DEF ForwardAt
    <2> QED BY <2>1, <2>2, <2>3, <2>4, <2>5, <2>6 DEF NewAt
  <1> QED
    <2>1. e.sym \in 0..Len(symbols')
      BY <1>1, <1>2, <1>5, SymbolRange
    <2> QED BY <1>2, <1>5, <1>7, <1>8, <1>9, <1>12, <2>1, AppendInv

\* visitSgDerivedTypeStatement, without a definition.
LEMMA ForwardDerivedInv ==
  ASSUME Inv, NEW n \in Name, ForwardDerived(n)
  PROVE  Inv'
  <1>1. PICK l : l = IF Known(n) THEN 0 ELSE Len(symbols) + 1
    OBVIOUS
  <1>2. /\ lang = "Fortran" /\ lang # "C" /\ Here <= MaxDecls
        /\ decls' = Append(decls, NewDecl(n, FALSE, l, 0))
        /\ UNCHANGED <<lang, up, stack>> /\ symbols' = Entered(n)
    BY <1>1 DEF ForwardDerived, Valid
  <1>3. /\ symbols' \in Seq(Symbol) /\ Len(symbols') \in Nat /\ Len(symbols) \in Nat
        /\ \A k \in 1..Len(symbols) : symbols'[k] = symbols[k]
        /\ SymbolOf(n) \in 1..Len(symbols') /\ symbols'[SymbolOf(n)].name = n
        /\ symbols'[SymbolOf(n)].scope \in Around(Top.scope)
        /\ Len(symbols) <= Len(symbols') /\ Len(symbols') <= Len(symbols) + 1
    <2>1. symbols' = Entered(n) /\ Len(symbols) \in Nat
      BY <1>2, InvFacts
    <2> QED BY <2>1, EnteredFacts
  <1>4. l = 0 \/ (l = SymbolOf(n) /\ l # 0)
    <2>1. CASE Known(n)
      BY <1>1, <2>1
    <2>2. CASE ~Known(n)
      <3>1. l = Len(symbols) + 1 /\ SymbolOf(n) = Len(symbols) + 1
        BY <1>1, <2>2 DEF SymbolOf
      <3> QED BY <1>3, <3>1
    <2> QED BY <2>1, <2>2
  <1>5. l \in 0..MaxDecls /\ l \in 0..Len(symbols') /\ 0 \in 0..MaxDecls
    <2>1. SymbolOf(n) \in 0..MaxDecls
      BY <1>2, SymbolRange
    <2> QED BY <1>3, <1>4, <2>1, ClassAssumption
  <1>6. PICK e \in Decl : /\ e = NewDecl(n, FALSE, l, 0)
                          /\ e.kind = "decl" /\ e.name = n /\ e.scope = Top.scope /\ ~e.written
                          /\ e.inner = 0 /\ e.sym = l /\ e.def = 0
    <2> DEFINE f == NewDecl(n, FALSE, l, 0)
    <2>1. /\ f \in Decl /\ f.kind = "decl" /\ f.name = n /\ f.scope = Top.scope /\ ~f.written
          /\ f.inner = 0 /\ f.sym = l /\ f.def = 0
      <3>1. Top.scope \in 1..MaxScopes /\ 0 \in 0..MaxScopes /\ FALSE \in BOOLEAN
        BY InvFacts, ClassAssumption
      <3> QED BY <1>5, <3>1 DEF NewDecl, Decl
    <2> HIDE DEF f
    <2>2. \E e \in Decl : /\ e = f
                          /\ e.kind = "decl" /\ e.name = n /\ e.scope = Top.scope /\ ~e.written
                          /\ e.inner = 0 /\ e.sym = l /\ e.def = 0
      BY <2>1
    <2> QED BY <2>2 DEF f
  <1>7. ASSUME NEW k \in (Len(symbols) + 1)..Len(symbols')
        PROVE  /\ k = l /\ symbols'[k].name = n /\ symbols'[k].scope = Top.scope /\ symbols'[k].def = 0
    <2>1. symbols' = Entered(n)
      BY <1>2
    <2>2. /\ ~Known(n) /\ k = SymbolOf(n)
          /\ symbols'[k].name = n /\ symbols'[k].scope = Top.scope /\ symbols'[k].def = 0
      BY <2>1, EnteredFacts
    <2> QED BY <1>1, <2>2 DEF SymbolOf
  <1>8. SymbolsGrow(e)
    <2>1. \A k \in (Len(symbols) + 1)..Len(symbols') : symbols'[k].scope \in 1..Len(up')
      BY <1>2, <1>7, InvFacts
    <2> QED BY <1>2, <1>3, <2>1 DEF SymbolsGrow
  <1>9. PICK h : h = Here
    OBVIOUS
  <1>10. decls' = Append(decls, e) /\ e.scope \in 1..Len(up)
    BY <1>2, <1>6, InvFacts
  <1>11. /\ Elements' = Elements \cup {h} /\ decls'[h] = e
         /\ \A d \in Elements : decls'[d] = decls[d]
         /\ Around(Top.scope)' = Around(Top.scope)
    <2>1. Top.scope \in 0..Len(up) /\ Top' = Top
      BY <1>2, InvFacts DEF Top
    <2> QED BY <1>2, <1>8, <1>9, <1>10, <2>1, AppendFacts
  <1>12. NewAt(h)
    <2>1. \A k \in (Len(symbols) + 1)..Len(symbols') : SymbolAt(k)'
      <3>1. h \in Elements' /\ decls'[h].kind = "decl" /\ decls'[h].sym = l
            /\ decls'[h].name = n /\ decls'[h].scope = Top.scope
        BY <1>6, <1>11
      <3> QED BY <1>7, <3>1 DEF SymbolAt
    <2>2. Unique'
      <3>1. \A j, k \in 1..Len(symbols') :
              symbols'[j].name = symbols'[k].name /\ symbols'[j].scope = symbols'[k].scope => j = k
        BY <1>2, EnteredFacts
      <3>2. ASSUME NEW d \in Elements', NEW f \in Elements', decls'[d].written, decls'[f].written,
                   SameClass(d, f)'
            PROVE  d = f
        <4>1. d \in Elements /\ f \in Elements
          BY <1>6, <1>11, <3>2
        <4>2. SameClass(d, f) /\ decls[d].written /\ decls[f].written
          BY <1>11, <3>2, <4>1 DEF SameClass
        <4> QED BY <1>2, <4>1, <4>2 DEF Inv, Unique
      <3> QED BY <3>1, <3>2 DEF Unique
    <2>3. LinkAt(h)'
      <3>1. decls'[h].name = n /\ decls'[h].scope = Top.scope
        BY <1>6, <1>11
      <3>2. Around(decls[h].scope)' = Around(Top.scope)
        BY <1>2, <3>1 DEF Around
      <3>3. Announced(h)'
        BY <1>3, <3>1, <3>2 DEF Announced
      <3> QED BY <1>2, <1>3, <1>4, <1>6, <1>11, <3>1, <3>2, <3>3 DEF LinkAt
    <2>4. KeptAt(h)'
      BY <1>6, <1>11 DEF KeptAt
    <2>5. UsesAt(h)'
      BY <1>6, <1>11 DEF UsesAt
    <2>6. ForwardAt(h)'
      BY <1>2 DEF ForwardAt
    <2> QED BY <2>1, <2>2, <2>3, <2>4, <2>5, <2>6 DEF NewAt
  <1> QED BY <1>2, <1>5, <1>6, <1>8, <1>9, <1>10, <1>12, AppendInv

\* What a type refers to: the candidates, each of which is in the scope of the
\* symbol that is found.
LEMMA FoundScope ==
  ASSUME Inv, NEW s \in 1..Len(up), NEW d \in Elements, ~Shadowed(d),
         decls[d].scope \in Around(s),
         NEW k \in 1..Len(symbols), symbols[k].name = decls[d].name, symbols[k].scope \in Around(s)
  PROVE  symbols[k].scope = decls[d].scope
  <1>1. Types /\ Scopes /\ Refs /\ SymbolAt(k) /\ Numbered(up) /\ Len(up) \in Nat
    BY InvFacts
  <1>2. s \in 0..Len(up)
    BY <1>1
  <1>3. symbols[k].scope \in Around(decls[d].scope) \/ decls[d].scope \in Around(symbols[k].scope)
    BY <1>1, <1>2, AroundPath DEF Around
  <1> QED BY <1>1, <1>3, Alone

\* visitSgClassType.
LEMMA UseInv ==
  ASSUME Inv, NEW n \in Name, Use(n)
  PROVE  Inv'
  <1>1. PICK l : l = Lookup(n)
    OBVIOUS
  <1>2. PICK f : f = IF Known(n) THEN symbols[l].def ELSE 0
    OBVIOUS
  <1>3. /\ Here <= MaxDecls /\ symbols' = symbols
        /\ decls' = Append(decls, [NewDecl(n, FALSE, l, f) EXCEPT !.kind = "type"])
        /\ UNCHANGED <<lang, up, stack>>
    BY <1>1, <1>2 DEF Use
  <1>4. /\ l \in 0..MaxDecls /\ l \in 0..Len(symbols)
        /\ l # 0 => l \in 1..Len(symbols) /\ symbols[l].name = n /\ symbols[l].scope \in Around(Top.scope)
        /\ \A k \in 1..Len(symbols) : symbols[k].name = n /\ symbols[k].scope \in Around(Top.scope) => l # 0
        /\ \A d \in Elements : /\ decls[d].name = n /\ decls[d].sym # 0
                               /\ decls[d].scope \in Around(Top.scope)
                               => l # 0
    BY <1>1, LookupHere
  <1>5. f \in 0..MaxDecls
    <2>1. l # 0 => symbols[l].def \in 0..MaxDecls
      BY <1>1, LookupHere
    <2> QED BY <1>1, <1>2, <2>1, ClassAssumption DEF Known
  <1>6. PICK e \in Decl : /\ e = [NewDecl(n, FALSE, l, f) EXCEPT !.kind = "type"]
                          /\ e.kind = "type" /\ e.name = n /\ e.scope = Top.scope /\ ~e.written
                          /\ e.inner = 0 /\ e.sym = l
    <2> DEFINE g == [NewDecl(n, FALSE, l, f) EXCEPT !.kind = "type"]
    <2>1. /\ g \in Decl /\ g.kind = "type" /\ g.name = n /\ g.scope = Top.scope /\ ~g.written
          /\ g.inner = 0 /\ g.sym = l
      <3>1. Top.scope \in 1..MaxScopes /\ 0 \in 0..MaxScopes /\ FALSE \in BOOLEAN
        BY InvFacts, ClassAssumption
      <3> QED BY <1>4, <1>5, <3>1 DEF NewDecl, Decl
    <2> HIDE DEF g
    <2>2. \E e \in Decl : /\ e = g
                          /\ e.kind = "type" /\ e.name = n /\ e.scope = Top.scope /\ ~e.written
                          /\ e.inner = 0 /\ e.sym = l
      BY <2>1
    <2> QED BY <2>2 DEF g
  <1>7. SymbolsGrow(e)
    <2>1. symbols' \in Seq(Symbol) /\ Len(symbols') = Len(symbols) /\ Len(symbols) \in Nat
      BY <1>3, InvFacts DEF Types
    <2>2. lang = "C" => \A j \in 1..Len(stack) :
            stack[j].decl # 0 => symbols[decls[stack[j].decl].sym].def = 0
      BY OpenUndefined
    <2> QED BY <1>3, <2>1, <2>2 DEF SymbolsGrow
  <1>8. PICK h : h = Here
    OBVIOUS
  <1>9. decls' = Append(decls, e) /\ e.scope \in 1..Len(up)
    BY <1>3, <1>6, InvFacts
  <1>10. /\ Grows /\ Len(decls') \in Nat /\ Elements' = Elements \cup {h} /\ decls'[h] = e /\ h \in Nat
         /\ \A d \in Elements : decls'[d] = decls[d]
         /\ \A d \in 1..(h - 1) : d \in Elements
         /\ Around(Top.scope)' = Around(Top.scope)
    <2>1. Top.scope \in 0..Len(up) /\ Top' = Top
      BY <1>3, InvFacts DEF Top
    <2> QED BY <1>3, <1>7, <1>8, <1>9, <2>1, AppendFacts
  <1>11. decls'[h].name = n /\ decls'[h].scope = Top.scope /\ decls'[h].sym = l
         /\ Around(decls[h].scope)' = Around(Top.scope)
    <2>1. decls'[h].name = n /\ decls'[h].scope = Top.scope /\ decls'[h].sym = l
      BY <1>6, <1>10
    <2> QED BY <1>3, <2>1 DEF Around
  <1>12. ASSUME NEW d \in Candidates(h)'
         PROVE  /\ d \in Elements /\ decls[d].kind = "decl" /\ decls[d].name = n
                /\ decls[d].scope \in Around(Top.scope) /\ decls'[d].scope = decls[d].scope
                /\ ~Shadowed(d)' => ~Shadowed(d)
                /\ Inside(h, d)' <=> decls[d].inner # 0 /\ decls[d].inner \in Around(Top.scope)
    <2>1. d \in Elements
      BY <1>10 DEF Candidates
    <2>2. decls'[d] = decls[d]
      BY <1>10, <2>1
    <2>3. decls[d].kind = "decl" /\ decls[d].name = n /\ decls[d].scope \in Around(Top.scope)
      BY <1>11, <2>2 DEF Candidates
    <2>4. ~Shadowed(d)' => ~Shadowed(d)
      BY <1>10, <2>1, ShadowGrows, InvFacts
    <2>5. Inside(h, d)' <=> (decls[d].inner # 0 /\ decls[d].inner \in Around(Top.scope))
      BY <1>11, <2>2 DEF Inside
    <2> QED BY <2>1, <2>2, <2>3, <2>4, <2>5
  <1>13. UsesAt(h)'
    <2> SUFFICES ASSUME Candidates(h)' # {}, \A d \in Candidates(h)' : ~Shadowed(d)'
                 PROVE  /\ l # 0 <=> (lang = "C" \/ \E d \in Candidates(h)' : ~Inside(h, d)')
                        /\ l # 0 => \A d \in Candidates(h)' : symbols[l].scope = decls'[d].scope
      BY <1>3, <1>11 DEF UsesAt
    <2>1. ASSUME l # 0, lang # "C" PROVE \E d \in Candidates(h)' : ~Inside(h, d)'
      <3>1. PICK x \in Elements : /\ decls[x].kind = "decl" /\ decls[x].sym = l
                                  /\ decls[x].name = symbols[l].name
                                  /\ decls[x].scope = symbols[l].scope
        BY <1>4, <2>1, InvFacts DEF SymbolAt
      <3>2. x \in Candidates(h)'
        <4>1. x \in 1..(h - 1)
          BY <1>8, InvFacts DEF Elements, Here
        <4>2. decls'[x] = decls[x]
          BY <1>10
        <4> QED BY <1>4, <1>11, <2>1, <3>1, <4>1, <4>2 DEF Candidates
      <3>3. ASSUME decls[x].inner # 0, decls[x].inner \in Around(Top.scope) PROVE FALSE
        <4>1. PICK k \in 1..Len(stack) : stack[k].scope = decls[x].inner
          BY <3>3, InvFacts DEF Open
        <4>2. stack[k].decl = x /\ ClassAt(k) /\ x # 0
          BY <4>1, InvFacts DEF Classes, Elements
        <4>3. lang = "Fortran"
          BY <2>1, InvFacts DEF Types
        <4> QED BY <2>1, <3>1, <4>2, <4>3 DEF ClassAt
      <3> QED BY <1>12, <3>2, <3>3
    <2>2. ASSUME lang = "C" PROVE l # 0
      <3>1. PICK d \in Candidates(h)' : TRUE
        OBVIOUS
      <3>2. d \in Elements /\ decls[d].kind = "decl" /\ decls[d].name = n /\ decls[d].scope \in Around(Top.scope)
        BY <1>12
      <3>3. decls[d].sym # 0
        BY <2>2, <3>2, InvFacts DEF LinkAt
      <3> QED BY <1>4, <3>2, <3>3
    <2>3. ASSUME NEW d \in Candidates(h)', ~Inside(h, d)' PROVE l # 0
      <3>1. d \in Elements /\ decls[d].kind = "decl" /\ decls[d].name = n /\ decls[d].scope \in Around(Top.scope)
        BY <1>12
      <3>2. ~(decls[d].inner # 0 /\ decls[d].inner \in Around(Top.scope))
        BY <1>12, <2>3
      <3>3. ASSUME Reading(d) PROVE FALSE
        <4>1. PICK k \in 1..Len(stack) : stack[k].decl = d /\ ClassAt(k) /\ d # 0
          BY <3>1, <3>3, InvFacts
        <4>2. decls[d].inner = stack[k].scope
          BY <4>1 DEF ClassAt
        <4>3. stack[k].scope \in Around(Top.scope) /\ stack[k].scope # 0
          BY InvFacts DEF Open, Scopes
        <4> QED BY <3>2, <4>2, <4>3
      <3>4. Announced(d)
        BY <3>1, <3>3, InvFacts DEF LinkAt
      <3>5. PICK k \in 1..Len(symbols) :
              symbols[k].name = n /\ symbols[k].scope \in Around(decls[d].scope)
        BY <3>1, <3>4 DEF Announced
      <3>6. Around(decls[d].scope) \subseteq Around(Top.scope)
        <4>1. Numbered(up) /\ Top.scope \in 0..Len(up)
          BY InvFacts
        <4> QED BY <3>1, <4>1, AroundPath DEF Around
      <3> QED BY <1>4, <3>5, <3>6
    <2>4. ASSUME l # 0, NEW d \in Candidates(h)' PROVE symbols[l].scope = decls'[d].scope
      <3>1. /\ d \in Elements /\ decls[d].name = n /\ decls[d].scope \in Around(Top.scope)
            /\ decls'[d].scope = decls[d].scope /\ ~Shadowed(d)
        BY <1>12
      <3>2. Top.scope \in 1..Len(up)
        BY InvFacts
      <3> QED BY <1>4, <2>4, <3>1, <3>2, FoundScope
    <2> QED BY <2>1, <2>2, <2>3, <2>4
  <1>14. NewAt(h)
    <2>1. \A k \in (Len(symbols) + 1)..Len(symbols') : SymbolAt(k)'
      BY <1>3, InvFacts
    <2>2. Unique'
      <3>1. ASSUME NEW d \in Elements', NEW x \in Elements', decls'[d].written, decls'[x].written,
                   SameClass(d, x)', lang = "Fortran"
            PROVE  d = x
        <4>1. d \in Elements /\ x \in Elements
          BY <1>6, <1>10, <3>1
        <4>2. SameClass(d, x) /\ decls[d].written /\ decls[x].written
          BY <1>10, <3>1, <4>1 DEF SameClass
        <4> QED BY <3>1, <4>1, <4>2 DEF Inv, Unique
      <3>2. \A j, k \in 1..Len(symbols) :
              symbols[j].name = symbols[k].name /\ symbols[j].scope = symbols[k].scope => j = k
        BY DEF Inv, Unique
      <3> QED BY <1>3, <3>1, <3>2 DEF Unique
    <2>3. LinkAt(h)'
      <3>1. decls'[h].kind = "type"
        BY <1>6, <1>10
      <3> QED BY <1>3, <1>4, <1>11, <3>1 DEF LinkAt
    <2>4. KeptAt(h)'
      BY <1>6, <1>10 DEF KeptAt
    <2>5. ForwardAt(h)'
      BY <1>6, <1>10 DEF ForwardAt
    <2> QED BY <1>13, <2>1, <2>2, <2>3, <2>4, <2>5 DEF NewAt
  <1> QED BY <1>3, <1>4, <1>6, <1>7, <1>8, <1>9, <1>14, AppendInv

\* visitSgClassType, with the definition.
LEMMA UseDefiningInv ==
  ASSUME Inv, NEW n \in Name, UseDefining(n)
  PROVE  Inv'
  <1>1. PICK s : s = Lookup(n)
    OBVIOUS
  <1>2. PICK h : h = Here
    OBVIOUS
  <1>3. PICK t : t = IF s = 0 THEN Top.scope ELSE symbols[s].scope
    OBVIOUS
  <1>4. /\ lang = "C" /\ Valid(n, TRUE) /\ ~Defined(n) /\ Here <= MaxDecls
        /\ decls' = Append(decls, [NewDecl(n, TRUE, s, h) EXCEPT !.kind = "type", !.scope = t])
        /\ symbols' = IF s = 0 THEN symbols ELSE [symbols EXCEPT ![s].def = h]
        /\ UNCHANGED <<lang, up, stack>>
    BY <1>1, <1>2, <1>3 DEF UseDefining, Valid
  <1>5. /\ s \in 0..MaxDecls /\ s \in 0..Len(symbols)
        /\ s # 0 => /\ s \in 1..Len(symbols) /\ symbols[s].name = n
                    /\ symbols[s].scope \in 1..Len(up)
        /\ \A d \in Elements : /\ decls[d].name = n /\ decls[d].sym # 0
                               /\ decls[d].scope \in Around(Top.scope)
                               => s # 0
    BY <1>1, LookupHere
  <1>6. t \in 1..Len(up) /\ t \in 1..MaxScopes /\ t \in Around(t) /\ t \in 0..Len(up)
    <2>1. t \in 1..Len(up) /\ Len(up) \in Nat /\ Len(up) <= MaxScopes /\ Numbered(up)
      BY <1>3, <1>5, InvFacts, Parts
    <2> QED BY <2>1, AroundBelow, ClassAssumption DEF Around
  <1>7. h \in 0..MaxDecls /\ h # 0 /\ h = Len(decls) + 1
    BY <1>2, <1>4, InvFacts DEF Here
  <1>8. PICK e \in Decl : /\ e = [NewDecl(n, TRUE, s, h) EXCEPT !.kind = "type", !.scope = t]
                          /\ e.kind = "type" /\ e.name = n /\ e.scope = t /\ e.written
                          /\ e.inner = 0 /\ e.sym = s /\ e.def = h
    <2> DEFINE g == [NewDecl(n, TRUE, s, h) EXCEPT !.kind = "type", !.scope = t]
    <2>1. /\ g \in Decl /\ g.kind = "type" /\ g.name = n /\ g.scope = t /\ g.written
          /\ g.inner = 0 /\ g.sym = s /\ g.def = h
      <3>1. 0 \in 0..MaxScopes /\ TRUE \in BOOLEAN
        BY ClassAssumption
      <3> QED BY <1>5, <1>6, <1>7, <3>1 DEF NewDecl, Decl
    <2> HIDE DEF g
    <2>2. \E e \in Decl : /\ e = g
                          /\ e.kind = "type" /\ e.name = n /\ e.scope = t /\ e.written
                          /\ e.inner = 0 /\ e.sym = s /\ e.def = h
      BY <2>1
    <2> QED BY <2>2 DEF g
  <1>9. /\ symbols' \in Seq(Symbol) /\ Len(symbols') = Len(symbols) /\ Len(symbols) \in Nat
        /\ \A k \in 1..Len(symbols) : k # s => symbols'[k] = symbols[k]
        /\ s # 0 => /\ symbols'[s].name = symbols[s].name /\ symbols'[s].scope = symbols[s].scope
                    /\ symbols'[s].def = h /\ symbols[s].def = 0
    <2>1. symbols \in Seq(Symbol) /\ Len(symbols) \in Nat
      BY InvFacts DEF Types
    <2>2. CASE s = 0
      BY <1>4, <1>5, <2>1, <2>2
    <2>3. CASE s # 0
      <3>1. symbols' = [symbols EXCEPT ![s] = [symbols[s] EXCEPT !.def = h]]
        BY <1>4, <2>3
      <3>2. symbols[s] \in Symbol /\ s \in 1..Len(symbols)
        BY <1>5, <2>3, InvFacts
      <3>3. [symbols[s] EXCEPT !.def = h] \in Symbol
        BY <1>7, <3>2 DEF Symbol
      <3>4. symbols[s].def = 0
        BY <1>1, <1>4, <2>3 DEF Defined, Known
      <3>5. /\ [symbols[s] EXCEPT !.def = h].name = symbols[s].name
            /\ [symbols[s] EXCEPT !.def = h].scope = symbols[s].scope
            /\ [symbols[s] EXCEPT !.def = h].def = h
        BY <3>2 DEF Symbol
      <3>6. /\ symbols' \in Seq(Symbol) /\ Len(symbols') = Len(symbols)
            /\ \A k \in 1..Len(symbols) : k # s => symbols'[k] = symbols[k]
            /\ symbols'[s] = [symbols[s] EXCEPT !.def = h]
        BY <2>1, <3>1, <3>2, <3>3, ExceptSeq
      <3> QED BY <2>1, <3>4, <3>5, <3>6
    <2> QED BY <2>2, <2>3
  <1>10. \A k \in 1..Len(symbols) :
           symbols'[k].name = symbols[k].name /\ symbols'[k].scope = symbols[k].scope
    BY <1>5, <1>9
  <1>11. SymbolsGrow(e)
    <2>1. \A k \in 1..Len(symbols) :
            \/ symbols'[k].def = symbols[k].def
            \/ symbols[k].def = 0 /\ symbols'[k].def = h /\ k = s
      <3>1. ASSUME NEW k \in 1..Len(symbols), k = s
            PROVE  symbols[k].def = 0 /\ symbols'[k].def = h
        BY <1>9, <3>1
      <3> QED BY <1>9, <3>1
    <2>2. ASSUME NEW j \in 1..Len(stack), stack[j].decl # 0
          PROVE  symbols'[decls[stack[j].decl].sym].def = 0
      <3>1. /\ stack[j].decl \in Elements /\ decls[stack[j].decl].sym \in 1..Len(symbols)
            /\ symbols[decls[stack[j].decl].sym].def = 0
            /\ symbols[decls[stack[j].decl].sym].name = decls[stack[j].decl].name
        BY <1>4, <2>2, OpenUndefined
      <3>2. decls[stack[j].decl].name # n
        BY <1>4, <2>2 DEF Valid
      <3>3. decls[stack[j].decl].sym # s
        BY <1>5, <3>1, <3>2
      <3> QED BY <1>9, <3>1, <3>3
    <2>3. \A k \in (Len(symbols) + 1)..Len(symbols') : symbols'[k].scope \in 1..Len(up')
      BY <1>9
    <2>4. \A k \in 1..Len(symbols) :
            \/ symbols'[k].def = symbols[k].def
            \/ symbols[k].def = 0 /\ symbols'[k].def = Here /\ e.written /\ e.sym = k
      BY <1>2, <1>8, <2>1
    <2> QED BY <1>9, <1>10, <2>2, <2>3, <2>4 DEF SymbolsGrow
  <1>12. decls' = Append(decls, e)
    BY <1>4, <1>8
  <1>13. /\ Grows /\ Len(decls') \in Nat /\ Elements' = Elements \cup {h} /\ decls'[h] = e /\ h \in Nat
         /\ \A d \in Elements : decls'[d] = decls[d]
         /\ \A d \in 1..(h - 1) : d \in Elements
         /\ Around(t)' = Around(t)
    BY <1>2, <1>4, <1>6, <1>11, <1>12, AppendFacts
  <1>14. Around(decls[h].scope)' = Around(t) /\ decls'[h].scope = t /\ decls'[h].name = n
         /\ decls'[h].sym = s /\ decls'[h].kind = "type" /\ decls'[h].def = h
    <2>1. decls'[h].scope = t /\ decls'[h].name = n
          /\ decls'[h].sym = s /\ decls'[h].kind = "type" /\ decls'[h].def = h
      BY <1>8, <1>13
    <2> QED BY <1>4, <2>1 DEF Around
  <1>15. ASSUME NEW d \in Candidates(h)'
         PROVE  /\ d \in Elements /\ decls[d].kind = "decl" /\ decls[d].name = n
                /\ decls[d].scope \in Around(t) /\ decls'[d].scope = decls[d].scope
                /\ ~Shadowed(d)' => ~Shadowed(d)
                /\ s # 0
    <2>1. d \in Elements
      BY <1>13 DEF Candidates
    <2>2. decls'[d] = decls[d]
      BY <1>13, <2>1
    <2>3. decls[d].kind = "decl" /\ decls[d].name = n /\ decls[d].scope \in Around(t)
      BY <1>14, <2>2 DEF Candidates
    <2>4. ~Shadowed(d)' => ~Shadowed(d)
      BY <1>13, <2>1, ShadowGrows, InvFacts
    <2>5. decls[d].sym # 0
      BY <1>4, <2>1, <2>3, InvFacts DEF LinkAt
    <2>6. s # 0
      BY <1>3, <1>5, <2>1, <2>3, <2>5
    <2> QED BY <2>1, <2>2, <2>3, <2>4, <2>6
  <1>16. UsesAt(h)'
    <2> SUFFICES ASSUME Candidates(h)' # {}, \A d \in Candidates(h)' : ~Shadowed(d)'
                 PROVE  s # 0 /\ \A d \in Candidates(h)' : symbols'[s].scope = decls'[d].scope
      BY <1>4, <1>14 DEF UsesAt
    <2>1. s # 0
      BY <1>15
    <2>2. ASSUME NEW d \in Candidates(h)' PROVE symbols'[s].scope = decls'[d].scope
      <3>1. /\ d \in Elements /\ decls[d].name = n /\ decls[d].scope \in Around(t)
            /\ decls'[d].scope = decls[d].scope /\ ~Shadowed(d)
        BY <1>15
      <3>2. symbols[s].scope = t /\ symbols'[s].scope = symbols[s].scope
        BY <1>3, <1>9, <2>1
      <3> QED BY <1>5, <1>6, <2>1, <3>1, <3>2, FoundScope
    <2> QED BY <2>1, <2>2
  <1>17. NewAt(h)
    <2>1. \A k \in (Len(symbols) + 1)..Len(symbols') : SymbolAt(k)'
      BY <1>9
    <2>2. Unique'
      <3>1. \A j, k \in 1..Len(symbols) :
              symbols[j].name = symbols[k].name /\ symbols[j].scope = symbols[k].scope => j = k
        BY DEF Inv, Unique
      <3>2. \A j, k \in 1..Len(symbols') :
              symbols'[j].name = symbols'[k].name /\ symbols'[j].scope = symbols'[k].scope => j = k
        BY <1>9, <1>10, <3>1
      <3> QED BY <1>4, <3>2 DEF Unique
    <2>3. LinkAt(h)'
      <3>1. s # 0 => symbols'[s].name = n /\ symbols'[s].scope = t
        BY <1>3, <1>5, <1>9
      <3> QED BY <1>6, <1>14, <3>1 DEF LinkAt
    <2>4. KeptAt(h)'
      BY <1>9, <1>14 DEF KeptAt
    <2>5. ForwardAt(h)'
      BY <1>14 DEF ForwardAt
    <2> QED BY <1>16, <2>1, <2>2, <2>3, <2>4, <2>5 DEF NewAt
  <1> QED
    <2>1. e.sym \in 0..Len(symbols') /\ e.scope \in 1..Len(up)
      BY <1>5, <1>6, <1>8, <1>9
    <2> QED BY <1>2, <1>4, <1>8, <1>11, <1>12, <1>17, <2>1, AppendInv

-----------------------------------------------------------------------------
(* The SgClassDefinition child: its scope is pushed.                       *)

\* The symbol of a class that is opened: it has no definition; in Fortran
\* there is none yet.
SymbolOpened(e) ==
  /\ symbols' \in Seq(Symbol)
  /\ Len(symbols) <= Len(symbols') /\ Len(symbols') <= Len(symbols) + 1
  /\ \A k \in 1..Len(symbols) : symbols'[k] = symbols[k]
  /\ \A k \in (Len(symbols) + 1)..Len(symbols') :
       k = e.sym /\ symbols'[k].name = e.name /\ symbols'[k].scope = Top.scope /\ symbols'[k].def = 0
  /\ \A j, k \in 1..Len(symbols') :
       symbols'[j].name = symbols'[k].name /\ symbols'[j].scope = symbols'[k].scope => j = k
  /\ e.sym # 0 => /\ e.sym \in 1..Len(symbols')
                  /\ symbols'[e.sym].name = e.name /\ symbols'[e.sym].def = 0
                  /\ symbols'[e.sym].scope \in Around(Top.scope)
  /\ lang = "C" => e.sym # 0
  /\ lang = "Fortran" => symbols' = symbols /\ e.sym = 0 /\ ~InClass

LEMMA BeginInv ==
  ASSUME Inv, NEW h, h = Here, h <= MaxDecls, Push(h), lang' = lang,
         NEW e \in Decl, decls' = Append(decls, e), SymbolOpened(e),
         e.kind = "decl", e.scope = Top.scope, e.written, e.inner = Len(up) + 1, e.def = 0,
         \A k \in 1..Len(stack) : stack[k].decl # 0 => decls[stack[k].decl].name # e.name,
         \A d \in Elements : decls[d].written /\ decls[d].name = e.name => decls[d].scope # Top.scope
  PROVE  Inv'
  <1>1. /\ Types /\ Scopes /\ Refs /\ Classes
        /\ Len(decls) \in Nat /\ Len(symbols) \in Nat /\ Len(up) \in Nat \ {0}
        /\ Len(stack) \in Nat \ {0} /\ MaxDecls \in Nat
        /\ Top = stack[Len(stack)] /\ Len(stack) \in 1..Len(stack) /\ Top.scope \in 1..Len(up)
    BY InvFacts
  <1>2. h \in 0..MaxDecls /\ h # 0 /\ h = Len(decls) + 1
    BY <1>1 DEF Here
  <1>3. /\ up' \in Seq(0..MaxScopes) /\ Len(up') = Len(up) + 1 /\ Len(up') <= MaxScopes
        /\ \A s \in 1..Len(up) : up'[s] = up[s]
        /\ stack' \in Seq([scope: 1..MaxScopes, decl: 0..MaxDecls])
        /\ Len(stack') = Len(stack) + 1
        /\ \A k \in 1..Len(stack) : stack'[k] = stack[k]
        /\ stack'[Len(stack) + 1].scope = Len(up) + 1
        /\ stack'[Len(stack) + 1].decl = h
        /\ Scopes'
    BY <1>1, <1>2, PushFacts
  <1> DEFINE Shorter == /\ Len(up) \in Nat /\ \A s \in 1..Len(up) : s \in 1..Len(up')
                       /\ \A s \in 0..Len(up) : s \in 0..Len(up')
                       /\ Len(up') \in 1..Len(up') /\ Len(up') \in 0..Len(up')
                       /\ \A k \in 1..Len(stack) : k \in 1..Len(stack')
                       /\ Len(stack) + 1 \in 1..Len(stack')
  <1>shorter. Shorter
    <2>1. Len(up) \in Nat /\ Len(up') = Len(up) + 1
      BY <1>1, <1>3
    <2>2. Len(stack) \in Nat /\ Len(stack') = Len(stack) + 1
      BY <1>1, <1>3
    <2> QED BY <2>1, <2>2
  <1>4. Numbered(up)'
    <2>1. up' \in Seq(Nat)
      BY <1>3, ClassAssumption
    <2> QED BY <1>3, <2>1 DEF Scopes, Numbered
  <1>5. /\ symbols' \in Seq(Symbol) /\ Len(symbols') \in Nat
        /\ Len(symbols) <= Len(symbols') /\ Len(symbols') <= Len(symbols) + 1
        /\ \A k \in 1..Len(symbols) : symbols'[k] = symbols[k]
    BY DEF SymbolOpened
  <1>6. /\ Grows
        /\ decls' \in Seq(Decl) /\ Len(decls') = h /\ h \notin Elements
        /\ Elements' = Elements \cup {h} /\ decls'[h] = e
        /\ \A d \in Elements : decls'[d] = decls[d]
    <2>1. Len(up) <= Len(up')
      BY <1>1, <1>3
    <2> QED BY ZenonT(30), <1>1, <1>3, <1>4, <1>5, <2>1, NewElement
  <1>7. Types'
    BY <1>1, <1>3, <1>5, <1>6 DEF Types
  <1>8. Around(Top.scope) = ScopesAround(up')[Top.scope]
    <2>1. Top.scope \in 0..Len(up)
      BY <1>1
    <2> QED BY <1>6, <2>1 DEF Grows, Around
  <1>9. DefsGrow /\ Len(decls') \in Nat
    BY <1>2, <1>5, <1>6 DEF DefsGrow
  <1>10. \A d \in Elements : Reading(d) => Reading(d)'
    <2>1. \A k \in 1..Len(stack) : k \in 1..Len(stack') /\ stack'[k].decl = stack[k].decl
      BY <1>3, <1>shorter
    <2> QED BY <2>1 DEF Reading
  <1>11. Reading(h)'
    <2>1. Len(stack) + 1 \in 1..Len(stack')
      BY <1>1, <1>3
    <2> QED BY <1>3, <2>1 DEF Reading
  <1>12. \A d \in Elements' : LinkAt(d)' /\ KeptAt(d)' /\ UsesAt(d)' /\ ForwardAt(d)'
    <2>1. ASSUME NEW d \in Elements PROVE LinkAt(d)' /\ KeptAt(d)' /\ UsesAt(d)' /\ ForwardAt(d)'
      <3>1. LinkAt(d) /\ KeptAt(d) /\ UsesAt(d) /\ ForwardAt(d)
        BY InvFacts
      <3>2. decls'[d].sym = decls[d].sym /\ decls'[d].def = decls[d].def
        BY <1>6
      <3> QED BY <1>1, <1>5, <1>6, <1>9, <1>10, <3>1, <3>2, OldElement
    <2>2. LinkAt(h)'
      <3>1. /\ decls'[h].sym # 0 => symbols'[decls'[h].sym].name = decls'[h].name
            /\ decls'[h].sym # 0 => symbols'[decls'[h].sym].scope \in Around(Top.scope)
            /\ lang' = "C" => decls'[h].sym # 0
        BY <1>6 DEF SymbolOpened
      <3>2. Around(decls[h].scope)' = Around(Top.scope)
        BY <1>6, <1>8 DEF Around
      <3> QED BY <1>11, <3>1, <3>2 DEF LinkAt
    <2>3. KeptAt(h)'
      BY <1>11 DEF KeptAt
    <2>4. UsesAt(h)' /\ ForwardAt(h)'
      BY <1>6 DEF UsesAt, ForwardAt
    <2> QED BY <1>6, <2>1, <2>2, <2>3, <2>4
  <1>13. \A k \in 1..Len(symbols') : SymbolAt(k)'
    <2>1. \A k \in 1..Len(symbols) : SymbolAt(k)'
      BY <1>1, <1>6, <1>9, SymbolGrown, InvFacts
    <2>2. ASSUME NEW k \in (Len(symbols) + 1)..Len(symbols') PROVE SymbolAt(k)'
      <3>1. k = e.sym /\ symbols'[k].name = e.name /\ symbols'[k].scope = Top.scope /\ symbols'[k].def = 0
        BY DEF SymbolOpened
      <3> QED BY <1>6, <3>1 DEF SymbolAt
    <2>3. \A k \in 1..Len(symbols') : k \in 1..Len(symbols) \/ k \in (Len(symbols) + 1)..Len(symbols')
      BY <1>1, <1>5
    <2> QED BY <2>1, <2>2, <2>3
  <1>14. Unique'
    <2>1. \A j, k \in 1..Len(symbols') :
            symbols'[j].name = symbols'[k].name /\ symbols'[j].scope = symbols'[k].scope => j = k
      BY DEF SymbolOpened
    <2>2. ASSUME NEW d \in Elements', NEW x \in Elements', decls'[d].written, decls'[x].written,
                 SameClass(d, x)', lang = "Fortran"
          PROVE  d = x
      <3>1. decls'[d].name = decls'[x].name /\ decls'[d].scope = decls'[x].scope
        BY <2>2 DEF SameClass
      <3>2. CASE d \in Elements /\ x \in Elements
        <4>1. SameClass(d, x) /\ decls[d].written /\ decls[x].written
          BY <1>6, <2>2, <3>1, <3>2 DEF SameClass
        <4> QED BY <2>2, <3>2, <4>1 DEF Inv, Unique
      <3>5. \A y \in Elements :
              decls'[y].written /\ decls'[y].name = decls'[h].name => decls'[y].scope # decls'[h].scope
        BY <1>6
      <3>3. CASE d \in Elements /\ x = h
        BY <2>2, <3>1, <3>3, <3>5
      <3>4. CASE d = h /\ x \in Elements
        BY <2>2, <3>1, <3>4, <3>5
      <3> QED BY <1>6, <3>2, <3>3, <3>4
    <2> QED BY <2>1, <2>2 DEF Unique
  <1>15. Refs'
    <2>1. Len(decls') <= MaxDecls
      BY <1>6
    <2>2. ASSUME NEW d \in Elements'
          PROVE  /\ decls'[d].scope \in 1..Len(up') /\ decls'[d].inner \in 0..Len(up')
                 /\ decls'[d].sym \in 0..Len(symbols')
      <3>1. CASE d = h
        <4>1. decls'[d].scope = Top.scope /\ decls'[d].inner = Len(up') /\ decls'[d].sym = e.sym
          BY <1>3, <1>6, <3>1
        <4>2. e.sym \in 0..Len(symbols')
          <5>1. e.sym = 0 \/ e.sym \in 1..Len(symbols')
            BY DEF SymbolOpened
          <5> QED BY <1>5, <5>1
        <4>3. Top.scope \in 1..Len(up') /\ Len(up') \in 0..Len(up')
          BY <1>1, <1>shorter
        <4> QED BY <4>1, <4>2, <4>3
      <3>2. CASE d \in Elements
        <4>1. decls'[d] = decls[d] /\ decls[d].sym \in 0..Len(symbols)
              /\ decls[d].scope \in 1..Len(up) /\ decls[d].inner \in 0..Len(up)
          BY <1>1, <1>6, <3>2 DEF Refs
        <4>2. \A i \in 0..Len(symbols) : i \in 0..Len(symbols')
          BY <1>1, <1>5
        <4> QED BY <1>shorter, <4>1, <4>2
      <3> QED BY <1>6, <3>1, <3>2
    <2>3. ASSUME NEW k \in 1..Len(symbols') PROVE symbols'[k].scope \in 1..Len(up')
      <3>1. CASE k \in 1..Len(symbols)
        <4>1. symbols'[k].scope \in 1..Len(up)
          BY <1>1, <1>5, <3>1 DEF Refs
        <4> QED BY <1>shorter, <4>1
      <3>2. CASE k \in (Len(symbols) + 1)..Len(symbols')
        <4>1. symbols'[k].scope = Top.scope
          BY <3>2 DEF SymbolOpened
        <4> QED BY <1>1, <1>shorter, <4>1
      <3> QED BY <1>1, <1>5, <3>1, <3>2
    <2>4. Len(symbols') + (IF lang' = "Fortran" /\ InClass' THEN 1 ELSE 0) <= Len(decls')
      <3>1. Len(symbols) + (IF lang = "Fortran" /\ InClass THEN 1 ELSE 0) <= Len(decls)
        BY <1>1 DEF Refs
      <3>2. Len(symbols) <= Len(decls)
        BY <1>1, <3>1
      <3>3. CASE lang = "Fortran"
        BY <1>1, <1>2, <1>6, <3>2, <3>3 DEF SymbolOpened
      <3>4. CASE lang # "Fortran"
        BY <1>1, <1>2, <1>5, <1>6, <3>2, <3>4
      <3> QED BY <3>3, <3>4
    <2> QED BY <2>1, <2>2, <2>3, <2>4 DEF Refs
  <1>16. Classes'
    <2>1. \A k \in 1..Len(stack') : k \in 1..Len(stack) \/ k = Len(stack) + 1
      BY <1>1, <1>3
    <2>2. ASSUME NEW k \in 1..Len(stack), stack[k].decl # 0
          PROVE  /\ stack[k].decl \in Elements /\ lang # "Fortran"
                 /\ lang = "C" => symbols'[decls[stack[k].decl].sym].def = 0
      <3>1. ClassAt(k)
        BY <1>1 DEF Classes
      <3>2. stack[k].decl \in Elements
        BY <2>2, <3>1 DEF ClassAt
      <3>3. lang # "Fortran"
        BY <1>1, <2>2, <3>1 DEF ClassAt, SymbolOpened, InClass
      <3>4. lang = "C" => symbols'[decls[stack[k].decl].sym].def = 0
        BY <1>5, <2>2, OpenUndefined
      <3> QED BY <3>2, <3>3, <3>4
    <2>3. ASSUME NEW k \in 1..Len(stack) PROVE ClassAt(k)'
      <3>1. ClassAt(k)
        BY <1>1 DEF Classes
      <3>2. \A j \in 1..k : stack'[j] = stack[j]
        <4>1. \A j \in 1..k : j \in 1..Len(stack)
          BY <1>1
        <4> QED BY <1>3, <4>1
      <3> QED BY <1>1, <1>6, <1>9, <2>2, <3>1, <3>2, ClassOld
    <2>4. ASSUME NEW k, k = Len(stack) + 1 PROVE ClassAt(k)'
      <3>1. k > 1 /\ k - 1 = Len(stack) /\ k = Len(stack')
        BY <1>1, <1>3, <2>4
      <3>2. stack'[k].decl = h /\ stack'[k].scope = Len(up) + 1 /\ stack'[k - 1].scope = Top.scope
        BY <1>1, <1>3, <2>4, <3>1
      <3>3. h \in Elements' /\ decls'[h] = e
        BY <1>6
      <3>4. lang' = "Fortran" => e.sym = 0
        BY DEF SymbolOpened
      <3>5. lang' = "C" => symbols'[e.sym].def = 0
        BY DEF SymbolOpened
      <3> QED BY <3>1, <3>2, <3>3, <3>4, <3>5 DEF ClassAt
    <2>5. ASSUME NEW d \in Elements', NEW k \in 1..Len(stack'), decls'[d].inner = stack'[k].scope
          PROVE  stack'[k].decl = d
      <3>1. d # h => d \in Elements /\ decls'[d] = decls[d] /\ decls[d].inner \in 0..Len(up)
        <4>1. d # h => d \in Elements /\ decls'[d] = decls[d]
          BY <1>6
        <4> QED BY <1>1, <4>1 DEF Refs
      <3>2. CASE k = Len(stack) + 1
        <4>1. d = h
          <5>1. decls'[d].inner = Len(up) + 1 /\ Len(up) \in Nat
            BY <1>1, <1>3, <2>5, <3>2
          <5>2. Len(up) + 1 \notin 0..Len(up)
            BY <5>1
          <5> QED BY <3>1, <5>1, <5>2
        <4> QED BY <1>3, <3>2, <4>1
      <3>3. CASE k \in 1..Len(stack)
        <4>1. stack'[k] = stack[k] /\ stack[k].scope \in 1..Len(up)
          BY <1>1, <1>3, <3>3 DEF Scopes
        <4>2. d # h
          <5>1. decls'[h].inner = Len(up) + 1 /\ Len(up) + 1 \notin 1..Len(up)
            BY <1>1, <1>6
          <5> QED BY <2>5, <4>1, <5>1
        <4>3. d \in Elements /\ decls[d].inner = stack[k].scope
          BY <2>5, <3>1, <4>1, <4>2
        <4>4. stack[k].decl = d
          BY <1>1, <3>3, <4>3 DEF Classes
        <4> QED BY <4>1, <4>4
      <3> QED BY <2>1, <3>2, <3>3
    <2>6. ASSUME NEW j \in 1..Len(stack'), NEW k \in 1..Len(stack'),
                 stack'[j].decl # 0, stack'[k].decl # 0,
                 decls'[stack'[j].decl].name = decls'[stack'[k].decl].name
          PROVE  j = k
      <3>1. \A i \in 1..Len(stack) : stack'[i].decl # 0 =>
              /\ stack'[i].decl = stack[i].decl
              /\ decls'[stack'[i].decl].name = decls[stack[i].decl].name
              /\ decls'[stack'[i].decl].name # e.name
        <4> TAKE i \in 1..Len(stack)
        <4> HAVE stack'[i].decl # 0
        <4>1. stack'[i].decl = stack[i].decl
          BY <1>3
        <4>2. stack[i].decl \in Elements /\ decls[stack[i].decl].name # e.name
          BY <2>2, <4>1
        <4>3. decls'[stack[i].decl] = decls[stack[i].decl]
          BY <1>6, <4>2
        <4> QED BY <4>1, <4>2, <4>3
      <3>2. \A i : i = Len(stack) + 1 => decls'[stack'[i].decl].name = e.name
        BY <1>3, <1>6
      <3>3. CASE j \in 1..Len(stack) /\ k \in 1..Len(stack)
        <4>1. /\ stack[j].decl # 0 /\ stack[k].decl # 0
              /\ decls[stack[j].decl].name = decls[stack[k].decl].name
          BY <2>6, <3>1, <3>3
        <4> QED BY <1>1, <3>3, <4>1 DEF Classes
      <3>4. CASE j \in 1..Len(stack) /\ k = Len(stack) + 1
        <4>1. stack'[j].decl # 0 /\ decls'[stack'[j].decl].name = decls'[stack'[k].decl].name
          BY <2>6
        <4>2. decls'[stack'[k].decl].name = e.name
          BY <3>2, <3>4
        <4> QED BY <3>1, <3>4, <4>1, <4>2
      <3>5. CASE j = Len(stack) + 1 /\ k \in 1..Len(stack)
        <4>1. stack'[k].decl # 0 /\ decls'[stack'[j].decl].name = decls'[stack'[k].decl].name
          BY <2>6
        <4>2. decls'[stack'[j].decl].name = e.name
          BY <3>2, <3>5
        <4> QED BY <3>1, <3>5, <4>1, <4>2
      <3>6. CASE j = Len(stack) + 1 /\ k = Len(stack) + 1
        BY <3>6
      <3> QED BY <2>1, <3>3, <3>4, <3>5, <3>6
    <2>7. \A k \in 1..Len(stack') : ClassAt(k)'
      BY <2>1, <2>3, <2>4
    <2>8. \A d \in Elements', k \in 1..Len(stack') :
            decls'[d].inner = stack'[k].scope => stack'[k].decl = d
      BY <2>5
    <2>9. \A j, k \in 1..Len(stack') :
            stack'[j].decl # 0 /\ stack'[k].decl # 0
              /\ decls'[stack'[j].decl].name = decls'[stack'[k].decl].name => j = k
      BY <2>6
    <2> QED BY <2>7, <2>8, <2>9 DEF Classes
  <1> QED BY <1>3, <1>7, <1>12, <1>13, <1>14, <1>15, <1>16 DEF Inv

\* visitSgClassDeclaration, with a definition.
LEMMA BeginClassInv ==
  ASSUME Inv, NEW n \in Name, BeginClass(n)
  PROVE  Inv'
  <1>1. PICK l : l = SymbolOf(n)
    OBVIOUS
  <1>2. PICK h : h = Here
    OBVIOUS
  <1>3. /\ lang = "C" /\ Valid(n, TRUE) /\ ~Defined(n) /\ Here <= MaxDecls /\ Push(h)
        /\ decls' = Append(decls, [NewDecl(n, TRUE, l, 0) EXCEPT !.inner = Len(up) + 1])
        /\ lang' = lang /\ symbols' = Entered(n)
    BY <1>1, <1>2 DEF BeginClass, Valid
  <1>4. l \in 0..MaxDecls /\ l # 0 /\ 0 \in 0..MaxDecls /\ h <= MaxDecls
    BY <1>1, <1>2, <1>3, SymbolRange, ClassAssumption
  <1>5. Len(up) + 1 \in 0..MaxScopes
    BY <1>3, InvFacts, ClassAssumption DEF Push
  <1>6. PICK e \in Decl : /\ e = [NewDecl(n, TRUE, l, 0) EXCEPT !.inner = Len(up) + 1]
                          /\ e.kind = "decl" /\ e.name = n /\ e.scope = Top.scope /\ e.written
                          /\ e.inner = Len(up) + 1 /\ e.sym = l /\ e.def = 0
    <2> DEFINE g == [NewDecl(n, TRUE, l, 0) EXCEPT !.inner = Len(up) + 1]
    <2>1. /\ g \in Decl /\ g.kind = "decl" /\ g.name = n /\ g.scope = Top.scope /\ g.written
          /\ g.inner = Len(up) + 1 /\ g.sym = l /\ g.def = 0
      <3>1. Top.scope \in 1..MaxScopes /\ TRUE \in BOOLEAN
        BY InvFacts
      <3> QED BY <1>4, <1>5, <3>1 DEF NewDecl, Decl
    <2> HIDE DEF g
    <2>2. \E e \in Decl : /\ e = g
                          /\ e.kind = "decl" /\ e.name = n /\ e.scope = Top.scope /\ e.written
                          /\ e.inner = Len(up) + 1 /\ e.sym = l /\ e.def = 0
      BY <2>1
    <2> QED BY <2>2 DEF g
  <1>7. SymbolOpened(e)
    <2>1. symbols' = Entered(n)
      BY <1>3
    <2>2. /\ symbols' \in Seq(Symbol)
          /\ Len(symbols) <= Len(symbols') /\ Len(symbols') <= Len(symbols) + 1
          /\ \A k \in 1..Len(symbols) : symbols'[k] = symbols[k]
          /\ \A k \in (Len(symbols) + 1)..Len(symbols') :
               /\ ~Known(n) /\ k = SymbolOf(n)
               /\ symbols'[k].name = n /\ symbols'[k].scope = Top.scope /\ symbols'[k].def = 0
      BY <2>1, EnteredFacts
    <2>3. \A j, k \in 1..Len(symbols') :
            symbols'[j].name = symbols'[k].name /\ symbols'[j].scope = symbols'[k].scope => j = k
      BY <2>1, EnteredFacts
    <2>4. l \in 1..Len(symbols') /\ symbols'[l].name = n /\ symbols'[l].scope \in Around(Top.scope)
      BY <1>1, <2>1, EnteredFacts
    <2>5. symbols'[l].def = 0
      <3>1. CASE Known(n)
        <4>1. l = Lookup(n) /\ l \in 1..Len(symbols)
          BY <1>1, <3>1, LookupHere DEF SymbolOf, Known
        <4> QED BY <1>3, <2>2, <3>1, <4>1 DEF Defined
      <3>2. CASE ~Known(n)
        <4>1. l = Len(symbols) + 1 /\ Len(symbols) \in Nat /\ Len(symbols') \in Nat
          BY <1>1, <2>1, <3>2, EnteredFacts, InvFacts DEF SymbolOf
        <4>2. l \in (Len(symbols) + 1)..Len(symbols')
          BY <2>4, <4>1
        <4> QED BY <2>2, <4>2
      <3> QED BY <3>1, <3>2
    <2>6. lang # "Fortran"
      BY <1>3
    <2>7. \A k \in (Len(symbols) + 1)..Len(symbols') :
            k = e.sym /\ symbols'[k].name = e.name /\ symbols'[k].scope = Top.scope /\ symbols'[k].def = 0
      BY <1>1, <1>6, <2>2
    <2> QED BY <1>4, <1>6, <2>2, <2>3, <2>4, <2>5, <2>6, <2>7 DEF SymbolOpened
  <1>8. \A k \in 1..Len(stack) : stack[k].decl # 0 => decls[stack[k].decl].name # e.name
    BY <1>3, <1>6 DEF Valid
  <1>9. \A d \in Elements : decls[d].written /\ decls[d].name = e.name => decls[d].scope # Top.scope
    BY <1>3, <1>6 DEF Valid, Elements
  <1>10. decls' = Append(decls, e)
    BY <1>3, <1>6
  <1> QED BY <1>2, <1>3, <1>4, <1>6, <1>7, <1>8, <1>9, <1>10, BeginInv

\* visitSgDerivedTypeStatement, with a definition.
LEMMA BeginDerivedInv ==
  ASSUME Inv, NEW n \in Name, BeginDerived(n)
  PROVE  Inv'
  <1>1. PICK h : h = Here
    OBVIOUS
  <1>2. /\ lang = "Fortran" /\ Valid(n, TRUE) /\ ~InClass /\ h <= MaxDecls /\ Push(h)
        /\ decls' = Append(decls, [NewDecl(n, TRUE, 0, 0) EXCEPT !.inner = Len(up) + 1])
        /\ lang' = lang /\ symbols' = symbols
    BY <1>1 DEF BeginDerived, Valid
  <1>3. Len(up) + 1 \in 0..MaxScopes
    BY <1>2, InvFacts, ClassAssumption DEF Push
  <1>4. PICK e \in Decl : /\ e = [NewDecl(n, TRUE, 0, 0) EXCEPT !.inner = Len(up) + 1]
                          /\ e.kind = "decl" /\ e.name = n /\ e.scope = Top.scope /\ e.written
                          /\ e.inner = Len(up) + 1 /\ e.sym = 0 /\ e.def = 0
    <2> DEFINE g == [NewDecl(n, TRUE, 0, 0) EXCEPT !.inner = Len(up) + 1]
    <2>1. /\ g \in Decl /\ g.kind = "decl" /\ g.name = n /\ g.scope = Top.scope /\ g.written
          /\ g.inner = Len(up) + 1 /\ g.sym = 0 /\ g.def = 0
      <3>1. Top.scope \in 1..MaxScopes /\ TRUE \in BOOLEAN /\ 0 \in 0..MaxDecls
        BY InvFacts
      <3> QED BY <1>3, <3>1 DEF NewDecl, Decl
    <2> HIDE DEF g
    <2>2. \E e \in Decl : /\ e = g
                          /\ e.kind = "decl" /\ e.name = n /\ e.scope = Top.scope /\ e.written
                          /\ e.inner = Len(up) + 1 /\ e.sym = 0 /\ e.def = 0
      BY <2>1
    <2> QED BY <2>2 DEF g
  <1>5. SymbolOpened(e)
    <2>1. symbols' = symbols /\ symbols \in Seq(Symbol) /\ Len(symbols) \in Nat
      BY <1>2, InvFacts DEF Types
    <2>2. \A j, k \in 1..Len(symbols) :
            symbols[j].name = symbols[k].name /\ symbols[j].scope = symbols[k].scope => j = k
      BY DEF Inv, Unique
    <2>3. lang # "C" /\ lang = "Fortran" /\ ~InClass /\ e.sym = 0
      BY <1>2, <1>4
    <2> QED BY <2>1, <2>2, <2>3 DEF SymbolOpened
  <1>6. \A k \in 1..Len(stack) : stack[k].decl # 0 => decls[stack[k].decl].name # e.name
    BY <1>2, <1>4 DEF Valid
  <1>7. \A d \in Elements : decls[d].written /\ decls[d].name = e.name => decls[d].scope # Top.scope
    BY <1>2, <1>4 DEF Valid, Elements
  <1>8. decls' = Append(decls, e)
    BY <1>2, <1>4
  <1> QED BY <1>1, <1>2, <1>4, <1>5, <1>6, <1>7, <1>8, BeginInv

-----------------------------------------------------------------------------
(* Blocks.                                                                 *)

LEMMA BlockInv ==
  ASSUME Inv, UNCHANGED <<lang, symbols, decls>>, Types', Scopes', Len(up) <= Len(up'),
         \A s \in 0..Len(up) : ScopesAround(up')[s] = ScopesAround(up)[s],
         Classes', \A d \in Elements : Reading(d)' <=> Reading(d),
         lang = "Fortran" /\ InClass' => InClass
  PROVE  Inv'
  <1>1. /\ Types /\ Scopes /\ Refs /\ Classes /\ Len(decls) \in Nat /\ Len(symbols) \in Nat
        /\ Len(up) \in Nat /\ Len(up') \in Nat
    BY InvFacts DEF Types
  <1>2. Grows /\ DefsGrow /\ Elements' = Elements
    BY <1>1 DEF Grows, DefsGrow, Elements
  <1>3. \A d \in Elements' : LinkAt(d)' /\ KeptAt(d)' /\ UsesAt(d)' /\ ForwardAt(d)'
    <2>1. ASSUME NEW d \in Elements PROVE LinkAt(d)' /\ KeptAt(d)' /\ UsesAt(d)' /\ ForwardAt(d)'
      <3>1. LinkAt(d) /\ KeptAt(d) /\ UsesAt(d) /\ ForwardAt(d)
        BY InvFacts
      <3>2. Len(decls') \in Nat /\ Len(symbols') \in Nat
        BY <1>1
      <3> QED BY <1>1, <1>2, <3>1, <3>2, OldElement
    <2> QED BY <1>2, <2>1
  <1>4. \A k \in 1..Len(symbols') : SymbolAt(k)'
    <2>1. \A k \in 1..Len(symbols) : SymbolAt(k)
      BY InvFacts
    <2>2. Len(decls') \in Nat
      BY <1>1
    <2>3. \A k \in 1..Len(symbols) : SymbolAt(k)'
      BY <1>1, <1>2, <2>1, <2>2, SymbolGrown
    <2> QED BY <2>3
  <1>5. Unique'
    <2>1. Unique
      BY DEF Inv
    <2> QED BY <2>1 DEF Unique, Elements, SameClass
  <1>6. Refs'
    <2>1. \A s \in 1..Len(up) : s \in 1..Len(up')
      BY <1>1
    <2>2. \A s \in 0..Len(up) : s \in 0..Len(up')
      BY <1>1
    <2>3. Len(symbols) + (IF lang = "Fortran" /\ InClass THEN 1 ELSE 0) <= Len(decls)
      BY <1>1 DEF Refs
    <2>4. Len(symbols') + (IF lang' = "Fortran" /\ InClass' THEN 1 ELSE 0) <= Len(decls')
      <3>1. CASE lang = "Fortran" /\ InClass
        BY <1>1, <2>3, <3>1
      <3>2. CASE ~(lang = "Fortran" /\ InClass)
        <4>1. ~(lang' = "Fortran" /\ InClass')
          BY <3>2
        <4> QED BY <1>1, <2>3, <3>2, <4>1
      <3> QED BY <3>1, <3>2
    <2>5. Len(decls') <= MaxDecls
      BY <1>1 DEF Refs
    <2>6. \A d \in Elements' : /\ decls'[d].scope \in 1..Len(up')
                               /\ decls'[d].inner \in 0..Len(up')
                               /\ decls'[d].sym \in 0..Len(symbols')
      BY <1>1, <1>2, <2>1, <2>2 DEF Refs
    <2>7. \A k \in 1..Len(symbols') : symbols'[k].scope \in 1..Len(up')
      BY <1>1, <2>1 DEF Refs
    <2> QED BY <2>4, <2>5, <2>6, <2>7 DEF Refs
  <1> QED BY <1>3, <1>4, <1>5, <1>6 DEF Inv

LEMMA EnterBlockInv ==
  ASSUME Inv, EnterBlock
  PROVE  Inv'
  <1>1. /\ Types /\ Scopes /\ Refs /\ Classes
        /\ Len(decls) \in Nat /\ Len(symbols) \in Nat /\ Len(up) \in Nat \ {0}
        /\ Len(stack) \in Nat \ {0} /\ MaxDecls \in Nat
        /\ Top = stack[Len(stack)] /\ Len(stack) \in 1..Len(stack)
    BY InvFacts
  <1>2. ~InClass /\ Push(0) /\ UNCHANGED <<lang, symbols, decls>>
    BY DEF EnterBlock
  <1>3. /\ up' \in Seq(0..MaxScopes) /\ Len(up') = Len(up) + 1
        /\ \A s \in 1..Len(up) : up'[s] = up[s]
        /\ stack' \in Seq([scope: 1..MaxScopes, decl: 0..MaxDecls])
        /\ Len(stack') = Len(stack) + 1
        /\ \A k \in 1..Len(stack) : stack'[k] = stack[k]
        /\ stack'[Len(stack) + 1].scope = Len(up) + 1
        /\ stack'[Len(stack) + 1].decl = 0
        /\ Scopes'
    <2>1. 0 \in 0..MaxDecls
      BY <1>1
    <2> QED BY <1>1, <1>2, <2>1, PushFacts
  <1>4. Types' /\ Len(up) <= Len(up')
    BY <1>1, <1>2, <1>3 DEF Types
  <1>5. \A s \in 0..Len(up) : ScopesAround(up')[s] = ScopesAround(up)[s]
    <2>1. up' \in Seq(Nat)
      BY <1>3, ClassAssumption
    <2>2. PICK v : v = up'
      OBVIOUS
    <2>3. Numbered(v) /\ Len(up) <= Len(v) /\ \A s \in 1..Len(up) : v[s] = up[s]
      BY <1>3, <1>4, <2>1, <2>2 DEF Scopes, Numbered
    <2>4. Numbered(up)
      BY InvFacts
    <2> QED BY <2>2, <2>3, <2>4, AroundStays
  <1>6. Len(stack) + 1 \in 1..Len(stack') /\ \A k \in 1..Len(stack) : k \in 1..Len(stack')
    <2>1. Len(stack) \in Nat /\ Len(stack') = Len(stack) + 1
      BY <1>1, <1>3
    <2> QED BY <2>1
  <1>7. \A k \in 1..Len(stack') : k \in 1..Len(stack) \/ k = Len(stack) + 1
    <2>1. Len(stack) \in Nat /\ Len(stack') = Len(stack) + 1
      BY <1>1, <1>3
    <2> QED BY <2>1
  <1>8. \A d \in Elements : Reading(d)' <=> Reading(d)
    <2> TAKE d \in Elements
    <2>1. d # 0
      BY <1>1 DEF Elements
    <2>2. ASSUME NEW k \in 1..Len(stack), stack[k].decl = d PROVE Reading(d)'
      BY <1>3, <1>6, <2>2 DEF Reading
    <2>3. ASSUME NEW k \in 1..Len(stack'), stack'[k].decl = d PROVE Reading(d)
      <3>1. k \in 1..Len(stack)
        BY <1>3, <1>7, <2>1, <2>3
      <3> QED BY <1>3, <2>3, <3>1 DEF Reading
    <2> QED BY <2>2, <2>3 DEF Reading
  <1>9. Grows /\ Len(decls') \in Nat
    BY <1>1, <1>2, <1>4, <1>5 DEF Grows
  <1>10. Classes'
    <2>1. ASSUME NEW k \in 1..Len(stack) PROVE ClassAt(k)'
      <3>1. ClassAt(k)
        BY <1>1 DEF Classes
      <3>2. \A j \in 1..k : stack'[j] = stack[j]
        <4>1. \A j \in 1..k : j \in 1..Len(stack)
          BY <1>1
        <4> QED BY <1>3, <4>1
      <3>3. ASSUME stack[k].decl # 0, lang = "Fortran" PROVE FALSE
        BY <1>1, <1>2, <3>1, <3>3 DEF ClassAt, InClass
      <3>4. stack[k].decl # 0 /\ lang = "C" => symbols'[decls[stack[k].decl].sym].def = 0
        BY <1>2, OpenUndefined
      <3> QED BY <1>1, <1>9, <3>1, <3>2, <3>3, <3>4, ClassOld
    <2>2. ASSUME NEW k, k = Len(stack) + 1 PROVE ClassAt(k)'
      BY <1>3, <2>2 DEF ClassAt
    <2>3. \A k \in 1..Len(stack') : ClassAt(k)'
      BY <1>7, <2>1, <2>2
    <2>4. ASSUME NEW d \in Elements', NEW k \in 1..Len(stack'), decls'[d].inner = stack'[k].scope
          PROVE  stack'[k].decl = d
      <3>1. d \in Elements /\ decls'[d] = decls[d]
        BY <1>2 DEF Elements
      <3>2. decls[d].inner \in 0..Len(up)
        BY <1>1, <3>1 DEF Refs
      <3>3. Len(up) + 1 \notin 0..Len(up)
        BY <1>1
      <3>4. k \in 1..Len(stack)
        BY <1>3, <1>7, <2>4, <3>1, <3>2, <3>3
      <3>5. stack'[k] = stack[k]
        BY <1>3, <3>4
      <3>6. decls[d].inner = stack[k].scope
        BY <2>4, <3>1, <3>5
      <3>7. stack[k].decl = d
        BY <1>1, <3>1, <3>4, <3>6 DEF Classes
      <3> QED BY <3>5, <3>7
    <2>5. ASSUME NEW j \in 1..Len(stack'), NEW k \in 1..Len(stack'),
                 stack'[j].decl # 0, stack'[k].decl # 0,
                 decls'[stack'[j].decl].name = decls'[stack'[k].decl].name
          PROVE  j = k
      <3>1. j \in 1..Len(stack) /\ k \in 1..Len(stack)
        BY <1>3, <1>7, <2>5
      <3>2. stack'[j] = stack[j] /\ stack'[k] = stack[k] /\ decls' = decls
        BY <1>2, <1>3, <3>1
      <3>3. /\ stack[j].decl # 0 /\ stack[k].decl # 0
            /\ decls[stack[j].decl].name = decls[stack[k].decl].name
        BY <2>5, <3>2
      <3> QED BY <1>1, <3>1, <3>3 DEF Classes
    <2>6. \A d \in Elements', k \in 1..Len(stack') :
            decls'[d].inner = stack'[k].scope => stack'[k].decl = d
      BY <2>4
    <2>7. \A j, k \in 1..Len(stack') :
            stack'[j].decl # 0 /\ stack'[k].decl # 0
              /\ decls'[stack'[j].decl].name = decls'[stack'[k].decl].name => j = k
      BY <2>5
    <2> QED BY <2>3, <2>6, <2>7 DEF Classes
  <1>11. ~InClass'
    BY <1>3 DEF InClass, Top
  <1> QED BY <1>2, <1>3, <1>4, <1>5, <1>8, <1>10, <1>11, BlockInv

\* The classes that stay open when a scope is left.
LEMMA PopClasses ==
  ASSUME Inv, Len(stack) > 1, stack' = Pop, up' = up, Grows, Elements' = Elements,
         Len(decls') \in Nat,
         \A k \in 1..(Len(stack) - 1) :
           stack[k].decl # 0 /\ lang = "C" => symbols'[decls[stack[k].decl].sym].def = 0
  PROVE  /\ stack' \in Seq([scope: 1..MaxScopes, decl: 0..MaxDecls])
         /\ Scopes' /\ Classes'
         /\ lang = "Fortran" => ~InClass'
         /\ \A d \in Elements : Reading(d) /\ d # Top.decl => Reading(d)'
         /\ \A d \in Elements : Reading(d)' => Reading(d) /\ d # Top.decl
  <1> DEFINE m == Len(stack) - 1
  <1>1. /\ Types /\ Scopes /\ Refs /\ Classes
        /\ Len(stack) \in Nat \ {0} /\ Top = stack[Len(stack)] /\ Len(stack) \in 1..Len(stack)
    BY InvFacts
  <1>2. m \in Nat \ {0} /\ m < Len(stack) /\ \A k \in 1..Len(stack) : k \in 1..m \/ k = Len(stack)
    BY <1>1
  <1>3. /\ stack' \in Seq([scope: 1..MaxScopes, decl: 0..MaxDecls])
        /\ Len(stack') = m
        /\ \A k \in 1..m : k \in 1..Len(stack) /\ stack'[k] = stack[k] /\ k # Len(stack)
        /\ Scopes'
    <2>1. \A k \in 1..m : k # Len(stack)
      BY <1>1
    <2> QED BY <1>1, <2>1, PopFacts
  <1> HIDE DEF m
  <1>4. \A k \in 1..m : stack[k].decl # 0 => stack[k].decl # Top.decl /\ lang # "Fortran"
    <2> TAKE k \in 1..m
    <2> HAVE stack[k].decl # 0
    <2>1. k \in 1..Len(stack) /\ k # Len(stack)
      BY <1>3
    <2>2. ASSUME stack[k].decl = Top.decl PROVE FALSE
      BY <1>1, <2>1, <2>2 DEF Classes
    <2>3. lang # "Fortran"
      BY <1>1, <2>1 DEF Classes, ClassAt
    <2> QED BY <2>2, <2>3
  <1>5. \A d \in Elements : d # 0
    BY InvFacts DEF Elements
  <1>6. \A d \in Elements : Reading(d) /\ d # Top.decl => Reading(d)'
    <2> TAKE d \in Elements
    <2> HAVE Reading(d) /\ d # Top.decl
    <2>1. PICK k \in 1..Len(stack) : stack[k].decl = d
      BY DEF Reading
    <2>2. k \in 1..m
      BY <1>1, <1>2, <2>1
    <2> QED BY <1>3, <2>1, <2>2 DEF Reading
  <1>7. \A d \in Elements : Reading(d)' => Reading(d) /\ d # Top.decl
    <2> TAKE d \in Elements
    <2> HAVE Reading(d)'
    <2>1. PICK k \in 1..m : stack'[k].decl = d
      BY <1>3 DEF Reading
    <2>2. stack[k].decl = d /\ k \in 1..Len(stack)
      BY <1>3, <2>1
    <2>3. d # Top.decl
      BY <1>4, <1>5, <2>2
    <2> QED BY <2>2, <2>3 DEF Reading
  <1>8. ASSUME lang = "Fortran" PROVE ~InClass'
    <2>1. m \in 1..m
      BY <1>2
    <2>2. stack'[m].decl = 0
      BY <1>3, <1>4, <1>8, <2>1
    <2> QED BY <1>3, <2>2 DEF InClass, Top
  <1>9. Classes'
    <2>1. ASSUME NEW k \in 1..m PROVE ClassAt(k)'
      <3>1. k \in 1..Len(stack) /\ ClassAt(k)
        BY <1>1, <1>3 DEF Classes
      <3>2. \A j \in 1..k : stack'[j] = stack[j]
        <4>1. \A j \in 1..k : j \in 1..m
          BY <1>2
        <4> QED BY <1>3, <4>1
      <3>3. stack[k].decl # 0 => lang # "Fortran"
        BY <1>4
      <3>4. stack[k].decl # 0 /\ lang = "C" => symbols'[decls[stack[k].decl].sym].def = 0
        BY DEF m
      <3> QED BY <1>1, <3>1, <3>2, <3>3, <3>4, ClassOld
    <2>2. ASSUME NEW d \in Elements', NEW k \in 1..Len(stack'), decls'[d].inner = stack'[k].scope
          PROVE  stack'[k].decl = d
      <3>1. d \in Elements /\ decls'[d].inner = decls[d].inner
        BY DEF Grows
      <3>2. k \in 1..Len(stack) /\ stack'[k] = stack[k]
        BY <1>3
      <3>3. decls[d].inner = stack[k].scope
        BY <2>2, <3>1, <3>2
      <3>4. stack[k].decl = d
        BY <1>1, <3>1, <3>2, <3>3 DEF Classes
      <3> QED BY <3>2, <3>4
    <2>3. ASSUME NEW j \in 1..Len(stack'), NEW k \in 1..Len(stack'),
                 stack'[j].decl # 0, stack'[k].decl # 0,
                 decls'[stack'[j].decl].name = decls'[stack'[k].decl].name
          PROVE  j = k
      <3>1. /\ j \in 1..Len(stack) /\ stack'[j] = stack[j]
            /\ k \in 1..Len(stack) /\ stack'[k] = stack[k]
        BY <1>3
      <3>2. stack[j].decl \in Elements /\ stack[k].decl \in Elements
        BY <1>1, <2>3, <3>1 DEF Classes, ClassAt
      <3>3. decls[stack[j].decl].name = decls[stack[k].decl].name
        BY <2>3, <3>1, <3>2 DEF Grows
      <3> QED BY <1>1, <2>3, <3>1, <3>3 DEF Classes
    <2>4. \A k \in 1..Len(stack') : ClassAt(k)'
      BY <1>3, <2>1
    <2>5. \A d \in Elements', k \in 1..Len(stack') :
            decls'[d].inner = stack'[k].scope => stack'[k].decl = d
      BY <2>2
    <2>6. \A j, k \in 1..Len(stack') :
            stack'[j].decl # 0 /\ stack'[k].decl # 0
              /\ decls'[stack'[j].decl].name = decls'[stack'[k].decl].name => j = k
      BY <2>3
    <2> QED BY <2>4, <2>5, <2>6 DEF Classes
  <1> QED BY <1>3, <1>6, <1>7, <1>8, <1>9

LEMMA LeaveBlockInv ==
  ASSUME Inv, LeaveBlock
  PROVE  Inv'
  <1>1. ~InClass /\ Len(stack) > 1 /\ stack' = Pop /\ UNCHANGED <<lang, up, symbols, decls>>
    BY DEF LeaveBlock
  <1>2. /\ Types /\ Scopes /\ Len(decls) \in Nat /\ Len(symbols) \in Nat /\ Len(up) \in Nat
        /\ Len(stack) \in Nat
    BY InvFacts
  <1>3. Grows /\ Elements' = Elements /\ Len(decls') \in Nat
    BY <1>1, <1>2 DEF Grows, Elements
  <1>4. \A k \in 1..(Len(stack) - 1) :
          stack[k].decl # 0 /\ lang = "C" => symbols'[decls[stack[k].decl].sym].def = 0
    <2>1. \A k \in 1..(Len(stack) - 1) : k \in 1..Len(stack)
      BY <1>2
    <2> QED BY <1>1, <2>1, OpenUndefined
  <1>5. /\ stack' \in Seq([scope: 1..MaxScopes, decl: 0..MaxDecls])
        /\ Scopes' /\ Classes'
        /\ lang = "Fortran" => ~InClass'
        /\ \A d \in Elements : Reading(d) /\ d # Top.decl => Reading(d)'
        /\ \A d \in Elements : Reading(d)' => Reading(d) /\ d # Top.decl
    BY <1>1, <1>3, <1>4, PopClasses
  <1>6. \A d \in Elements : Reading(d)' <=> Reading(d)
    <2>1. \A d \in Elements : d # Top.decl
      BY <1>1, InvFacts DEF Elements, InClass
    <2> QED BY <1>5, <2>1
  <1>7. Types'
    BY <1>1, <1>2, <1>5 DEF Types
  <1>8. Len(up) <= Len(up') /\ \A s \in 0..Len(up) : ScopesAround(up')[s] = ScopesAround(up)[s]
    BY <1>1, <1>2
  <1> QED BY <1>1, <1>5, <1>6, <1>7, <1>8, BlockInv

-----------------------------------------------------------------------------
(* The end of a class definition: its scope is popped, and its symbol gets *)
(* the definition.                                                         *)

\* The class that ends.
LEMMA EndFacts ==
  ASSUME Inv, InClass
  PROVE  /\ Top.decl \in Elements /\ Top.decl # 0 /\ Top.decl \in 1..MaxDecls
         /\ Len(stack) > 1 /\ ClassAt(Len(stack)) /\ Reading(Top.decl)
         /\ decls[Top.decl].kind = "decl" /\ decls[Top.decl].written
         /\ decls[Top.decl].scope = stack[Len(stack) - 1].scope
         /\ decls[Top.decl] \in Decl
         /\ lang = "C" => /\ decls[Top.decl].sym \in 1..Len(symbols)
                          /\ symbols[decls[Top.decl].sym].def = 0
         /\ lang = "Fortran" => decls[Top.decl].sym = 0
  <1>1. /\ Types /\ Scopes /\ Refs /\ Classes /\ Len(decls) \in Nat /\ Len(decls) <= MaxDecls
        /\ Top = stack[Len(stack)] /\ Len(stack) \in 1..Len(stack) /\ MaxDecls \in Nat
    BY InvFacts
  <1>2. ClassAt(Len(stack)) /\ Top.decl # 0
    BY <1>1 DEF Classes, InClass
  <1>3. PICK d \in Elements : d = Top.decl
    BY <1>1, <1>2 DEF ClassAt
  <1>4. /\ Len(stack) > 1
        /\ decls[d].kind = "decl" /\ decls[d].written
        /\ decls[d].scope = stack[Len(stack) - 1].scope
        /\ lang = "Fortran" => decls[d].sym = 0
    BY <1>1, <1>2, <1>3 DEF ClassAt
  <1>5. decls[d] \in Decl /\ d \in 1..MaxDecls
    BY <1>1, Parts DEF Elements
  <1>6. Reading(d)
    BY <1>1, <1>3 DEF Reading
  <1>7. lang = "C" => decls[d].sym \in 1..Len(symbols) /\ symbols[decls[d].sym].def = 0
    BY <1>1, <1>2, <1>3, OpenUndefined
  <1> QED BY <1>2, <1>3, <1>4, <1>5, <1>6, <1>7

\* The invariant after a class, from what is true of its declaration, of the
\* symbols and of the definitions that were there.
LEMMA EndInv ==
  ASSUME Inv, InClass, NEW d, d = Top.decl, stack' = Pop, UNCHANGED <<lang, up>>,
         NEW e \in Decl, decls' = [decls EXCEPT ![d] = e],
         e.kind = "decl", e.name = decls[d].name, e.scope = decls[d].scope, e.written,
         e.inner = decls[d].inner, lang = "C" => e.sym = decls[d].sym,
         e.sym \in 1..Len(symbols'), symbols'[e.sym].name = e.name,
         symbols'[e.sym].scope \in Around(e.scope), symbols'[e.sym].def = d, e.def = d,
         symbols' \in Seq(Symbol), Len(symbols) <= Len(symbols'),
         Len(symbols') <= IF lang = "C" THEN Len(symbols) ELSE Len(symbols) + 1,
         \A k \in 1..Len(symbols) :
           /\ symbols'[k].name = symbols[k].name /\ symbols'[k].scope = symbols[k].scope
           /\ k # e.sym => symbols'[k].def = symbols[k].def,
         \A k \in (Len(symbols) + 1)..Len(symbols') : k = e.sym /\ symbols'[k].scope = e.scope,
         \A j, k \in 1..Len(symbols') :
           symbols'[j].name = symbols'[k].name /\ symbols'[j].scope = symbols'[k].scope => j = k
  PROVE  Inv'
  <1>1. /\ Types /\ Scopes /\ Refs /\ Classes
        /\ Len(decls) \in Nat /\ Len(symbols) \in Nat /\ Len(up) \in Nat \ {0}
        /\ Len(stack) \in Nat \ {0} /\ MaxDecls \in Nat /\ Len(symbols') \in Nat
        /\ lang \in {"C", "Fortran"} /\ decls \in Seq(Decl)
    BY InvFacts DEF Types
  <1>2. /\ d \in Elements /\ d # 0 /\ Len(stack) > 1 /\ Reading(d)
        /\ decls[d].kind = "decl" /\ decls[d].written
        /\ lang = "C" => decls[d].sym \in 1..Len(symbols) /\ symbols[decls[d].sym].def = 0
        /\ lang = "Fortran" => decls[d].sym = 0
    BY EndFacts
  <1>3. /\ decls' \in Seq(Decl) /\ Len(decls') = Len(decls) /\ decls'[d] = e
        /\ \A x \in Elements : x # d => decls'[x] = decls[x]
    BY <1>1, <1>2, ExceptSeq DEF Elements
  <1>4. Elements' = Elements /\ Len(decls') \in Nat
    BY <1>1, <1>3 DEF Elements
  <1>5. Grows
    <2>1. ASSUME NEW x \in Elements
          PROVE  /\ decls'[x].kind = decls[x].kind /\ decls'[x].name = decls[x].name
                 /\ decls'[x].scope = decls[x].scope /\ decls'[x].written = decls[x].written
                 /\ decls'[x].inner = decls[x].inner
                 /\ decls[x].sym # 0 \/ decls[x].kind = "type" \/ lang = "C" => decls'[x].sym = decls[x].sym
                 /\ ~decls[x].written => decls'[x].def = decls[x].def
      <3>1. CASE x # d
        BY <1>3, <3>1
      <3>2. CASE x = d
        <4>1. decls'[x].written = decls[x].written
          <5>1. decls[d].written \in BOOLEAN /\ e.written \in BOOLEAN
            BY <1>1, <1>2, InRange DEF Decl
          <5>2. decls[d].written = TRUE /\ e.written = TRUE
            BY <1>2, <5>1, Zenon
          <5>3. decls'[x].written = e.written /\ decls[x].written = decls[d].written
            BY <1>3, <3>2
          <5> QED BY <5>2, <5>3, Zenon
        <4> QED BY <1>1, <1>2, <1>3, <3>2, <4>1
      <3> QED BY <3>1, <3>2
    <2>2. Len(up) <= Len(up') /\ Len(decls) <= Len(decls')
      BY <1>1, <1>3
    <2> QED BY <2>1, <2>2 DEF Grows
  <1>6. Types'
    <2>1. stack' \in Seq([scope: 1..MaxScopes, decl: 0..MaxDecls])
      BY <1>1, <1>2, PopFacts
    <2> QED BY <1>1, <1>3, <2>1 DEF Types
  <1>7. /\ Scopes' /\ Classes'
        /\ lang = "Fortran" => ~InClass'
        /\ \A x \in Elements : Reading(x) /\ x # d => Reading(x)'
        /\ ~Reading(d)'
    <2>1. ASSUME NEW k \in 1..(Len(stack) - 1), stack[k].decl # 0, lang = "C"
          PROVE  symbols'[decls[stack[k].decl].sym].def = 0
      <3>1. /\ k \in 1..Len(stack) /\ k # Len(stack) /\ Len(stack) \in 1..Len(stack)
            /\ stack[Len(stack)].decl = d
        BY <1>1 DEF Top
      <3>2. /\ stack[k].decl \in Elements /\ decls[stack[k].decl].sym \in 1..Len(symbols)
            /\ symbols[decls[stack[k].decl].sym].def = 0
            /\ symbols[decls[stack[k].decl].sym].name = decls[stack[k].decl].name
        BY <2>1, <3>1, OpenUndefined
      <3>3. decls[stack[k].decl].name # decls[d].name
        BY <1>1, <1>2, <2>1, <3>1 DEF Classes
      <3>4. decls[stack[k].decl].sym # e.sym
        BY <3>2, <3>3
      <3> QED BY <3>2, <3>4
    <2>2. /\ Scopes' /\ Classes'
          /\ lang = "Fortran" => ~InClass'
          /\ \A x \in Elements : Reading(x) /\ x # Top.decl => Reading(x)'
          /\ \A x \in Elements : Reading(x)' => Reading(x) /\ x # Top.decl
      <3>1. up' = up
        OBVIOUS
      <3> QED BY <1>2, <1>4, <1>5, <2>1, <3>1, PopClasses
    <2> QED BY <1>2, <2>2
  <1>8. \A x \in Elements' : LinkAt(x)' /\ KeptAt(x)' /\ UsesAt(x)' /\ ForwardAt(x)'
    <2>1. ASSUME NEW x \in Elements, x # d PROVE LinkAt(x)' /\ KeptAt(x)' /\ UsesAt(x)' /\ ForwardAt(x)'
      <3>1. LinkAt(x) /\ KeptAt(x) /\ UsesAt(x) /\ ForwardAt(x)
        BY InvFacts
      <3>2. decls'[x] = decls[x]
        BY <1>3, <2>1
      <3>3. Reading(x) => Reading(x)'
        BY <1>7, <2>1
      <3>4. LinkAt(x)' /\ UsesAt(x)' /\ ForwardAt(x)'
        BY <1>1, <1>4, <1>5, <3>1, <3>2, <3>3, LinkOld, UsesOld, ForwardOld
      <3>5. KeptAt(x)'
        <4>1. CASE decls[x].sym # 0 /\ symbols[decls[x].sym].def # 0 =>
                     symbols'[decls[x].sym].def = symbols[decls[x].sym].def
          BY <1>1, <1>4, <1>5, <3>1, <3>2, <3>3, <4>1, KeptOld
        <4>2. ASSUME decls[x].sym # 0, symbols[decls[x].sym].def # 0,
                     symbols'[decls[x].sym].def # symbols[decls[x].sym].def,
                     decls'[x].written, ~Reading(x)', ~Shadowed(x)'
              PROVE  FALSE
          <5>1. decls[x].sym \in 1..Len(symbols)
            BY <1>1, <4>2, InRange
          <5>2. decls[x].sym = e.sym
            BY <4>2, <5>1
          <5>3. lang = "Fortran"
            BY <1>1, <1>2, <4>2, <5>2
          <5>4. decls[x].written /\ ~Shadowed(x)
            BY <1>1, <1>4, <1>5, <3>2, <4>2, ShadowGrows
          <5>5. decls[x].name = decls[d].name /\ symbols[e.sym].name = decls[x].name
            BY <3>1, <4>2, <5>1, <5>2 DEF LinkAt
          <5>6. symbols[e.sym].scope \in Around(decls[x].scope)
            BY <3>1, <4>2, <5>2 DEF LinkAt
          <5>7. symbols[e.sym].scope = decls[x].scope
            <6>1. SymbolAt(e.sym)
              BY <5>1, <5>2, InvFacts
            <6> QED BY SMTT(30), <1>1, <5>1, <5>2, <5>4, <5>5, <5>6, <6>1, Alone
          <5>8. decls[x].scope \in Around(decls[d].scope)
            BY <5>1, <5>2, <5>7
          <5>9. decls[d].scope = decls[x].scope
            BY SMTT(30), <1>1, <1>2, <5>4, <5>5, <5>8, AloneDefined
          <5>10. SameClass(x, d)
            BY <5>5, <5>9 DEF SameClass
          <5> QED BY <1>2, <2>1, <5>3, <5>4, <5>10 DEF Inv, Unique
        <4>3. CASE decls'[x].written /\ ~Reading(x)' /\ ~Shadowed(x)'
          BY <4>1, <4>2, <4>3
        <4> QED BY <4>3 DEF KeptAt
      <3> QED BY <3>4, <3>5
    <2>2. Around(decls[d].scope)' = Around(e.scope)
      BY <1>3 DEF Around
    <2>3. LinkAt(d)'
      <3>1. Announced(d)'
        BY SMTT(30), <1>3, <2>2 DEF Announced
      <3> QED BY <1>1, <1>3, <2>2, <3>1 DEF LinkAt
    <2>4. KeptAt(d)'
      <3>1. e.sym # 0
        BY <1>1
      <3> QED BY <1>3, <3>1 DEF KeptAt
    <2>5. UsesAt(d)' /\ ForwardAt(d)'
      BY <1>3 DEF UsesAt, ForwardAt
    <2> QED BY <1>4, <2>1, <2>3, <2>4, <2>5
  <1>9. \A k \in 1..Len(symbols') : SymbolAt(k)'
    <2>1. ASSUME NEW k \in 1..Len(symbols) PROVE SymbolAt(k)'
      <3>1. SymbolAt(k)
        BY InvFacts
      <3>2. CASE k # e.sym
        BY <1>1, <1>4, <1>5, <3>1, <3>2, SymbolOld
      <3>3. CASE k = e.sym
        <4>1. PICK x \in Elements : /\ decls[x].kind = "decl" /\ decls[x].sym = k
                                    /\ decls[x].name = symbols[k].name
                                    /\ decls[x].scope = symbols[k].scope
          BY <3>1 DEF SymbolAt
        <4>2. k # 0
          BY <1>1
        <4>3. /\ x \in Elements' /\ decls'[x].kind = "decl" /\ decls'[x].sym = k
              /\ decls'[x].name = symbols'[k].name /\ decls'[x].scope = symbols'[k].scope
          BY <1>4, <1>5, <4>1, <4>2 DEF Grows
        <4>4. symbols'[k].def = d /\ d \in Elements' /\ decls'[d].written /\ decls'[d].sym = k
          BY <1>2, <1>3, <1>4, <3>3
        <4> QED BY <4>3, <4>4 DEF SymbolAt
      <3> QED BY <3>2, <3>3
    <2>2. ASSUME NEW k \in (Len(symbols) + 1)..Len(symbols') PROVE SymbolAt(k)'
      <3>1. k = e.sym /\ symbols'[k].scope = e.scope
        OBVIOUS
      <3>2. d \in Elements' /\ decls'[d] = e
        BY <1>2, <1>3, <1>4
      <3> QED BY <3>1, <3>2 DEF SymbolAt
    <2>3. \A k \in 1..Len(symbols') : k \in 1..Len(symbols) \/ k \in (Len(symbols) + 1)..Len(symbols')
      BY <1>1
    <2> QED BY <2>1, <2>2, <2>3
  <1>10. Unique'
    <2>1. ASSUME NEW y \in Elements', NEW x \in Elements', decls'[y].written, decls'[x].written,
                 SameClass(y, x)', lang = "Fortran"
          PROVE  y = x
      <3>1. SameClass(y, x) /\ decls[y].written /\ decls[x].written
        BY <1>4, <1>5, <2>1 DEF SameClass, Grows
      <3> QED BY <1>4, <2>1, <3>1 DEF Inv, Unique
    <2> QED BY <2>1 DEF Unique
  <1>11. Refs'
    <2>1. Len(decls') <= MaxDecls
      BY <1>1, <1>3 DEF Refs
    <2>2. ASSUME NEW x \in Elements'
          PROVE  /\ decls'[x].scope \in 1..Len(up') /\ decls'[x].inner \in 0..Len(up')
                 /\ decls'[x].sym \in 0..Len(symbols')
      <3>1. x \in Elements /\ decls'[x].scope = decls[x].scope /\ decls'[x].inner = decls[x].inner
        BY <1>4, <1>5 DEF Grows
      <3>2. decls[x].scope \in 1..Len(up) /\ decls[x].inner \in 0..Len(up) /\ decls[x].sym \in 0..Len(symbols)
        BY <1>1, <3>1 DEF Refs
      <3>3. decls'[x].sym \in 0..Len(symbols')
        <4>1. CASE x = d
          BY <1>1, <1>3, <4>1
        <4>2. CASE x # d
          BY <1>1, <1>3, <3>1, <3>2, <4>2
        <4> QED BY <4>1, <4>2
      <3> QED BY <3>1, <3>2, <3>3
    <2>3. ASSUME NEW k \in 1..Len(symbols') PROVE symbols'[k].scope \in 1..Len(up')
      <3>1. CASE k \in 1..Len(symbols)
        BY <1>1, <3>1 DEF Refs
      <3>2. CASE k \in (Len(symbols) + 1)..Len(symbols')
        BY <1>1, <1>2, <3>2 DEF Refs
      <3> QED BY <1>1, <3>1, <3>2
    <2>4. Len(symbols') + (IF lang' = "Fortran" /\ InClass' THEN 1 ELSE 0) <= Len(decls')
      <3>1. Len(symbols) + (IF lang = "Fortran" /\ InClass THEN 1 ELSE 0) <= Len(decls)
        BY <1>1 DEF Refs
      <3>2. CASE lang = "C"
        BY <1>1, <1>3, <3>1, <3>2
      <3>3. CASE lang = "Fortran"
        <4>1. Len(symbols) + 1 <= Len(decls) /\ Len(symbols') <= Len(symbols) + 1
          BY <1>1, <3>1, <3>3
        <4>2. ~InClass'
          BY <1>7, <3>3
        <4> QED BY <1>1, <1>3, <4>1, <4>2
      <3> QED BY <1>1, <3>2, <3>3
    <2> QED BY <2>1, <2>2, <2>3, <2>4 DEF Refs
  <1> QED BY <1>6, <1>7, <1>8, <1>9, <1>10, <1>11 DEF Inv

LEMMA EndClassInv ==
  ASSUME Inv, EndClass
  PROVE  Inv'
  <1>1. PICK d : d = Top.decl
    OBVIOUS
  <1>2. PICK s : s = decls[d].sym
    OBVIOUS
  <1>3. /\ lang = "C" /\ InClass /\ stack' = Pop /\ UNCHANGED <<lang, up>>
        /\ decls' = [decls EXCEPT ![d].def = d] /\ symbols' = [symbols EXCEPT ![s].def = d]
    BY <1>1, <1>2 DEF EndClass
  <1>4. /\ d \in Elements /\ d # 0 /\ d \in 1..MaxDecls /\ decls[d] \in Decl
        /\ decls[d].kind = "decl" /\ decls[d].written
        /\ s \in 1..Len(symbols) /\ symbols[s].def = 0
    BY <1>1, <1>2, <1>3, EndFacts
  <1>5. symbols \in Seq(Symbol) /\ Len(symbols) \in Nat /\ symbols[s] \in Symbol /\ MaxDecls \in Nat
    BY <1>4, InvFacts DEF Types
  <1>6. PICK e : e = [decls[d] EXCEPT !.def = d]
    OBVIOUS
  <1>7. PICK y : y = [symbols[s] EXCEPT !.def = d]
    OBVIOUS
  <1>8. d \in 0..MaxDecls
    BY <1>4, <1>5
  <1>9. /\ e \in Decl /\ e.kind = decls[d].kind /\ e.name = decls[d].name /\ e.scope = decls[d].scope
        /\ e.written <=> decls[d].written
        /\ e.inner = decls[d].inner /\ e.sym = decls[d].sym /\ e.def = d
    BY <1>4, <1>6, <1>8 DEF Decl
  <1>10. y \in Symbol /\ y.name = symbols[s].name /\ y.scope = symbols[s].scope /\ y.def = d
    BY <1>5, <1>7, <1>8 DEF Symbol
  <1>11. decls' = [decls EXCEPT ![d] = e]
    BY <1>3, <1>6
  <1>12. symbols' = [symbols EXCEPT ![s] = y]
    BY <1>3, <1>7
  <1>13. /\ symbols' \in Seq(Symbol) /\ Len(symbols') = Len(symbols) /\ symbols'[s] = y
         /\ \A k \in 1..Len(symbols) : k # s => symbols'[k] = symbols[k]
    BY <1>4, <1>5, <1>10, <1>12, ExceptSeq
  <1>14. \A k \in 1..Len(symbols) :
           /\ symbols'[k].name = symbols[k].name /\ symbols'[k].scope = symbols[k].scope
           /\ k # e.sym => symbols'[k].def = symbols[k].def
    BY <1>2, <1>9, <1>10, <1>13
  <1>15. \A j, k \in 1..Len(symbols') :
           symbols'[j].name = symbols'[k].name /\ symbols'[j].scope = symbols'[k].scope => j = k
    BY <1>13, <1>14 DEF Inv, Unique
  <1>16. /\ e.sym \in 1..Len(symbols') /\ symbols'[e.sym].name = e.name
         /\ symbols'[e.sym].scope \in Around(e.scope) /\ symbols'[e.sym].def = d
    <2>1. LinkAt(d)
      BY <1>4, InvFacts
    <2>2. s # 0
      BY <1>4, <1>5
    <2> QED BY <1>2, <1>4, <1>9, <1>10, <1>13, <2>1, <2>2 DEF LinkAt
  <1>17. e.kind = "decl" /\ e.written
    BY <1>4, <1>9
  <1>18. /\ Len(symbols) <= Len(symbols')
         /\ Len(symbols') <= IF lang = "C" THEN Len(symbols) ELSE Len(symbols) + 1
         /\ \A k \in (Len(symbols) + 1)..Len(symbols') : k = e.sym /\ symbols'[k].scope = e.scope
    BY <1>5, <1>13
  <1> QED BY ZenonT(30), <1>1, <1>3, <1>9, <1>11, <1>13, <1>14, <1>15, <1>16, <1>17, <1>18, EndInv

LEMMA EndDerivedInv ==
  ASSUME Inv, EndDerived
  PROVE  Inv'
  <1>1. PICK d : d = Top.decl
    OBVIOUS
  <1>2. PICK s : s = LookupIn(decls[d].name, Open \ {Top.scope})
    OBVIOUS
  <1>3. PICK r : r = IF s = 0 THEN Len(symbols) + 1 ELSE s
    OBVIOUS
  <1>4. /\ lang = "Fortran" /\ InClass /\ stack' = Pop /\ UNCHANGED <<lang, up>>
        /\ decls' = [decls EXCEPT ![d].def = d, ![d].sym = r]
        /\ symbols' = IF s = 0 THEN Insert(decls[d].name, decls[d].scope, d)
                      ELSE [symbols EXCEPT ![s].def = d]
    BY <1>1, <1>2, <1>3 DEF EndDerived
  <1>5. /\ d \in Elements /\ d # 0 /\ d \in 1..MaxDecls /\ decls[d] \in Decl
        /\ decls[d].kind = "decl" /\ decls[d].written /\ decls[d].sym = 0
        /\ Len(stack) > 1 /\ decls[d].scope = stack[Len(stack) - 1].scope
    BY <1>1, <1>4, EndFacts
  <1>6. /\ Types /\ Scopes /\ Refs /\ symbols \in Seq(Symbol) /\ Len(symbols) \in Nat /\ MaxDecls \in Nat
        /\ Len(decls) \in Nat /\ Len(decls) <= MaxDecls /\ Numbered(up) /\ Len(up) \in Nat
    BY InvFacts DEF Types
  <1>7. Open \ {Top.scope} = Around(decls[d].scope)
    BY <1>5, <1>6, OpenIs
  <1>8. /\ s \in 0..Len(symbols)
        /\ s = 0 => \A k \in 1..Len(symbols) :
                      ~(symbols[k].name = decls[d].name /\ symbols[k].scope \in Around(decls[d].scope))
        /\ s # 0 => /\ s \in 1..Len(symbols) /\ symbols[s].name = decls[d].name
                    /\ symbols[s].scope \in Around(decls[d].scope)
    BY <1>2, <1>6, <1>7, LookupFacts
  <1>9. decls[d].scope \in Around(decls[d].scope)
    <2>1. decls[d].scope \in 0..Len(up) /\ decls[d].scope # 0
      BY <1>5, <1>6 DEF Refs
    <2> QED BY <1>6, <2>1, AroundBelow DEF Around
  <1>10. Len(symbols) + 1 <= MaxDecls /\ d \in 0..MaxDecls
    <2>1. Len(symbols) + (IF lang = "Fortran" /\ InClass THEN 1 ELSE 0) <= Len(decls)
      BY <1>6 DEF Refs
    <2> QED BY <1>4, <1>5, <1>6, <2>1
  <1>11. r \in 0..MaxDecls
    BY <1>3, <1>6, <1>8, <1>10
  <1>12. PICK e : e = [decls[d] EXCEPT !.def = d, !.sym = r]
    OBVIOUS
  <1>13. /\ e \in Decl /\ e.kind = decls[d].kind /\ e.name = decls[d].name /\ e.scope = decls[d].scope
         /\ e.written <=> decls[d].written
         /\ e.inner = decls[d].inner /\ e.sym = r /\ e.def = d
    BY <1>5, <1>10, <1>11, <1>12 DEF Decl
  <1>14. decls' = [decls EXCEPT ![d] = e]
    <2>1. decls \in Seq(Decl) /\ d \in 1..Len(decls)
      BY <1>5, <1>6 DEF Types, Elements
    <2> QED BY <1>4, <1>12, <2>1
  <1>15. /\ symbols' \in Seq(Symbol) /\ Len(symbols) <= Len(symbols') /\ Len(symbols') <= Len(symbols) + 1
         /\ r \in 1..Len(symbols') /\ symbols'[r].name = decls[d].name /\ symbols'[r].def = d
         /\ symbols'[r].scope \in Around(decls[d].scope)
         /\ \A k \in 1..Len(symbols) :
              /\ symbols'[k].name = symbols[k].name /\ symbols'[k].scope = symbols[k].scope
              /\ k # r => symbols'[k].def = symbols[k].def
         /\ \A k \in (Len(symbols) + 1)..Len(symbols') : k = r /\ symbols'[k].scope = decls[d].scope
         /\ \A j, k \in 1..Len(symbols') :
              symbols'[j].name = symbols'[k].name /\ symbols'[j].scope = symbols'[k].scope => j = k
    <2>1. \A j, k \in 1..Len(symbols) :
            symbols[j].name = symbols[k].name /\ symbols[j].scope = symbols[k].scope => j = k
      BY DEF Inv, Unique
    <2>2. CASE s = 0
      <3>1. PICK y : y = [name |-> decls[d].name, scope |-> decls[d].scope, def |-> d]
        OBVIOUS
      <3>2. y \in Symbol /\ y.name = decls[d].name /\ y.scope = decls[d].scope /\ y.def = d
        BY <1>5, <1>10, <3>1 DEF Symbol, Decl
      <3>3. symbols' = Append(symbols, y) /\ r = Len(symbols) + 1
        BY <1>3, <1>4, <2>2, <3>1 DEF Insert
      <3>4. /\ symbols' \in Seq(Symbol) /\ Len(symbols') = Len(symbols) + 1
            /\ \A k \in 1..Len(symbols) : symbols'[k] = symbols[k]
            /\ symbols'[r] = y
        BY <1>6, <3>2, <3>3, AppendProperties
      <3>5. \A k \in 1..Len(symbols) : ~(symbols[k].name = y.name /\ symbols[k].scope = y.scope)
        BY <1>8, <1>9, <2>2, <3>2
      <3>6. /\ \A k \in 1..Len(symbols') : k \in 1..Len(symbols) \/ k = r
            /\ \A k \in (Len(symbols) + 1)..Len(symbols') : k = r
            /\ Len(symbols) <= Len(symbols') /\ Len(symbols') <= Len(symbols) + 1 /\ r \in 1..Len(symbols')
        BY <1>6, <3>3, <3>4
      <3>7. ASSUME NEW j \in 1..Len(symbols'), NEW k \in 1..Len(symbols'),
                   symbols'[j].name = symbols'[k].name, symbols'[j].scope = symbols'[k].scope
            PROVE  j = k
        <4>1. CASE j \in 1..Len(symbols) /\ k \in 1..Len(symbols)
          BY <2>1, <3>4, <3>7, <4>1
        <4>2. CASE j \in 1..Len(symbols) /\ k = r
          BY <3>4, <3>5, <3>7, <4>2
        <4>3. CASE j = r /\ k \in 1..Len(symbols)
          BY <3>4, <3>5, <3>7, <4>3
        <4> QED BY <3>6, <4>1, <4>2, <4>3
      <3> QED BY <1>9, <3>2, <3>4, <3>6, <3>7
    <2>3. CASE s # 0
      <3>1. PICK y : y = [symbols[s] EXCEPT !.def = d]
        OBVIOUS
      <3>2. s \in 1..Len(symbols) /\ symbols[s] \in Symbol /\ r = s
        BY <1>3, <1>8, <2>3, InvFacts
      <3>3. y \in Symbol /\ y.name = symbols[s].name /\ y.scope = symbols[s].scope /\ y.def = d
        BY <1>10, <3>1, <3>2 DEF Symbol
      <3>4. symbols' = [symbols EXCEPT ![s] = y]
        BY <1>4, <2>3, <3>1
      <3>5. /\ symbols' \in Seq(Symbol) /\ Len(symbols') = Len(symbols) /\ symbols'[s] = y
            /\ \A k \in 1..Len(symbols) : k # s => symbols'[k] = symbols[k]
        BY <1>6, <3>2, <3>3, <3>4, ExceptSeq
      <3>6. \A k \in 1..Len(symbols) :
              /\ symbols'[k].name = symbols[k].name /\ symbols'[k].scope = symbols[k].scope
              /\ k # r => symbols'[k].def = symbols[k].def
        BY <3>2, <3>3, <3>5
      <3>7. \A j, k \in 1..Len(symbols') :
              symbols'[j].name = symbols'[k].name /\ symbols'[j].scope = symbols'[k].scope => j = k
        BY <2>1, <3>5, <3>6
      <3>8. /\ Len(symbols) <= Len(symbols') /\ Len(symbols') <= Len(symbols) + 1 /\ r \in 1..Len(symbols')
            /\ \A k \in (Len(symbols) + 1)..Len(symbols') : FALSE
        BY <1>6, <3>2, <3>5
      <3>9. /\ symbols'[r].name = decls[d].name /\ symbols'[r].def = d
            /\ symbols'[r].scope \in Around(decls[d].scope)
        BY <1>8, <2>3, <3>2, <3>3, <3>5
      <3> QED BY <3>5, <3>6, <3>7, <3>8, <3>9
    <2> QED BY <2>2, <2>3
  <1>16. e.kind = "decl" /\ e.written /\ lang # "C"
    BY <1>4, <1>5, <1>13
  <1>17. Len(symbols') <= IF lang = "C" THEN Len(symbols) ELSE Len(symbols) + 1
    BY <1>15, <1>16
  <1>18. /\ e.sym \in 1..Len(symbols') /\ symbols'[e.sym].name = e.name /\ symbols'[e.sym].def = d
         /\ symbols'[e.sym].scope \in Around(e.scope)
         /\ \A k \in 1..Len(symbols) :
              /\ symbols'[k].name = symbols[k].name /\ symbols'[k].scope = symbols[k].scope
              /\ k # e.sym => symbols'[k].def = symbols[k].def
         /\ \A k \in (Len(symbols) + 1)..Len(symbols') : k = e.sym /\ symbols'[k].scope = e.scope
    BY <1>13, <1>15
  <1>19. /\ symbols' \in Seq(Symbol) /\ Len(symbols) <= Len(symbols')
         /\ \A j, k \in 1..Len(symbols') :
              symbols'[j].name = symbols'[k].name /\ symbols'[j].scope = symbols'[k].scope => j = k
    BY <1>15
  <1>20. InClass /\ stack' = Pop /\ UNCHANGED <<lang, up>>
    BY <1>4
  <1>21. /\ e \in Decl /\ e.name = decls[d].name /\ e.scope = decls[d].scope
         /\ e.inner = decls[d].inner /\ e.def = d /\ e.written
         /\ e.kind = "decl" /\ (lang = "C" => e.sym = decls[d].sym)
    BY <1>13, <1>16
  <1> QED BY <1>1, <1>14, <1>17, <1>18, <1>19, <1>20, <1>21, EndInv

-----------------------------------------------------------------------------
(* The invariant of the specification, and what follows from it.           *)

LEMMA InitInv ==
  ASSUME Init
  PROVE  Inv
  <1>1. /\ lang \in {"C", "Fortran"} /\ up = <<0>> /\ symbols = << >> /\ decls = << >>
        /\ stack = <<[scope |-> 1, decl |-> 0]>> /\ MaxScopes \in Nat \ {0} /\ MaxDecls \in Nat
    BY ClassAssumption DEF Init
  <1>2. /\ Len(up) = 1 /\ up[1] = 0 /\ Len(stack) = 1 /\ stack[1].scope = 1 /\ stack[1].decl = 0
        /\ Len(symbols) = 0 /\ Len(decls) = 0 /\ Elements = {} /\ \A k \in 1..1 : k = 1
    BY <1>1 DEF Elements
  <1>3. Types
    <2>1. <<0>> \in Seq(0..MaxScopes)
      BY <1>1
    <2>2. <<[scope |-> 1, decl |-> 0]>> \in Seq([scope: 1..MaxScopes, decl: 0..MaxDecls])
      BY <1>1
    <2> QED BY <1>1, <2>1, <2>2 DEF Types
  <1>4. Scopes
    <2>1. 1 \in 1..MaxScopes /\ 0 \in 0..(1 - 1) /\ \A k \in 2..1 : FALSE
      BY <1>1
    <2> QED BY <1>2, <2>1 DEF Scopes
  <1>5. ~InClass
    BY <1>2 DEF InClass, Top
  <1>6. Refs
    BY <1>1, <1>2, <1>5 DEF Refs
  <1>7. Classes
    <2>1. \A k \in 1..Len(stack) : ClassAt(k)
      BY <1>2 DEF ClassAt
    <2> QED BY <1>2, <2>1 DEF Classes
  <1>8. Unique
    BY <1>2 DEF Unique
  <1>9. \A k \in 1..Len(symbols) : FALSE
    BY <1>2
  <1> QED BY <1>2, <1>3, <1>4, <1>6, <1>7, <1>8, <1>9 DEF Inv

LEMMA NextInv ==
  ASSUME Inv, [Next]_vars
  PROVE  Inv'
  <1>1. CASE EnterBlock
    BY <1>1, EnterBlockInv
  <1>2. CASE LeaveBlock
    BY <1>2, LeaveBlockInv
  <1>3. ASSUME NEW n \in Name, NEW w \in BOOLEAN, RepeatedClass(n, w) PROVE Inv'
    BY <1>3, RepeatedInv
  <1>4. ASSUME NEW n \in Name, ForwardClass(n) PROVE Inv'
    BY <1>4, ForwardInv
  <1>5. ASSUME NEW n \in Name, BeginClass(n) PROVE Inv'
    BY <1>5, BeginClassInv
  <1>6. ASSUME NEW n \in Name, BeginDerived(n) PROVE Inv'
    BY <1>6, BeginDerivedInv
  <1>7. ASSUME NEW n \in Name, ForwardDerived(n) PROVE Inv'
    BY <1>7, ForwardDerivedInv
  <1>8. ASSUME NEW n \in Name, Use(n) PROVE Inv'
    BY <1>8, UseInv
  <1>9. ASSUME NEW n \in Name, UseDefining(n) PROVE Inv'
    BY <1>9, UseDefiningInv
  <1>10. CASE EndClass
    BY <1>10, EndClassInv
  <1>11. CASE EndDerived
    BY <1>11, EndDerivedInv
  <1>12. CASE UNCHANGED vars
    <2>1. /\ UNCHANGED <<lang, symbols, decls>> /\ up' = up /\ stack' = stack
      BY <1>12 DEF vars
    <2>2. /\ Types /\ Scopes /\ Refs /\ Classes /\ Len(up) \in Nat
      BY InvFacts
    <2>3. Types' /\ Scopes'
      BY <2>1, <2>2 DEF Types, Scopes
    <2>4. Classes' /\ \A d \in Elements : Reading(d)' <=> Reading(d)
      BY <2>1, <2>2 DEF Classes, ClassAt, Reading, Elements
    <2>5. InClass' => InClass
      BY <2>1 DEF InClass, Top
    <2>6. Len(up) <= Len(up') /\ \A s \in 0..Len(up) : ScopesAround(up')[s] = ScopesAround(up)[s]
      BY <2>1, <2>2
    <2> QED BY <2>1, <2>3, <2>4, <2>5, <2>6, BlockInv
  <1>13. CASE Done
    BY <1>12, <1>13 DEF Done
  <1> QED BY <1>1, <1>2, <1>3, <1>4, <1>5, <1>6, <1>7, <1>8, <1>9, <1>10, <1>11, <1>12, <1>13 DEF Next

LEMMA Invariant == Spec => []Inv
  <1>1. Init => Inv
    BY InitInv
  <1>2. Inv /\ [Next]_vars => Inv'
    BY NextInv
  <1> QED BY <1>1, <1>2, PTL DEF Spec

\* Every variable has its type, and the scope stack is a path from the global
\* scope whose classes are being read.
THEOREM ClassTypes == Spec => []TypeOK
  <1>1. Inv => TypeOK
    <2> SUFFICES ASSUME Inv PROVE TypeOK
      OBVIOUS
    <2>1. Types /\ Scopes /\ Classes
      BY DEF Inv
    <2>2. \A k \in 1..Len(stack) : stack[k].decl # 0 => decls[stack[k].decl].inner = stack[k].scope
      BY <2>1 DEF Classes, ClassAt
    <2> QED BY <2>1, <2>2 DEF Types, Scopes, TypeOK
  <1> QED BY <1>1, Invariant, PTL

\* No definition of a class is lost, and its symbol leads to it: what
\* visitSgClassDeclaration and visitSgDerivedTypeStatement do with a class
\* whose name is declared in no scope around it or inside it.
THEOREM ClassesKept == Spec => []DefinitionsKept
  <1>1. Inv => DefinitionsKept
    BY DEF Inv, DefinitionsKept, KeptAt
  <1> QED BY <1>1, Invariant, PTL

\* visitSgClassType finds the class that is visible where it is used.
THEOREM TypesResolve == Spec => []UsesResolve
  <1>1. Inv => UsesResolve
    <2> SUFFICES ASSUME Inv PROVE UsesResolve
      OBVIOUS
    <2>1. \A u \in Elements : UsesAt(u)
      BY DEF Inv
    <2> QED BY <2>1 DEF UsesResolve, UsesAt, Candidates
  <1> QED BY <1>1, Invariant, PTL

\* A declaration of a C class leads to the definition exactly when that came
\* before it.
THEOREM ForwardsLink == Spec => []ForwardLinks
  <1>1. Inv => ForwardLinks
    <2> SUFFICES ASSUME Inv PROVE ForwardLinks
      OBVIOUS
    <2>1. \A d \in Elements : ForwardAt(d)
      BY DEF Inv
    <2> QED BY <2>1 DEF ForwardLinks, ForwardAt, Before
  <1> QED BY <1>1, Invariant, PTL

\* What a step may do to the definitions.
Stays ==
  \A k \in 1..Len(symbols) :
    symbols[k].def # 0 => /\ symbols'[k].def # 0
                          /\ lang = "C" => symbols'[k].def = symbols[k].def

LEMMA StepStays ==
  ASSUME Inv, Next
  PROVE  Stays
  <1>1. /\ Types /\ Scopes /\ Len(symbols) \in Nat /\ symbols \in Seq(Symbol)
        /\ \A k \in 1..Len(symbols) : symbols[k] \in Symbol
    BY InvFacts DEF Types
  <1>2. ASSUME symbols' = symbols PROVE Stays
    BY <1>2 DEF Stays
  <1>3. ASSUME NEW n \in Name, symbols' = Entered(n) PROVE Stays
    BY <1>3, EnteredFacts DEF Stays
  <1>4. ASSUME NEW s \in 1..Len(symbols), NEW d, d # 0, lang = "C" => symbols[s].def = 0,
               symbols' = [symbols EXCEPT ![s].def = d]
        PROVE  Stays
    <2> SUFFICES ASSUME NEW k \in 1..Len(symbols), symbols[k].def # 0
                 PROVE  symbols'[k].def # 0 /\ (lang = "C" => symbols'[k].def = symbols[k].def)
      BY DEF Stays
    <2>1. CASE k # s
      BY <1>1, <1>4, <2>1
    <2>2. CASE k = s
      <3>1. symbols'[s] = [symbols[s] EXCEPT !.def = d]
        BY <1>1, <1>4
      <3>2. symbols'[s].def = d
        BY <1>1, <3>1 DEF Symbol
      <3> QED BY <1>4, <2>2, <3>2
    <2> QED BY <2>1, <2>2
  <1>5. CASE EnterBlock \/ LeaveBlock \/ Done
    BY <1>2, <1>5 DEF EnterBlock, LeaveBlock, Done, vars
  <1>6. ASSUME NEW n \in Name, NEW w \in BOOLEAN, RepeatedClass(n, w) PROVE Stays
    BY <1>2, <1>6 DEF RepeatedClass
  <1>7. ASSUME NEW n \in Name, ForwardClass(n) \/ BeginClass(n) \/ ForwardDerived(n) PROVE Stays
    BY <1>3, <1>7 DEF ForwardClass, BeginClass, ForwardDerived
  <1>8. ASSUME NEW n \in Name, BeginDerived(n) \/ Use(n) PROVE Stays
    BY <1>2, <1>8 DEF BeginDerived, Use
  <1>9. ASSUME NEW n \in Name, UseDefining(n) PROVE Stays
    <2>1. PICK s : s = Lookup(n)
      OBVIOUS
    <2>2. PICK h : h = Here
      OBVIOUS
    <2>3. /\ ~Defined(n) /\ symbols' = IF s = 0 THEN symbols ELSE [symbols EXCEPT ![s].def = h]
      BY <1>9, <2>1, <2>2 DEF UseDefining
    <2>4. CASE s = 0
      BY <1>2, <2>3, <2>4
    <2>5. CASE s # 0
      <3>1. s \in 1..Len(symbols)
        BY <2>1, <2>5, LookupHere
      <3>2. symbols[s].def = 0
        BY <2>1, <2>3, <2>5 DEF Defined, Known
      <3>3. h # 0
        BY <2>2, InvFacts DEF Here
      <3> QED BY <1>4, <2>3, <2>5, <3>1, <3>2, <3>3
    <2> QED BY <2>4, <2>5
  <1>10. CASE EndClass
    <2>1. PICK d : d = Top.decl
      OBVIOUS
    <2>2. PICK s : s = decls[d].sym
      OBVIOUS
    <2>3. lang = "C" /\ InClass /\ symbols' = [symbols EXCEPT ![s].def = d]
      BY <1>10, <2>1, <2>2 DEF EndClass
    <2>4. d # 0 /\ s \in 1..Len(symbols) /\ symbols[s].def = 0
      BY <2>1, <2>2, <2>3, EndFacts
    <2> QED BY <1>4, <2>3, <2>4
  <1>11. CASE EndDerived
    <2>1. PICK d : d = Top.decl
      OBVIOUS
    <2>2. PICK s : s = LookupIn(decls[d].name, Open \ {Top.scope})
      OBVIOUS
    <2>3. /\ lang # "C" /\ InClass
          /\ symbols' = IF s = 0 THEN Insert(decls[d].name, decls[d].scope, d)
                        ELSE [symbols EXCEPT ![s].def = d]
      BY <1>11, <2>1, <2>2 DEF EndDerived
    <2>4. d # 0
      BY <2>1, <2>3, EndFacts
    <2>5. CASE s = 0
      <3>1. \A k \in 1..Len(symbols) : symbols'[k] = symbols[k]
        BY <1>1, <2>3, <2>5 DEF Insert
      <3> QED BY <3>1 DEF Stays
    <2>6. CASE s # 0
      <3>1. s \in 1..Len(symbols)
        BY <1>1, <2>2, <2>6, LookupFacts
      <3> QED BY <1>4, <2>3, <2>4, <2>6, <3>1
    <2> QED BY <2>5, <2>6
  <1> QED BY <1>5, <1>6, <1>7, <1>8, <1>9, <1>10, <1>11 DEF Next

\* No step takes a definition away from a symbol, and in C none replaces it.
THEOREM DefinitionsStand == Spec => DefinitionsStay
  <1>1. Inv /\ [Next]_vars => [Stays]_vars
    BY StepStays
  <1> QED BY <1>1, Invariant, PTL DEF Spec, DefinitionsStay, Stays
===============================================================================
