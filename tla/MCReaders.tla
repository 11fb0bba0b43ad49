----------------------------- MODULE MCReaders -----------------------------
(***************************************************************************)
(* The readers of all classes on every list of at most MaxKids children,   *)
(* and on the lists the writer emits for each class.                       *)
(***************************************************************************)
EXTENDS SlotReader, NodeClasses, SequencesExt

CONSTANT MaxKids

MCNULL == [kind |-> "none"]

Writes(c) == NodeOf(c).writes
Roles(c)  == UNION {{w[k].role : k \in 1..Len(w)} : w \in Writes(c)}
MCOrigin  == {"any", "default"} \cup UNION {Roles(c) : c \in NodeClass}

\* One kind for each set of tests a child can pass: the reader of c tells no
\* two kinds with the same signature apart.
Samples(c) ==
  LET slots == NodeReader[c].slots
      signature == [k \in NodeKind |->
                      <<k \in OrphanKind, {i \in 1..Len(slots) : k \in slots[i].accepts}>>]
  IN {CHOOSE k \in NodeKind : signature[k] = s : s \in {signature[k] : k \in NodeKind}}

AnyDocs(c) == LET kids == {[kind |-> k, of |-> "any"] : k \in Samples(c)} \cup {MCNULL}
              IN UNION {[1..n -> kids] : n \in 0..MaxKids}

\* The forms of a child: present, with one of its kinds, as often as it may.
Forms(w) == UNION {[1..n -> {[kind |-> k, of |-> w.role] : k \in w.kinds}] : n \in w.count}

\* Preprocessing information of the node itself comes last.
Info(c) == IF c \in DOMAIN TypeNode \cup DOMAIN SupportNode THEN {<< >>} ELSE {<< >>, <<MCNULL>>}

RECURSIVE Lists(_)
Lists(w) == IF w = << >> THEN {<< >>}
            ELSE {f \o rest : f \in Forms(Head(w)), rest \in Lists(Tail(w))}

WrittenDocs(c) == {list \o info : list \in UNION {Lists(w) : w \in Writes(c)}, info \in Info(c)}

Written == [c \in NodeClass |-> WrittenDocs(c)]
MCDocs  == [c \in NodeClass |-> AnyDocs(c) \cup Written[c]]

-----------------------------------------------------------------------------
Children(role) == SelectSeq(doc, LAMBDA x : x # NULL /\ x.of = role)
Has(role)      == Children(role) # << >>

Expected(i) == LET kids == Children(Slots[i].role)
               IN IF kids = << >> /\ i \in Marked("default") THEN <<Default>> ELSE kids

\* The classes that keep the original expression tree of a folded constant.
KeepsOriginal == {"VarRefExp", "FunctionRefExp", "NumberVal", "BoolValExp", "CharVal", "EnumVal",
                  "StringVal"}

\* The slots that do not hold what was written for them.
Misread(role) ==
  \/ class = "ImplicitCastExp" /\ role = "original"
  \/ class \in {"CastExp", "BinaryOp", "ComplexVal"} /\ role = "original" /\ Has("original")
  \/ class = "ComplexVal" /\ role \in {"real", "imag"} /\ ~Has("imag")
  \/ class = "AttributeSpecDimension" /\ \E k \in 1..Len(doc) : doc[k].kind = "DeclaredRef"
  \/ class = "ArrayType" /\ role \in {"lst", "iexp"} /\ Has("lst") /\ ~Has("iexp")
  \/ /\ class = "DataStatementValue"
     /\ \/ role = "rept" /\ IF Has("ilst") THEN ~Has("rept") /\ Has("cnst") ELSE Has("rept")
        \/ role = "cnst" /\ Has("cnst") /\ ~(Has("ilst") /\ Has("rept"))

\* What the writer emits for a node is read back into the same places: no
\* element is refused but an attribute specification of an unknown kind, each child ends in the slot it was written from, in
\* order, and a slot without a child stays empty or gets its default.  The
\* exceptions are exactly the ones of Misread: an original expression tree
\* taken for the operand or forgotten, the one part of a complex constant,
\* the dimensions of an array type without an index.
RoundTrip ==
  doc \in Written[class] =>
    /\ phase = "fatal" => class = "AttributeSpecOther"
    /\ phase = "built" =>
         \A i \in Indices : Slots[i].role \in Roles(class) =>
           ((slot[i] = Expected(i)) <=> ~Misread(Slots[i].role))

Holds(child) == \E i \in Indices : \E k \in 1..Len(slot[i]) : slot[i][k] = child

\* The children that are in no slot after all.
Forgotten(child) ==
  \/ child.of = "original" /\ class \notin KeepsOriginal
  \/ class = "ProgramHeaderStatement" /\ child.of \in {"lst", "typ"}
  \/ child.kind = "DeclaredRef" /\ class = "AttributeSpecDimension"
  \/ class = "DataStatementValue" /\ child.of \in {"rept", "cnst"} /\ ~Has("ilst")

\* Exactly these children of a written element are lost when it is read: the
\* original expression trees of all but constants and names, and a few more.
NothingDropped ==
  phase = "built" /\ doc \in Written[class] =>
    \A k \in 1..Len(doc) : doc[k] # NULL => (Holds(doc[k]) <=> ~Forgotten(doc[k]))
=============================================================================
