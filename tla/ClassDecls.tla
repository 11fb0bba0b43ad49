----------------------------- MODULE ClassDecls -----------------------------
(***************************************************************************)
(* Classes in the XML reader: visitSgClassDeclaration and                  *)
(* visitSgDerivedTypeStatement (src/src/decl.cpp), visitSgClassType        *)
(* (src/src/type.cpp) and the scope of visitSgClassDefinition              *)
(* (src/src/stmt.cpp).  The document names a class wherever it is declared *)
(* or used; the reader finds out which class is meant by looking the name  *)
(* up in the scopes that are open at that moment, and links the            *)
(* declarations of a class through its symbol.                             *)
(*                                                                         *)
(* The document is not a constant: each step reads one more element.  The  *)
(* programs are the ones a compiler accepts: a class is defined once in    *)
(* its scope, and not inside itself.                                       *)
(***************************************************************************)
EXTENDS Naturals, Sequences

CONSTANTS Name,       \* names of classes
          MaxDecls,   \* bound on the elements that name a class
          MaxScopes   \* bound on the scopes

ASSUME ClassAssumption == MaxDecls \in Nat /\ MaxScopes \in Nat \ {0}

VARIABLES lang,     \* the language: "C" has SgClassDeclaration, "Fortran"
                    \* SgDerivedTypeStatement
          up,       \* up[s]: the scope around s, 0 for the global scope
          stack,    \* the scope stack: scopes, and the declaration each
                    \* SgClassDefinition belongs to (0: a block)
          symbols,  \* class symbols, with the first nondefining declaration
          decls     \* the declarations and types built so far

vars == <<lang, up, stack, symbols, decls>>

\* def: the definingDeclaration; 0 for NULL everywhere
Symbol == [name: Name, scope: 1..MaxScopes, def: 0..MaxDecls]

\* written: the element has an SgClassDefinition child;
\* inner: its scope, once visited
Decl == [kind: {"decl", "type"}, name: Name, scope: 1..MaxScopes, written: BOOLEAN,
         inner: 0..MaxScopes, sym: 0..MaxDecls, def: 0..MaxDecls]

Init ==
  /\ lang \in {"C", "Fortran"}
  /\ up = <<0>>
  /\ stack = <<[scope |-> 1, decl |-> 0]>>
  /\ symbols = << >>
  /\ decls = << >>

Top     == stack[Len(stack)]
Open    == {stack[k].scope : k \in 1..Len(stack)}
Here    == Len(decls) + 1
InClass == Top.decl # 0

\* si::lookupClassSymbolInParentScopes: inner scopes have greater numbers.
LookupIn(n, scopes) ==
  LET hits == {k \in 1..Len(symbols) : symbols[k].name = n /\ symbols[k].scope \in scopes}
  IN IF hits = {} THEN 0
     ELSE CHOOSE k \in hits : \A j \in hits : symbols[j].scope <= symbols[k].scope

Lookup(n) == LookupIn(n, Open)
Known(n)  == Lookup(n) # 0

\* Fault: the definition of the nondefining declaration is asked for.
DefinedNever(n) == n \notin Name

\* decl->get_definingDeclaration()
Defined(n) == Known(n) /\ symbols[Lookup(n)].def # 0

\* scope->insert_symbol, unless there is a symbol.
Insert(n, scope, d) == Append(symbols, [name |-> n, scope |-> scope, def |-> d])
SymbolOf(n)         == IF Known(n) THEN Lookup(n) ELSE Len(symbols) + 1
Entered(n)          == IF Known(n) THEN symbols ELSE Insert(n, Top.scope, 0)

NewDecl(n, w, s, d) ==
  [kind |-> "decl", name |-> n, scope |-> Top.scope, written |-> w, inner |-> 0,
   sym |-> s, def |-> d]

Push(d) == /\ Len(up) < MaxScopes
           /\ up' = Append(up, Top.scope)
           /\ stack' = Append(stack, [scope |-> Len(up) + 1, decl |-> d])

\* Fault: the scope is popped once more, as after an SgDotExp.
PopTwice == SubSeq(stack, 1, Len(stack) - 2)

Pop == SubSeq(stack, 1, Len(stack) - 1)

\* A program has one definition of a class in a scope, and the class itself
\* has no member class of its name.
Valid(n, w) ==
  /\ Here <= MaxDecls
  /\ w => \A d \in 1..Len(decls) :
            decls[d].written /\ decls[d].name = n => decls[d].scope # Top.scope
  /\ \A k \in 1..Len(stack) : stack[k].decl # 0 => decls[stack[k].decl].name # n

-----------------------------------------------------------------------------
(* A block: SgBasicBlock, SgFunctionDefinition.                            *)

EnterBlock ==
  /\ ~InClass /\ Push(0)
  /\ UNCHANGED <<lang, symbols, decls>>

LeaveBlock ==
  /\ ~InClass /\ Len(stack) > 1
  /\ stack' = Pop
  /\ UNCHANGED <<lang, up, symbols, decls>>

-----------------------------------------------------------------------------
(* visitSgClassDeclaration.                                                *)

\* Fault: the new declaration is not linked to the defining one.
RepeatedUnlinked(n, w) ==
  /\ lang = "C" /\ Valid(n, w) /\ Defined(n)
  /\ decls' = Append(decls, NewDecl(n, w, Lookup(n), 0))
  /\ UNCHANGED <<lang, up, stack, symbols>>

\* decl has a defining declaration: the children are not visited.
RepeatedClass(n, w) ==
  /\ lang = "C" /\ Valid(n, w) /\ Defined(n)
  /\ decls' = Append(decls, NewDecl(n, w, Lookup(n), symbols[Lookup(n)].def))
  /\ UNCHANGED <<lang, up, stack, symbols>>

\* No definition among the children.
ForwardClass(n) ==
  /\ lang = "C" /\ Valid(n, FALSE) /\ ~Defined(n)
  /\ decls' = Append(decls, NewDecl(n, FALSE, SymbolOf(n), 0))
  /\ symbols' = Entered(n)
  /\ UNCHANGED <<lang, up, stack>>

\* The SgClassDefinition child is visited; its scope is pushed.
BeginClass(n) ==
  /\ lang = "C" /\ Valid(n, TRUE) /\ ~Defined(n)
  /\ Push(Here)
  /\ decls' = Append(decls, [NewDecl(n, TRUE, SymbolOf(n), 0) EXCEPT !.inner = Len(up) + 1])
  /\ symbols' = Entered(n)
  /\ UNCHANGED lang

\* Fault: decl->set_definingDeclaration(ret) is forgotten.
EndClassUnlinked ==
  /\ lang = "C" /\ InClass
  /\ decls' = [decls EXCEPT ![Top.decl].def = Top.decl]
  /\ stack' = Pop
  /\ UNCHANGED <<lang, up, symbols>>

EndClass ==
  /\ lang = "C" /\ InClass
  /\ LET d == Top.decl
     IN /\ decls' = [decls EXCEPT ![d].def = d]
        /\ symbols' = [symbols EXCEPT ![decls[d].sym].def = d]
  /\ stack' = Pop
  /\ UNCHANGED <<lang, up>>

-----------------------------------------------------------------------------
(* visitSgDerivedTypeStatement: the children come first, the symbol after. *)

BeginDerived(n) ==
  /\ lang = "Fortran" /\ Valid(n, TRUE) /\ ~InClass
  /\ Push(Here)
  /\ decls' = Append(decls, [NewDecl(n, TRUE, 0, 0) EXCEPT !.inner = Len(up) + 1])
  /\ UNCHANGED <<lang, symbols>>

\* The name is looked up after the scope of the class is left.  The symbol's
\* definition is replaced, whatever it was.
EndDerived ==
  /\ lang = "Fortran" /\ InClass
  /\ LET d == Top.decl
         s == LookupIn(decls[d].name, Open \ {Top.scope})
     IN /\ decls' = [decls EXCEPT ![d].def = d, ![d].sym = IF s = 0 THEN Len(symbols) + 1 ELSE s]
        /\ symbols' = IF s = 0 THEN Insert(decls[d].name, decls[d].scope, d)
                      ELSE [symbols EXCEPT ![s].def = d]
  /\ stack' = Pop
  /\ UNCHANGED <<lang, up>>

\* Without a definition only the first declaration gets a symbol.
ForwardDerived(n) ==
  /\ lang = "Fortran" /\ Valid(n, FALSE) /\ ~InClass
  /\ decls' = Append(decls, NewDecl(n, FALSE, IF Known(n) THEN 0 ELSE Len(symbols) + 1, 0))
  /\ symbols' = Entered(n)
  /\ UNCHANGED <<lang, up, stack>>

-----------------------------------------------------------------------------
(* visitSgClassType.                                                       *)

\* Fault: only the innermost scope is searched.
UseHere(n) ==
  /\ Here <= MaxDecls
  /\ LET s == IF Known(n) /\ symbols[Lookup(n)].scope = Top.scope THEN Lookup(n) ELSE 0
     IN decls' = Append(decls, [NewDecl(n, FALSE, s, IF s = 0 THEN 0 ELSE symbols[s].def)
                                  EXCEPT !.kind = "type"])
  /\ UNCHANGED <<lang, up, stack, symbols>>

\* A name that is not found gets a declaration of its own, known to nobody.
Use(n) ==
  /\ Here <= MaxDecls
  /\ decls' = Append(decls,
                [NewDecl(n, FALSE, Lookup(n), IF Known(n) THEN symbols[Lookup(n)].def ELSE 0)
                   EXCEPT !.kind = "type"])
  /\ UNCHANGED <<lang, up, stack, symbols>>

\* The type in a compound literal whose class is defined in another file: the
\* definition comes with the type.  The declaration that was found, or the
\* new one, becomes the defining declaration.
UseDefining(n) ==
  /\ lang = "C" /\ Valid(n, TRUE) /\ ~Defined(n)
  /\ LET s == Lookup(n)
     IN /\ decls' = Append(decls,
                      [NewDecl(n, TRUE, s, Here) EXCEPT
                         !.kind = "type",
                         !.scope = IF s = 0 THEN Top.scope ELSE symbols[s].scope])
        /\ symbols' = IF s = 0 THEN symbols ELSE [symbols EXCEPT ![s].def = Here]
  /\ UNCHANGED <<lang, up, stack>>

Done == Here > MaxDecls /\ Len(stack) = 1 /\ UNCHANGED vars

Next ==
  \/ EnterBlock \/ LeaveBlock
  \/ \E n \in Name : \/ \E w \in BOOLEAN : RepeatedClass(n, w)
                     \/ ForwardClass(n) \/ BeginClass(n)
                     \/ BeginDerived(n) \/ ForwardDerived(n)
                     \/ Use(n) \/ UseDefining(n)
  \/ EndClass \/ EndDerived
  \/ Done

Spec == Init /\ [][Next]_vars

-----------------------------------------------------------------------------
(* Properties.                                                             *)

\* Every variable has its type; the scope stack is a path from the global
\* scope, with the SgClassDefinitions of declarations still being read.
TypeOK ==
  /\ lang \in {"C", "Fortran"}
  /\ up \in Seq(0..MaxScopes)
  /\ symbols \in Seq(Symbol)
  /\ decls \in Seq(Decl)
  /\ stack \in Seq([scope: 1..MaxScopes, decl: 0..MaxDecls])
  /\ Len(stack) > 0
  /\ \A k \in 2..Len(stack) : up[stack[k].scope] = stack[k - 1].scope
  /\ \A k \in 1..Len(stack) : stack[k].decl # 0 => decls[stack[k].decl].inner = stack[k].scope

\* The scopes around each scope, itself included; u[s] is the scope around s.
ScopesAround(u) ==
  LET around[s \in 0..Len(u)] == IF s = 0 THEN {} ELSE {s} \cup around[u[s]]
  IN around

Around(s) == ScopesAround(up)[s]

Elements     == 1..Len(decls)
Nested(s, t) == s # t /\ (s \in Around(t) \/ t \in Around(s))
Declares(e)  == decls[e].kind = "decl" \/ decls[e].written
Shadowed(d)  == \E e \in Elements : Declares(e) /\ decls[e].name = decls[d].name
                                       /\ Nested(decls[d].scope, decls[e].scope)
Reading(d)   == \E k \in 1..Len(stack) : stack[k].decl = d
SameClass(d, e) == decls[d].name = decls[e].name /\ decls[d].scope = decls[e].scope
Inside(d, e) == decls[e].inner # 0 /\ decls[e].inner \in Around(decls[d].scope)

\* No class definition of the document is lost, and the symbol of the class
\* leads to it, unless the same name is declared in an inner or outer scope
\* too.  With shadowing both fail: visitSgClassDeclaration takes an inner
\* class for the outer one and drops its members ("avoid processing the class
\* definition twice"), visitSgDerivedTypeStatement redirects the outer symbol
\* to the inner type.
DefinitionsKept ==
  \A d \in Elements :
    decls[d].written /\ ~Reading(d) /\ ~Shadowed(d) =>
      /\ decls[d].def = d
      /\ decls[d].sym # 0 => symbols[decls[d].sym].def = d
      /\ decls[d].sym = 0 => decls[d].kind = "type"

\* A type refers to the class that is visible where it is used, if any of its
\* declarations comes first; a Fortran type that refers to itself inside its
\* own definition does not, because its symbol is entered afterwards.
UsesResolve ==
  \A u \in Elements :
    LET candidates == {d \in 1..(u - 1) : /\ decls[d].kind = "decl"
                                          /\ decls[d].name = decls[u].name
                                          /\ decls[d].scope \in Around(decls[u].scope)}
    IN decls[u].kind = "type" /\ candidates # {} /\ (\A d \in candidates : ~Shadowed(d)) =>
         LET resolved == decls[u].sym # 0
         IN /\ resolved <=> (lang = "C" \/ \E d \in candidates : ~Inside(u, d))
            /\ resolved => \A d \in candidates : symbols[decls[u].sym].scope = decls[d].scope

\* A declaration of a C class without a definition of its own leads to the
\* definition exactly when that came before it; the ones before it stay
\* without, only the symbol is brought up to date.
ForwardLinks ==
  lang = "C" =>
    \A d \in Elements :
      decls[d].kind = "decl" /\ ~decls[d].written /\ ~Shadowed(d) =>
        LET before == {e \in 1..(d - 1) : decls[e].written /\ SameClass(d, e) /\ decls[e].sym # 0}
        IN IF before = {} THEN decls[d].def = 0 ELSE decls[d].def \in before

\* A definition that is found stays: no step takes it away from a symbol, and
\* in C none replaces it by another.
DefinitionsStay ==
  [][\A k \in 1..Len(symbols) :
       symbols[k].def # 0 => /\ symbols'[k].def # 0
                             /\ lang = "C" => symbols'[k].def = symbols[k].def]_vars
=============================================================================
