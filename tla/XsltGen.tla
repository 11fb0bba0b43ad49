------------------------------ MODULE XsltGen ------------------------------
(***************************************************************************)
(* xsltgen (src/src/xsltgen.cpp): from a JSON object, which gives for each *)
(* directive its target and the rules to apply, to an XSLT style sheet.    *)
(* The object is a std::map: a sequence of directives with increasing      *)
(* names, of which "*" is the first.                                       *)
(***************************************************************************)
EXTENDS Naturals, Sequences, SequencesExt

CONSTANTS Rule,     \* names of rules
          Element   \* names of AST elements

AnyName   == 0      \* the name "*"
AnyTarget == "*"    \* no target, or the target "*"

\* replace: the member of that name is not given, the empty string, or a text.
Directive == [name: 0..2, target: Element \cup {AnyTarget}, replace: {"none", "empty", "text"},
              rules: {<< >>} \cup {<<r>> : r \in Rule} \cup (Rule \X Rule)]

\* The directives of a target, and after them the ones of any target.
Targets(root) == {root[i].target : i \in 1..Len(root)}
For(root, t)  == SelectSeq(root, LAMBDA d : d.target = t)
DirectivesOf(root, t) == IF t = AnyTarget THEN For(root, t) ELSE For(root, t) \o For(root, AnyTarget)

\* str_replace.size()>0
Replaces(d) == d.replace = "text"

\* Fault: the calls are numbered within the directive.
CallsLocal(d, caller) == IF Replaces(d) THEN << >> ELSE [k \in 1..Len(d.rules) |-> k]

\* WriteApplyTemplates: a text takes the place of the element, and without
\* text and rules it is copied. A step calls its rule by its number in the
\* list of all calls, to which it is added.
Result(d) == IF Replaces(d) THEN "text" ELSE IF d.rules = << >> THEN "copy" ELSE "calls"
Calls(d, caller) == IF Replaces(d) THEN << >> ELSE [k \in 1..Len(d.rules) |-> Len(caller) + k]
Added(d, caller) == IF Replaces(d) THEN caller ELSE caller \o d.rules

\* WriteXslt: one template for each target (in some order of the targets),
\* with one test for each directive, and the list of calls.
WriteXslt(root) ==
  LET Write(s, t) ==
        FoldLeft(LAMBDA q, d :
                   [when   |-> Append(q.when, [match |-> t, name |-> d.name, result |-> Result(d),
                                               calls |-> Calls(d, q.caller)]),
                    caller |-> Added(d, q.caller)],
                 s, DirectivesOf(root, t))
  IN FoldLeft(Write, [when |-> << >>, caller |-> << >>], SetToSeq(Targets(root)))

\* The XSLT processor: the template of the element or else the one for any
\* element, and in it the first test that holds, or else a copy.
Applied(root, e, name) ==
  LET sheet == WriteXslt(root)
      match == IF e \in Targets(root) THEN e ELSE AnyTarget
      tests == SelectSeq(sheet.when, LAMBDA w : w.match = match /\ w.name \in {name, AnyName})
  IN IF tests = << >> THEN [result |-> "copy", rules |-> << >>]
     ELSE [result |-> tests[1].result,
           rules  |-> [k \in 1..Len(tests[1].calls) |-> sheet.caller[tests[1].calls[k]]]]
=============================================================================
