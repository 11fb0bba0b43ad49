----------------------------- MODULE TextAttach -----------------------------
(***************************************************************************)
(* The contents of SgGlobal, SgBasicBlock and SgClassDefinition elements:  *)
(* traverseStatementsAndTexts (src/src/stmt.cpp) appends the statements    *)
(* among the children to the block, and attaches the text found between    *)
(* them to a neighbouring statement, or to the block itself.               *)
(*                                                                         *)
(* A child is a record [kind, lines]:                                      *)
(*   stmt   an element whose visit answers a statement                     *)
(*   other  an element whose visit answers something else or NULL          *)
(*          (PreprocessingInfo)                                            *)
(*   text   a text node with its lines; Blank is a line of white space     *)
(*   skip   any other DOM node (a comment, a processing instruction)       *)
(* A node is named by its position in the list of children; 0 is the block.*)
(***************************************************************************)
EXTENDS Naturals, Sequences

CONSTANTS Docs,   \* the lists of children
          Blank   \* a line of white space

ASSUME DocsAssumption ==
  \A d \in Docs :
    Len(d) \in Nat /\ \A k \in 1..Len(d) : d[k].kind \in {"stmt", "other", "text", "skip"}

VARIABLES doc,      \* the children; never changes
          pos,      \* the next child
          prev,     \* the last statement appended; 0 is NULL
          remain,   \* text waiting for the first statement
          stmts,    \* the statements of the block
          texts     \* preprocessing information attached, in order

vars == <<doc, pos, prev, remain, stmts, texts>>

\* A text is remembered by the child it comes from; 0 is the empty string.
Visible(k) == \E n \in 1..Len(doc[k].lines) : doc[k].lines[n] # Blank

Init ==
  /\ doc \in Docs
  /\ pos = 1
  /\ prev = 0
  /\ remain = 0
  /\ stmts = <<>>
  /\ texts = <<>>

Reading(kind) == pos <= Len(doc) /\ doc[pos].kind = kind

\* attachRawText
Attach(at, position, from) ==
  texts' = Append(texts, [at |-> at, position |-> position, from |-> from])

\* Faults: a later statement does not replace prev; the text waiting for the
\* first statement is not cleared.
AppendKeepPrev ==
  /\ Reading("stmt")
  /\ stmts' = Append(stmts, pos)
  /\ prev' = IF prev = 0 THEN pos ELSE prev
  /\ IF remain # 0 THEN Attach(pos, "before", remain) ELSE UNCHANGED texts
  /\ remain' = 0
  /\ pos' = pos + 1
  /\ UNCHANGED doc

AppendKeepRemain ==
  /\ Reading("stmt")
  /\ stmts' = Append(stmts, pos)
  /\ prev' = pos
  /\ IF remain # 0 THEN Attach(pos, "before", remain) ELSE UNCHANGED texts
  /\ pos' = pos + 1
  /\ UNCHANGED <<doc, remain>>

\* A statement is appended; a text that waited for it is put before it.
AppendStatement ==
  /\ Reading("stmt")
  /\ stmts' = Append(stmts, pos)
  /\ prev' = pos
  /\ IF remain # 0 THEN Attach(pos, "before", remain) ELSE UNCHANGED texts
  /\ remain' = 0
  /\ pos' = pos + 1
  /\ UNCHANGED doc

\* Text: lines of white space are dropped; what is left is attached after the
\* last statement, or waits for the first one.
AttachText ==
  /\ Reading("text") /\ Visible(pos)
  /\ IF prev # 0 THEN Attach(prev, "after", pos) /\ UNCHANGED remain
                 ELSE remain' = pos /\ UNCHANGED texts
  /\ pos' = pos + 1
  /\ UNCHANGED <<doc, prev, stmts>>

SkipChild ==
  /\ pos <= Len(doc)
  /\ doc[pos].kind \in {"other", "skip"} \/ (doc[pos].kind = "text" /\ ~Visible(pos))
  /\ pos' = pos + 1
  /\ UNCHANGED <<doc, prev, remain, stmts, texts>>

\* Fault: text left over is forgotten.
FinishForgetText ==
  /\ pos = Len(doc) + 1
  /\ pos' = pos + 1
  /\ UNCHANGED <<doc, prev, remain, stmts, texts>>

\* The end of the block; text still waiting goes inside it.
Finish ==
  /\ pos = Len(doc) + 1
  /\ IF remain # 0 THEN Attach(0, "inside", remain) ELSE UNCHANGED texts
  /\ pos' = pos + 1
  /\ UNCHANGED <<doc, prev, remain, stmts>>

Done == pos > Len(doc) + 1 /\ UNCHANGED vars

Next == AppendStatement \/ AttachText \/ SkipChild \/ Finish \/ Done

Spec == Init /\ [][Next]_vars

-----------------------------------------------------------------------------
(* Properties.                                                             *)

Finished == pos > Len(doc) + 1

Statements == {k \in 1..Len(doc) : doc[k].kind = "stmt"}
Texts      == {k \in 1..Len(doc) : doc[k].kind = "text" /\ Visible(k)}

\* Where a text is attached.
Homes(k) == {<<texts[n].at, texts[n].position>> : n \in {m \in 1..Len(texts) : texts[m].from = k}}

\* "If such a text exists, it is attached to either of the two statements": a
\* text after a statement is attached after the nearest statement before it,
\* however many statements, texts and other nodes surround it.
BetweenStatements ==
  Finished => \A k \in Texts :
    \A s \in Statements : s < k /\ (\A t \in Statements : t < k => t <= s) =>
      Homes(k) = {<<s, "after">>}

\* Of the texts before the first statement the last one is attached: before
\* that statement, or inside the block if there is none.
LeadingText ==
  Finished => \A k \in Texts :
    (\A s \in Statements : k < s) /\ (\A t \in Texts : t <= k \/ \E s \in Statements : s < t) =>
      Homes(k) = IF Statements = {} THEN {<<0, "inside">>}
                 ELSE {<<CHOOSE s \in Statements : \A t \in Statements : s <= t, "before">>}

\* Unparsing the block gives the statements and the attached texts in the
\* order of the document: text is never moved across a statement or across
\* another text attached to the same statement.
OrderKept ==
  /\ \A m, n \in 1..Len(stmts) : m < n => stmts[m] < stmts[n]
  /\ \A m, n \in 1..Len(texts) : m < n => texts[m].from < texts[n].from
  /\ \A n \in 1..Len(texts) :
       /\ texts[n].position = "after" =>
            texts[n].at < texts[n].from
            /\ \A s \in Statements : s <= texts[n].at \/ texts[n].from < s
       /\ texts[n].position = "before" =>
            \A s \in Statements : texts[n].at <= s /\ texts[n].from < s
       /\ texts[n].position = "inside" => Statements = {}
=============================================================================
