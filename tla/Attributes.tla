----------------------------- MODULE Attributes -----------------------------
(***************************************************************************)
(* The attributes of an element: attribSgXxx writes them from the fields   *)
(* of a node, an XSLT rule may drop one or empty it, the parser decodes    *)
(* them, and visitSgXxx and the check functions of visit() fill the fields *)
(* of the new node.                                                        *)
(***************************************************************************)
EXTENDS NodeClasses, XmlText

CONSTANTS Texts   \* the values of the free texts

\* Values of fields: texts, and for the others the default of the field, a
\* value that differs from it, and one that only some of the code knows.
Default == << >>
Other   == <<"x">>
Odd     == <<"y">>
Empty   == <<"empty">>
Garbage == <<"garbage">>

\* visit(): a child of a block the compiler generated is not unparsed.
Located == <<Opt("unparse")>>

\* writePreprocessingInfo, visitPreprocessingInfo; the last is the text in
\* the element.
PreprocessingInfo == <<Key("pos"), Key("type"), Twice(Given("content"))>>

Attrs ==
  [c \in NodeClass \cup {"PreprocessingInfo"} |->
     IF c = "PreprocessingInfo" THEN PreprocessingInfo
     ELSE IF c \in DOMAIN StmtNode \cup DOMAIN DeclNode THEN NodeOf(c).attrs \o Located
     ELSE NodeOf(c).attrs]

\* Some of the attributes that are read as numbers.
Number == {"label", "paren", "alignment", "elabel", "end", "lang", "ofmt", "rank", "fmt", "len",
           "only", "pos", "type", "cv_modifier", "unparse", "gnu_visibility"}

VARIABLES class,    \* the class of the node
          field,    \* its fields
          element,  \* the attributes of the element, as name and value
          edited,   \* an XSLT rule has changed one
          got,      \* the fields of the node that is read
          phase

vars == <<class, field, element, edited, got, phase>>

Rows       == Attrs[class]
RowNames   == {Rows[i].name : i \in 1..Len(Rows)}
Row(n)     == Rows[CHOOSE i \in 1..Len(Rows) : Rows[i].name = n]
Has(n)     == \E i \in 1..Len(element) : element[i].name = n
ValueOf(n) == element[CHOOSE i \in 1..Len(element) : element[i].name = n].value

Values(row) == IF row.text THEN Texts
               ELSE IF row.read = "partial" \/ row.instead # "" THEN {Default, Other, Odd} ELSE {Default, Other}

\* Next to another field, a text is short.
Few(row) == {v \in Values(row) : Len(v) <= 1}

\* Nodes with at most two fields that have not their default.
Nodes(rows) ==
  LET n == Len(rows)
      names == {rows[i].name : i \in 1..n}
      with(i, j, u, v) == [a \in names |-> IF a = rows[i].name THEN u
                                           ELSE IF a = rows[j].name THEN v ELSE Default]
  IN UNION {{with(i, i, u, u) : u \in Values(rows[i])} : i \in 1..n}
       \cup UNION {{with(i, j, u, v) : u \in Few(rows[i]), v \in Few(rows[j])} :
                   i \in 1..n, j \in 1..n}
       \cup {[a \in names |-> Default]}

Init ==
  /\ class \in DOMAIN Attrs
  /\ field \in Nodes(Attrs[class])
  /\ element = << >>
  /\ edited = ""
  /\ got = [a \in RowNames |-> Default]
  /\ phase = "writing"

-----------------------------------------------------------------------------
IsWritten(row) ==
  /\ row.written = "always" \/ (row.written = "set" /\ field[row.name] # Default)
  /\ row.unless # "" => field[row.unless] = Default

\* attribSgXxx
Write ==
  /\ phase = "writing"
  /\ element' = FlattenSeq([i \in 1..Len(Rows) |->
                  IF ~IsWritten(Rows[i]) THEN << >>
                  ELSE <<[name  |-> Rows[i].name,
                          value |-> IF Rows[i].escaped THEN XmlStr2Entity(field[Rows[i].name])
                                    ELSE field[Rows[i].name]]>>])
  /\ phase' = "written"
  /\ UNCHANGED <<class, field, edited, got>>

\* A rule leaves an attribute out.
Drop ==
  /\ phase = "written" /\ edited = ""
  /\ \E i \in 1..Len(element) : /\ edited' = element[i].name
                                /\ element' = RemoveAt(element, i)
  /\ UNCHANGED <<class, field, got, phase>>

\* A rule computes a number that is not there: attr="".
Clear ==
  /\ phase = "written" /\ edited = ""
  /\ \E i \in 1..Len(element) :
       /\ element[i].name \in Number
       /\ edited' = element[i].name
       /\ element' = [element EXCEPT ![i].value = Empty]
  /\ UNCHANGED <<class, field, got, phase>>

IllFormed ==
  \E i \in 1..Len(element) :
    \/ ~Parsable(element[i].value)
    \/ \E j \in 1..(i - 1) : element[j].name = element[i].name

\* XevXmlParser::parse
Parse ==
  /\ phase = "written"
  /\ IF IllFormed
     THEN phase' = "refused" /\ UNCHANGED element
     ELSE /\ phase' = "reading"
          /\ element' = [i \in 1..Len(element) |->
                           [element[i] EXCEPT !.value = Parsed(element[i].value)]]
  /\ UNCHANGED <<class, field, edited, got>>

\* XmlGetAttributeValue: nothing is extracted from an empty stream, and tmp
\* is not initialized.
XmlGetAttributeValue(v) == IF v = Empty THEN Garbage ELSE v

\* visitSgXxx, checkExpression, checkStatement, checkDeclStmt: one field.
ReadField(row) ==
  CASE row.read = "never"                                         -> Default
    [] row.instead # "" /\ Has(row.instead)                       -> ValueOf(row.instead)
    [] ~Has(row.name)                                             -> IF row.read = "garbage"
                                                                     THEN Garbage ELSE Default
    [] row.after # "" /\ Has(row.after) /\ ValueOf(row.after) # Default -> Default
    [] row.read = "partial" /\ ValueOf(row.name) = Odd            -> Default
    [] row.decoded                                                -> XmlEntity2Str(ValueOf(row.name))
    [] OTHER                                                      -> XmlGetAttributeValue(ValueOf(row.name))

\* XEV_MISSING_ATTR is fatal, and so is a kind the reader does not know.
Read ==
  /\ phase = "reading"
  /\ IF \E i \in 1..Len(Rows) :
          Rows[i].read = "fatal" \/ (Rows[i].read = "required" /\ ~Has(Rows[i].name))
     THEN phase' = "fatal" /\ UNCHANGED got
     ELSE phase' = "done" /\ got' = [n \in RowNames |-> ReadField(Row(n))]
  /\ UNCHANGED <<class, field, element, edited>>

Done == phase \in {"done", "fatal", "refused"} /\ UNCHANGED vars

Next == Write \/ Drop \/ Clear \/ Parse \/ Read \/ Done

Spec == Init /\ [][Next]_vars

-----------------------------------------------------------------------------
(* Properties.                                                             *)

\* The fields that are written into the document as they are, though they
\* are free text.
RawText ==
  (RowNames \cap {"bind", "link"}) \cup
  CASE class = "InterfaceStatement"  -> {"name"}
    [] class = "FortranIncludeLine"  -> {"filename"}
    [] class = "SourceFile"          -> {"file"}
    [] class = "VariableDeclaration" -> {"gnu_section", "gnu_alias"}
    [] class = "FunctionDeclaration" -> {"asm_name", "gnu_alias"}
    [] class \in {"EntryStatement", "ProcedureHeaderStatement", "BlockDataHeader",
                  "ProgramHeaderStatement"} -> {"asm_name"}
    [] OTHER                         -> {}

\* The element is well-formed XML, with no attribute twice, although three
\* functions may write attributes of one element (attribSgFunctionDeclaration,
\* attribSgDeclarationStatement, attribSgStatement): unless one of the fields
\* that are not escaped holds markup.
WellFormed ==
  phase = "refused" <=> /\ phase \notin {"writing", "written"}
                        /\ \E n \in RawText : n # edited /\ ~Parsable(field[n])

\* The texts that are decoded by the parser and then by XmlEntity2Str.
TwiceDecoded == {<<"NumberVal", "value">>, <<"StringVal", "value">>, <<"AsmStmt", "code">>,
                 <<"AsmOp", "constraint_string">>, <<"PreprocessingInfo", "content">>}

\* The fields of a node that are not the same after it was written and read.
Changed(n) ==
  LET is == field[n] # Default
  IN \/ class \in DOMAIN ValueNode /\ n = "paren" /\ is
     \/ <<class, n>> \in {<<"AsmStmt", "volatile">>, <<"ProcedureHeaderStatement", "old">>,
                          <<"BlockDataHeader", "old">>, <<"WhereStatement", "elabel">>,
                          <<"AttributeSpecExprs", "intent">>, <<"AttributeSpecData", "intent">>,
                          <<"AttributeSpecDimension", "intent">>} /\ is
     \/ class = "WhileStmt" /\ n = "slabel" /\ is /\ field["elabel"] # Default
     \/ class = "LabelStatement" /\ n = "slabel" /\ is /\ field["nlabel"] # Default
     \/ class = "GotoStatement" /\ n = "slabel" /\ field["nlabel"] \notin {Default, field[n]}
     \/ class = "ModifierType" /\ n = "cv_modifier" /\ field[n] = Odd
     \/ <<class, n>> \in TwiceDecoded /\ HasEntity(field[n])
     \/ n \in RawText /\ HasEntity(field[n])

\* A node that is written and read with no change to the document in between
\* has the fields it had, except exactly those that are Changed, and is never
\* refused but for a name group without names and an attribute specification
\* of a kind the reader does not know.
RoundTrip ==
  edited = "" =>
    /\ phase = "done" => \A n \in RowNames : (got[n] = field[n]) <=> ~Changed(n)
    /\ phase = "fatal" <=> /\ \/ class = "NameGroup" /\ field["names"] = Default
                              \/ class = "AttributeSpecOther"
                           /\ phase \in {"done", "fatal"}

\* No field is left with what was in memory because a rule left an attribute
\* out, except the language and the output format of a file; a number that
\* was emptied is never noticed.
Determined ==
  phase = "done" =>
    \A n \in RowNames :
      got[n] = Garbage => /\ n = edited
                          /\ \/ class = "SourceFile" /\ n \in {"lang", "ofmt"}
                             \/ Has(n)
=============================================================================
