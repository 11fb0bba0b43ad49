----------------------------- MODULE XmlStream -----------------------------
(***************************************************************************)
(* What a writer of XML text promises: tags come in an order that an XML   *)
(* parser accepts.  A document has one root element, an end tag names the  *)
(* innermost open element, and nothing follows the end of the root.        *)
(***************************************************************************)
EXTENDS Naturals, Sequences

CONSTANTS Name,  \* element names
          None   \* no element

VARIABLES open,  \* the open elements, outermost first
          tag    \* the last tag written

vars == <<open, tag>>

Init == open = <<>> /\ tag = <<"none", None>>

\* An element may begin inside another one, or as the root.
MayBegin == open # <<>> \/ tag = <<"none", None>>

Start(n) ==
  /\ MayBegin
  /\ open' = Append(open, n)
  /\ tag' = <<"start", n>>

Empty(n) ==
  /\ MayBegin
  /\ tag' = <<"empty", n>>
  /\ UNCHANGED open

End ==
  /\ open # <<>>
  /\ tag' = <<"end", open[Len(open)]>>
  /\ open' = SubSeq(open, 1, Len(open) - 1)

Next == (\E n \in Name : Start(n) \/ Empty(n)) \/ End

Spec == Init /\ [][Next]_vars
=============================================================================
