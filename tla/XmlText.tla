------------------------------ MODULE XmlText ------------------------------
(***************************************************************************)
(* Text and entities (src/src/xmlutils.cpp).  A text is a sequence of      *)
(* tokens: "&", one character "<" that stands for all the others markup    *)
(* uses, the names "amp;" and "lt;", and anything else.  <<"&", "lt;">> is *)
(* the entity of "<", whoever wrote it.                                    *)
(***************************************************************************)
EXTENDS Naturals, Sequences, SequencesExt

Entity == [amp |-> <<"&", "amp;">>, lt |-> <<"&", "lt;">>]

\* The entity e begins at position i of s.
At(s, i, e) == i \in 1..(Len(s) - 1) /\ SubSeq(s, i, i + 1) = e

\* REPLACE(str, c, e)
Encode(s, c, e) == FlattenSeq([i \in 1..Len(s) |-> IF s[i] = c THEN e ELSE <<s[i]>>])

\* REPLACE(str, e, c): the search goes on behind what was put in.
Decode(s, e, c) ==
  FlattenSeq([i \in 1..Len(s) |-> IF At(s, i, e) THEN <<c>>
                                  ELSE IF At(s, i - 1, e) THEN << >> ELSE <<s[i]>>])

\* Fault: "&" is replaced last, in the entities too.
XmlStr2EntityLate(s) == Encode(Encode(s, "<", Entity.lt), "&", Entity.amp)

XmlStr2Entity(s) == Encode(Encode(s, "&", Entity.amp), "<", Entity.lt)

\* What "&amp;" leaves may be the beginning of another entity.
XmlEntity2Str(s) == Decode(Decode(s, Entity.amp, "&"), Entity.lt, "<")

-----------------------------------------------------------------------------
(* The XML parser, which decodes every entity once.                        *)

Parsable(s) == \A i \in 1..Len(s) : /\ s[i] # "<"
                                    /\ s[i] = "&" => At(s, i, Entity.amp) \/ At(s, i, Entity.lt)

Parsed(s) ==
  LET entity(i) == {c \in {"amp", "lt"} : At(s, i, Entity[c])}
  IN FlattenSeq([i \in 1..Len(s) |-> CASE "amp" \in entity(i)  -> <<"&">>
                                       [] "lt" \in entity(i)   -> <<"<">>
                                       [] entity(i - 1) # {}   -> << >>
                                       [] OTHER                -> <<s[i]>>])

HasEntity(s) == \E i \in 1..Len(s) : At(s, i, Entity.amp) \/ At(s, i, Entity.lt)
=============================================================================
