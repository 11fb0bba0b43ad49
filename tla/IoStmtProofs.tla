---------------------------- MODULE IoStmtProofs ----------------------------
(***************************************************************************)
(* Fortran I/O statements with any set of specifiers: they are read back   *)
(* unchanged exactly if they have none of the misnamed ones.               *)
(*                                                                         *)
(* What the eleven tables have in common is one lemma (Tables): under the  *)
(* name an argument is written with, the reader finds the field it comes   *)
(* from, but for the lost ones; and nothing else leads to the field of a   *)
(* lost one.  The rest holds for any tables of this kind.                  *)
(***************************************************************************)
EXTENDS IoStmt, SequenceTheorems, TLAPS

-----------------------------------------------------------------------------
(* The tables.                                                             *)

\* The names and fields of the tables.
Word == KnownNames \cup {"padding", "format", "namelist", ListName, "io_stmt_list"}

\* The field under which the reader stores what is written as w.
Right(c, w) == /\ w[1] \in KnownNames /\ w[1] \in DOMAIN Reads[c]
               /\ Reads[c][w[1]] = w[2]

\* What is written under a name that leads elsewhere.
Lost(c) == CASE c = "CloseStatement"   -> {<<"err", "iomsg">>}
             [] c = "InquireStatement" -> {<<"padding", "pending">>}
             [] OTHER                  -> {}

\* What Reads does with the argument v does not end in the field of w.
Misses(c, v, w) == v[1] \in DOMAIN Reads[c] => Reads[c][v[1]] # w[2]

TableOk(c) ==
  /\ Writes[c] \in Seq(Word \X Word)
  /\ DOMAIN Reads[c] \subseteq Word
  /\ \A w \in Range(Writes[c]) : w[2] # ListItem[2] /\ (w \in Lost(c) \/ Right(c, w))
  /\ \A w \in Lost(c), v \in Range(Writes[c]) : Misses(c, v, w)
  /\ Lost(c) \subseteq Range(Writes[c])
  /\ \A n \in DOMAIN Reads[c] : \E w \in Range(Writes[c]) : w[2] = Reads[c][n]

\* The elements of a sequence of equal pairs, and of a concatenation.
LEMMA SameRange ==
  ASSUME NEW s \in Seq(Word)
  PROVE  /\ Same(s) \in Seq(Word \X Word)
         /\ Range(Same(s)) = {<<n, n>> : n \in Range(s)}
  BY DEF Same, Range

LEMMA JoinedRange ==
  ASSUME NEW s \in Seq(Word \X Word), NEW t \in Seq(Word \X Word)
  PROVE  /\ s \o t \in Seq(Word \X Word)
         /\ Range(s \o t) = Range(s) \cup Range(t)
  <1>1. s \o t \in Seq(Word \X Word)
    OBVIOUS
  <1>2. \A k \in 1..Len(s) : (s \o t)[k] = s[k]
    OBVIOUS
  <1>3. \A k \in 1..Len(t) : (s \o t)[Len(s) + k] = t[k] /\ Len(s) + k \in 1..Len(s \o t)
    OBVIOUS
  <1>4. \A k \in 1..Len(s \o t) : k \in 1..Len(s) \/ k - Len(s) \in 1..Len(t)
    OBVIOUS
  <1>5. Range(s \o t) \subseteq Range(s) \cup Range(t)
    BY <1>2, <1>3, <1>4 DEF Range
  <1>6. Range(s) \subseteq Range(s \o t)
    BY <1>2 DEF Range
  <1>7. ASSUME NEW k \in 1..Len(t) PROVE t[k] \in Range(s \o t)
    <2>1. Len(s) + k \in DOMAIN (s \o t) /\ (s \o t)[Len(s) + k] = t[k]
      BY <1>1, <1>3
    <2> QED BY <2>1 DEF Range
  <1>8. Range(t) \subseteq Range(s \o t)
    BY <1>7 DEF Range
  <1> QED BY <1>1, <1>5, <1>6, <1>8

LEMMA OneRange ==
  ASSUME NEW w \in Word \X Word
  PROVE  <<w>> \in Seq(Word \X Word) /\ Range(<<w>>) = {w}
  BY DEF Range

LEMMA DefaultRange ==
  /\ DefaultWrites \in Seq(Word \X Word)
  /\ Range(DefaultWrites) = {<<n, n>> : n \in Common}
  <1> DEFINE s == <<"unit", "iostat", "err", "iomsg">>
  <1>1. s \in Seq(Word)
    BY DEF Common, KnownNames, Word
  <1>2. Range(s) \subseteq Common
    BY DEF Range, Common
  <1>3. Common \subseteq Range(s)
    <2>1. s[1] = "unit" /\ s[2] = "iostat" /\ s[3] = "err" /\ s[4] = "iomsg" /\ DOMAIN s = 1..4
      OBVIOUS
    <2> QED BY <2>1 DEF Range, Common
  <1> HIDE DEF s
  <1>4. DefaultWrites = Same(s)
    BY DEF DefaultWrites, s
  <1> QED BY <1>1, <1>2, <1>3, <1>4, SameRange

LEMMA InquireRange ==
  /\ InquireWrites \in Seq(Word \X Word)
  /\ Range(InquireWrites) =
       {<<n, n>> : n \in KnownNames \ {"fmt", "status", "round", "sign", "advance", "rec", "end",
                                       "eor", "nml", "pending"}}
       \cup {<<"padding", "pending">>}
  <1> DEFINE s == <<"iolength", "unit", "iostat", "err", "iomsg", "file", "access", "form", "recl", "blank",
         "exist", "opened", "number", "named", "name", "sequential", "direct", "formatted",
         "unformatted", "nextrec", "position", "action", "read", "write", "readwrite", "delim",
         "pad", "asynchronous", "decimal", "stream", "size">>
  <1>1. s \in Seq(Word)
    BY DEF Common, KnownNames, Word
  <1>2. Range(s) = KnownNames \ {"fmt", "status", "round", "sign", "advance", "rec", "end",
                                       "eor", "nml", "pending"}
    BY DEF Range, Common, KnownNames
  <1> HIDE DEF s
  <1>3. InquireWrites = Same(s) \o << <<"padding", "pending">> >>
    BY DEF InquireWrites, s
  <1>4. <<"padding", "pending">> \in Word \X Word
    BY DEF KnownNames, Word
  <1>5. Same(s) \in Seq(Word \X Word) /\ Range(Same(s)) = {<<n, n>> : n \in Range(s)}
    BY <1>1, SameRange
  <1>6. /\ << <<"padding", "pending">> >> \in Seq(Word \X Word)
        /\ Range(<< <<"padding", "pending">> >>) = {<<"padding", "pending">>}
    BY <1>4, OneRange
  <1>7. /\ InquireWrites \in Seq(Word \X Word)
        /\ Range(InquireWrites) = Range(Same(s)) \cup Range(<< <<"padding", "pending">> >>)
    BY <1>3, <1>5, <1>6, JoinedRange
  <1> QED BY <1>2, <1>5, <1>6, <1>7

LEMMA OpenRange ==
  /\ OpenWrites \in Seq(Word \X Word)
  /\ Range(OpenWrites) =
       {<<n, n>> : n \in Common \cup {"file", "access", "form", "recl", "blank", "position",
                                     "action", "delim", "pad", "asynchronous", "status", "round",
                                     "sign"}}
  <1> DEFINE s == <<"unit", "iostat", "err", "file", "status", "access", "form", "recl", "blank",
                    "position", "action", "delim", "pad", "iomsg", "round", "sign",
                    "asynchronous">>
  <1>1. s \in Seq(Word)
    BY DEF Common, KnownNames, Word
  <1>2. Range(s) = Common \cup {"file", "access", "form", "recl", "blank", "position", "action",
                                "delim", "pad", "asynchronous", "status", "round", "sign"}
    BY DEF Range, Common
  <1> HIDE DEF s
  <1>3. OpenWrites = Same(s)
    BY DEF OpenWrites, s
  <1> QED BY <1>1, <1>2, <1>3, SameRange

LEMMA CloseRange ==
  /\ CloseWrites \in Seq(Word \X Word)
  /\ Range(CloseWrites) = {<<n, n>> : n \in {"unit", "iostat", "err", "status"}}
                          \cup {<<"err", "iomsg">>}
  <1> DEFINE s == <<"unit", "iostat", "err">>
             t == << <<"err", "iomsg">>, <<"status", "status">> >>
  <1>1. s \in Seq(Word) /\ t \in Seq(Word \X Word)
    BY DEF Common, KnownNames, Word
  <1>2. Range(s) = {"unit", "iostat", "err"}
    BY DEF Range
  <1>3. Range(t) = {<<"err", "iomsg">>, <<"status", "status">>}
    BY DEF Range
  <1> HIDE DEF s, t
  <1>4. CloseWrites = Same(s) \o t
    BY DEF CloseWrites, s, t
  <1>5. Same(s) \in Seq(Word \X Word) /\ Range(Same(s)) = {<<n, n>> : n \in Range(s)}
    BY <1>1, SameRange
  <1>6. /\ CloseWrites \in Seq(Word \X Word)
        /\ Range(CloseWrites) = Range(Same(s)) \cup Range(t)
    BY <1>1, <1>4, <1>5, JoinedRange
  <1> QED BY <1>2, <1>3, <1>5, <1>6

LEMMA PrintRange ==
  /\ PrintWrites \in Seq(Word \X Word)
  /\ Range(PrintWrites) = {<<"fmt", "format">>}
  <1>1. <<"fmt", "format">> \in Word \X Word
    BY DEF KnownNames, Word
  <1> QED BY <1>1, OneRange DEF PrintWrites

LEMMA ReadRange ==
  /\ ReadWrites \in Seq(Word \X Word)
  /\ Range(ReadWrites) =
       {<<n, n>> : n \in Common \cup {"rec", "end", "advance", "size", "eor", "asynchronous"}}
       \cup {<<"fmt", "format">>, <<"nml", "namelist">>}
  <1> DEFINE f == << <<"fmt", "format">> >>
             g == << <<"nml", "namelist">> >>
             s == <<"rec", "end">>
             t == <<"advance", "size", "eor", "asynchronous">>
  <1>1. s \in Seq(Word) /\ t \in Seq(Word)
    BY DEF KnownNames, Word
  <1>2. Range(s) = {"rec", "end"} /\ Range(t) = {"advance", "size", "eor", "asynchronous"}
    BY DEF Range
  <1>3. <<"fmt", "format">> \in Word \X Word /\ <<"nml", "namelist">> \in Word \X Word
    BY DEF KnownNames, Word
  <1>4. /\ f \in Seq(Word \X Word) /\ Range(f) = {<<"fmt", "format">>}
        /\ g \in Seq(Word \X Word) /\ Range(g) = {<<"nml", "namelist">>}
    BY <1>3, OneRange
  <1> HIDE DEF f, g, s, t
  <1>5. ReadWrites = DefaultWrites \o f \o Same(s) \o g \o Same(t)
    BY DEF ReadWrites, f, g, s, t
  <1>6. /\ Same(s) \in Seq(Word \X Word) /\ Range(Same(s)) = {<<n, n>> : n \in Range(s)}
        /\ Same(t) \in Seq(Word \X Word) /\ Range(Same(t)) = {<<n, n>> : n \in Range(t)}
    BY <1>1, SameRange
  <1>7. /\ DefaultWrites \o f \in Seq(Word \X Word)
        /\ Range(DefaultWrites \o f) = {<<n, n>> : n \in Common} \cup Range(f)
    BY SMTT(30), <1>4, DefaultRange, JoinedRange
  <1>8. /\ DefaultWrites \o f \o Same(s) \in Seq(Word \X Word)
        /\ Range(DefaultWrites \o f \o Same(s)) = Range(DefaultWrites \o f) \cup Range(Same(s))
    BY <1>6, <1>7, JoinedRange
  <1>9. /\ DefaultWrites \o f \o Same(s) \o g \in Seq(Word \X Word)
        /\ Range(DefaultWrites \o f \o Same(s) \o g)
             = Range(DefaultWrites \o f \o Same(s)) \cup Range(g)
    BY <1>4, <1>8, JoinedRange
  <1>10. /\ ReadWrites \in Seq(Word \X Word)
         /\ Range(ReadWrites) = Range(DefaultWrites \o f \o Same(s) \o g) \cup Range(Same(t))
    BY <1>5, <1>6, <1>9, JoinedRange
  <1>11. Range(ReadWrites) = {<<n, n>> : n \in Common} \cup Range(f) \cup Range(Same(s))
                             \cup Range(g) \cup Range(Same(t))
    BY <1>7, <1>8, <1>9, <1>10
  <1> QED BY <1>2, <1>4, <1>6, <1>10, <1>11

LEMMA WriteRange ==
  /\ WriteWrites \in Seq(Word \X Word)
  /\ Range(WriteWrites) =
       {<<n, n>> : n \in Common \cup {"rec", "advance", "asynchronous"}}
       \cup {<<"fmt", "format">>, <<"nml", "namelist">>}
  <1> DEFINE f == << <<"fmt", "format">> >>
             g == << <<"nml", "namelist">> >>
             s == <<"rec", "advance">>
             t == <<"asynchronous">>
  <1>1. s \in Seq(Word) /\ t \in Seq(Word)
    BY DEF KnownNames, Word
  <1>2. Range(s) = {"rec", "advance"} /\ Range(t) = {"asynchronous"}
    BY DEF Range
  <1>3. <<"fmt", "format">> \in Word \X Word /\ <<"nml", "namelist">> \in Word \X Word
    BY DEF KnownNames, Word
  <1>4. /\ f \in Seq(Word \X Word) /\ Range(f) = {<<"fmt", "format">>}
        /\ g \in Seq(Word \X Word) /\ Range(g) = {<<"nml", "namelist">>}
    BY <1>3, OneRange
  <1> HIDE DEF f, g, s, t
  <1>5. WriteWrites = DefaultWrites \o f \o Same(s) \o g \o Same(t)
    BY DEF WriteWrites, f, g, s, t
  <1>6. /\ Same(s) \in Seq(Word \X Word) /\ Range(Same(s)) = {<<n, n>> : n \in Range(s)}
        /\ Same(t) \in Seq(Word \X Word) /\ Range(Same(t)) = {<<n, n>> : n \in Range(t)}
    BY <1>1, SameRange
  <1>7. /\ DefaultWrites \o f \in Seq(Word \X Word)
        /\ Range(DefaultWrites \o f) = {<<n, n>> : n \in Common} \cup Range(f)
    BY SMTT(30), <1>4, DefaultRange, JoinedRange
  <1>8. /\ DefaultWrites \o f \o Same(s) \in Seq(Word \X Word)
        /\ Range(DefaultWrites \o f \o Same(s)) = Range(DefaultWrites \o f) \cup Range(Same(s))
    BY <1>6, <1>7, JoinedRange
  <1>9. /\ DefaultWrites \o f \o Same(s) \o g \in Seq(Word \X Word)
        /\ Range(DefaultWrites \o f \o Same(s) \o g)
             = Range(DefaultWrites \o f \o Same(s)) \cup Range(g)
    BY <1>4, <1>8, JoinedRange
  <1>10. /\ WriteWrites \in Seq(Word \X Word)
         /\ Range(WriteWrites) = Range(DefaultWrites \o f \o Same(s) \o g) \cup Range(Same(t))
    BY <1>5, <1>6, <1>9, JoinedRange
  <1>11. Range(WriteWrites) = {<<n, n>> : n \in Common} \cup Range(f) \cup Range(Same(s))
                              \cup Range(g) \cup Range(Same(t))
    BY <1>7, <1>8, <1>9, <1>10
  <1> QED BY <1>2, <1>4, <1>6, <1>10, <1>11

\* A table whose names are its fields' own; with others it is looked through.
LEMMA OwnTable ==
  ASSUME NEW names, names \subseteq Word
  PROVE  /\ DOMAIN Own(names) = names
         /\ \A n \in names : Own(names)[n] = n
  BY DEF Own

LEMMA DefaultTable ==
  ASSUME NEW c \in Class, Writes[c] = DefaultWrites, Reads[c] = DefaultReads, Lost(c) = {}
  PROVE  TableOk(c)
  <1>1. Common \subseteq KnownNames /\ Common \subseteq Word
    BY DEF KnownNames, Word
  <1>2. DOMAIN Reads[c] = Common /\ \A n \in Common : Reads[c][n] = n
    BY <1>1, OwnTable DEF DefaultReads
  <1>3. ListItem[2] \notin Common
    BY DEF ListItem, ListName, Common
  <1>4. \A w \in Range(DefaultWrites) : w[2] # ListItem[2] /\ Right(c, w)
    BY <1>1, <1>2, <1>3, DefaultRange DEF Right
  <1>5. ASSUME NEW n \in DOMAIN Reads[c]
        PROVE  \E w \in Range(DefaultWrites) : w[2] = Reads[c][n]
    <2>1. <<n, n>> \in Range(DefaultWrites) /\ <<n, n>>[2] = Reads[c][n]
      BY <1>2, DefaultRange
    <2> QED BY <2>1
  <1> QED BY <1>1, <1>2, <1>4, <1>5, DefaultRange DEF TableOk

LEMMA CloseTable == TableOk("CloseStatement")
  <1> DEFINE c == "CloseStatement"
  <1>1. Writes[c] = CloseWrites /\ Reads[c] = CloseReads /\ Lost(c) = {<<"err", "iomsg">>}
    BY DEF Writes, Reads, Lost
  <1>2. DOMAIN Reads[c] = Common \cup {"status"} /\ \A n \in Common \cup {"status"} : Reads[c][n] = n
    BY <1>1 DEF CloseReads, Own
  <1>3. Common \cup {"status"} \subseteq KnownNames /\ KnownNames \subseteq Word
    BY DEF KnownNames, Word
  <1>4. \A w \in Range(CloseWrites) : w[2] # ListItem[2] /\ (w \in Lost(c) \/ Right(c, w))
    BY <1>1, <1>2, <1>3, CloseRange DEF Right, Common, ListItem, ListName
  <1>5. \A v \in Range(CloseWrites) : Misses(c, v, <<"err", "iomsg">>)
    BY <1>2, CloseRange DEF Misses, Common
  <1>6. ASSUME NEW n \in DOMAIN Reads[c]
        PROVE  \E w \in Range(CloseWrites) : w[2] = Reads[c][n]
    <2>1. CASE n = "iomsg"
      <3>1. <<"err", "iomsg">> \in Range(CloseWrites) /\ <<"err", "iomsg">>[2] = Reads[c][n]
        BY <1>2, CloseRange, <2>1
      <3> QED BY <3>1
    <2>2. CASE n # "iomsg"
      <3>1. <<n, n>> \in Range(CloseWrites) /\ <<n, n>>[2] = Reads[c][n]
        BY <1>2, CloseRange, <2>2 DEF Common
      <3> QED BY <3>1
    <2> QED BY <2>1, <2>2
  <1>7. Lost(c) \subseteq Range(CloseWrites)
    BY <1>1, CloseRange
  <1> QED BY <1>1, <1>2, <1>3, <1>4, <1>5, <1>6, <1>7, CloseRange DEF TableOk

LEMMA InquireTable == TableOk("InquireStatement")
  <1> DEFINE c == "InquireStatement"
             others == {"fmt", "status", "round", "sign", "advance", "rec", "end", "eor", "nml"}
             names == KnownNames \ others
  <1>1. /\ Writes[c] = InquireWrites /\ Reads[c] = Own(names)
        /\ Lost(c) = {<<"padding", "pending">>}
    BY DEF Writes, Reads, Lost, InquireReads
  <1>2. names \subseteq KnownNames /\ KnownNames \subseteq Word
    BY DEF Word
  <1>3. /\ "padding" \notin names /\ "pending" \in names
        /\ "io_stmt_list" \notin names
    BY DEF KnownNames, Common
  <1>4. Range(InquireWrites) = {<<n, n>> : n \in names \ {"pending"}} \cup {<<"padding", "pending">>}
    BY InquireRange
  <1> HIDE DEF names
  <1>5. DOMAIN Reads[c] = names /\ \A n \in names : Reads[c][n] = n
    BY <1>1 DEF Own
  <1>6. \A w \in Range(InquireWrites) : w[2] # ListItem[2] /\ (w \in Lost(c) \/ Right(c, w))
    BY <1>1, <1>2, <1>3, <1>4, <1>5 DEF Right, ListItem, ListName
  <1>7. \A v \in Range(InquireWrites) : Misses(c, v, <<"padding", "pending">>)
    BY <1>3, <1>4, <1>5 DEF Misses
  <1>8. ASSUME NEW n \in DOMAIN Reads[c]
        PROVE  \E w \in Range(InquireWrites) : w[2] = Reads[c][n]
    <2>1. CASE n = "pending"
      <3>1. <<"padding", "pending">> \in Range(InquireWrites) /\ <<"padding", "pending">>[2] = Reads[c][n]
        BY <1>4, <1>5, <2>1
      <3> QED BY <3>1
    <2>2. CASE n # "pending"
      <3>1. <<n, n>> \in Range(InquireWrites) /\ <<n, n>>[2] = Reads[c][n]
        BY <1>4, <1>5, <2>2
      <3> QED BY <3>1
    <2> QED BY <2>1, <2>2
  <1>9. Lost(c) \subseteq Range(InquireWrites)
    BY <1>1, <1>4
  <1> QED BY <1>1, <1>2, <1>5, <1>6, <1>7, <1>8, <1>9, InquireRange DEF TableOk

LEMMA OpenTable == TableOk("OpenStatement")
  <1> DEFINE c == "OpenStatement"
             names == Common \cup {"file", "access", "form", "recl", "blank", "position", "action",
                                   "delim", "pad", "asynchronous", "status", "round", "sign"}
  <1>1. Writes[c] = OpenWrites /\ Reads[c] = Own(names) /\ Lost(c) = {}
    BY DEF Writes, Reads, Lost, OpenReads
  <1>2. names \subseteq KnownNames /\ KnownNames \subseteq Word
    BY DEF KnownNames, Word
  <1>3. "io_stmt_list" \notin names
    BY DEF Common
  <1>4. Range(OpenWrites) = {<<n, n>> : n \in names}
    BY OpenRange
  <1> HIDE DEF names
  <1>5. DOMAIN Reads[c] = names /\ \A n \in names : Reads[c][n] = n
    BY <1>1 DEF Own
  <1>6. \A w \in Range(OpenWrites) : w[2] # ListItem[2] /\ Right(c, w)
    BY <1>1, <1>2, <1>3, <1>4, <1>5 DEF Right, ListItem, ListName
  <1>7. ASSUME NEW n \in DOMAIN Reads[c]
        PROVE  \E w \in Range(OpenWrites) : w[2] = Reads[c][n]
    <2>1. <<n, n>> \in Range(OpenWrites) /\ <<n, n>>[2] = Reads[c][n]
      BY <1>4, <1>5
    <2> QED BY <2>1
  <1> QED BY <1>1, <1>2, <1>5, <1>6, <1>7, OpenRange DEF TableOk

LEMMA PrintTable == TableOk("PrintStatement")
  <1> DEFINE c == "PrintStatement"
  <1>1. Writes[c] = PrintWrites /\ Reads[c] = PrintReads /\ Lost(c) = {}
    BY DEF Writes, Reads, Lost
  <1>2. DOMAIN Reads[c] = {"fmt"} /\ Reads[c]["fmt"] = "format"
    BY <1>1 DEF PrintReads
  <1>3. "fmt" \in KnownNames /\ KnownNames \subseteq Word
    BY DEF KnownNames, Word
  <1>4. \A w \in Range(PrintWrites) : w[2] # ListItem[2] /\ Right(c, w)
    BY <1>2, <1>3, PrintRange DEF Right, ListItem, ListName
  <1> QED BY <1>1, <1>2, <1>3, <1>4, PrintRange DEF TableOk

LEMMA ReadTable == TableOk("ReadStatement")
  <1> DEFINE c == "ReadStatement"
             names == Common \cup {"fmt", "rec", "end", "nml", "advance", "size", "eor",
                                   "asynchronous"}
  <1>1. Writes[c] = ReadWrites /\ Reads[c] = ReadReads /\ Lost(c) = {}
    BY DEF Writes, Reads, Lost
  <1>2. names \subseteq KnownNames /\ KnownNames \subseteq Word
    BY DEF KnownNames, Word
  <1>3. /\ "io_stmt_list" \notin names /\ "fmt" \in names /\ "nml" \in names
    BY DEF Common
  <1>4. Range(ReadWrites) = {<<n, n>> : n \in names \ {"fmt", "nml"}}
                          \cup {<<"fmt", "format">>, <<"nml", "namelist">>}
    BY ReadRange DEF Common
  <1>5. Reads[c] = [n \in names |-> CASE n = "fmt" -> "format" [] n = "nml" -> "namelist" [] OTHER -> n]
    BY <1>1 DEF ReadReads
  <1> HIDE DEF names
  <1>6. /\ DOMAIN Reads[c] = names
        /\ Reads[c]["fmt"] = "format" /\ Reads[c]["nml"] = "namelist"
        /\ \A n \in names \ {"fmt", "nml"} : Reads[c][n] = n
    BY <1>3, <1>5
  <1>7. \A w \in Range(ReadWrites) : w[2] # ListItem[2] /\ Right(c, w)
    BY <1>2, <1>3, <1>4, <1>6 DEF Right, ListItem, ListName
  <1>8. ASSUME NEW n \in DOMAIN Reads[c]
        PROVE  \E w \in Range(ReadWrites) : w[2] = Reads[c][n]
    <2>1. CASE n = "fmt"
      <3>1. <<"fmt", "format">> \in Range(ReadWrites) /\ <<"fmt", "format">>[2] = Reads[c][n]
        BY <1>4, <1>6, <2>1
      <3> QED BY <3>1
    <2>2. CASE n = "nml"
      <3>1. <<"nml", "namelist">> \in Range(ReadWrites) /\ <<"nml", "namelist">>[2] = Reads[c][n]
        BY <1>4, <1>6, <2>2
      <3> QED BY <3>1
    <2>3. CASE n \notin {"fmt", "nml"}
      <3>1. <<n, n>> \in Range(ReadWrites) /\ <<n, n>>[2] = Reads[c][n]
        BY <1>4, <1>6, <2>3
      <3> QED BY <3>1
    <2> QED BY <2>1, <2>2, <2>3
  <1> QED BY <1>1, <1>2, <1>6, <1>7, <1>8, ReadRange DEF TableOk

LEMMA WriteTable == TableOk("WriteStatement")
  <1> DEFINE c == "WriteStatement"
             names == Common \cup {"fmt", "rec", "advance", "nml", "asynchronous"}
  <1>1. Writes[c] = WriteWrites /\ Reads[c] = WriteReads /\ Lost(c) = {}
    BY DEF Writes, Reads, Lost
  <1>2. names \subseteq KnownNames /\ KnownNames \subseteq Word
    BY DEF KnownNames, Word
  <1>3. /\ "io_stmt_list" \notin names /\ "fmt" \in names /\ "nml" \in names
    BY DEF Common
  <1>4. Range(WriteWrites) = {<<n, n>> : n \in names \ {"fmt", "nml"}}
                          \cup {<<"fmt", "format">>, <<"nml", "namelist">>}
    BY WriteRange DEF Common
  <1>5. Reads[c] = [n \in names |-> CASE n = "fmt" -> "format" [] n = "nml" -> "namelist" [] OTHER -> n]
    BY <1>1 DEF WriteReads
  <1> HIDE DEF names
  <1>6. /\ DOMAIN Reads[c] = names
        /\ Reads[c]["fmt"] = "format" /\ Reads[c]["nml"] = "namelist"
        /\ \A n \in names \ {"fmt", "nml"} : Reads[c][n] = n
    BY <1>3, <1>5
  <1>7. \A w \in Range(WriteWrites) : w[2] # ListItem[2] /\ Right(c, w)
    BY <1>2, <1>3, <1>4, <1>6 DEF Right, ListItem, ListName
  <1>8. ASSUME NEW n \in DOMAIN Reads[c]
        PROVE  \E w \in Range(WriteWrites) : w[2] = Reads[c][n]
    <2>1. CASE n = "fmt"
      <3>1. <<"fmt", "format">> \in Range(WriteWrites) /\ <<"fmt", "format">>[2] = Reads[c][n]
        BY <1>4, <1>6, <2>1
      <3> QED BY <3>1
    <2>2. CASE n = "nml"
      <3>1. <<"nml", "namelist">> \in Range(WriteWrites) /\ <<"nml", "namelist">>[2] = Reads[c][n]
        BY <1>4, <1>6, <2>2
      <3> QED BY <3>1
    <2>3. CASE n \notin {"fmt", "nml"}
      <3>1. <<n, n>> \in Range(WriteWrites) /\ <<n, n>>[2] = Reads[c][n]
        BY <1>4, <1>6, <2>3
      <3> QED BY <3>1
    <2> QED BY <2>1, <2>2, <2>3
  <1> QED BY <1>1, <1>2, <1>6, <1>7, <1>8, WriteRange DEF TableOk

LEMMA Tables == \A c \in Class : TableOk(c)
  <1>1. Class = {"BackspaceStatement", "EndfileStatement", "FlushStatement", "RewindStatement",
                 "WaitStatement", "CloseStatement", "InquireStatement", "OpenStatement",
                 "PrintStatement", "ReadStatement", "WriteStatement"}
    BY DEF Class, Writes
  <1>2. TableOk("BackspaceStatement")
    <2>1. Writes["BackspaceStatement"] = DefaultWrites
      BY DEF Writes
    <2>2. Reads["BackspaceStatement"] = DefaultReads
      BY DEF Reads, BackspaceReads
    <2>3. Lost("BackspaceStatement") = {}
      BY DEF Lost
    <2> QED BY <1>1, <2>1, <2>2, <2>3, DefaultTable
  <1>3. TableOk("EndfileStatement")
    <2>1. Writes["EndfileStatement"] = DefaultWrites
      BY DEF Writes
    <2>2. Reads["EndfileStatement"] = DefaultReads
      BY DEF Reads, EndfileReads
    <2>3. Lost("EndfileStatement") = {}
      BY DEF Lost
    <2> QED BY <1>1, <2>1, <2>2, <2>3, DefaultTable
  <1>4. TableOk("FlushStatement")
    <2>1. Writes["FlushStatement"] = DefaultWrites
      BY DEF Writes
    <2>2. Reads["FlushStatement"] = DefaultReads
      BY DEF Reads, FlushReads
    <2>3. Lost("FlushStatement") = {}
      BY DEF Lost
    <2> QED BY <1>1, <2>1, <2>2, <2>3, DefaultTable
  <1>5. TableOk("RewindStatement")
    <2>1. Writes["RewindStatement"] = DefaultWrites
      BY DEF Writes
    <2>2. Reads["RewindStatement"] = DefaultReads
      BY DEF Reads, RewindReads
    <2>3. Lost("RewindStatement") = {}
      BY DEF Lost
    <2> QED BY <1>1, <2>1, <2>2, <2>3, DefaultTable
  <1>6. TableOk("WaitStatement")
    <2>1. Writes["WaitStatement"] = DefaultWrites
      BY DEF Writes
    <2>2. Reads["WaitStatement"] = DefaultReads
      BY DEF Reads, WaitReads
    <2>3. Lost("WaitStatement") = {}
      BY DEF Lost
    <2> QED BY <1>1, <2>1, <2>2, <2>3, DefaultTable
  <1> QED
    BY <1>1, <1>2, <1>3, <1>4, <1>5, <1>6, CloseTable, InquireTable, OpenTable, PrintTable,
       ReadTable, WriteTable

-----------------------------------------------------------------------------
(* The inductive invariant.                                                *)

\* What the writer hands over.
Args == {w \in Range(Writes[class]) \cup {ListItem} : w[2] \in stmt}

Types ==
  /\ class \in Class /\ stmt \subseteq Fields(class)
  /\ next \in Nat \ {0} /\ todo \in Seq(Args)
  /\ result \in [Fields(class) -> Fields(class) \cup {NULL}]
  /\ phase \in {"writing", "reading", "done", "fatal"}
  /\ phase = "done" => todo = << >>

\* What the writer has still to go through.
Coming == IF phase = "writing" THEN {Writes[class][k] : k \in next..Len(Writes[class])} ELSE {}

\* An argument is still to come, or stored where it came from.
AllArrive ==
  \A w \in Args : w \in Range(todo) \/ w \in Coming \/ result[w[2]] = w[2]

\* A field has its own expression or none.
OnlyOwn == \A f \in Fields(class) : result[f] = NULL \/ (f \in stmt /\ result[f] = f)

\* The field of a lost argument is not set.
LostStays == \A w \in Lost(class) : result[w[2]] = NULL

IInv ==
  /\ Types /\ LostStays
  /\ ~Misnamed => phase # "fatal" /\ AllArrive /\ OnlyOwn

-----------------------------------------------------------------------------
(* The steps.                                                              *)

\* A statement is misnamed if it has the field of a lost argument.
LEMMA LostIsMisnamed ==
  ASSUME class \in Class
  PROVE  Misnamed <=> \E w \in Lost(class) : w[2] \in stmt
  <1>1. CASE class = "CloseStatement"
    <2>1. Lost(class) = {<<"err", "iomsg">>}
      BY <1>1 DEF Lost
    <2>2. Misnamed <=> "iomsg" \in stmt
      BY <1>1 DEF Misnamed
    <2>3. <<"err", "iomsg">>[2] = "iomsg"
      OBVIOUS
    <2> QED BY <2>1, <2>2, <2>3
  <1>2. CASE class = "InquireStatement"
    <2>1. Lost(class) = {<<"padding", "pending">>}
      BY <1>2 DEF Lost
    <2>2. Misnamed <=> "pending" \in stmt
      BY <1>2 DEF Misnamed
    <2>3. <<"padding", "pending">>[2] = "pending"
      OBVIOUS
    <2> QED BY <2>1, <2>2, <2>3
  <1>3. CASE class \notin {"CloseStatement", "InquireStatement"}
    <2>1. Lost(class) = {}
      BY <1>3 DEF Lost
    <2> QED BY <1>3, <2>1 DEF Misnamed
  <1> QED BY <1>1, <1>2, <1>3

\* The fields of a class are what is written, and the I/O list.
LEMMA FieldsWritten ==
  ASSUME NEW c \in Class
  PROVE  /\ \A f \in Fields(c) : \E w \in Range(Writes[c]) \cup {ListItem} : w[2] = f
         /\ \A w \in Range(Writes[c]) : w[2] \in Fields(c)
         /\ \A w \in Lost(c) : w[2] \in Fields(c) /\ w[2] # ListItem[2]
         /\ ListItem[2] \in Fields(c) => c \in Listed
  <1>1. TableOk(c)
    BY Tables
  <1>2. \A w \in Range(Writes[c]) : \E k \in 1..Len(Writes[c]) : w = Writes[c][k]
    BY <1>1 DEF TableOk, Range
  <1>3. \A k \in 1..Len(Writes[c]) : Writes[c][k] \in Range(Writes[c])
    BY <1>1 DEF TableOk, Range
  <1>4. \A f \in Range(Reads[c]) : \E w \in Range(Writes[c]) : w[2] = f
    BY <1>1 DEF TableOk, Range
  <1>5. ListItem[2] = "io_stmt_list"
    BY DEF ListItem
  <1>6. \A w \in Range(Writes[c]) : w[2] \in Fields(c)
    BY <1>2 DEF Fields
  <1>7. ASSUME NEW f \in Fields(c)
        PROVE  \/ \E w \in Range(Writes[c]) : w[2] = f
               \/ f = "io_stmt_list" /\ c \in Listed
    BY <1>3, <1>4, <1>7 DEF Fields
  <1>8. \A w \in Range(Writes[c]) : w[2] # "io_stmt_list"
    BY <1>1, <1>5 DEF TableOk
  <1>9. Lost(c) \subseteq Range(Writes[c])
    BY <1>1 DEF TableOk
  <1> QED BY <1>5, <1>6, <1>7, <1>8, <1>9

LEMMA InitIInv == Init => IInv
  <1> SUFFICES ASSUME Init PROVE IInv
    OBVIOUS
  <1>1. class \in Class /\ next = 1 /\ phase = "writing"
    BY DEF Init
  <1>2. stmt \subseteq Fields(class)
    <2>1. stmt \in {{}} \cup {Range(f) : f \in [1..MaxSpecs -> Fields(class)]}
      BY DEF Init, AtMost
    <2>2. ASSUME NEW f \in [1..MaxSpecs -> Fields(class)] PROVE Range(f) \subseteq Fields(class)
      BY DEF Range
    <2> QED BY <2>1, <2>2
  <1>3. result \in [Fields(class) -> Fields(class) \cup {NULL}] /\ \A f \in Fields(class) : result[f] = NULL
    BY DEF Init
  <1>5. todo \in Seq(Args) /\ (ListItem \in Args => ListItem \in Range(todo))
    <2>1. CASE ListItem[2] \in stmt
      <3>1. todo = <<ListItem>> /\ ListItem \in Args
        BY <2>1 DEF Init, Args, ListItem
      <3> QED BY <3>1 DEF Range
    <2>2. CASE ListItem[2] \notin stmt
      <3>1. todo = << >> /\ ListItem \notin Args
        BY <2>2 DEF Init, Args, ListItem
      <3> QED BY <3>1
    <2> QED BY <2>1, <2>2
  <1>6. TableOk(class)
    BY <1>1, Tables
  <1>7. Range(Writes[class]) \subseteq Coming
    BY <1>1, <1>6 DEF Coming, Range, TableOk
  <1>8. Types
    BY <1>1, <1>2, <1>3, <1>5 DEF Types
  <1>9. LostStays
    BY <1>1, <1>3, FieldsWritten DEF LostStays
  <1>10. AllArrive
    BY <1>5, <1>7 DEF AllArrive, Args
  <1>11. OnlyOwn
    BY <1>3 DEF OnlyOwn
  <1> QED BY <1>1, <1>8, <1>9, <1>10, <1>11 DEF IInv

\* What stays while one statement is written and read.
LEMMA SameStatement ==
  ASSUME class' = class, stmt' = stmt
  PROVE  Args' = Args /\ Misnamed' = Misnamed
  BY DEF Args, Misnamed

LEMMA WriteStep == IInv /\ WriteArgument => IInv'
  <1> SUFFICES ASSUME IInv, WriteArgument PROVE IInv'
    OBVIOUS
  <1> DEFINE w == Writes[class][next]
  <1>1. Types /\ TableOk(class)
    BY Tables DEF IInv, Types
  <1>2. /\ class' = class /\ stmt' = stmt /\ result' = result /\ phase' = phase
        /\ phase = "writing" /\ next' = next + 1 /\ next \in 1..Len(Writes[class])
        /\ todo' = IF w[2] \in stmt THEN Append(todo, w) ELSE todo
    BY <1>1 DEF WriteArgument, Types
  <1>3. Args' = Args /\ Misnamed' = Misnamed
    BY <1>2, SameStatement
  <1>4. w \in Range(Writes[class])
    BY <1>1, <1>2 DEF TableOk, Range
  <1>5. /\ todo' \in Seq(Args) /\ Range(todo) \subseteq Range(todo')
        /\ w[2] \in stmt => w \in Range(todo')
    <2>1. CASE w[2] \in stmt
      <3>1. w \in Args /\ todo \in Seq(Args) /\ todo' = Append(todo, w)
        BY <1>1, <1>2, <1>4, <2>1 DEF Args, Types
      <3> HIDE DEF w
      <3>2. /\ todo' \in Seq(Args) /\ Len(todo') = Len(todo) + 1 /\ todo'[Len(todo) + 1] = w
            /\ \A k \in 1..Len(todo) : todo'[k] = todo[k]
        BY <3>1
      <3>3. Len(todo) \in Nat
        BY <3>1
      <3>4. DOMAIN todo' = 1..(Len(todo) + 1) /\ DOMAIN todo = 1..Len(todo)
        BY <3>1, <3>2
      <3>5. /\ Len(todo) + 1 \in DOMAIN todo'
            /\ \A k \in DOMAIN todo : k \in DOMAIN todo' /\ todo'[k] = todo[k]
        BY <3>2, <3>3, <3>4
      <3> QED BY <3>2, <3>5 DEF Range
    <2>2. CASE w[2] \notin stmt
      BY <1>1, <1>2, <2>2 DEF Types
    <2> QED BY <2>1, <2>2
  <1>6. Types'
    BY <1>1, <1>2, <1>3, <1>5 DEF Types
  <1>7. LostStays'
    BY <1>2 DEF IInv, LostStays
  <1>8. \A v \in Coming : v = w \/ v \in Coming'
    <2>1. \A k \in next..Len(Writes[class]) : k = next \/ k \in next'..Len(Writes[class])
      BY <1>1, <1>2 DEF TableOk
    <2> QED BY <1>2, <2>1 DEF Coming
  <1>9. AllArrive => AllArrive'
    BY <1>2, <1>3, <1>5, <1>8 DEF AllArrive, Args
  <1>10. OnlyOwn => OnlyOwn'
    BY <1>2 DEF OnlyOwn
  <1> QED BY <1>2, <1>3, <1>6, <1>7, <1>9, <1>10 DEF IInv

LEMMA WrittenStep == IInv /\ Written => IInv'
  <1> SUFFICES ASSUME IInv, Written PROVE IInv'
    OBVIOUS
  <1>1. Types /\ TableOk(class)
    BY Tables DEF IInv, Types
  <1>2. /\ UNCHANGED <<class, stmt, next, todo, result>> /\ phase' = "reading"
        /\ next > Len(Writes[class])
    BY DEF Written
  <1>3. Args' = Args /\ Misnamed' = Misnamed
    BY <1>2, SameStatement
  <1>4. Coming = {}
    BY <1>1, <1>2 DEF Coming, Types, TableOk
  <1>5. Types'
    BY <1>1, <1>2, <1>3 DEF Types
  <1>6. LostStays' /\ (OnlyOwn => OnlyOwn') /\ (AllArrive => AllArrive')
    BY <1>2, <1>3, <1>4 DEF IInv, LostStays, OnlyOwn, AllArrive
  <1> QED BY <1>2, <1>3, <1>5, <1>6 DEF IInv

\* The first argument is taken off the list.
LEMMA HeadFacts ==
  ASSUME Types, todo # << >>
  PROVE  /\ Head(todo) \in Args /\ Tail(todo) \in Seq(Args)
         /\ \A w \in Range(todo) : w = Head(todo) \/ w \in Range(Tail(todo))
  <1>1. todo \in Seq(Args) /\ Len(todo) \in Nat \ {0}
    BY DEF Types
  <1>2. Head(todo) = todo[1] /\ Head(todo) \in Args /\ Tail(todo) \in Seq(Args)
    BY <1>1
  <1>3. /\ Len(Tail(todo)) = Len(todo) - 1
        /\ \A k \in 1..(Len(todo) - 1) : Tail(todo)[k] = todo[k + 1]
    BY <1>1
  <1>4. ASSUME NEW k \in 1..Len(todo), k # 1 PROVE todo[k] \in Range(Tail(todo))
    <2>1. k - 1 \in DOMAIN Tail(todo) /\ Tail(todo)[k - 1] = todo[k]
      BY <1>1, <1>2, <1>3, <1>4
    <2> QED BY <2>1 DEF Range
  <1> QED BY <1>1, <1>2, <1>4 DEF Range

\* No field is NULL, and what is stored in a statement without misnamed
\* specifiers stays there.
LEMMA StoreStep ==
  ASSUME Types, ~Misnamed, AllArrive, OnlyOwn, todo # << >>, Coming = {}, Coming' = {},
         class' = class, stmt' = stmt, todo' = Tail(todo),
         result' = [result EXCEPT ![Head(todo)[2]] = Head(todo)[2]]
  PROVE  AllArrive' /\ OnlyOwn' /\ result' \in [Fields(class) -> Fields(class) \cup {NULL}]
  <1> DEFINE h == Head(todo)
  <1>1. h \in Args /\ \A w \in Range(todo) : w = h \/ w \in Range(Tail(todo))
    BY HeadFacts
  <1>2. h[2] \in stmt /\ h[2] \in Fields(class)
    BY <1>1 DEF Args, Types
  <1>3. \A f \in Fields(class) : result'[f] = IF f = h[2] THEN h[2] ELSE result[f]
    BY <1>2 DEF Types
  <1>4. result' \in [Fields(class) -> Fields(class) \cup {NULL}]
    BY <1>2 DEF Types
  <1>5. Args' = Args
    BY SameStatement
  <1>6. OnlyOwn'
    BY <1>2, <1>3 DEF OnlyOwn
  <1>7. ASSUME NEW w \in Args PROVE w \in Range(todo') \/ result'[w[2]] = w[2]
    <2>1. w[2] \in Fields(class)
      BY DEF Args, Types
    <2>2. CASE w = h
      BY <1>3, <2>1, <2>2
    <2>3. CASE w # h
      <3>1. w \in Range(Tail(todo)) \/ result[w[2]] = w[2]
        BY <1>1, <2>3 DEF AllArrive
      <3> QED BY <1>3, <2>1, <3>1
    <2> QED BY <2>2, <2>3
  <1> QED BY <1>4, <1>5, <1>6, <1>7 DEF AllArrive

LEMMA ListStep == IInv /\ ReadList => IInv'
  <1> SUFFICES ASSUME IInv, ReadList PROVE IInv'
    OBVIOUS
  <1>1. Types /\ class \in Class
    BY DEF IInv, Types
  <1>2. /\ class' = class /\ stmt' = stmt /\ next' = next /\ phase' = phase
        /\ phase = "reading" /\ todo # << >> /\ Head(todo) = ListItem /\ todo' = Tail(todo)
    BY DEF ReadList
  <1>3. Args' = Args /\ Misnamed' = Misnamed
    BY <1>2, SameStatement
  <1>4. ListItem \in Args /\ Tail(todo) \in Seq(Args)
    BY <1>1, <1>2, HeadFacts
  <1>5. /\ ListItem[2] \in stmt /\ ListItem[2] \in Fields(class) /\ class \in Listed
        /\ ListItem[2] = "io_stmt_list"
    BY <1>1, <1>4, FieldsWritten DEF Args, Types, ListItem
  <1>6. result' = IF result["io_stmt_list"] = NULL
                  THEN [result EXCEPT !["io_stmt_list"] = "io_stmt_list"] ELSE result
    BY <1>5 DEF ReadList
  <1>7. /\ result' \in [Fields(class) -> Fields(class) \cup {NULL}]
        /\ \A f \in Fields(class) : f # ListItem[2] => result'[f] = result[f]
    BY <1>1, <1>5, <1>6 DEF Types
  <1>8. Types'
    BY <1>1, <1>2, <1>3, <1>4, <1>7 DEF Types
  <1>9. LostStays'
    BY <1>1, <1>2, <1>7, FieldsWritten DEF IInv, LostStays
  <1>10. ASSUME ~Misnamed PROVE AllArrive' /\ OnlyOwn'
    <2>1. AllArrive /\ OnlyOwn
      BY <1>10 DEF IInv
    <2>2. result["io_stmt_list"] = NULL \/ result["io_stmt_list"] = "io_stmt_list"
      BY <1>5, <2>1 DEF OnlyOwn
    <2>3. result' = [result EXCEPT !["io_stmt_list"] = "io_stmt_list"]
      BY <1>1, <1>5, <1>6, <2>2 DEF Types
    <2>4. Coming = {} /\ Coming' = {}
      BY <1>2 DEF Coming
    <2>5. Head(todo)[2] = "io_stmt_list"
      BY <1>2, <1>5
    <2> QED BY <1>1, <1>2, <1>10, <2>1, <2>3, <2>4, <2>5, StoreStep
  <1> QED BY <1>2, <1>3, <1>8, <1>9, <1>10 DEF IInv

LEMMA ArgumentStep == IInv /\ ReadArgument => IInv'
  <1> SUFFICES ASSUME IInv, ReadArgument PROVE IInv'
    OBVIOUS
  <1> DEFINE h == Head(todo)
             name == h[1]
             refused == name \notin KnownNames
                        \/ (name \notin DOMAIN Reads[class] /\ class \notin Lenient)
             stored == [result EXCEPT ![Reads[class][name]] = h[2]]
  <1>1. Types /\ class \in Class /\ TableOk(class)
    BY Tables DEF IInv, Types
  <1>2. phase = "reading" /\ todo # << >> /\ h # ListItem
    BY DEF ReadArgument
  <1>3. h \in Args /\ Tail(todo) \in Seq(Args)
    BY <1>1, <1>2, HeadFacts
  <1>4. h \in Range(Writes[class]) /\ h[2] \in stmt /\ h[2] \in Fields(class)
    BY <1>1, <1>2, <1>3 DEF Args, Types
  <1>5. \/ /\ refused
           /\ phase' = "fatal" /\ UNCHANGED <<class, stmt, next, todo, result>>
        \/ /\ ~refused
           /\ result' = IF name \in DOMAIN Reads[class] THEN stored ELSE result
           /\ todo' = Tail(todo) /\ UNCHANGED <<class, stmt, next, phase>>
    BY DEF ReadArgument, Fatal, Unwrapped
  <1>6. ~Misnamed => /\ ~refused /\ name \in DOMAIN Reads[class]
                     /\ Reads[class][name] = h[2]
    <2> SUFFICES ASSUME ~Misnamed PROVE Right(class, h)
      BY DEF Right
    <2>1. h \notin Lost(class)
      BY <1>1, <1>4, LostIsMisnamed
    <2> QED BY <1>1, <1>4, <2>1 DEF TableOk
  <1>7. class' = class /\ stmt' = stmt /\ next' = next
    BY <1>5
  <1>8. Args' = Args /\ Misnamed' = Misnamed
    BY <1>7, SameStatement
  <1>9. CASE refused
    <2>1. phase' = "fatal" /\ UNCHANGED <<class, stmt, next, todo, result>>
      BY <1>5, <1>9
    <2>2. Types'
      BY <1>1, <1>8, <2>1 DEF Types
    <2>3. LostStays'
      BY <2>1 DEF IInv, LostStays
    <2> QED BY <1>6, <1>8, <1>9, <2>2, <2>3 DEF IInv
  <1>10. CASE ~refused
    <2>1. /\ result' = IF name \in DOMAIN Reads[class] THEN stored ELSE result
          /\ todo' = Tail(todo) /\ phase' = phase
      BY <1>5, <1>10
    <2>2. ASSUME name \in DOMAIN Reads[class]
          PROVE  Reads[class][name] \in Fields(class)
      BY <2>2 DEF Fields, Range
    <2>3. result' \in [Fields(class) -> Fields(class) \cup {NULL}]
      BY <1>1, <1>4, <2>1, <2>2 DEF Types
    <2>4. \A f \in Fields(class) :
            (name \in DOMAIN Reads[class] => Reads[class][name] # f) => result'[f] = result[f]
      BY <1>1, <2>1, <2>2 DEF Types
    <2>5. Types'
      BY <1>1, <1>2, <1>3, <1>7, <1>8, <2>1, <2>3 DEF Types
    <2>6. ASSUME NEW w \in Lost(class) PROVE result'[w[2]] = NULL
      <3>1. w[2] \in Fields(class)
        BY <1>1, FieldsWritten
      <3>2. name \in DOMAIN Reads[class] => Reads[class][name] # w[2]
        BY <1>1, <1>4 DEF TableOk, Misses
      <3> QED BY <2>4, <3>1, <3>2 DEF IInv, LostStays
    <2>7. LostStays'
      BY <1>7, <2>6 DEF LostStays
    <2>8. ASSUME ~Misnamed PROVE AllArrive' /\ OnlyOwn'
      <3>1. AllArrive /\ OnlyOwn
        BY <2>8 DEF IInv
      <3>2. result' = [result EXCEPT ![h[2]] = h[2]]
        BY <1>6, <2>1, <2>8
      <3>3. Coming = {} /\ Coming' = {}
        BY <1>2, <2>1 DEF Coming
      <3> QED BY <1>1, <1>2, <1>7, <2>1, <2>8, <3>1, <3>2, <3>3, StoreStep
    <2> QED BY <1>2, <1>8, <2>1, <2>5, <2>7, <2>8 DEF IInv
  <1> QED BY <1>9, <1>10

LEMMA FinishStep == IInv /\ (Finish \/ Done \/ UNCHANGED vars) => IInv'
  <1> SUFFICES ASSUME IInv, Finish \/ Done \/ UNCHANGED vars PROVE IInv'
    OBVIOUS
  <1>1. /\ UNCHANGED <<class, stmt, next, todo, result>>
        /\ phase' = phase \/ (phase = "reading" /\ phase' = "done" /\ todo = << >>)
    BY DEF Finish, Done, vars
  <1>2. Args' = Args /\ Misnamed' = Misnamed
    BY <1>1, SameStatement
  <1>3. Types'
    BY <1>1, <1>2 DEF IInv, Types
  <1>4. LostStays' /\ (OnlyOwn => OnlyOwn')
    BY <1>1 DEF IInv, LostStays, OnlyOwn
  <1>5. Coming' = Coming
    BY <1>1 DEF Coming
  <1>6. AllArrive => AllArrive'
    BY <1>1, <1>2, <1>5 DEF AllArrive
  <1> QED BY <1>1, <1>2, <1>3, <1>4, <1>6 DEF IInv

LEMMA Invariance == Spec => []IInv
  <1>1. IInv /\ [Next]_vars => IInv'
    BY WriteStep, WrittenStep, ListStep, ArgumentStep, FinishStep DEF Next
  <1> QED BY <1>1, InitIInv, PTL DEF Spec

-----------------------------------------------------------------------------
(* The theorem.                                                            *)

LEMMA ReadBack == IInv => RoundTrip
  <1> SUFFICES ASSUME IInv, phase \in {"done", "fatal"} PROVE Restored <=> ~Misnamed
    BY DEF RoundTrip
  <1> DEFINE expected == [f \in Fields(class) |-> IF f \in stmt THEN f ELSE NULL]
  <1>1. Types /\ class \in Class
    BY DEF IInv, Types
  <1>2. \A f \in Fields(class) : f # NULL
    BY <1>1, SpecAssumption
  <1>3. ASSUME ~Misnamed PROVE Restored
    <2>1. phase = "done" /\ AllArrive /\ OnlyOwn
      BY <1>3 DEF IInv
    <2>2. Range(todo) = {} /\ Coming = {}
      <3>1. todo = << >>
        BY <1>1, <2>1 DEF Types
      <3> QED BY <2>1, <3>1 DEF Range, Coming
    <2>3. ASSUME NEW f \in Fields(class) PROVE result[f] = expected[f]
      <3>1. CASE f \in stmt
        <4>1. PICK w \in Range(Writes[class]) \cup {ListItem} : w[2] = f
          BY <1>1, FieldsWritten
        <4>2. w \in Args
          BY <3>1, <4>1 DEF Args
        <4>3. result[f] = f
          BY <2>1, <2>2, <4>1, <4>2 DEF AllArrive
        <4> QED BY <3>1, <4>3
      <3>2. CASE f \notin stmt
        BY <2>1, <3>2 DEF OnlyOwn
      <3> QED BY <3>1, <3>2
    <2>4. result = expected
      BY <1>1, <2>3 DEF Types
    <2> QED BY <2>1, <2>4 DEF Restored
  <1>4. ASSUME Misnamed, Restored PROVE FALSE
    <2>1. phase = "done" /\ result = expected
      BY <1>4 DEF Restored
    <2>2. PICK w \in Lost(class) : w[2] \in stmt
      BY <1>1, <1>4, LostIsMisnamed
    <2>3. w[2] \in Fields(class) /\ result[w[2]] = NULL
      BY <1>1, <2>2, FieldsWritten DEF IInv, LostStays
    <2>4. result[w[2]] = w[2]
      BY <2>1, <2>2, <2>3
    <2> QED BY <1>2, <2>3, <2>4
  <1> QED BY <1>3, <1>4

\* What inodeSgXxxStatement writes of an I/O statement, whatever specifiers
\* it has and however many, visitSgXxxStatement reads back unchanged, but for
\* IOMSG of CLOSE and PENDING of INQUIRE.
THEOREM SpecifiersReadBack == Spec => []RoundTrip
  BY Invariance, ReadBack, PTL
=============================================================================
