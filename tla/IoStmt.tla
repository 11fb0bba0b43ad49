------------------------------- MODULE IoStmt -------------------------------
(***************************************************************************)
(* Fortran I/O statements (src/src/stmt.cpp).  Their specifiers are not    *)
(* positional: inodeSgXxxStatement wraps each specifier that is present in *)
(* an SgActualArgumentExpression carrying its name (TRAVERSE_IF_EXISTS),   *)
(* and visitSgXxxStatement finds the specifier again by that name, through *)
(* the table g_iostmtAttrib and a switch.                                  *)
(*                                                                         *)
(* The expression of a specifier is identified by the field it comes from; *)
(* an argument is a pair <<name, expression>>, the I/O list is the pair    *)
(* <<ListName, "io_stmt_list">>.                                           *)
(***************************************************************************)
EXTENDS Naturals, Sequences, Functions

CONSTANTS MaxSpecs,  \* most specifiers of a statement
          NULL       \* the null pointer

Common == {"unit", "iostat", "err", "iomsg"}

\* g_iostmtAttrib: the names a document may use.
KnownNames ==
  Common \cup
  {"fmt", "iolength", "file", "access", "form", "recl", "blank", "exist", "opened", "number",
   "named", "name", "sequential", "direct", "formatted", "unformatted", "nextrec", "position",
   "action", "read", "write", "readwrite", "delim", "pad", "asynchronous", "decimal", "stream",
   "size", "pending", "status", "round", "sign", "advance", "rec", "end", "eor", "nml"}

-----------------------------------------------------------------------------
(* The writer: names and fields, in the order they are written.            *)

Same(names) == [k \in 1..Len(names) |-> <<names[k], names[k]>>]

\* INODE_STMT_DEFAULT: SgBackspace-, SgEndfile-, SgFlush-, SgRewind- and
\* SgWaitStatement.
DefaultWrites == Same(<<"unit", "iostat", "err", "iomsg">>)

CloseWrites == Same(<<"unit", "iostat", "err">>) \o
               << <<"err", "iomsg">>, <<"status", "status">> >>

InquireWrites ==
  Same(<<"iolength", "unit", "iostat", "err", "iomsg", "file", "access", "form", "recl", "blank",
         "exist", "opened", "number", "named", "name", "sequential", "direct", "formatted",
         "unformatted", "nextrec", "position", "action", "read", "write", "readwrite", "delim",
         "pad", "asynchronous", "decimal", "stream", "size">>)
  \o << <<"padding", "pending">> >>

OpenWrites ==
  Same(<<"unit", "iostat", "err", "file", "status", "access", "form", "recl", "blank", "position",
         "action", "delim", "pad", "iomsg", "round", "sign", "asynchronous">>)

PrintWrites == << <<"fmt", "format">> >>

ReadWrites == DefaultWrites \o << <<"fmt", "format">> >> \o Same(<<"rec", "end">>) \o
              << <<"nml", "namelist">> >> \o Same(<<"advance", "size", "eor", "asynchronous">>)

WriteWrites == DefaultWrites \o << <<"fmt", "format">> >> \o Same(<<"rec", "advance">>) \o
               << <<"nml", "namelist">> >> \o Same(<<"asynchronous">>)

Writes ==
  [BackspaceStatement |-> DefaultWrites, EndfileStatement |-> DefaultWrites,
   FlushStatement |-> DefaultWrites,
   RewindStatement |-> DefaultWrites, WaitStatement |-> DefaultWrites, CloseStatement |-> CloseWrites,
   InquireStatement |-> InquireWrites, OpenStatement |-> OpenWrites, PrintStatement |-> PrintWrites,
   ReadStatement |-> ReadWrites, WriteStatement |-> WriteWrites]

Class == DOMAIN Writes

\* The statements with an I/O list, written before the specifiers.
Listed == {"InquireStatement", "PrintStatement", "ReadStatement", "WriteStatement"}

-----------------------------------------------------------------------------
(* The reader: the cases of its switch, as a function from names to fields.*)

Own(names) == [n \in names |-> n]

DefaultReads   == Own(Common)
BackspaceReads == DefaultReads
EndfileReads   == DefaultReads
FlushReads     == DefaultReads
RewindReads    == DefaultReads
WaitReads      == DefaultReads

CloseReads   == Own(Common \cup {"status"})
InquireReads == Own(KnownNames \ {"fmt", "status", "round", "sign", "advance", "rec", "end",
                                  "eor", "nml"})
OpenReads    == Own(Common \cup {"file", "access", "form", "recl", "blank", "position", "action",
                                 "delim", "pad", "asynchronous", "status", "round", "sign"})
PrintReads   == [n \in {"fmt"} |-> "format"]

\* Fault: "end" stored as err.
ReadReadsEndAsErr ==
  [n \in Common \cup {"fmt", "rec", "end", "nml", "advance", "size", "eor", "asynchronous"} |->
     CASE n = "fmt" -> "format" [] n = "nml" -> "namelist" [] n = "end" -> "err" [] OTHER -> n]

ReadReads    == [n \in Common \cup {"fmt", "rec", "end", "nml", "advance", "size", "eor",
                                    "asynchronous"} |->
                   CASE n = "fmt" -> "format" [] n = "nml" -> "namelist" [] OTHER -> n]
WriteReads   == [n \in Common \cup {"fmt", "rec", "advance", "nml", "asynchronous"} |->
                   CASE n = "fmt" -> "format" [] n = "nml" -> "namelist" [] OTHER -> n]

Reads ==
  [BackspaceStatement |-> BackspaceReads, EndfileStatement |-> EndfileReads,
   FlushStatement |-> FlushReads, RewindStatement |-> RewindReads,
   WaitStatement |-> WaitReads, CloseStatement |-> CloseReads,
   InquireStatement |-> InquireReads, OpenStatement |-> OpenReads, PrintStatement |-> PrintReads,
   ReadStatement |-> ReadReads, WriteStatement |-> WriteReads]

\* Every switch but that of visitSgInquireStatement has a fatal default.
Lenient == {"InquireStatement"}

-----------------------------------------------------------------------------
VARIABLES class,   \* the class of the statement
          stmt,    \* the fields that are set in the statement written
          next,    \* the next TRAVERSE_IF_EXISTS of the writer
          todo,    \* arguments written that the reader has not seen yet
          result,  \* the fields of the statement read: field -> expression
          phase    \* "writing", "reading", "done" or "fatal"

vars == <<class, stmt, next, todo, result, phase>>

ListName == "SgExprListExp"
ListItem == <<ListName, "io_stmt_list">>

\* The fields of a class; the I/O list is one of them.
Fields(c) == {Writes[c][k][2] : k \in 1..Len(Writes[c])} \cup Range(Reads[c]) \cup
             IF c \in Listed THEN {"io_stmt_list"} ELSE {}

\* No expression is the null pointer.
ASSUME SpecAssumption == MaxSpecs \in Nat /\ \A c \in Class : NULL \notin Fields(c)

AtMost(n, S) == {{}} \cup {Range(f) : f \in [1..n -> S]}

Init ==
  /\ class \in Class
  /\ stmt \in AtMost(MaxSpecs, Fields(class))
  /\ next = 1
  /\ todo = IF "io_stmt_list" \in stmt THEN <<ListItem>> ELSE <<>>
  /\ result = [f \in Fields(class) |-> NULL]
  /\ phase = "writing"

\* inodeSgXxxStatement: one TRAVERSE_IF_EXISTS, after the I/O list.
WriteArgument ==
  /\ phase = "writing" /\ next <= Len(Writes[class])
  /\ LET w == Writes[class][next]
     IN todo' = IF w[2] \in stmt THEN Append(todo, w) ELSE todo
  /\ next' = next + 1
  /\ UNCHANGED <<class, stmt, result, phase>>

Written ==
  /\ phase = "writing" /\ next > Len(Writes[class])
  /\ phase' = "reading"
  /\ UNCHANGED <<class, stmt, next, todo, result>>

Fatal == phase' = "fatal" /\ UNCHANGED <<class, stmt, next, todo, result>>

\* The expression of an argument.
Unwrapped(arg) == arg[2]

\* The I/O list: the first SgExprListExp child.
ReadList ==
  /\ phase = "reading" /\ todo # <<>> /\ Head(todo) = ListItem
  /\ result' = IF class \in Listed /\ result["io_stmt_list"] = NULL
               THEN [result EXCEPT !["io_stmt_list"] = "io_stmt_list"] ELSE result
  /\ todo' = Tail(todo)
  /\ UNCHANGED <<class, stmt, next, phase>>

\* A specifier: the last one of a name wins; an unknown name is fatal, and so
\* is a known one the statement does not have, but in SgInquireStatement.
\* (An argument always has an expression, or visitSgActualArgumentExpression
\* would have stopped; iolength is a variable, as ROSE stores it.)
ReadArgument ==
  /\ phase = "reading" /\ todo # <<>> /\ Head(todo) # ListItem
  /\ LET name == Head(todo)[1] IN
     IF name \notin KnownNames \/ (name \notin DOMAIN Reads[class] /\ class \notin Lenient)
     THEN Fatal
     ELSE /\ result' = IF name \in DOMAIN Reads[class]
                       THEN [result EXCEPT ![Reads[class][name]] = Unwrapped(Head(todo))] ELSE result
          /\ todo' = Tail(todo)
          /\ UNCHANGED <<class, stmt, next, phase>>

Finish ==
  /\ phase = "reading" /\ todo = <<>>
  /\ phase' = "done"
  /\ UNCHANGED <<class, stmt, next, todo, result>>

Done == phase \in {"done", "fatal"} /\ UNCHANGED vars

Next == WriteArgument \/ Written \/ ReadList \/ ReadArgument \/ Finish \/ Done

Spec == Init /\ [][Next]_vars

-----------------------------------------------------------------------------
(* Properties.                                                             *)

Restored == /\ phase # "fatal"
            /\ phase = "done" =>
                 result = [f \in Fields(class) |-> IF f \in stmt THEN f ELSE NULL]

\* The fields that inodeSgCloseStatement and inodeSgInquireStatement write
\* under a name the reader knows differently.
Misnamed == \/ class = "CloseStatement" /\ "iomsg" \in stmt
            \/ class = "InquireStatement" /\ "pending" \in stmt

\* An I/O statement is read back with the same specifiers, none dropped,
\* overwritten by another or refused by the reader, exactly if it has none of
\* the misnamed ones.
RoundTrip == phase \in {"done", "fatal"} => (Restored <=> ~Misnamed)

\* "XML attributes of an XML element are used to keep the necessary
\* information to restore the ROSE AST node" (introduction.tex): every I/O
\* statement is read back with the same specifiers.
SpecifiersRestored == Restored
=============================================================================
