------------------------------ MODULE Rebuild ------------------------------
(***************************************************************************)
(* The command xmlrebuild: src/src/xmlrebuild.cpp and main of              *)
(* src/src/src2xml.cpp compiled with XEV_COMPILE4XMLREBUILD.  It reads an  *)
(* XML AST, unparses it to a temporary source file in one child process,   *)
(* and converts that file to XML again in another.                         *)
(*                                                                         *)
(*   parent   parse, find the file name, mkstemps, fork, wait, fork, wait  *)
(*   unparse  first child: rebuild the AST, write the temporary file       *)
(*   convert  second child: redirect the file descriptors, run the ROSE    *)
(*            frontend on the temporary file, write XML                    *)
(*                                                                         *)
(* The document is [first, named, args]: whether following first children  *)
(* from the document node leads to SgSourceFile, whether that element has  *)
(* a "file" attribute, and whether the command line has a file name too.   *)
(***************************************************************************)
EXTENDS Naturals, Sequences

CONSTANTS Inputs,   \* the inputs: SUBSET [first: BOOLEAN, named: BOOLEAN, args: BOOLEAN]
          Signals   \* numbers of the signals that may kill a child

ASSUME InputAssumption ==
  /\ Inputs \subseteq [first: BOOLEAN, named: BOOLEAN, args: BOOLEAN]
  /\ Signals \subseteq 1..127

None == "none"

VARIABLES
  input,   \* the input; never changes
  pc,      \* the parent
  unp,     \* the first child; None if it is not running
  conv,    \* the second child; None if it is not running
  ended,   \* wait statuses of children that ended and were not waited for
  failed,  \* some child did not do its work
  tmp,     \* contents of the temporary file; None if there is none
  seen,    \* what the frontend read
  fds,     \* where fd 1 and fd 2 of the second child lead
  out,     \* what was written to the standard output of the command
  code     \* exit code of the command, once it has ended

vars == <<input, pc, unp, conv, ended, failed, tmp, seen, fds, out, code>>

Init ==
  /\ input \in Inputs
  /\ pc = "parse"
  /\ unp = None /\ conv = None /\ ended = <<>> /\ failed = FALSE
  /\ tmp = None /\ seen = None
  /\ fds = <<"stdout", "stderr">>
  /\ out = <<>>
  /\ code = 0

Exit(n) == pc' = "exit" /\ code' = n

\* XEV_FATAL writes its message to stdout and calls exit(1) in the process
\* that meets it.
Fatal == Exit(1) /\ out' = Append(out, "message")

-----------------------------------------------------------------------------
(* The parent.                                                             *)

\* isFilenameGiven warns; the document is read from standard input.
Parse ==
  /\ pc = "parse"
  /\ LET warned == IF input.args THEN Append(out, "message") ELSE out
     IN \/ pc' = "filename" /\ out' = warned /\ UNCHANGED code
        \/ Exit(1) /\ out' = Append(warned, "message")
  /\ UNCHANGED <<input, unp, conv, ended, failed, tmp, seen, fds>>

\* findFilename finds SgSourceFile among the first children.  A pointer into
\* a local string is returned, so the name may be anything: mkstemps may
\* succeed or fail.
FindFilename ==
  /\ pc = "filename" /\ input.first
  /\ IF input.named THEN pc' = "mkstemps" /\ UNCHANGED <<out, code>> ELSE Fatal
  /\ UNCHANGED <<input, unp, conv, ended, failed, tmp, seen, fds>>

\* Fault: the search goes on after SgSourceFile is found.
LookAgainAlways ==
  /\ \/ pc = "filename" /\ pc' = "first child"
     \/ pc = "first child" /\ pc' = "filename"
  /\ UNCHANGED <<input, unp, conv, ended, failed, tmp, seen, fds, out, code>>

\* The first child has no file name: the loop looks at the same child again.
LookAgain ==
  /\ ~input.first
  /\ \/ pc = "filename" /\ pc' = "first child"
     \/ pc = "first child" /\ pc' = "filename"
  /\ UNCHANGED <<input, unp, conv, ended, failed, tmp, seen, fds, out, code>>

Mkstemps ==
  /\ pc = "mkstemps"
  /\ \/ tmp' = "empty" /\ pc' = "fork 1" /\ UNCHANGED <<out, code>>
     \/ Fatal /\ UNCHANGED tmp
  /\ UNCHANGED <<input, unp, conv, ended, failed, seen, fds>>

\* fork() starts the child, or fails.
Fork1 ==
  /\ pc = "fork 1"
  /\ \/ unp' = "visit" /\ pc' = "wait 1" /\ UNCHANGED <<out, code>>
     \/ Fatal /\ UNCHANGED unp
  /\ UNCHANGED <<input, conv, ended, failed, tmp, seen, fds>>

Fork2 ==
  /\ pc = "fork 2"
  /\ \/ conv' = "dup" /\ pc' = "wait 2" /\ UNCHANGED <<out, code>>
     \/ Fatal /\ UNCHANGED conv
  /\ UNCHANGED <<input, unp, ended, failed, tmp, seen, fds>>

\* wait(&status) blocks until a child has ended and reaps it.
Reap == ended # <<>> /\ ended' = Tail(ended)

\* Fault: the first child is not waited for.
Wait1NoWait ==
  /\ pc = "wait 1"
  /\ pc' = "fork 2"
  /\ UNCHANGED <<input, unp, conv, ended, failed, tmp, seen, fds, out, code>>

\* The status is not looked at.
Wait1 ==
  /\ pc = "wait 1" /\ Reap
  /\ pc' = "fork 2"
  /\ UNCHANGED <<input, unp, conv, failed, tmp, seen, fds, out, code>>

\* Fault: the exit code has more than eight bits.
ExitCodeWide(status) == status

\* main returns the wait status; the system keeps its low eight bits.
ExitCode(status) == status % 256

\* Fault: the second child is not waited for.
Wait2NoWait ==
  /\ pc = "wait 2"
  /\ tmp' = None /\ Exit(0)
  /\ UNCHANGED <<input, unp, conv, ended, failed, seen, fds, out>>

\* If the status is 0 the file is removed.
Wait2 ==
  /\ pc = "wait 2" /\ Reap
  /\ IF Head(ended) = 0 THEN tmp' = None /\ Exit(0) /\ UNCHANGED out
     ELSE UNCHANGED tmp /\ Exit(ExitCode(Head(ended))) /\ out' = Append(out, "message")
  /\ UNCHANGED <<input, unp, conv, failed, seen, fds>>

-----------------------------------------------------------------------------
(* The children.  exit(n) and death by signal s give the wait statuses     *)
(* n * 256 and s.                                                          *)

Unparsing  == {"visit", "open", "write"}
Converting == {"dup", "dup2", "frontend", "dup2 cerr", "convert"}

\* XEV_FATAL, a failed assertion of ROSE, a segmentation fault: the first
\* child still has the standard output of the command.
UnparserFails ==
  /\ unp \in Unparsing
  /\ unp' = None
  /\ \/ ended' = Append(ended, 256) /\ out' = Append(out, "message")
     \/ (\E s \in Signals : ended' = Append(ended, s)) /\ UNCHANGED out
  /\ failed' = TRUE
  /\ UNCHANGED <<input, pc, conv, tmp, seen, fds, code>>

\* The AST is rebuilt; XEV_WARN writes to stdout.
Visit ==
  /\ unp = "visit" /\ unp' = "open"
  /\ out' = out \/ out' = Append(out, "message")
  /\ UNCHANGED <<input, pc, conv, ended, failed, tmp, seen, fds, code>>

\* std::ofstream os(tmpl)
OpenTmp ==
  /\ unp = "open" /\ unp' = "write"
  /\ tmp' = "partial"
  /\ UNCHANGED <<input, pc, conv, ended, failed, seen, fds, out, code>>

WriteTmp ==
  /\ unp = "write" /\ unp' = None
  /\ tmp' = "code"
  /\ ended' = Append(ended, 0)
  /\ UNCHANGED <<input, pc, conv, failed, seen, fds, out, code>>

\* The second child fails in the frontend or while it converts.  (XML it
\* wrote before is left out.)
ConverterFails ==
  /\ conv \in {"frontend", "convert"}
  /\ conv' = None
  /\ \E s \in {256} \cup Signals : ended' = Append(ended, s)
  /\ failed' = TRUE
  /\ UNCHANGED <<input, pc, unp, tmp, seen, fds, out, code>>

\* fd = dup(1): the descriptor that still leads to stdout.
Dup ==
  /\ conv = "dup" /\ conv' = "dup2"
  /\ fds' = Append(fds, fds[1])
  /\ UNCHANGED <<input, pc, unp, ended, failed, tmp, seen, out, code>>

\* Fault: dup2(2, 1) is missing.
RedirectNothing ==
  /\ conv = "dup2" /\ conv' = "frontend"
  /\ UNCHANGED <<input, pc, unp, ended, failed, tmp, seen, fds, out, code>>

\* dup2(2, 1): "printf messages are written to stderr".
RedirectStdout ==
  /\ conv = "dup2" /\ conv' = "frontend"
  /\ fds' = [fds EXCEPT ![1] = fds[2]]
  /\ UNCHANGED <<input, pc, unp, ended, failed, tmp, seen, out, code>>

Put(fd, what) == out' = IF fds[fd] = "stdout" THEN Append(out, what) ELSE out

\* frontend(args): reads the file and prints messages on fd 1.
Frontend ==
  /\ conv = "frontend" /\ conv' = "dup2 cerr"
  /\ seen' = tmp
  /\ Put(1, "frontend message")
  /\ UNCHANGED <<input, pc, unp, ended, failed, tmp, fds, code>>

\* dup2(fd, 2): the XML, written to cerr, goes to stdout.
RedirectStderr ==
  /\ conv = "dup2 cerr" /\ conv' = "convert"
  /\ fds' = [fds EXCEPT ![2] = fds[3]]
  /\ UNCHANGED <<input, pc, unp, ended, failed, tmp, seen, out, code>>

\* XevConvertRoseToXml(cerr, ...)
Convert ==
  /\ conv = "convert" /\ conv' = None
  /\ Put(2, seen)
  /\ ended' = Append(ended, 0)
  /\ UNCHANGED <<input, pc, unp, failed, tmp, seen, fds, code>>

Done == pc = "exit" /\ UNCHANGED vars

Parent == Parse \/ FindFilename \/ LookAgain \/ Mkstemps \/ Fork1 \/ Fork2 \/ Wait1 \/ Wait2

Unparser  == UnparserFails \/ Visit \/ OpenTmp \/ WriteTmp
Converter == ConverterFails \/ Dup \/ RedirectStdout \/ Frontend \/ RedirectStderr \/ Convert

Next == Parent \/ Unparser \/ Converter \/ Done

Spec == Init /\ [][Next]_vars

\* The scheduler runs each process.
FairSpec == Spec /\ WF_vars(Parent) /\ WF_vars(Unparser) /\ WF_vars(Converter)

-----------------------------------------------------------------------------
(* Properties.                                                             *)

Ended == pc = "exit"

Contents == {None, "empty", "partial", "code"}
Printed  == Contents \cup {"message", "frontend message"}
Status   == {0, 256} \cup Signals

\* Every variable has its type; the exit code is one the system can deliver.
TypeOK ==
  /\ input \in Inputs
  /\ pc \in {"parse", "filename", "first child", "mkstemps", "fork 1", "wait 1", "fork 2",
             "wait 2", "exit"}
  /\ unp \in {None} \cup Unparsing
  /\ conv \in {None} \cup Converting
  /\ ended \in Seq(Status)
  /\ failed \in BOOLEAN
  /\ tmp \in Contents /\ seen \in Contents
  /\ fds \in Seq({"stdout", "stderr"})
  /\ out \in Seq(Printed)
  /\ code \in 0..255

\* The frontend never reads the temporary file while the first child may
\* still write it, and the file it reads stays as it is until the end.
StableInput ==
  /\ conv # None => unp = None
  /\ seen # None => tmp = seen \/ Ended

\* When the command ends no child is left, running or unreaped.
NoOrphan == Ended => unp = None /\ conv = None /\ ended = <<>>

Position(what) == {k \in 1..Len(out) : out[k] = what}

\* If every process does its work, the command ends with code 0, the XML of
\* the unparsed program is the last thing on its standard output, nothing the
\* frontend prints is mixed with it, and the temporary file is gone; it is
\* left behind only with an error message ("remove the temporal file at exit",
\* xmlrebuild.cpp, is commented out).
CleanSuccess ==
  /\ Position("frontend message") = {}
  /\ Ended /\ tmp # None => Position("message") # {}
  /\ (Ended /\ seen # None /\ ~failed) =>
       code = 0 /\ tmp = None /\ Position("code") = {Len(out)}

\* The command ends if the document has its SgSourceFile in front.
Terminates == input.first => <>(Ended)

\* "XML rebuild failed": when a child fails, the exit code says so.
FailureReported == Ended /\ failed => code # 0

\* "cannot find a filename in the XML document": a document without
\* SgSourceFile in front is refused.
NoFilenameReported == ~input.first => <>(Ended)
=============================================================================
