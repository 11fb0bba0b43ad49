--------------------------- MODULE RebuildProofs ---------------------------
(***************************************************************************)
(* The safety properties of Rebuild, for every set of inputs and signals.  *)
(*                                                                         *)
(* The properties are about the end of the command and the moment the      *)
(* frontend reads; none is inductive.  What makes them so is where each    *)
(* process can be: a child runs only while the parent waits for it, a      *)
(* status is kept only between a child's end and the parent's wait, and    *)
(* the descriptors, the file and the output are known at every place of    *)
(* the second child.                                                       *)
(***************************************************************************)
EXTENDS Rebuild, SequenceTheorems, TLAPS

Pos(s, what) == {k \in 1..Len(s) : s[k] = what}

\* The second child has not written its XML.
Unwritten == pc # "exit" /\ ~(pc = "wait 2" /\ conv = None /\ ended # <<>>)

\* Where the processes are.
Places ==
  /\ unp # None => pc = "wait 1"
  /\ conv # None => pc = "wait 2"
  /\ ended # <<>> => /\ Len(ended) = 1
                     /\ \/ pc = "wait 1" /\ unp = None
                        \/ pc = "wait 2" /\ conv = None
  /\ pc = "wait 1" => unp # None \/ ended # <<>>
  /\ pc = "wait 2" => conv # None \/ ended # <<>>

\* The descriptors of the second child; the third is the one dup() made.
Leads(one, two) == fds[1] = one /\ fds[2] = two

Descriptors ==
  /\ pc \notin {"wait 2", "exit"} \/ conv = "dup" => Len(fds) = 2
  /\ conv \in {"dup2", "frontend", "dup2 cerr", "convert"} => Len(fds) = 3
  /\ pc \notin {"wait 2", "exit"} \/ conv \in {"dup", "dup2"} => Leads("stdout", "stderr")
  /\ conv \in {"frontend", "dup2 cerr"} => Leads("stderr", "stderr")
  /\ conv = "convert" => Leads("stderr", "stdout")
  /\ conv \in {"dup2", "frontend", "dup2 cerr"} => fds[3] = "stdout"

\* The temporary file, and what the frontend saw of it.
File ==
  /\ pc \in {"parse", "filename", "first child", "mkstemps"} => tmp = None
  /\ pc \in {"fork 1", "wait 1", "fork 2", "wait 2"} => tmp # None
  /\ pc \notin {"wait 2", "exit"} => seen = None
  /\ conv \in {"dup", "dup2", "frontend"} => seen = None
  /\ conv \in {"dup2 cerr", "convert"} => seen = tmp
  /\ pc = "wait 2" => seen \in {None, tmp}
  /\ (failed = FALSE /\ (pc \in {"fork 2", "wait 2"} \/ (pc = "wait 1" /\ unp = None)))
       => tmp = "code"

\* While no child failed, the status kept is 0.
Statuses == (failed = FALSE /\ ended # <<>>) => ended[1] = 0

\* What is on the standard output.
Output ==
  /\ Pos(out, "frontend message") = {}
  /\ Unwritten => Pos(out, "code") = {}
  /\ (failed = FALSE /\ pc = "wait 2" /\ conv = None)
       => seen = tmp /\ Pos(out, "code") = {Len(out)}
  /\ (pc = "exit" /\ seen # None /\ failed = FALSE)
       => code = 0 /\ tmp = None /\ Pos(out, "code") = {Len(out)}
  /\ (pc = "exit" /\ tmp # None) => Pos(out, "message") # {}

IInv == TypeOK /\ Places /\ Descriptors /\ File /\ Statuses /\ Output

-----------------------------------------------------------------------------
(* Sequences.                                                              *)

\* A queue of one status, taken from.
LEMMA TailOfOne ==
  ASSUME NEW S, NEW s \in Seq(S), Len(s) = 1
  PROVE  Tail(s) = << >> /\ Head(s) = s[1] /\ s[1] \in S
<1>1. Tail(s) \in Seq(S) /\ Len(Tail(s)) = 0
  OBVIOUS
<1>2. Tail(s) = << >>
  BY <1>1, EmptySeq
<1> QED
  BY <1>2

LEMMA AppendToNone ==
  ASSUME NEW x
  PROVE  Append(<< >>, x) # << >> /\ Len(Append(<< >>, x)) = 1 /\ Append(<< >>, x)[1] = x
OBVIOUS

\* What dup() does to the table of descriptors.
LEMMA AppendToTwo ==
  ASSUME NEW S, NEW s \in Seq(S), NEW x \in S
  PROVE  Len(s) = 2 =>
           /\ Len(Append(s, x)) = 3
           /\ Append(s, x)[1] = s[1] /\ Append(s, x)[2] = s[2] /\ Append(s, x)[3] = x
<1> DEFINE a == Append(s, x)
<1>1. /\ Len(a) = Len(s) + 1
      /\ \A i \in 1..Len(s) : a[i] = s[i]
      /\ a[Len(s) + 1] = x
  OBVIOUS
<1> HIDE DEF a
<1>2. Len(s) = 2 => Len(a) = 3 /\ a[1] = s[1] /\ a[2] = s[2] /\ a[3] = x
  BY <1>1
<1> QED
  BY <1>2 DEF a

LEMMA DupFds ==
  ASSUME NEW S, NEW f \in Seq(S), Len(f) = 2, NEW g, g = Append(f, f[1])
  PROVE  /\ Len(g) = 3
         /\ g[1] = f[1] /\ g[2] = f[2] /\ g[3] = f[1]
         /\ g \in Seq(S)
<1>1. f[1] \in S
  OBVIOUS
<1>2. g \in Seq(S)
  BY <1>1, AppendProperties
<1>3. Len(f) = 2 =>
        /\ Len(Append(f, f[1])) = 3
        /\ Append(f, f[1])[1] = f[1] /\ Append(f, f[1])[2] = f[2] /\ Append(f, f[1])[3] = f[1]
  BY <1>1, AppendToTwo, Zenon
<1> QED
  BY <1>2, <1>3, Zenon

\* What dup2() does to it.
LEMMA Dup2Fds ==
  ASSUME NEW S, NEW f \in Seq(S), NEW j \in 1..Len(f), NEW k \in 1..Len(f)
  PROVE  [f EXCEPT ![j] = f[k]] \in Seq(S)
<1>1. f[k] \in S
  OBVIOUS
<1> QED
  BY <1>1, ExceptSeq

LEMMA TailType ==
  ASSUME NEW S, NEW s \in Seq(S), s # << >>
  PROVE  Tail(s) \in Seq(S) /\ Head(s) \in S
BY HeadTailProperties

LEMMA AppendType ==
  ASSUME NEW S, NEW s \in Seq(S), NEW x \in S
  PROVE  Append(s, x) \in Seq(S) /\ Len(Append(s, x)) = Len(s) + 1
OBVIOUS

\* What Append does to the positions of an element.
LEMMA PosOther ==
  ASSUME NEW S, NEW s \in Seq(S), NEW x \in S, NEW what, x # what
  PROVE  Pos(Append(s, x), what) = Pos(s, what)
BY DEF Pos

LEMMA PosSame ==
  ASSUME NEW S, NEW s \in Seq(S), NEW x \in S
  PROVE  Pos(Append(s, x), x) = Pos(s, x) \cup {Len(s) + 1}
BY DEF Pos

\* The places: wait() blocks until the child has ended, so no two processes
\* but the parent and one child are ever there.
LEMMA PlacesStep ==
  ASSUME TypeOK, Places, Next
  PROVE  Places'
<1>ended. ended \in Seq(Status)
  BY DEF TypeOK
<1>1. CASE Parse
  BY <1>1, <1>ended DEF Places, None, Parse, Exit
<1>2. CASE FindFilename
  BY <1>2, <1>ended DEF Places, None, FindFilename, Fatal, Exit
<1>3. CASE LookAgain
  BY <1>3, <1>ended DEF Places, None, LookAgain
<1>4. CASE Mkstemps
  BY <1>4, <1>ended DEF Places, None, Mkstemps, Fatal, Exit
<1>5. CASE Fork1
  BY <1>5, <1>ended DEF Places, None, Fork1, Fatal, Exit
<1>6. CASE Fork2
  BY <1>6, <1>ended DEF Places, None, Fork2, Fatal, Exit
<1>7. CASE Wait1
  BY <1>7, <1>ended, TailOfOne DEF Places, None, Wait1, Reap
<1>8. CASE Wait2
  BY <1>8, <1>ended, TailOfOne DEF Places, None, Wait2, Reap, Exit
<1>9. CASE UnparserFails
  <2>1. unp # None /\ unp' = None
    BY <1>9 DEF UnparserFails, Unparsing, None
  <2>2. \E x : ended' = Append(ended, x)
    BY <1>9 DEF UnparserFails
  <2>3. pc' = pc /\ conv' = conv
    BY <1>9 DEF UnparserFails
  <2>4. pc = "wait 1" /\ conv = None /\ ended = << >>
    BY <2>1 DEF Places
  <2> QED
    BY <2>1, <2>2, <2>3, <2>4, AppendToNone DEF Places
<1>10. CASE Visit
  BY <1>10, <1>ended DEF Places, None, Visit
<1>11. CASE OpenTmp
  BY <1>11, <1>ended DEF Places, None, OpenTmp
<1>12. CASE WriteTmp
  BY <1>12, <1>ended, AppendToNone DEF Places, None, WriteTmp
<1>13. CASE ConverterFails
  BY <1>13, <1>ended, AppendToNone DEF Places, None, ConverterFails
<1>14. CASE Dup
  BY <1>14, <1>ended DEF Places, None, Dup
<1>15. CASE RedirectStdout
  BY <1>15, <1>ended DEF Places, None, RedirectStdout
<1>16. CASE Frontend
  BY <1>16, <1>ended DEF Places, None, Frontend, Put
<1>17. CASE RedirectStderr
  BY <1>17, <1>ended DEF Places, None, RedirectStderr
<1>18. CASE Convert
  BY <1>18, <1>ended, AppendToNone DEF Places, None, Convert, Put
<1>19. CASE Done
  BY <1>19, <1>ended DEF Places, None, Done, vars
<1> QED
  BY <1>1, <1>2, <1>3, <1>4, <1>5, <1>6, <1>7, <1>8, <1>9, <1>10, <1>11, <1>12, <1>13, <1>14,
     <1>15, <1>16, <1>17, <1>18, <1>19
     DEF Next, Parent, Unparser, Converter

LEMMA DescriptorsStep ==
  ASSUME TypeOK, Places, Descriptors, Next
  PROVE  Descriptors'
<1>fds. fds \in Seq({"stdout", "stderr"})
  BY DEF TypeOK
<1>1. CASE Parse
  BY <1>1, <1>fds DEF Descriptors, Leads, None, Places, Parse, Exit
<1>2. CASE FindFilename
  BY <1>2, <1>fds DEF Descriptors, Leads, None, Places, FindFilename, Fatal, Exit
<1>3. CASE LookAgain
  BY <1>3, <1>fds DEF Descriptors, Leads, None, Places, LookAgain
<1>4. CASE Mkstemps
  BY <1>4, <1>fds DEF Descriptors, Leads, None, Places, Mkstemps, Fatal, Exit
<1>5. CASE Fork1
  BY <1>5, <1>fds DEF Descriptors, Leads, None, Places, Fork1, Fatal, Exit
<1>6. CASE Fork2
  BY <1>6, <1>fds DEF Descriptors, Leads, None, Places, Fork2, Fatal, Exit
<1>7. CASE Wait1
  BY <1>7, <1>fds DEF Descriptors, Leads, None, Places, Wait1, Reap
<1>8. CASE Wait2
  BY <1>8, <1>fds DEF Descriptors, Leads, None, Places, Wait2, Reap, Exit
<1>9. CASE UnparserFails
  BY <1>9, <1>fds DEF Descriptors, Leads, None, Places, UnparserFails, Unparsing
<1>10. CASE Visit
  BY <1>10, <1>fds DEF Descriptors, Leads, None, Places, Visit
<1>11. CASE OpenTmp
  BY <1>11, <1>fds DEF Descriptors, Leads, None, Places, OpenTmp
<1>12. CASE WriteTmp
  BY <1>12, <1>fds DEF Descriptors, Leads, None, Places, WriteTmp
<1>13. CASE ConverterFails
  BY <1>13, <1>fds DEF Descriptors, Leads, None, Places, ConverterFails
<1>14. CASE Dup
  <2>1. conv = "dup" /\ conv' = "dup2" /\ pc = "wait 2" /\ pc' = pc
    BY <1>14 DEF Dup, Places, None
  <2>2. fds' = Append(fds, fds[1])
    BY <1>14 DEF Dup
  <2>3. Len(fds) = 2
    BY <2>1 DEF Descriptors
  <2>4. fds[1] \in {"stdout", "stderr"}
    BY <2>3, <1>fds
  <2>5. /\ Len(fds') = 3
        /\ fds'[1] = fds[1] /\ fds'[2] = fds[2] /\ fds'[3] = fds[1]
    BY <2>2, <2>3, <2>4, <1>fds, DupFds
  <2> QED
    BY <2>1, <2>5 DEF Descriptors, Leads
<1>15. CASE RedirectStdout
  <2>1. conv = "dup2" /\ conv' = "frontend" /\ pc = "wait 2" /\ pc' = pc
    BY <1>15 DEF RedirectStdout, Places, None
  <2>2. fds' = [fds EXCEPT ![1] = fds[2]]
    BY <1>15 DEF RedirectStdout
  <2>3. Len(fds) = 3
    BY <2>1 DEF Descriptors
  <2>4. fds[1] \in {"stdout", "stderr"}
    BY <2>3, <1>fds
  <2>5. /\ Len(fds') = 3
        /\ fds'[1] = fds[2] /\ fds'[2] = fds[2] /\ fds'[3] = fds[3]
    BY <2>2, <2>3, <2>4, <1>fds, DupFds
  <2> QED
    BY <2>1, <2>5 DEF Descriptors, Leads
<1>16. CASE Frontend
  BY <1>16, <1>fds DEF Descriptors, Leads, None, Places, Frontend, Put
<1>17. CASE RedirectStderr
  <2>1. conv = "dup2 cerr" /\ conv' = "convert" /\ pc = "wait 2" /\ pc' = pc
    BY <1>17 DEF RedirectStderr, Places, None
  <2>2. fds' = [fds EXCEPT ![2] = fds[3]]
    BY <1>17 DEF RedirectStderr
  <2>3. Len(fds) = 3
    BY <2>1 DEF Descriptors
  <2>4. fds[1] \in {"stdout", "stderr"}
    BY <2>3, <1>fds
  <2>5. /\ Len(fds') = 3
        /\ fds'[1] = fds[1] /\ fds'[2] = fds[3] /\ fds'[3] = fds[3]
    BY <2>2, <2>3, <2>4, <1>fds, DupFds
  <2> QED
    BY <2>1, <2>5 DEF Descriptors, Leads
<1>18. CASE Convert
  BY <1>18, <1>fds DEF Descriptors, Leads, None, Places, Convert, Put
<1>19. CASE Done
  BY <1>19, <1>fds DEF Descriptors, Leads, None, Places, Done, vars
<1> QED
  BY <1>1, <1>2, <1>3, <1>4, <1>5, <1>6, <1>7, <1>8, <1>9, <1>10, <1>11, <1>12, <1>13, <1>14,
     <1>15, <1>16, <1>17, <1>18, <1>19
     DEF Next, Parent, Unparser, Converter

\* The file changes only in the first child, and while the parent waits.
LEMMA FileStep ==
  ASSUME TypeOK, Places, File, Next
  PROVE  File'
<1>file. tmp \in Contents /\ seen \in Contents
  BY DEF TypeOK
<1>1. CASE Parse
  BY <1>1, <1>file DEF File, None, Places, Contents, Parse, Exit
<1>2. CASE FindFilename
  BY <1>2, <1>file DEF File, None, Places, Contents, FindFilename, Fatal, Exit
<1>3. CASE LookAgain
  BY <1>3, <1>file DEF File, None, Places, Contents, LookAgain
<1>4. CASE Mkstemps
  BY <1>4, <1>file DEF File, None, Places, Contents, Mkstemps, Fatal, Exit
<1>5. CASE Fork1
  BY <1>5, <1>file DEF File, None, Places, Contents, Fork1, Fatal, Exit
<1>6. CASE Fork2
  BY <1>6, <1>file DEF File, None, Places, Contents, Fork2, Fatal, Exit
<1>7. CASE Wait1
  BY <1>7, <1>file DEF File, None, Places, Contents, Wait1, Reap
<1>8. CASE Wait2
  BY <1>8, <1>file DEF File, None, Places, Contents, Wait2, Reap, Exit
<1>9. CASE UnparserFails
  BY <1>9, <1>file DEF File, None, Places, Contents, UnparserFails, Unparsing
<1>10. CASE Visit
  BY <1>10, <1>file DEF File, None, Places, Contents, Visit
<1>11. CASE OpenTmp
  BY <1>11, <1>file DEF File, None, Places, Contents, OpenTmp
<1>12. CASE WriteTmp
  BY <1>12, <1>file DEF File, None, Places, Contents, WriteTmp
<1>13. CASE ConverterFails
  BY <1>13, <1>file DEF File, None, Places, Contents, ConverterFails
<1>14. CASE Dup
  BY <1>14, <1>file DEF File, None, Places, Contents, Dup
<1>15. CASE RedirectStdout
  BY <1>15, <1>file DEF File, None, Places, Contents, RedirectStdout
<1>16. CASE Frontend
  BY <1>16, <1>file DEF File, None, Places, Contents, Frontend, Put
<1>17. CASE RedirectStderr
  BY <1>17, <1>file DEF File, None, Places, Contents, RedirectStderr
<1>18. CASE Convert
  BY <1>18, <1>file DEF File, None, Places, Contents, Convert, Put
<1>19. CASE Done
  BY <1>19, <1>file DEF File, None, Places, Contents, Done, vars
<1> QED
  BY <1>1, <1>2, <1>3, <1>4, <1>5, <1>6, <1>7, <1>8, <1>9, <1>10, <1>11, <1>12, <1>13, <1>14,
     <1>15, <1>16, <1>17, <1>18, <1>19
     DEF Next, Parent, Unparser, Converter

LEMMA StatusFacts == 0 \in Status /\ 256 \in Status /\ Signals \subseteq Status
BY DEF Status

\* What may be printed.
LEMMA PrintedFacts ==
  "message" \in Printed /\ "frontend message" \in Printed /\ Contents \subseteq Printed
BY DEF Printed

LEMMA ControlType ==
  ASSUME TypeOK, Next
  PROVE  (pc \in {"parse", "filename", "first child", "mkstemps", "fork 1", "wait 1", "fork 2",
                   "wait 2", "exit"}
          /\ unp \in {None} \cup Unparsing /\ conv \in {None} \cup Converting)'
<1>control. pc \in {"parse", "filename", "first child", "mkstemps", "fork 1", "wait 1", "fork 2",
                   "wait 2", "exit"}
          /\ unp \in {None} \cup Unparsing /\ conv \in {None} \cup Converting
  BY DEF TypeOK
<1>1. CASE Parse
  BY <1>1, <1>control DEF Parse, Exit, Unparsing, Converting
<1>2. CASE FindFilename
  BY <1>2, <1>control DEF FindFilename, Fatal, Exit, Unparsing, Converting
<1>3. CASE LookAgain
  BY <1>3, <1>control DEF LookAgain, Unparsing, Converting
<1>4. CASE Mkstemps
  BY <1>4, <1>control DEF Mkstemps, Fatal, Exit, Unparsing, Converting
<1>5. CASE Fork1
  BY <1>5, <1>control DEF Fork1, Fatal, Exit, Unparsing, Converting
<1>6. CASE Fork2
  BY <1>6, <1>control DEF Fork2, Fatal, Exit, Unparsing, Converting
<1>7. CASE Wait1
  BY <1>7, <1>control DEF Wait1, Reap, Unparsing, Converting
<1>8. CASE Wait2
  BY <1>8, <1>control DEF Wait2, Reap, Exit, Unparsing, Converting
<1>9. CASE UnparserFails
  BY <1>9, <1>control DEF UnparserFails, Unparsing, Unparsing, Converting
<1>10. CASE Visit
  BY <1>10, <1>control DEF Visit, Unparsing, Converting
<1>11. CASE OpenTmp
  BY <1>11, <1>control DEF OpenTmp, Unparsing, Converting
<1>12. CASE WriteTmp
  BY <1>12, <1>control DEF WriteTmp, Unparsing, Converting
<1>13. CASE ConverterFails
  BY <1>13, <1>control DEF ConverterFails, Unparsing, Converting
<1>14. CASE Dup
  BY <1>14, <1>control DEF Dup, Unparsing, Converting
<1>15. CASE RedirectStdout
  BY <1>15, <1>control DEF RedirectStdout, Unparsing, Converting
<1>16. CASE Frontend
  BY <1>16, <1>control DEF Frontend, Put, Unparsing, Converting
<1>17. CASE RedirectStderr
  BY <1>17, <1>control DEF RedirectStderr, Unparsing, Converting
<1>18. CASE Convert
  BY <1>18, <1>control DEF Convert, Put, Unparsing, Converting
<1>19. CASE Done
  BY <1>19, <1>control DEF Done, vars, Unparsing, Converting
<1> QED
  BY <1>1, <1>2, <1>3, <1>4, <1>5, <1>6, <1>7, <1>8, <1>9, <1>10, <1>11, <1>12, <1>13, <1>14,
     <1>15, <1>16, <1>17, <1>18, <1>19
     DEF Next, Parent, Unparser, Converter

LEMMA EndedType ==
  ASSUME TypeOK, Next
  PROVE  (ended \in Seq(Status))'
<1>ended. ended \in Seq(Status)
  BY DEF TypeOK
<1>1. CASE Parse
  BY <1>1, StatusFacts, AppendType, TailType, <1>ended DEF Parse, Exit
<1>2. CASE FindFilename
  BY <1>2, StatusFacts, AppendType, TailType, <1>ended DEF FindFilename, Fatal, Exit
<1>3. CASE LookAgain
  BY <1>3, StatusFacts, AppendType, TailType, <1>ended DEF LookAgain
<1>4. CASE Mkstemps
  BY <1>4, StatusFacts, AppendType, TailType, <1>ended DEF Mkstemps, Fatal, Exit
<1>5. CASE Fork1
  BY <1>5, StatusFacts, AppendType, TailType, <1>ended DEF Fork1, Fatal, Exit
<1>6. CASE Fork2
  BY <1>6, StatusFacts, AppendType, TailType, <1>ended DEF Fork2, Fatal, Exit
<1>7. CASE Wait1
  BY <1>7, StatusFacts, AppendType, TailType, <1>ended DEF Wait1, Reap
<1>8. CASE Wait2
  BY <1>8, StatusFacts, AppendType, TailType, <1>ended DEF Wait2, Reap, Exit
<1>9. CASE UnparserFails
  BY <1>9, StatusFacts, AppendType, TailType, <1>ended DEF UnparserFails, Unparsing
<1>10. CASE Visit
  BY <1>10, StatusFacts, AppendType, TailType, <1>ended DEF Visit
<1>11. CASE OpenTmp
  BY <1>11, StatusFacts, AppendType, TailType, <1>ended DEF OpenTmp
<1>12. CASE WriteTmp
  BY <1>12, StatusFacts, AppendType, TailType, <1>ended DEF WriteTmp
<1>13. CASE ConverterFails
  BY <1>13, StatusFacts, AppendType, TailType, <1>ended DEF ConverterFails
<1>14. CASE Dup
  BY <1>14, StatusFacts, AppendType, TailType, <1>ended DEF Dup
<1>15. CASE RedirectStdout
  BY <1>15, StatusFacts, AppendType, TailType, <1>ended DEF RedirectStdout
<1>16. CASE Frontend
  BY <1>16, StatusFacts, AppendType, TailType, <1>ended DEF Frontend, Put
<1>17. CASE RedirectStderr
  BY <1>17, StatusFacts, AppendType, TailType, <1>ended DEF RedirectStderr
<1>18. CASE Convert
  BY <1>18, StatusFacts, AppendType, TailType, <1>ended DEF Convert, Put
<1>19. CASE Done
  BY <1>19, StatusFacts, AppendType, TailType, <1>ended DEF Done, vars
<1> QED
  BY <1>1, <1>2, <1>3, <1>4, <1>5, <1>6, <1>7, <1>8, <1>9, <1>10, <1>11, <1>12, <1>13, <1>14,
     <1>15, <1>16, <1>17, <1>18, <1>19
     DEF Next, Parent, Unparser, Converter

LEMMA FileType ==
  ASSUME TypeOK, Next
  PROVE  (tmp \in Contents /\ seen \in Contents)'
<1>file. tmp \in Contents /\ seen \in Contents
  BY DEF TypeOK
<1>1. CASE Parse
  BY <1>1, <1>file DEF Parse, Exit, Contents
<1>2. CASE FindFilename
  BY <1>2, <1>file DEF FindFilename, Fatal, Exit, Contents
<1>3. CASE LookAgain
  BY <1>3, <1>file DEF LookAgain, Contents
<1>4. CASE Mkstemps
  BY <1>4, <1>file DEF Mkstemps, Fatal, Exit, Contents
<1>5. CASE Fork1
  BY <1>5, <1>file DEF Fork1, Fatal, Exit, Contents
<1>6. CASE Fork2
  BY <1>6, <1>file DEF Fork2, Fatal, Exit, Contents
<1>7. CASE Wait1
  BY <1>7, <1>file DEF Wait1, Reap, Contents
<1>8. CASE Wait2
  BY <1>8, <1>file DEF Wait2, Reap, Exit, Contents
<1>9. CASE UnparserFails
  BY <1>9, <1>file DEF UnparserFails, Unparsing, Contents
<1>10. CASE Visit
  BY <1>10, <1>file DEF Visit, Contents
<1>11. CASE OpenTmp
  BY <1>11, <1>file DEF OpenTmp, Contents
<1>12. CASE WriteTmp
  BY <1>12, <1>file DEF WriteTmp, Contents
<1>13. CASE ConverterFails
  BY <1>13, <1>file DEF ConverterFails, Contents
<1>14. CASE Dup
  BY <1>14, <1>file DEF Dup, Contents
<1>15. CASE RedirectStdout
  BY <1>15, <1>file DEF RedirectStdout, Contents
<1>16. CASE Frontend
  BY <1>16, <1>file DEF Frontend, Put, Contents
<1>17. CASE RedirectStderr
  BY <1>17, <1>file DEF RedirectStderr, Contents
<1>18. CASE Convert
  BY <1>18, <1>file DEF Convert, Put, Contents
<1>19. CASE Done
  BY <1>19, <1>file DEF Done, vars, Contents
<1> QED
  BY <1>1, <1>2, <1>3, <1>4, <1>5, <1>6, <1>7, <1>8, <1>9, <1>10, <1>11, <1>12, <1>13, <1>14,
     <1>15, <1>16, <1>17, <1>18, <1>19
     DEF Next, Parent, Unparser, Converter

LEMMA OutType ==
  ASSUME TypeOK, Next
  PROVE  (out \in Seq(Printed))'
<1>out. out \in Seq(Printed)
  BY DEF TypeOK
<1>file. seen \in Printed
  BY PrintedFacts DEF TypeOK
<1>1. CASE Parse
  BY <1>1, AppendType, PrintedFacts, <1>out, <1>file DEF Parse, Exit
<1>2. CASE FindFilename
  BY <1>2, AppendType, PrintedFacts, <1>out, <1>file DEF FindFilename, Fatal, Exit
<1>3. CASE LookAgain
  BY <1>3, AppendType, PrintedFacts, <1>out, <1>file DEF LookAgain
<1>4. CASE Mkstemps
  BY <1>4, AppendType, PrintedFacts, <1>out, <1>file DEF Mkstemps, Fatal, Exit
<1>5. CASE Fork1
  BY <1>5, AppendType, PrintedFacts, <1>out, <1>file DEF Fork1, Fatal, Exit
<1>6. CASE Fork2
  BY <1>6, AppendType, PrintedFacts, <1>out, <1>file DEF Fork2, Fatal, Exit
<1>7. CASE Wait1
  BY <1>7, AppendType, PrintedFacts, <1>out, <1>file DEF Wait1, Reap
<1>8. CASE Wait2
  BY <1>8, AppendType, PrintedFacts, <1>out, <1>file DEF Wait2, Reap, Exit
<1>9. CASE UnparserFails
  BY <1>9, AppendType, PrintedFacts, <1>out, <1>file DEF UnparserFails, Unparsing
<1>10. CASE Visit
  BY <1>10, AppendType, PrintedFacts, <1>out, <1>file DEF Visit
<1>11. CASE OpenTmp
  BY <1>11, AppendType, PrintedFacts, <1>out, <1>file DEF OpenTmp
<1>12. CASE WriteTmp
  BY <1>12, AppendType, PrintedFacts, <1>out, <1>file DEF WriteTmp
<1>13. CASE ConverterFails
  BY <1>13, AppendType, PrintedFacts, <1>out, <1>file DEF ConverterFails
<1>14. CASE Dup
  BY <1>14, AppendType, PrintedFacts, <1>out, <1>file DEF Dup
<1>15. CASE RedirectStdout
  BY <1>15, AppendType, PrintedFacts, <1>out, <1>file DEF RedirectStdout
<1>16. CASE Frontend
  BY <1>16, AppendType, PrintedFacts, <1>out, <1>file DEF Frontend, Put
<1>17. CASE RedirectStderr
  BY <1>17, AppendType, PrintedFacts, <1>out, <1>file DEF RedirectStderr
<1>18. CASE Convert
  BY <1>18, AppendType, PrintedFacts, <1>out, <1>file DEF Convert, Put
<1>19. CASE Done
  BY <1>19, AppendType, PrintedFacts, <1>out, <1>file DEF Done, vars
<1> QED
  BY <1>1, <1>2, <1>3, <1>4, <1>5, <1>6, <1>7, <1>8, <1>9, <1>10, <1>11, <1>12, <1>13, <1>14,
     <1>15, <1>16, <1>17, <1>18, <1>19
     DEF Next, Parent, Unparser, Converter

LEMMA FdsType ==
  ASSUME TypeOK, Descriptors, Next
  PROVE  (fds \in Seq({"stdout", "stderr"}))'
<1>fds. fds \in Seq({"stdout", "stderr"})
  BY DEF TypeOK
<1>1. CASE Parse
  BY <1>1, <1>fds DEF Parse, Exit
<1>2. CASE FindFilename
  BY <1>2, <1>fds DEF FindFilename, Fatal, Exit
<1>3. CASE LookAgain
  BY <1>3, <1>fds DEF LookAgain
<1>4. CASE Mkstemps
  BY <1>4, <1>fds DEF Mkstemps, Fatal, Exit
<1>5. CASE Fork1
  BY <1>5, <1>fds DEF Fork1, Fatal, Exit
<1>6. CASE Fork2
  BY <1>6, <1>fds DEF Fork2, Fatal, Exit
<1>7. CASE Wait1
  BY <1>7, <1>fds DEF Wait1, Reap
<1>8. CASE Wait2
  BY <1>8, <1>fds DEF Wait2, Reap, Exit
<1>9. CASE UnparserFails
  BY <1>9, <1>fds DEF UnparserFails, Unparsing
<1>10. CASE Visit
  BY <1>10, <1>fds DEF Visit
<1>11. CASE OpenTmp
  BY <1>11, <1>fds DEF OpenTmp
<1>12. CASE WriteTmp
  BY <1>12, <1>fds DEF WriteTmp
<1>13. CASE ConverterFails
  BY <1>13, <1>fds DEF ConverterFails
<1>14. CASE Dup
  <2>1. Len(fds) = 2
    BY <1>14 DEF Dup, Descriptors
  <2>2. fds' = Append(fds, fds[1])
    BY <1>14 DEF Dup
  <2> QED
    BY <2>1, <2>2, <1>fds, DupFds
<1>15. CASE RedirectStdout
  <2>1. Len(fds) = 3
    BY <1>15 DEF RedirectStdout, Descriptors
  <2>2. fds' = [fds EXCEPT ![1] = fds[2]]
    BY <1>15 DEF RedirectStdout
  <2>3. 1 \in 1..Len(fds) /\ 2 \in 1..Len(fds)
    BY <2>1
  <2>4. [fds EXCEPT ![1] = fds[2]] \in Seq({"stdout", "stderr"})
    BY <2>3, <1>fds, Dup2Fds
  <2> QED
    BY <2>2, <2>4
<1>16. CASE Frontend
  BY <1>16, <1>fds DEF Frontend, Put
<1>17. CASE RedirectStderr
  <2>1. Len(fds) = 3
    BY <1>17 DEF RedirectStderr, Descriptors
  <2>2. fds' = [fds EXCEPT ![2] = fds[3]]
    BY <1>17 DEF RedirectStderr
  <2>3. 2 \in 1..Len(fds) /\ 3 \in 1..Len(fds)
    BY <2>1
  <2>4. [fds EXCEPT ![2] = fds[3]] \in Seq({"stdout", "stderr"})
    BY <2>3, <1>fds, Dup2Fds
  <2> QED
    BY <2>2, <2>4
<1>18. CASE Convert
  BY <1>18, <1>fds DEF Convert, Put
<1>19. CASE Done
  BY <1>19, <1>fds DEF Done, vars
<1> QED
  BY <1>1, <1>2, <1>3, <1>4, <1>5, <1>6, <1>7, <1>8, <1>9, <1>10, <1>11, <1>12, <1>13, <1>14,
     <1>15, <1>16, <1>17, <1>18, <1>19
     DEF Next, Parent, Unparser, Converter

LEMMA InputType ==
  ASSUME TypeOK, Next
  PROVE  (input \in Inputs)'
BY DEF TypeOK, Next, Parent, Unparser, Converter, Parse, FindFilename, LookAgain, Mkstemps, Fork1,
       Fork2, Wait1, Wait2, UnparserFails, Visit, OpenTmp, WriteTmp, ConverterFails, Dup,
       RedirectStdout, Frontend, RedirectStderr, Convert, Done, vars

LEMMA FailedType ==
  ASSUME TypeOK, Next
  PROVE  (failed \in BOOLEAN)'
<1>1. failed \in BOOLEAN
  BY DEF TypeOK
<1>2. failed' = failed \/ failed' = TRUE
  BY Zenon
     DEF Next, Parent, Unparser, Converter, Parse, FindFilename, LookAgain, Mkstemps, Fork1,
         Fork2, Wait1, Wait2, UnparserFails, Visit, OpenTmp, WriteTmp, ConverterFails, Dup,
         RedirectStdout, Frontend, RedirectStderr, Convert, Done, vars
<1> QED
  BY <1>1, <1>2

LEMMA CodeType ==
  ASSUME TypeOK, Next
  PROVE  (code \in 0..255)'
<1>1. code \in 0..255
  BY DEF TypeOK
<1>2. CASE Wait2
  <2>1. Head(ended) \in Status
    <3>1. ended \in Seq(Status)
      BY DEF TypeOK
    <3> QED
      BY <3>1, <1>2, TailType DEF Wait2, Reap
  <2>2. Head(ended) \in Nat
    <3>1. Signals \subseteq Nat
      BY InputAssumption
    <3>2. Status \subseteq Nat
      BY <3>1 DEF Status
    <3> QED
      BY <2>1, <3>2
  <2>3. code' = 0 \/ code' = Head(ended) % 256
    BY <1>2 DEF Wait2, Exit, ExitCode
  <2> QED
    BY <2>2, <2>3
<1>3. CASE ~Wait2
  <2>1. code' = code \/ code' = 1
    BY <1>3
       DEF Next, Parent, Unparser, Converter, Parse, FindFilename, LookAgain, Mkstemps, Fork1,
           Fork2, Wait1, UnparserFails, Visit, OpenTmp, WriteTmp, ConverterFails, Dup,
           RedirectStdout, Frontend, RedirectStderr, Convert, Done, vars, Fatal, Exit
  <2> QED
    BY <1>1, <2>1
<1> QED
  BY <1>2, <1>3

\* All the types.
LEMMA TypeStep ==
  ASSUME TypeOK, Places, Descriptors, Next
  PROVE  TypeOK'
BY InputType, ControlType, EndedType, FailedType, FileType, FdsType, OutType, CodeType DEF TypeOK

LEMMA StatusesStep ==
  ASSUME TypeOK, Places, Statuses, Next
  PROVE  Statuses'
<1>ended. ended \in Seq(Status)
  BY DEF TypeOK
<1>1. CASE Parse
  BY <1>1, <1>ended DEF Statuses, Places, None, Parse, Exit
<1>2. CASE FindFilename
  BY <1>2, <1>ended DEF Statuses, Places, None, FindFilename, Fatal, Exit
<1>3. CASE LookAgain
  BY <1>3, <1>ended DEF Statuses, Places, None, LookAgain
<1>4. CASE Mkstemps
  BY <1>4, <1>ended DEF Statuses, Places, None, Mkstemps, Fatal, Exit
<1>5. CASE Fork1
  BY <1>5, <1>ended DEF Statuses, Places, None, Fork1, Fatal, Exit
<1>6. CASE Fork2
  BY <1>6, <1>ended DEF Statuses, Places, None, Fork2, Fatal, Exit
<1>7. CASE Wait1
  BY <1>7, <1>ended, TailOfOne DEF Statuses, Places, None, Wait1, Reap
<1>8. CASE Wait2
  BY <1>8, <1>ended, TailOfOne DEF Statuses, Places, None, Wait2, Reap, Exit
<1>9. CASE UnparserFails
  BY <1>9, <1>ended, AppendToNone DEF Statuses, Places, None, UnparserFails, Unparsing
<1>10. CASE Visit
  BY <1>10, <1>ended DEF Statuses, Places, None, Visit
<1>11. CASE OpenTmp
  BY <1>11, <1>ended DEF Statuses, Places, None, OpenTmp
<1>12. CASE WriteTmp
  BY <1>12, <1>ended, AppendToNone DEF Statuses, Places, None, WriteTmp
<1>13. CASE ConverterFails
  BY <1>13, <1>ended, AppendToNone DEF Statuses, Places, None, ConverterFails
<1>14. CASE Dup
  BY <1>14, <1>ended DEF Statuses, Places, None, Dup
<1>15. CASE RedirectStdout
  BY <1>15, <1>ended DEF Statuses, Places, None, RedirectStdout
<1>16. CASE Frontend
  BY <1>16, <1>ended DEF Statuses, Places, None, Frontend, Put
<1>17. CASE RedirectStderr
  BY <1>17, <1>ended DEF Statuses, Places, None, RedirectStderr
<1>18. CASE Convert
  BY <1>18, <1>ended, AppendToNone DEF Statuses, Places, None, Convert, Put
<1>19. CASE Done
  BY <1>19, <1>ended DEF Statuses, Places, None, Done, vars
<1> QED
  BY <1>1, <1>2, <1>3, <1>4, <1>5, <1>6, <1>7, <1>8, <1>9, <1>10, <1>11, <1>12, <1>13, <1>14,
     <1>15, <1>16, <1>17, <1>18, <1>19
     DEF Next, Parent, Unparser, Converter

\* A message on the standard output does not disturb the XML.
LEMMA Message ==
  ASSUME NEW o \in Seq(Printed)
  PROVE  /\ Append(o, "message") \in Seq(Printed)
         /\ Pos(Append(o, "message"), "code") = Pos(o, "code")
         /\ Pos(Append(o, "message"), "frontend message") = Pos(o, "frontend message")
         /\ Pos(Append(o, "message"), "message") # {}
<1>1. Pos(Append(o, "message"), "code") = Pos(o, "code")
  BY PosOther, PrintedFacts, "message" # "code", Zenon
<1>2. Pos(Append(o, "message"), "frontend message") = Pos(o, "frontend message")
  BY PosOther, PrintedFacts, "message" # "frontend message", Zenon
<1>3. Pos(Append(o, "message"), "message") = Pos(o, "message") \cup {Len(o) + 1}
  BY PosSame, PrintedFacts, Zenon
<1>4. Append(o, "message") \in Seq(Printed)
  BY AppendType, PrintedFacts
<1> QED
  BY <1>1, <1>2, <1>3, <1>4

\* The output: the frontend prints on a descriptor that leads to stderr, the
\* XML goes to one that leads to stdout, and nothing is printed after it.
LEMMA OutputStep ==
  ASSUME TypeOK, Places, Descriptors, File, Statuses, Output, Next
  PROVE  Output'
<1>out. out \in Seq(Printed)
  BY DEF TypeOK
<1>file. seen \in Contents /\ tmp \in Contents
  BY DEF TypeOK
<1>ended. ended \in Seq(Status)
  BY DEF TypeOK
<1>fds. fds \in Seq({"stdout", "stderr"})
  BY DEF TypeOK
<1>1. CASE Parse
  <2>1. \/ out' = out
        \/ out' = Append(out, "message")
        \/ out' = Append(Append(out, "message"), "message")
    BY <1>1 DEF Parse, Exit
  <2>2. /\ Pos(out', "code") = Pos(out, "code")
        /\ Pos(out', "frontend message") = Pos(out, "frontend message")
    BY <2>1, <1>out, Message
  <2> QED
    BY <1>1, <2>2, <1>file, <1>ended
       DEF Places, File, Statuses, Output, Unwritten, None, Parse, Exit
<1>2. CASE FindFilename
  <2>1. (out' = out /\ pc' # "exit") \/ out' = Append(out, "message")
    BY <1>2 DEF FindFilename, Fatal, Exit
  <2>2. /\ Pos(out', "code") = Pos(out, "code")
        /\ Pos(out', "frontend message") = Pos(out, "frontend message")
        /\ pc' = "exit" => Pos(out', "message") # {}
    BY <2>1, <1>out, Message
  <2> QED
    BY <1>2, <2>2, <1>file, <1>ended
       DEF Places, File, Statuses, Output, Unwritten, None, FindFilename, Fatal, Exit
<1>3. CASE LookAgain
  <2>1. out' = out \/ out' = Append(out, "message")
    BY <1>3 DEF LookAgain
  <2>2. /\ Pos(out', "code") = Pos(out, "code")
        /\ Pos(out', "frontend message") = Pos(out, "frontend message")
    BY <2>1, <1>out, Message
  <2> QED
    BY <1>3, <2>2, <1>file, <1>ended
       DEF Places, File, Statuses, Output, Unwritten, None, LookAgain
<1>4. CASE Mkstemps
  <2>1. (out' = out /\ pc' # "exit") \/ out' = Append(out, "message")
    BY <1>4 DEF Mkstemps, Fatal, Exit
  <2>2. /\ Pos(out', "code") = Pos(out, "code")
        /\ Pos(out', "frontend message") = Pos(out, "frontend message")
        /\ pc' = "exit" => Pos(out', "message") # {}
    BY <2>1, <1>out, Message
  <2> QED
    BY <1>4, <2>2, <1>file, <1>ended
       DEF Places, File, Statuses, Output, Unwritten, None, Mkstemps, Fatal, Exit
<1>5. CASE Fork1
  <2>1. (out' = out /\ pc' # "exit") \/ out' = Append(out, "message")
    BY <1>5 DEF Fork1, Fatal, Exit
  <2>2. /\ Pos(out', "code") = Pos(out, "code")
        /\ Pos(out', "frontend message") = Pos(out, "frontend message")
        /\ pc' = "exit" => Pos(out', "message") # {}
    BY <2>1, <1>out, Message
  <2> QED
    BY <1>5, <2>2, <1>file, <1>ended
       DEF Places, File, Statuses, Output, Unwritten, None, Fork1, Fatal, Exit
<1>6. CASE Fork2
  <2>1. (out' = out /\ pc' # "exit") \/ out' = Append(out, "message")
    BY <1>6 DEF Fork2, Fatal, Exit
  <2>2. /\ Pos(out', "code") = Pos(out, "code")
        /\ Pos(out', "frontend message") = Pos(out, "frontend message")
        /\ pc' = "exit" => Pos(out', "message") # {}
    BY <2>1, <1>out, Message
  <2> QED
    BY <1>6, <2>2, <1>file, <1>ended
       DEF Places, File, Statuses, Output, Unwritten, None, Fork2, Fatal, Exit
<1>7. CASE Wait1
  <2>1. out' = out \/ out' = Append(out, "message")
    BY <1>7 DEF Wait1, Reap
  <2>2. /\ Pos(out', "code") = Pos(out, "code")
        /\ Pos(out', "frontend message") = Pos(out, "frontend message")
    BY <2>1, <1>out, Message
  <2> QED
    BY <1>7, <2>2, <1>file, <1>ended, TailOfOne
       DEF Places, File, Statuses, Output, Unwritten, None, Wait1, Reap
<1>8. CASE Wait2
  <2>1. \/ Head(ended) = 0 /\ out' = out /\ tmp' = None /\ code' = 0
        \/ Head(ended) # 0 /\ out' = Append(out, "message")
    BY <1>8 DEF Wait2, Reap, Exit
  <2>2. /\ Pos(out', "code") = Pos(out, "code")
        /\ Pos(out', "frontend message") = Pos(out, "frontend message")
        /\ Head(ended) # 0 => Pos(out', "message") # {}
    BY <2>1, <1>out, Message
  <2>3. pc = "wait 2" /\ pc' = "exit" /\ conv = None /\ ended # << >>
    BY <1>8 DEF Wait2, Exit, Reap, Places
  <2>4. failed' = failed /\ seen' = seen
    BY <1>8 DEF Wait2
  <2>5. failed = FALSE => Head(ended) = 0
    BY <2>3, <1>ended, TailOfOne DEF Statuses, Places
  <2> QED
    BY <2>1, <2>2, <2>3, <2>4, <2>5 DEF Output, Unwritten
<1>9. CASE UnparserFails
  <2>1. out' = out \/ out' = Append(out, "message")
    BY <1>9 DEF UnparserFails, Unparsing
  <2>2. /\ Pos(out', "code") = Pos(out, "code")
        /\ Pos(out', "frontend message") = Pos(out, "frontend message")
    BY <2>1, <1>out, Message
  <2> QED
    BY <1>9, <2>2, <1>file, <1>ended, AppendToNone
       DEF Places, File, Statuses, Output, Unwritten, None, UnparserFails, Unparsing
<1>10. CASE Visit
  <2>1. out' = out \/ out' = Append(out, "message")
    BY <1>10 DEF Visit
  <2>2. /\ Pos(out', "code") = Pos(out, "code")
        /\ Pos(out', "frontend message") = Pos(out, "frontend message")
    BY <2>1, <1>out, Message
  <2> QED
    BY <1>10, <2>2, <1>file, <1>ended DEF Places, File, Statuses, Output, Unwritten, None, Visit
<1>11. CASE OpenTmp
  <2>1. out' = out \/ out' = Append(out, "message")
    BY <1>11 DEF OpenTmp
  <2>2. /\ Pos(out', "code") = Pos(out, "code")
        /\ Pos(out', "frontend message") = Pos(out, "frontend message")
    BY <2>1, <1>out, Message
  <2> QED
    BY <1>11, <2>2, <1>file, <1>ended DEF Places, File, Statuses, Output, Unwritten, None, OpenTmp
<1>12. CASE WriteTmp
  <2>1. out' = out \/ out' = Append(out, "message")
    BY <1>12 DEF WriteTmp
  <2>2. /\ Pos(out', "code") = Pos(out, "code")
        /\ Pos(out', "frontend message") = Pos(out, "frontend message")
    BY <2>1, <1>out, Message
  <2> QED
    BY <1>12, <2>2, <1>file, <1>ended, AppendToNone
       DEF Places, File, Statuses, Output, Unwritten, None, WriteTmp
<1>13. CASE ConverterFails
  <2>1. out' = out \/ out' = Append(out, "message")
    BY <1>13 DEF ConverterFails
  <2>2. /\ Pos(out', "code") = Pos(out, "code")
        /\ Pos(out', "frontend message") = Pos(out, "frontend message")
    BY <2>1, <1>out, Message
  <2> QED
    BY <1>13, <2>2, <1>file, <1>ended, AppendToNone
       DEF Places, File, Statuses, Output, Unwritten, None, ConverterFails
<1>14. CASE Dup
  <2>1. out' = out \/ out' = Append(out, "message")
    BY <1>14 DEF Dup
  <2>2. /\ Pos(out', "code") = Pos(out, "code")
        /\ Pos(out', "frontend message") = Pos(out, "frontend message")
    BY <2>1, <1>out, Message
  <2> QED
    BY <1>14, <2>2, <1>file, <1>ended DEF Places, File, Statuses, Output, Unwritten, None, Dup
<1>15. CASE RedirectStdout
  <2>1. out' = out \/ out' = Append(out, "message")
    BY <1>15 DEF RedirectStdout
  <2>2. /\ Pos(out', "code") = Pos(out, "code")
        /\ Pos(out', "frontend message") = Pos(out, "frontend message")
    BY <2>1, <1>out, Message
  <2> QED
    BY <1>15, <2>2, <1>file, <1>ended
       DEF Places, File, Statuses, Output, Unwritten, None, RedirectStdout
<1>16. CASE Frontend
  <2>1. out' = out \/ out' = Append(out, "message")
    BY <1>16, <1>fds DEF Frontend, Put, Descriptors, Leads
  <2>2. /\ Pos(out', "code") = Pos(out, "code")
        /\ Pos(out', "frontend message") = Pos(out, "frontend message")
    BY <2>1, <1>out, Message
  <2> QED
    BY <1>16, <2>2, <1>file, <1>ended
       DEF Places, File, Statuses, Output, Unwritten, None, Frontend, Put
<1>17. CASE RedirectStderr
  <2>1. out' = out \/ out' = Append(out, "message")
    BY <1>17 DEF RedirectStderr
  <2>2. /\ Pos(out', "code") = Pos(out, "code")
        /\ Pos(out', "frontend message") = Pos(out, "frontend message")
    BY <2>1, <1>out, Message
  <2> QED
    BY <1>17, <2>2, <1>file, <1>ended
       DEF Places, File, Statuses, Output, Unwritten, None, RedirectStderr
<1>18. CASE Convert
  <2>1. out' = Append(out, seen) /\ seen = tmp
    BY <1>18, <1>out DEF Convert, Put, Descriptors, Leads, File
  <2>2. seen \in Printed /\ seen # "frontend message"
    <3>1. seen \in Printed
      BY <1>file, PrintedFacts
    <3>2. seen # "frontend message"
      BY <1>file DEF Contents, None
    <3> QED
      BY <3>1, <3>2
  <2>3. Pos(out', "frontend message") = {}
    <3>1. Pos(Append(out, seen), "frontend message") = Pos(out, "frontend message")
      BY <2>2, <1>out, PosOther, Zenon
    <3> QED
      BY <2>1, <3>1, Zenon DEF Output
  <2>4. pc = "wait 2" /\ ended = << >>
    BY <1>18 DEF Convert, Places, None
  <2>5. pc' = pc /\ failed' = failed /\ seen' = seen /\ tmp' = tmp /\ conv' = None
    BY <1>18 DEF Convert
  <2>6. ended' # << >>
    BY <1>18, <2>4, AppendToNone DEF Convert
  <2>7. failed = FALSE => Pos(out', "code") = {Len(out')}
    <3> SUFFICES ASSUME failed = FALSE
                 PROVE  Pos(out', "code") = {Len(out')}
      OBVIOUS
    <3>1. seen = "code"
      BY <2>1, <2>4 DEF File
    <3>2. Pos(out, "code") = {}
      BY <2>4 DEF Output, Unwritten
    <3>3. Pos(out', "code") = Pos(out, "code") \cup {Len(out) + 1}
      BY <2>1, <2>2, <3>1, <1>out, PosSame, Zenon
    <3>4. Len(out') = Len(out) + 1
      BY <2>1, <2>2, <1>out, AppendType
    <3> QED
      BY <3>2, <3>3, <3>4
  <2> QED
    BY <2>1, <2>3, <2>4, <2>5, <2>6, <2>7 DEF Output, Unwritten
<1>19. CASE Done
  <2>1. out' = out \/ out' = Append(out, "message")
    BY <1>19 DEF Done, vars
  <2>2. /\ Pos(out', "code") = Pos(out, "code")
        /\ Pos(out', "frontend message") = Pos(out, "frontend message")
    BY <2>1, <1>out, Message
  <2> QED
    BY <1>19, <2>2, <1>file, <1>ended
       DEF Places, File, Statuses, Output, Unwritten, None, Done, vars
<1> QED
  BY <1>1, <1>2, <1>3, <1>4, <1>5, <1>6, <1>7, <1>8, <1>9, <1>10, <1>11, <1>12, <1>13, <1>14,
     <1>15, <1>16, <1>17, <1>18, <1>19
     DEF Next, Parent, Unparser, Converter

-----------------------------------------------------------------------------
(* The invariant, and what follows from it.                                *)

LEMMA InitIInv == Init => IInv
<1> SUFFICES ASSUME Init PROVE IInv
  OBVIOUS
<1>1. /\ input \in Inputs /\ unp \in {None} \cup Unparsing /\ conv \in {None} \cup Converting
      /\ pc \in {"parse", "filename", "first child", "mkstemps", "fork 1", "wait 1", "fork 2",
                 "wait 2", "exit"}
  BY DEF Init
<1>2. ended \in Seq(Status)
  BY DEF Init
<1>3. failed \in BOOLEAN
  BY DEF Init
<1>4. tmp \in Contents /\ seen \in Contents
  BY DEF Init, Contents
<1>5. fds \in Seq({"stdout", "stderr"})
  BY DEF Init
<1>6. out \in Seq(Printed)
  BY DEF Init
<1>7. code \in 0..255
  BY DEF Init
<1>8. TypeOK
  BY <1>1, <1>2, <1>3, <1>4, <1>5, <1>6, <1>7 DEF TypeOK
<1>9. Places /\ File /\ Statuses
  BY DEF Init, Places, File, Statuses, None
<1>10. Descriptors
  BY DEF Init, Descriptors, Leads, None
<1>11. Pos(out, "code") = {} /\ Pos(out, "frontend message") = {}
  BY DEF Init, Pos
<1>12. Output
  BY <1>11 DEF Init, Output, Unwritten
<1> QED
  BY <1>8, <1>9, <1>10, <1>12 DEF IInv

LEMMA Stutter == IInv /\ UNCHANGED vars => IInv'
<1> SUFFICES ASSUME IInv, UNCHANGED vars PROVE IInv'
  OBVIOUS
<1>1. TypeOK'
  BY DEF IInv, TypeOK, vars
<1>2. (Places /\ Descriptors /\ File /\ Statuses)'
  BY DEF IInv, vars, Places, Descriptors, Leads, File, Statuses
<1>3. Output'
  BY DEF IInv, vars, Output, Unwritten
<1> QED
  BY <1>1, <1>2, <1>3 DEF IInv

\* The inductive invariant holds throughout.
LEMMA Always == Spec => []IInv
<1>1. IInv /\ [Next]_vars => IInv'
  BY TypeStep, PlacesStep, DescriptorsStep, FileStep, StatusesStep, OutputStep, Stutter DEF IInv
<1> QED
  BY <1>1, InitIInv, PTL DEF Spec

\* Every variable of xmlrebuild keeps its type: among others, what main returns
\* becomes an exit code the system can deliver.
THEOREM RebuildTypeCorrect == Spec => []TypeOK
<1>1. IInv => TypeOK
  BY DEF IInv
<1> QED
  BY <1>1, Always, PTL

\* The frontend of the second child never reads the temporary file while the
\* first child may still write it, however the processes are scheduled and
\* wherever they fail.
THEOREM RebuildStableInput == Spec => []StableInput
<1>1. IInv => StableInput
  BY DEF IInv, Places, File, StableInput, Ended, TypeOK
<1> QED
  BY <1>1, Always, PTL

\* The command never ends with a child running or unreaped.
THEOREM RebuildNoOrphan == Spec => []NoOrphan
<1>1. IInv => NoOrphan
  BY DEF IInv, Places, NoOrphan, Ended
<1> QED
  BY <1>1, Always, PTL

\* If no process fails, the XML of the unparsed program is the last thing on
\* the standard output, not mixed with what the frontend prints, and the
\* temporary file is gone; otherwise it is left only with an error message.
THEOREM RebuildCleanSuccess == Spec => []CleanSuccess
<1>1. IInv => CleanSuccess
  <2> SUFFICES ASSUME IInv PROVE CleanSuccess
    OBVIOUS
  <2>1. \A what : Position(what) = Pos(out, what)
    BY DEF Position, Pos
  <2>2. failed \in BOOLEAN
    BY DEF IInv, TypeOK
  <2>3. Output
    BY DEF IInv
  <2> QED
    BY <2>1, <2>2, <2>3 DEF Output, CleanSuccess, Ended
<1> QED
  BY <1>1, Always, PTL
=============================================================================
