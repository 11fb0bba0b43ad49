----------------------------- MODULE XsltFront -----------------------------
(***************************************************************************)
(* The library directories of xsltexec (src/src/xslt.cpp): a list like     *)
(* "a:b", given by an option or the environment, as a sequence of          *)
(* characters; positions count from 0 as in std::string.                   *)
(***************************************************************************)
EXTENDS Naturals, Sequences

Colon == ":"

\* libdirs.find(":", n), Len(s) for npos
Find(s, n) == LET hits == {k \in n..(Len(s) - 1) : s[k + 1] = Colon}
              IN IF hits = {} THEN Len(s) ELSE CHOOSE k \in hits : \A j \in hits : k <= j

\* std::string::substr: a position and a length
Substr(s, from, length) ==
  SubSeq(s, from + 1, IF from + length > Len(s) THEN Len(s) ELSE from + length)

\* libdirs_.push_back unless the directory is empty
PushBack(dirs, dir) == IF dir = << >> THEN dirs ELSE Append(dirs, dir)

\* Fault: the last directory is forgotten.
RECURSIVE SplitButLast(_, _, _, _)
SplitButLast(s, n, prev, dirs) ==
  LET at == Find(s, n)
  IN IF at = Len(s) THEN dirs
     ELSE SplitButLast(s, at + 1, at, PushBack(dirs, Substr(s, prev, at)))

\* The loop of the constructor; the position n is used as a length.
RECURSIVE Split(_, _, _, _)
Split(s, n, prev, dirs) ==
  LET at == Find(s, n)
  IN IF at = Len(s) THEN PushBack(dirs, Substr(s, prev, Len(s)))
     ELSE Split(s, at + 1, at, PushBack(dirs, Substr(s, prev, at)))

\* MyEntityResolver: the directories searched; without any, the default one.
LibDirs(s) ==
  LET dirs == IF s = << >> THEN << >> ELSE Split(s, 0, 0, << >>)
  IN IF dirs = << >> THEN << <<"default">> >> ELSE dirs
=============================================================================
