------------------------------ MODULE PathName ------------------------------
(***************************************************************************)
(* Paths as server/client.c and commands/base.c put them together and take *)
(* them apart, and what the operating system makes of them.  A path is a   *)
(* sequence of slashes, dots and names; a name is one character.           *)
(***************************************************************************)
EXTENDS Naturals, SequencesExt

CONSTANTS Slash, DotDot,
          Tree     \* the directories there are: sequences of names, from the root

ASSUME TreeAssumption == \A d \in Tree : d = <<>> \/ Front(d) \in Tree

\* Mutant: what begins with a slash is taken for a name in the directory.
string_getpath_below(abspath, relpath) == abspath \o <<Slash>> \o relpath

\* The "trailing slash" the code looks for is one of relpath, the copy in the
\* result is made before: nothing is removed from it.
string_getpath(abspath, relpath) ==
  IF relpath # <<>> /\ relpath[1] = Slash THEN relpath
  ELSE abspath \o <<Slash>> \o relpath

\* ssftpCmdCdup: everything from the last slash goes, but the first slash stays.
CutLast(path) ==
  LET last == CHOOSE k \in DOMAIN path :
                path[k] = Slash /\ Slash \notin Range(SubSeq(path, k + 1, Len(path)))
  IN  SubSeq(path, 1, IF last = 1 THEN 1 ELSE last - 1)

------------------------------------------------------------------------------
(* stat(2) *)

Parent(d) == IF d = <<>> THEN d ELSE Front(d)

Enter(d, t) == CASE t = Slash -> d [] t = DotDot -> Parent(d) [] OTHER -> Append(d, t)

\* The directory a path leads to from d, and from the root.
Walked(d, path) ==
  LET at[k \in 0..Len(path)] == IF k = 0 THEN d ELSE Enter(at[k - 1], path[k])
  IN  at[Len(path)]

Place(path) == Walked(<<>>, path)

\* Whether each step on the way exists.
IsDirectory(path) == \A k \in DOMAIN path : Place(SubSeq(path, 1, k)) \in Tree

==============================================================================
