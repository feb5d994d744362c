------------------------------ MODULE FileStore ------------------------------
(***************************************************************************)
(* What the commands expect of compat/fs.h: files that clients read and    *)
(* write piece by piece, and directories.  What was written is in the file *)
(* from then on, however the transfer ends and wherever the server runs.   *)
(***************************************************************************)
EXTENDS Naturals, Sequences

CONSTANTS Client, Path, Block,
          Hole,      \* a block nobody wrote
          MaxRest,   \* bound on where a transfer starts
          NewSize    \* the sizes a file may be given

VARIABLES files,   \* Path -> what is there
          use,     \* Client -> what the client does with it
          heard    \* the last reply, or what the last event moved

vars == <<files, use, heard>>

Nothing    == [kind |-> "none", data |-> <<>>]
Folder     == [kind |-> "dir", data |-> <<>>]
File(data) == [kind |-> "file", data |-> data]

Idle                == [doing |-> "nothing", on |-> {}, pos |-> 0]
Use(what, on, pos)  == [doing |-> what, on |-> on, pos |-> pos]

\* Writing behind the end leaves a hole.
WriteAt(s, pos, b) ==
  [k \in 1..(IF pos < Len(s) THEN Len(s) ELSE pos + 1) |->
     IF k = pos + 1 THEN b ELSE IF k <= Len(s) THEN s[k] ELSE Hole]

\* The file with one more block of what the client writes.
Added(u, s, b) == IF u.doing = "writing" THEN WriteAt(s, u.pos, b) ELSE Append(s, b)

\* As much of a file as there is of it up to a size.
Sized(s, n) == [k \in 1..n |-> IF k <= Len(s) THEN s[k] ELSE Hole]

\* What LIST shows of a name: what it is.
Shown(p) == [name |-> p, mode |-> IF files[p].kind = "dir" THEN "d" ELSE "-"]

Says(code)  == heard' = [code |-> code, what |-> {}]
Gives(what) == heard' = [code |-> "data", what |-> {what}]

Becomes(c, u) == use' = [use EXCEPT ![c] = u]
Refused(what) == heard' = [code |-> "550", what |-> {what}] /\ UNCHANGED <<files, use>>
Ends(c, code) == Says(code) /\ Becomes(c, Idle)

(* beginning *)

Retrieve(c, p, r) ==
  \/ Refused("retr") /\ files[p].kind # "file"
  \/ /\ Says("150") /\ files[p].kind = "file"
     /\ Becomes(c, Use("reading", {p}, r)) /\ UNCHANGED files

\* A file may be protected, a directory is.  APPE starts at the end whatever REST said.
Store(c, p, r) ==
  \/ Refused("stor")
  \/ /\ Says("150") /\ files[p].kind # "dir"
     /\ Becomes(c, Use("writing", {p}, r))
     /\ files' = [files EXCEPT ![p] = IF r = 0 THEN File(<<>>) ELSE File(@.data)]

Extend(c, p) ==
  \/ Refused("appe")
  \/ /\ Says("150") /\ files[p].kind # "dir"
     /\ Becomes(c, Use("appending", {p}, 0))
     /\ files' = [files EXCEPT ![p] = File(@.data)]

List(c) ==
  \/ Refused("list")
  \/ /\ Says("150") /\ Becomes(c, Use("listing", {p \in Path : files[p].kind # "none"}, 0))
     /\ UNCHANGED files

Begin(c) ==
  /\ use[c].doing = "nothing"
  /\ List(c) \/ \E p \in Path : Extend(c, p) \/ \E r \in 0..MaxRest : Retrieve(c, p, r) \/ Store(c, p, r)

(* going on *)

Read(c) ==
  /\ use[c].doing = "reading"
  /\ \E p \in use[c].on :
       IF use[c].pos < Len(files[p].data)
       THEN Gives(files[p].data[use[c].pos + 1]) /\ Becomes(c, [use[c] EXCEPT !.pos = @ + 1])
       ELSE Ends(c, "226")
  /\ UNCHANGED files

\* One more block; or the transfer is over, and some of what came may be in the file.
Write(c) ==
  /\ use[c].doing \in {"writing", "appending"}
  /\ \E p \in use[c].on :
       \/ /\ Ends(c, "452")
          /\ \/ UNCHANGED files
             \/ \E b \in Block : files' = [files EXCEPT ![p].data = Added(use[c], @, b)]
       \/ \E b \in Block :
            /\ Gives(b) /\ files' = [files EXCEPT ![p].data = Added(use[c], @, b)]
            /\ IF use[c].doing = "writing" THEN Becomes(c, [use[c] EXCEPT !.pos = @ + 1])
                                           ELSE UNCHANGED use

\* An entry is listed if it is still there.
Entry(c) ==
  /\ use[c].doing = "listing"
  /\ LET there == {p \in use[c].on : files[p].kind # "none"}
     IN  \/ there = {} /\ Ends(c, "226")
         \/ \E p \in there, gone \in SUBSET (use[c].on \ there) :
              Gives(Shown(p)) /\ Becomes(c, [use[c] EXCEPT !.on = @ \ ({p} \cup gone)])
  /\ UNCHANGED files

\* The whole of an upload was sent, or a transfer is given up: files stay as they are.
Stops(c) ==
  /\ \/ Ends(c, "226") /\ use[c].doing \in {"writing", "appending"}
     \/ Ends(c, "gone") /\ use[c].doing # "nothing"
  /\ UNCHANGED files

(* names *)

Changes(p, from, to) ==
  \/ Refused("name") /\ files[p].kind # from
  \/ Says("250") /\ files[p].kind = from /\ files' = [files EXCEPT ![p] = to] /\ UNCHANGED use

Delete(p) == Changes(p, "file", Nothing)
Rmdir(p)  == Changes(p, "dir", Nothing)
Mkdir(p)  == Changes(p, "none", Folder)

Rename(p, q) ==
  \/ Refused("name")
  \/ /\ Says("250") /\ files[p].kind # "none"
     /\ files' = IF p = q THEN files ELSE [files EXCEPT ![q] = files[p], ![p] = Nothing]
     /\ UNCHANGED use

Chmod(p) ==
  \/ Refused("name") /\ files[p].kind = "none"
  \/ Says("250") /\ files[p].kind # "none" /\ UNCHANGED <<files, use>>

(* sizes *)

Resize(p) ==
  \/ Refused("size")
  \/ /\ Says("250") /\ files[p].kind = "file"
     /\ \E n \in NewSize : files' = [files EXCEPT ![p].data = Sized(@, n)]
     /\ UNCHANGED use

Measure(c) ==
  /\ use[c].doing \in {"reading", "writing", "appending"}
  /\ \E p \in use[c].on : Gives([size |-> Len(files[p].data)])
  /\ UNCHANGED <<files, use>>

Init ==
  /\ \A p \in Path : files[p] \in {Nothing, Folder} \/ files[p] = File(files[p].data)
  /\ use = [c \in Client |-> Idle] /\ heard = [code |-> "none", what |-> {}]

Next ==
  \/ \E c \in Client : Begin(c) \/ Read(c) \/ Write(c) \/ Entry(c) \/ Stops(c) \/ Measure(c)
  \/ \E p \in Path : \/ Delete(p) \/ Rmdir(p) \/ Mkdir(p) \/ Chmod(p) \/ Resize(p)
                     \/ \E q \in Path : Rename(p, q)

Spec == Init /\ [][Next]_vars

==============================================================================
