------------------------------- MODULE FileSys -------------------------------
(***************************************************************************)
(* compat/fs.h on the five platforms it is built for, under the commands   *)
(* that use it: posix, PSP and Vita go through stdio, CellOS and PSL1GHT   *)
(* through system calls.  The paths are the entries of one directory.      *)
(* Session follows one client on posix through every command; here are the *)
(* differences, and what they mean for several clients.                    *)
(***************************************************************************)
EXTENDS Integers, Sequences, FiniteSets

CONSTANTS Client, Path, Block, Hole, MaxRest,
          MaxLong,       \* the last offset a long of C holds
          MaxSize,       \* bound on the blocks of a file
          NewSize,       \* the sizes a file is given
          Content,       \* what a file holds at the start
          Platform,      \* the platforms of this instance
          ZeroRdonly,    \* the platforms whose O_RDONLY is 0
          WideSeek,      \* those of stdio built with fseeko
          Trouble        \* the pairs of a platform and what may go wrong there:
                         \*   "disk full"    a block cannot be written
                         \*   "read fails"   read, readdir or the stat of an entry
                         \*   "read only"    a file that may not be written
                         \*   "rest append"  REST, then APPE to a new name
                         \*   "stat fails"   in STOR, for a file that is there
                         \*   "far rest"     REST with more than a long holds
                         \*   "shared"       two clients use one file
                         \*   "sized"        the size of an open file is asked or set
                         \*   "buffer fails" cellFsSetIoBuffer is refused

ASSUME FileSysAssumption ==
  /\ Platform \subseteq {"posix", "psp", "vita", "cellos", "psl1ght"}
  /\ Content \in Seq(Block) /\ Hole \notin Block
  /\ {MaxRest, MaxSize, MaxLong} \cup NewSize \subseteq Nat
  /\ IsFiniteSet(Client)

VARIABLES platform,    \* where the server runs
          nodes,       \* what there is: [kind, data, free], free if it may be written
          handle,      \* client->handle
          objects,     \* for each kind of system object, how many are open
          containers,  \* the memory containers there are
          heard        \* for FileStore

vars == <<platform, nodes, handle, objects, containers, heard>>

Can(trouble) == <<platform, trouble>> \in Trouble

\* pos is where the next block goes or comes from, pending what was written and
\* is in no file yet, data whether a container is remembered.
Closed == [op |-> "none", dir |-> FALSE, on |-> {}, pos |-> 0, app |-> FALSE,
           pending |-> <<>>, data |-> FALSE]

Open(c)   == handle[c] # Closed
Using(p)  == {c \in Client : Open(c) /\ ~handle[c].dir /\ p \in handle[c].on}

Says(code)  == heard' = [code |-> code, what |-> {}]
Gives(what) == heard' = [code |-> "data", what |-> {what}]
Refuses(op) == heard' = [code |-> "550", what |-> {op}]

Holds(c, h) == handle' = [handle EXCEPT ![c] = h]

Takes(kind)   == objects' = [objects EXCEPT ![kind] = @ + 1]
Returns(kind) == objects' = [objects EXCEPT ![kind] = @ - 1]

\* The build takes one compat/fs/$(TYPE).c: what its call does, and what it returns.
Does(posix, psp, vita, cellos, psl1ght) ==
  \/ platform = "posix"   /\ posix
  \/ platform = "psp"     /\ psp
  \/ platform = "vita"    /\ vita
  \/ platform = "cellos"  /\ cellos
  \/ platform = "psl1ght" /\ psl1ght

Result(posix, psp, vita, cellos, psl1ght) ==
  CASE platform = "posix"  -> posix   [] platform = "psp"     -> psp
    [] platform = "vita"   -> vita    [] platform = "cellos"  -> cellos
    [] platform = "psl1ght" -> psl1ght

Stdio == platform \in {"posix", "psp", "vita"}

------------------------------------------------------------------------------
(* ssftpFsOpen *)

\* The mode fopen is given.
Mode(flags) ==
  CASE "creat" \in flags                                  -> "wb"
    [] flags \cap {"creat", "append"} = {"append"}        -> "ab+"
    [] flags \cap {"creat", "append"} = {} /\ "rdonly" \in flags /\ platform \notin ZeroRdonly -> "r"
    [] flags \cap {"creat", "append"} = {} /\ "trunc" \in flags -> "wb+"
    [] OTHER                                              -> "rb+"

Creates(flags) == IF Stdio THEN Mode(flags) \in {"wb", "wb+", "ab+"} ELSE "creat" \in flags
Empties(flags) == IF Stdio THEN Mode(flags) \in {"wb", "wb+"} ELSE "trunc" \in flags
Appends(flags) == IF Stdio THEN Mode(flags) = "ab+" ELSE "append" \in flags
Writes(flags)  == IF Stdio THEN Mode(flags) # "r" ELSE "wronly" \in flags

Opens(p, flags) ==
  /\ nodes[p].kind = "file" \/ (nodes[p].kind = "none" /\ Creates(flags))
  /\ Writes(flags) => nodes[p].free

\* The mode given is 0777 each time.
Opened(p, flags) ==
  [kind |-> "file", data |-> IF Empties(flags) THEN <<>> ELSE nodes[p].data, free |-> TRUE]

stdio_open(c, h) == Takes("FILE") /\ Holds(c, h) /\ UNCHANGED containers

\* A container for buffers comes with each file: none, or one that is remembered
\* when the file is closed, or one that is not.
syscall_open(c, h) ==
  /\ Takes("fd")
  /\ \E k \in {"none", "kept"} \cup (IF Can("buffer fails") THEN {"forgotten"} ELSE {}) :
       /\ containers' = containers + (IF k = "none" THEN 0 ELSE 1)
       /\ Holds(c, [h EXCEPT !.data = (k = "kept")])

posix_open(c, h)   == stdio_open(c, h)
psp_open(c, h)     == stdio_open(c, h)
vita_open(c, h)    == stdio_open(c, h)
cellos_open(c, h)  == syscall_open(c, h)
psl1ght_open(c, h) == syscall_open(c, h)

ssftpFsOpen(c, p, flags, h) ==
  /\ nodes' = [nodes EXCEPT ![p] = Opened(p, flags)]
  /\ Does(posix_open(c, h), psp_open(c, h), vita_open(c, h), cellos_open(c, h), psl1ght_open(c, h))

(* ssftpFsLseek, whose result nobody looks at *)

Long(n) == LET m == n % (2 * (MaxLong + 1)) IN IF m > MaxLong THEN m - 2 * (MaxLong + 1) ELSE m

\* A file that fseek refuses to move in stays where it was opened; fseeko takes an off_t.
fseek(n) == IF platform \in WideSeek THEN n ELSE IF Long(n) < 0 THEN 0 ELSE Long(n)

posix_seek(n)   == fseek(n)
psp_seek(n)     == fseek(n)
vita_seek(n)    == fseek(n)
cellos_seek(n)  == n
psl1ght_seek(n) == n

Sought(n) == Result(posix_seek(n), psp_seek(n), vita_seek(n), cellos_seek(n), psl1ght_seek(n))

(* ssftpFsOpendir, ssftpFsClosedir *)

Opendir(kind, ok) == IF ok THEN Takes(kind) ELSE UNCHANGED objects

posix_opendir(ok)   == Opendir("DIR", ok)
psp_opendir(ok)     == Opendir("DIR", ok)
vita_opendir(ok)    == Opendir("SceUID", ok)
cellos_opendir(ok)  == Opendir("dirfd", ok)
psl1ght_opendir(ok) == Opendir("dirfd", ok)

ssftpFsOpendir(ok) ==
  Does(posix_opendir(ok), psp_opendir(ok), vita_opendir(ok), cellos_opendir(ok), psl1ght_opendir(ok))

posix_closedir   == Returns("DIR")
psp_closedir     == Returns("DIR")
vita_closedir    == Returns("SceUID")
cellos_closedir  == Returns("dirfd")
psl1ght_closedir == Returns("dirfd")

ssftpFsClosedir ==
  /\ Does(posix_closedir, psp_closedir, vita_closedir, cellos_closedir, psl1ght_closedir)
  /\ UNCHANGED <<nodes, containers>>

(* ssftpFsClose *)

\* Writing behind the end leaves a hole.
Put(s, pos, blocks) ==
  LET end == pos + Len(blocks)
  IN  IF blocks = <<>> THEN s
      ELSE [k \in 1..(IF end < Len(s) THEN Len(s) ELSE end) |->
              CASE k \in pos + 1..end                 -> blocks[k - pos]
                [] k \notin pos + 1..end /\ k <= Len(s) -> s[k]
                [] OTHER                              -> Hole]

\* The file with what h has pending written to it.
Flushed(h, data) ==
  IF h.app THEN data \o h.pending ELSE Put(data, h.pos - Len(h.pending), h.pending)

Flush(h) ==
  nodes' = [p \in Path |-> IF p \in h.on THEN [nodes[p] EXCEPT !.data = Flushed(h, @)] ELSE nodes[p]]

\* fclose fails when the last blocks cannot be written.
stdio_close(h) ==
  /\ Flush(h) \/ (Can("disk full") /\ h.pending # <<>> /\ UNCHANGED nodes)
  /\ Returns("FILE") /\ UNCHANGED containers

syscall_close(h) ==
  /\ Flush(h)
  /\ Returns("fd") /\ containers' = containers - (IF h.data THEN 1 ELSE 0)

posix_close(h)   == stdio_close(h)
psp_close(h)     == stdio_close(h)
vita_close(h)    == stdio_close(h)
cellos_close(h)  == syscall_close(h)
psl1ght_close(h) == syscall_close(h)

ssftpFsClose(h) ==
  Does(posix_close(h), psp_close(h), vita_close(h), cellos_close(h), psl1ght_close(h))

(* ssftpFsRead, ssftpFsReaddir *)

\* One of what comes next, or nothing: at the end, and when it fails.
Got(next) == {{n} : n \in next} \cup (IF next = {} \/ Can("read fails") THEN {{}} ELSE {})

posix_read(next)   == Got(next)    \* fread
psp_read(next)     == Got(next)
vita_read(next)    == Got(next)
cellos_read(next)  == Got(next)    \* nothing for an error
psl1ght_read(next) == Got(next)

ssftpFsRead(next) ==
  Result(posix_read(next), psp_read(next), vita_read(next), cellos_read(next), psl1ght_read(next))

posix_readdir(next)   == Got(next)    \* NULL at the end, and for an error
psp_readdir(next)     == Got(next)
vita_readdir(next)    == Got(next)    \* nothing unless sceIoDread is positive
cellos_readdir(next)  == Got(next)    \* nothing for an error
psl1ght_readdir(next) == Got(next)

ssftpFsReaddir(next) ==
  Result(posix_readdir(next), psp_readdir(next), vita_readdir(next),
         cellos_readdir(next), psl1ght_readdir(next))

(* ssftpFsWrite *)

With(h, b) == [h EXCEPT !.pending = Append(@, b), !.pos = @ + 1]

syscall_write(c, p, full) ==
  nodes' = [nodes EXCEPT ![p].data = Flushed(full, @)] /\ Holds(c, [full EXCEPT !.pending = <<>>])

\* stdio keeps blocks until it has enough of them or the file is closed.
stdio_write(c, p, full) == (Holds(c, full) /\ UNCHANGED nodes) \/ syscall_write(c, p, full)

posix_write(c, p, full)   == stdio_write(c, p, full)
psp_write(c, p, full)     == stdio_write(c, p, full)
vita_write(c, p, full)    == stdio_write(c, p, full)
cellos_write(c, p, full)  == syscall_write(c, p, full)
psl1ght_write(c, p, full) == syscall_write(c, p, full)

ssftpFsWrite(c, p, b) ==
  LET full == With(handle[c], b)
  IN  Does(posix_write(c, p, full), psp_write(c, p, full), vita_write(c, p, full),
           cellos_write(c, p, full), psl1ght_write(c, p, full))

(* calls that return what the system says, or -1 for an error of it *)

Says0(b)  == IF b THEN 0 ELSE IF Stdio THEN -1 ELSE 6
CellOk(r) == IF r = 0 THEN 0 ELSE -1

posix_stat(r)   == r          \* ssftpFsStat, ssftpFsFstat
psp_stat(r)     == r
vita_stat(r)    == r
cellos_stat(r)  == CellOk(r)
psl1ght_stat(r) == CellOk(r)

Found(b) ==
  LET r == Says0(b)
  IN  Result(posix_stat(r), psp_stat(r), vita_stat(r), cellos_stat(r), psl1ght_stat(r)) = 0

posix_names(r)   == r         \* ssftpFsMkdir to ssftpFsChmod
psp_names(r)     == r
vita_names(r)    == r
cellos_names(r)  == CellOk(r)
psl1ght_names(r) == CellOk(r)

psp_sizes        == -1        \* ssftpFsTruncate, ssftpFsFtruncate: the call is left out

Success(b) ==
  LET r == Says0(b)
  IN  Result(posix_names(r), psp_names(r), vita_names(r), cellos_names(r), psl1ght_names(r)) = 0

Resized(b) ==
  LET r == Says0(b)
  IN  Result(posix_names(r), psp_sizes, vita_names(r), cellos_names(r), psl1ght_names(r)) = 0

------------------------------------------------------------------------------
(* RETR, STOR, APPE, LIST *)

Begins(c, p, flags, op, rest) ==
  IF Opens(p, flags)
  THEN /\ ssftpFsOpen(c, p, flags, [Closed EXCEPT !.op = op, !.on = {p}, !.pos = Sought(rest),
                                                  !.app = Appends(flags)])
       /\ Says("150")
  ELSE Refuses(op) /\ UNCHANGED <<nodes, handle, objects, containers>>

ssftpCmdRetr(c, p, rest) == Begins(c, p, {"rdonly"}, "retr", rest)

Seen(p) == {Found(b) : b \in {nodes[p].kind # "none"} \cup (IF Can("stat fails") THEN {FALSE} ELSE {})}

\* Mutant: REST is of no account.
Oflags_trunc(verb, rest, seen) ==
  {"wronly"} \cup (IF seen THEN {} ELSE {"creat"}) \cup (IF verb = "appe" THEN {"append"} ELSE {"trunc"})

Oflags(verb, rest, seen) ==
  {"wronly"} \cup (IF seen THEN {} ELSE {"creat"})
             \cup (IF verb = "appe" THEN {"append"} ELSE IF rest = 0 THEN {"trunc"} ELSE {})

ssftpCmdStor(c, p, verb, rest) ==
  /\ verb = "appe" /\ rest > 0 /\ nodes[p].kind = "none" => Can("rest append")
  /\ \E seen \in Seen(p) : Begins(c, p, Oflags(verb, rest, seen), verb, rest)

\* A directory may be refused.
ssftpCmdList(c) ==
  /\ \/ /\ ssftpFsOpendir(TRUE) /\ Says("150")
        /\ Holds(c, [Closed EXCEPT !.op = "list", !.dir = TRUE,
                                   !.on = {p \in Path : nodes[p].kind # "none"}])
     \/ ssftpFsOpendir(FALSE) /\ Refuses("list") /\ UNCHANGED handle
  /\ UNCHANGED <<nodes, containers>>

Begin(c) ==
  /\ ~Open(c)
  /\ \/ ssftpCmdList(c)
     \/ \E p \in Path, rest \in 0..MaxRest :
          /\ (Using(p) = {} \/ Can("shared")) /\ (rest > MaxLong => Can("far rest"))
          /\ ssftpCmdRetr(c, p, rest) \/ \E verb \in {"stor", "appe"} : ssftpCmdStor(c, p, verb, rest)
  /\ UNCHANGED platform

\* Mutant: a directory is closed as a file, which does nothing.
ftpclient_data_end_as_file(c, h) ==
  /\ IF h.dir THEN UNCHANGED <<nodes, objects, containers>> ELSE ssftpFsClose(h)
  /\ Holds(c, Closed)

\* h is the handle as the last call left it.  What ssftpFsClose returns is not looked at.
ftpclient_data_end(c, h) ==
  /\ IF h.dir THEN ssftpFsClosedir ELSE ssftpFsClose(h)
  /\ Holds(c, Closed)

Ends(c, h, code) == ftpclient_data_end(c, h) /\ Says(code)

------------------------------------------------------------------------------
(* data events *)

ssftpDataRetr(c) ==
  /\ handle[c].op = "retr"
  /\ \E p \in handle[c].on :
       LET next == IF handle[c].pos < Len(nodes[p].data) THEN {nodes[p].data[handle[c].pos + 1]} ELSE {}
       IN  \E got \in ssftpFsRead(next) :
             \/ got = {} /\ Ends(c, handle[c], "226")
             \/ \E b \in got : /\ Gives(b) /\ Holds(c, [handle[c] EXCEPT !.pos = @ + 1])
                               /\ UNCHANGED <<nodes, objects, containers>>
  /\ UNCHANGED platform

\* What is not written, or in part, ends the transfer.
ssftpDataStor(c) ==
  /\ handle[c].op \in {"stor", "appe"}
  /\ \E p \in handle[c].on :
       \/ Ends(c, handle[c], "226")
       \/ Can("disk full") /\ Ends(c, handle[c], "452")
       \/ \E b \in Block :
            /\ Len(Flushed(handle[c], nodes[p].data)) < MaxSize /\ handle[c].pos < MaxSize
            /\ \/ ssftpFsWrite(c, p, b) /\ Gives(b) /\ UNCHANGED <<objects, containers>>
               \/ Can("disk full") /\ Ends(c, With(handle[c], b), "452")
  /\ UNCHANGED platform

\* What a name is; who may do what with it is left out.
string_getmode(kind) == CASE kind = "dir" -> "d" [] kind = "file" -> "-" [] OTHER -> "?"

\* An entry that is gone is passed over.
ssftpDataList(c) ==
  /\ handle[c].op = "list"
  /\ LET there  == {p \in handle[c].on : nodes[p].kind # "none"}
         passed == handle[c].on \ (IF Can("read fails") THEN {} ELSE there)
     IN  \E got \in ssftpFsReaddir(there) :
           \/ got = {} /\ Ends(c, handle[c], "226")
           \/ \E p \in got, gone \in SUBSET passed :
                /\ Gives([name |-> p, mode |-> string_getmode(nodes[p].kind)])
                /\ Holds(c, [handle[c] EXCEPT !.on = @ \ ({p} \cup gone)])
                /\ UNCHANGED <<nodes, objects, containers>>
  /\ UNCHANGED platform

\* ABOR, a data connection that fails or hangs up, or the client goes; the replies,
\* 226 with words of its own, 451 and none, are not told apart.
Abort(c) == Open(c) /\ Ends(c, handle[c], "gone") /\ UNCHANGED platform

------------------------------------------------------------------------------
(* names; a file is open nowhere when it loses its own *)

Missing == [kind |-> "none", data |-> <<>>, free |-> TRUE]
Folder  == [kind |-> "dir", data |-> <<>>, free |-> TRUE]

\* 250 is any success: MKD says 257, CHMOD 200.
Changes(done, changed) ==
  /\ IF Success(done) THEN nodes' = changed /\ Says("250") ELSE Refuses("name") /\ UNCHANGED nodes
  /\ UNCHANGED <<platform, handle, objects, containers>>

Named(p, from, to) ==
  Using(p) = {} /\ Changes(nodes[p].kind = from, [nodes EXCEPT ![p] = to])

ssftpCmdDele(p) == Named(p, "file", Missing)
ssftpCmdRmd(p)  == Named(p, "dir", Missing)
ssftpCmdMkd(p)  == Named(p, "none", Folder)

\* Whether a name that is taken is given up for the new one is the system's choice.
ssftpCmdRnto(p, q) ==
  /\ Using(p) \cup Using(q) = {}
  /\ \E done \in {nodes[p].kind # "none"} \cup (IF nodes[q].kind # "none" THEN {FALSE} ELSE {}) :
       Changes(done, IF p = q THEN nodes ELSE [nodes EXCEPT ![q] = nodes[p], ![p] = Missing])

\* A file may be protected.
ssftpCmdChmod(p) ==
  \E free \in {TRUE} \cup (IF Can("read only") /\ nodes[p].kind = "file" THEN {FALSE} ELSE {}) :
    Changes(nodes[p].kind # "none", [nodes EXCEPT ![p].free = free])

------------------------------------------------------------------------------
(* compat/fs.h has calls no command of the repository makes; an application's may *)

Sized(s, n) == [k \in 1..n |-> IF k <= Len(s) THEN s[k] ELSE Hole]

Resizes(p, done) ==
  /\ IF Resized(done)
     THEN \E n \in NewSize : nodes' = [nodes EXCEPT ![p].data = Sized(@, n)] /\ Says("250")
     ELSE Refuses("size") /\ UNCHANGED nodes
  /\ UNCHANGED <<platform, handle, objects, containers>>

ssftpFsTruncate(p) ==
  /\ Using(p) = {} \/ Can("sized")
  /\ Resizes(p, nodes[p].kind = "file" /\ nodes[p].free)

ssftpFsFtruncate(c) ==
  /\ handle[c].op \in {"stor", "appe"} /\ Can("sized")
  /\ \E p \in handle[c].on : Resizes(p, TRUE)

ssftpFsFstat(c) ==
  /\ handle[c].op \in {"retr", "stor", "appe"} /\ Can("sized")
  /\ Found(TRUE) /\ \E p \in handle[c].on : Gives([size |-> Len(nodes[p].data)])
  /\ UNCHANGED <<platform, nodes, handle, objects, containers>>

------------------------------------------------------------------------------
Init ==
  /\ platform \in Platform
  /\ nodes \in [Path -> {Missing, Folder} \cup
                        {[kind |-> "file", data |-> Content, free |-> f] :
                           f \in {TRUE} \cup (IF Can("read only") THEN {FALSE} ELSE {})}]
  /\ handle = [c \in Client |-> Closed]
  /\ objects = [k \in {"FILE", "fd", "DIR", "SceUID", "dirfd"} |-> 0] /\ containers = 0
  /\ heard = [code |-> "none", what |-> {}]

Next ==
  \/ \E c \in Client : \/ Begin(c) \/ ssftpDataRetr(c) \/ ssftpDataStor(c) \/ ssftpDataList(c) \/ Abort(c)
                       \/ ssftpFsFtruncate(c) \/ ssftpFsFstat(c)
  \/ \E p \in Path : \/ ssftpCmdDele(p) \/ ssftpCmdRmd(p) \/ ssftpCmdMkd(p) \/ ssftpCmdChmod(p)
                     \/ ssftpFsTruncate(p)
                     \/ \E q \in Path : ssftpCmdRnto(p, q)

Spec == Init /\ [][Next]_vars

------------------------------------------------------------------------------
(* Properties *)

\* What was written counts as in the file, wherever it is kept.
Written(p) ==
  LET late == {c \in Using(p) : handle[c].pending # <<>>}
  IN  [kind |-> nodes[p].kind,
       data |-> IF late = {} THEN nodes[p].data
                ELSE Flushed(handle[CHOOSE c \in late : TRUE], nodes[p].data)]

Doing(op) == CASE op = "none" -> "nothing" [] op = "retr" -> "reading" [] op = "stor" -> "writing"
               [] op = "appe" -> "appending" [] op = "list" -> "listing"

Store == INSTANCE FileStore WITH
  files <- [p \in Path |-> Written(p)],
  use   <- [c \in Client |-> [doing |-> Doing(handle[c].op), on |-> handle[c].on,
                              pos |-> IF handle[c].op = "appe" THEN 0 ELSE handle[c].pos]]

\* On every platform, as long as the trouble it cannot cope with stays away, each
\* transfer finds, leaves and reports what FileStore says: nothing that was sent
\* is lost between fwrite and fclose, no flag truncates what REST or APPE keeps.
ImplementsFileStore == Store!Spec

\* What the platforms can bear: system calls anything but a read that fails, which is
\* taken for the end; stdio a protected file where O_RDONLY is a bit of its own, and
\* any offset where it is built with fseeko.
Bearable ==
  \A t \in Trouble : \/ t[1] \in {"cellos", "psl1ght"} /\ t[2] # "read fails"
                     \/ t[2] = "read only" /\ t[1] \notin ZeroRdonly
                     \/ t[2] = "far rest" /\ t[1] \in WideSeek \ {"cellos", "psl1ght"}

\* No platform refuses a buffer.
BuffersGranted == \A pl \in Platform : <<pl, "buffer fails">> \notin Trouble

\* The kinds of object a platform's files and directories are.
Files == IF Stdio THEN "FILE" ELSE "fd"
Dirs  == IF ~Stdio THEN "dirfd" ELSE IF platform = "vita" THEN "SceUID" ELSE "DIR"

\* Each way a transfer ends gives back what its beginning took, in the kind it
\* was taken: streams, directories, descriptors and containers.
NothingLeft ==
  /\ \A k \in DOMAIN objects :
       objects[k] = Cardinality({c \in Client : Open(c) /\ k = IF handle[c].dir THEN Dirs ELSE Files})
  /\ containers = Cardinality({c \in Client : handle[c].data})

==============================================================================
