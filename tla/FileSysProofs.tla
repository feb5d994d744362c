---------------------------- MODULE FileSysProofs ----------------------------
(***************************************************************************)
(* Theorems about FileSys, for any clients, names and blocks: what a       *)
(* transfer takes is given back, and the five implementations of           *)
(* compat/fs.h are the FileStore the commands expect, as long as they are  *)
(* spared the trouble they cannot bear.                                    *)
(***************************************************************************)
EXTENDS FileSys, FiniteSetTheorems, SequenceTheorems, TLAPS

------------------------------------------------------------------------------
(* The inductive invariant *)

Kinds     == {"FILE", "fd", "DIR", "SceUID", "dirfd"}
Transfers == {"retr", "stor", "appe"}

Node   == [kind : {"none", "dir", "file"}, data : Seq(Block \cup {Hole}), free : BOOLEAN]
Handle == [op : {"none", "list"} \cup Transfers, dir : BOOLEAN, on : SUBSET Path, pos : Nat,
           app : BOOLEAN, pending : Seq(Block), data : BOOLEAN]

\* What is open, and as what, is told by the operation under way.
HandleOK(h) ==
  /\ h.dir <=> h.op = "list"
  /\ h.op = "none" => h = Closed
  /\ h.op = "list" => ~h.data
  /\ h.op \in Transfers => \E p \in Path : h.on = {p}

TypeOK ==
  /\ platform \in Platform
  /\ nodes \in [Path -> Node]
  /\ handle \in [Client -> Handle]
  /\ objects \in [Kinds -> Int] /\ containers \in Int
  /\ \A c \in Client : HandleOK(handle[c])

\* The clients that have something of a kind open.
Opener(k) == {c \in Client : Open(c) /\ k = IF handle[c].dir THEN Dirs ELSE Files}
Buffered  == {c \in Client : handle[c].data}

ObjectsCounted    == \A k \in Kinds : objects[k] = Cardinality(Opener(k))
ContainersCounted == containers = Cardinality(Buffered)

\* What is not a file has no content, and a file that is open is there.
NodesOK ==
  \A p \in Path : /\ nodes[p].kind # "file" => nodes[p].data = <<>>
                  /\ Using(p) # {} => nodes[p].kind = "file"

\* Only what is written can be pending, and it was written from some place on.
PendingOK ==
  \A c \in Client : /\ handle[c].pending # <<>> => handle[c].op \in {"stor", "appe"}
                    /\ Len(handle[c].pending) <= handle[c].pos
                    /\ handle[c].app => handle[c].op = "appe"

\* Through system calls every block is in the file at once, and O_APPEND holds for
\* what APPE opens.
SystemCalls ==
  ~Stdio => \A c \in Client : /\ handle[c].pending = <<>>
                              /\ handle[c].op = "appe" => handle[c].app

\* Through stdio a file has one user.  APPE to a new name opens it as STOR does, and
\* then the next block still goes to the end.
Streams ==
  Stdio => /\ \A p \in Path : \A c, d \in Using(p) : c = d
           /\ \A c \in Client, p \in Path :
                /\ handle[c].op = "appe" /\ ~handle[c].app /\ p \in handle[c].on
                => handle[c].pos - Len(handle[c].pending) = Len(nodes[p].data)
           /\ ~Can("read only") => \A p \in Path : nodes[p].free

FileInv == TypeOK /\ NodesOK /\ PendingOK /\ SystemCalls /\ Streams

------------------------------------------------------------------------------
(* Blocks *)

Data == Seq(Block \cup {Hole})

\* Blocks written at a place leave a file.
LEMMA PutIsData ==
  ASSUME NEW s \in Data, NEW bs \in Seq(Block), NEW at \in Int
  PROVE  Put(s, at, bs) \in Data
<1>1. CASE bs = <<>>
  BY <1>1 DEF Put, Data
<1>2. CASE bs # <<>>
  <2> DEFINE end == at + Len(bs)
             n == IF end < Len(s) THEN Len(s) ELSE end
             f == [k \in 1..n |-> CASE k \in at + 1..end                -> bs[k - at]
                                    [] k \notin at + 1..end /\ k <= Len(s) -> s[k]
                                    [] OTHER                             -> Hole]
  <2>1. n \in Nat
    BY DEF Data
  <2>2. ASSUME NEW k \in 1..n
        PROVE  f[k] \in Block \cup {Hole}
    <3>1. CASE k \in at + 1..end
      <4>1. k - at \in 1..Len(bs)
        BY <3>1
      <4>2. bs[k - at] \in Block
        BY <4>1
      <4> QED BY <3>1, <4>2
    <3>2. CASE k \notin at + 1..end /\ k <= Len(s)
      <4>1. s[k] \in Block \cup {Hole}
        BY <3>2 DEF Data
      <4> QED BY <3>2, <4>1
    <3>3. CASE k \notin at + 1..end /\ ~(k <= Len(s))
      BY <3>3
    <3> QED BY <3>1, <3>2, <3>3
  <2>3. f \in [1..n -> Block \cup {Hole}]
    BY <2>2
  <2>4. Put(s, at, bs) = f
    BY <1>2 DEF Put
  <2> HIDE DEF f, n
  <2>5. f \in Data
    BY <2>1, <2>3 DEF Data
  <2> QED BY <2>4, <2>5
<1> QED BY <1>1, <1>2

\* A file that is given a size is a file.
LEMMA SizedIsData ==
  ASSUME NEW s \in Data, NEW n \in NewSize
  PROVE  Sized(s, n) \in Data /\ Sized(s, n) = Store!Sized(s, n)
<1>1. n \in Nat
  BY FileSysAssumption
<1>2. \A k \in 1..n : (IF k <= Len(s) THEN s[k] ELSE Hole) \in Block \cup {Hole}
  BY <1>1 DEF Data
<1>3. Sized(s, n) \in [1..n -> Block \cup {Hole}]
  BY <1>2 DEF Sized
<1>4. Sized(s, n) \in Data
  BY <1>1, <1>3 DEF Data
<1> QED BY <1>4 DEF Sized, Store!Sized

\* One more block behind those already written is one more block written there.
LEMMA PutOneMore ==
  ASSUME NEW s \in Data, NEW bs \in Seq(Block), NEW at \in Nat, NEW b \in Block
  PROVE  Put(s, at, Append(bs, b)) = Store!WriteAt(Put(s, at, bs), at + Len(bs), b)
<1> DEFINE more == Append(bs, b)
           t == Put(s, at, bs)
           end == at + Len(bs)
<1>1. /\ more # <<>> /\ Len(more) = Len(bs) + 1 /\ more \in Seq(Block)
      /\ more[Len(bs) + 1] = b /\ \A k \in 1..Len(bs) : more[k] = bs[k]
  OBVIOUS
<1>2. Len(s) \in Nat /\ Len(bs) \in Nat /\ s = [k \in 1..Len(s) |-> s[k]]
  BY DEF Data
<1>3. /\ bs = <<>> => t = s
      /\ bs # <<>> => t = [k \in 1..(IF end < Len(s) THEN Len(s) ELSE end) |->
                             CASE k \in at + 1..end                 -> bs[k - at]
                               [] k \notin at + 1..end /\ k <= Len(s) -> s[k]
                               [] OTHER                             -> Hole]
  BY DEF Put
<1>4. Len(t) = IF bs = <<>> \/ end < Len(s) THEN Len(s) ELSE end
  <2>1. CASE bs = <<>>
    BY <2>1, <1>3
  <2>2. CASE bs # <<>>
    <3> DEFINE n == IF end < Len(s) THEN Len(s) ELSE end
    <3>1. n \in Nat
      BY <1>2
    <3>2. t \in Data
      BY PutIsData
    <3>3. DOMAIN t = 1..n
      BY <1>3, <2>2
    <3> HIDE DEF t, end
    <3>4. Len(t) = n
      BY <3>1, <3>2, <3>3 DEF Data
    <3> QED BY <3>4, <2>2 DEF n
  <2> QED BY <2>1, <2>2
<1>5. ASSUME NEW k \in 1..Len(t)
      PROVE  t[k] = CASE k \in at + 1..end                 -> bs[k - at]
                      [] k \notin at + 1..end /\ k <= Len(s) -> s[k]
                      [] OTHER                             -> Hole
  <2>1. CASE bs = <<>>
    <3>1. end = at /\ k <= Len(s) /\ t = s
      BY <2>1, <1>3, <1>4
    <3> QED BY <3>1
  <2>2. CASE bs # <<>>
    BY <2>2, <1>3, <1>4
  <2> QED BY <2>1, <2>2
<1> DEFINE m == IF end + 1 < Len(s) THEN Len(s) ELSE end + 1
           left == [k \in 1..m |->
                      CASE k \in at + 1..end + 1                 -> more[k - at]
                        [] k \notin at + 1..end + 1 /\ k <= Len(s) -> s[k]
                        [] OTHER                                 -> Hole]
           right == [k \in 1..(IF end < Len(t) THEN Len(t) ELSE end + 1) |->
                       IF k = end + 1 THEN b ELSE IF k <= Len(t) THEN t[k] ELSE Hole]
<1>6. Put(s, at, more) = left
  <2>1. at + Len(more) = end + 1
    BY <1>1, <1>2
  <2> HIDE DEF more, end
  <2> QED BY <1>1, <2>1 DEF Put
<1>7. m = IF end < Len(t) THEN Len(t) ELSE end + 1
  BY <1>2, <1>4
<1>8. ASSUME NEW k \in 1..m
      PROVE  left[k] = right[k]
  <2>1. left[k] = CASE k \in at + 1..end + 1                 -> more[k - at]
                    [] k \notin at + 1..end + 1 /\ k <= Len(s) -> s[k]
                    [] OTHER                                 -> Hole
    OBVIOUS
  <2>2. right[k] = IF k = end + 1 THEN b ELSE IF k <= Len(t) THEN t[k] ELSE Hole
    BY <1>7
  <2> HIDE DEF left, right, t, more
  <2>3. CASE k = end + 1
    BY <2>1, <2>2, <2>3, <1>1, <1>2
  <2>4. CASE k # end + 1 /\ k <= Len(t)
    <3>1. right[k] = CASE k \in at + 1..end                 -> bs[k - at]
                      [] k \notin at + 1..end /\ k <= Len(s) -> s[k]
                      [] OTHER                             -> Hole
      BY <2>2, <2>4, <1>5
    <3>2. CASE k \in at + 1..end
      <4>1. k - at \in 1..Len(bs)
        BY <3>2, <1>2
      <4> QED BY <2>1, <3>1, <3>2, <4>1, <1>1
    <3>3. CASE k \notin at + 1..end
      <4>1. k \notin at + 1..end + 1
        BY <3>3, <2>4, <1>2
      <4> QED BY <2>1, <3>1, <3>3, <4>1
    <3> QED BY <3>2, <3>3
  <2>5. CASE k # end + 1 /\ ~(k <= Len(t))
    BY <2>1, <2>2, <2>5, <1>2, <1>4, <1>7
  <2> QED BY <2>3, <2>4, <2>5
<1>9. left = right
  BY <1>7, <1>8
<1>10. Store!WriteAt(t, end, b) = right
  BY DEF Store!WriteAt
<1> HIDE DEF left, right
<1> QED BY <1>6, <1>9, <1>10

\* At the end of a file this is one more block of it.
LEMMA WriteAtEnd ==
  ASSUME NEW s \in Data, NEW bs \in Seq(Block)
  PROVE  Put(s, Len(s), bs) = s \o bs
<1>1. CASE bs = <<>>
  BY <1>1 DEF Put, Data
<1>2. CASE bs # <<>>
  <2>1. Len(s) \in Nat /\ Len(bs) \in Nat \ {0}
    BY <1>2 DEF Data
  <2>2. Put(s, Len(s), bs)
          = [k \in 1..Len(s) + Len(bs) |->
               CASE k \in Len(s) + 1..Len(s) + Len(bs)                 -> bs[k - Len(s)]
                 [] k \notin Len(s) + 1..Len(s) + Len(bs) /\ k <= Len(s) -> s[k]
                 [] OTHER                                              -> Hole]
    BY <1>2, <2>1 DEF Put
  <2> DEFINE f == [k \in 1..Len(s) + Len(bs) |-> IF k <= Len(s) THEN s[k] ELSE bs[k - Len(s)]]
  <2>3. Put(s, Len(s), bs) = f
    BY <2>1, <2>2
  <2>4. /\ s \o bs \in Data /\ Len(s \o bs) = Len(s) + Len(bs)
        /\ \A k \in 1..Len(s) + Len(bs) : (s \o bs)[k] = f[k]
    <3>1. s \in Seq(Block \cup {Hole}) /\ bs \in Seq(Block \cup {Hole})
      BY SeqMonotonic DEF Data
    <3> QED BY <3>1, ConcatProperties DEF Data
  <2>5. \A u \in Data : u = [k \in 1..Len(u) |-> u[k]]
    BY DEF Data
  <2>6. s \o bs = [k \in 1..Len(s \o bs) |-> (s \o bs)[k]]
    BY <2>4, <2>5
  <2> QED BY <2>3, <2>4, <2>6
<1> QED BY <1>1, <1>2

------------------------------------------------------------------------------
(* What the platforms are made of *)

\* The server runs on one of the five.
LEMMA PlatformIs ==
  ASSUME platform \in Platform
  PROVE  platform \in {"posix", "psp", "vita", "cellos", "psl1ght"}
BY FileSysAssumption

\* A rest that a long holds, or any with fseeko, is where a seek goes.
LEMMA SoughtRest ==
  ASSUME NEW n \in Nat, platform \in Platform
  PROVE  /\ Sought(n) \in Nat
         /\ n <= MaxLong \/ ~Stdio \/ platform \in WideSeek => Sought(n) = n
<1>1. MaxLong \in Nat
  BY FileSysAssumption
<1> DEFINE w == 2 * (MaxLong + 1)
           m == n % w
<1>2. w \in Nat \ {0} /\ MaxLong < w
  BY <1>1
<1>3. m \in 0..w - 1 /\ (n < w => m = n)
  <2> HIDE DEF w
  <2> QED BY <1>2
<1>4. fseek(n) \in Nat /\ (n <= MaxLong \/ platform \in WideSeek => fseek(n) = n)
  <2>1. Long(n) = IF m > MaxLong THEN m - w ELSE m
    BY DEF Long
  <2> HIDE DEF m, w
  <2>2. Long(n) \in Int /\ (n <= MaxLong => Long(n) = n)
    BY <1>1, <1>2, <1>3, <2>1
  <2> QED BY <1>1, <2>2 DEF fseek
<1>5. Sought(n) = IF Stdio THEN fseek(n) ELSE n
  BY PlatformIs DEF Sought, Result, posix_seek, psp_seek, vita_seek, cellos_seek, psl1ght_seek, Stdio
<1> QED BY <1>4, <1>5

LEMMA KindsApart ==
  ASSUME platform \in Platform
  PROVE  Files \in Kinds /\ Dirs \in Kinds /\ Files # Dirs
BY PlatformIs DEF Files, Dirs, Stdio, Kinds

\* A container is allocated for the files of system calls alone.
Container == IF Stdio THEN {"none"}
             ELSE {"none", "kept"} \cup (IF Can("buffer fails") THEN {"forgotten"} ELSE {})

FileOpens(c, p, flags, op, rest) ==
  /\ nodes' = [nodes EXCEPT ![p] = Opened(p, flags)]
  /\ \E k \in Container :
       /\ containers' = containers + (IF k = "none" THEN 0 ELSE 1)
       /\ Holds(c, [Closed EXCEPT !.op = op, !.on = {p}, !.pos = Sought(rest),
                                  !.app = Appends(flags), !.data = (k = "kept")])
  /\ objects' = [objects EXCEPT ![Files] = @ + 1]

\* A handle that remembers no container is one that is told to remember none.
LEMMA NoContainer ==
  ASSUME NEW h, NEW op, NEW dir, NEW on, NEW pos, NEW app, NEW pending, NEW no,
         h = [op |-> op, dir |-> dir, on |-> on, pos |-> pos, app |-> app, pending |-> pending, data |-> no]
  PROVE  [h EXCEPT !.data = no] = h
OBVIOUS

LEMMA BeginsIs ==
  ASSUME TypeOK, NEW c, NEW p, NEW flags, NEW op, NEW rest, Begins(c, p, flags, op, rest)
  PROVE  \/ Opens(p, flags) /\ FileOpens(c, p, flags, op, rest) /\ Says("150")
         \/ ~Opens(p, flags) /\ Refuses(op) /\ UNCHANGED <<nodes, handle, objects, containers>>
<1>1. CASE ~Opens(p, flags)
  BY <1>1 DEF Begins
<1>2. CASE Opens(p, flags)
  <2> DEFINE h == [Closed EXCEPT !.op = op, !.on = {p}, !.pos = Sought(rest), !.app = Appends(flags)]
  <2>1. ssftpFsOpen(c, p, flags, h) /\ Says("150")
    BY <1>2 DEF Begins
  <2>2. nodes' = [nodes EXCEPT ![p] = Opened(p, flags)]
    BY <2>1 DEF ssftpFsOpen
  <2>3. ASSUME NEW k
        PROVE  [h EXCEPT !.data = (k = "kept")]
                 = [Closed EXCEPT !.op = op, !.on = {p}, !.pos = Sought(rest),
                                  !.app = Appends(flags), !.data = (k = "kept")]
    OBVIOUS
  <2>4. h = [Closed EXCEPT !.op = op, !.on = {p}, !.pos = Sought(rest),
                           !.app = Appends(flags), !.data = ("none" = "kept")]
    <3> DEFINE no == FALSE
               app == Appends(flags)
               pos == Sought(rest)
    <3>1. ("none" = "kept") = no
      OBVIOUS
    <3>2. Closed = [op |-> "none", dir |-> no, on |-> {}, pos |-> 0, app |-> no,
                    pending |-> <<>>, data |-> no]
      BY DEF Closed
    <3>3. h = [Closed EXCEPT !.op = op, !.on = {p}, !.pos = pos, !.app = app]
      OBVIOUS
    <3> DEFINE g == [op |-> op, dir |-> no, on |-> {p}, pos |-> pos, app |-> app,
                     pending |-> <<>>, data |-> no]
    <3> HIDE DEF no, app, pos, h
    <3>4. h = g
      BY <3>2, <3>3
    <3>5. [h EXCEPT !.data = no] = h
      BY <3>4, NoContainer
    <3>6. [h EXCEPT !.data = ("none" = "kept")] = h
      BY <3>1, <3>5, Zenon
    <3> QED BY <2>3, <3>6, Zenon
  <2> HIDE DEF h
  <2>5. CASE Stdio
    <3>1. Takes("FILE") /\ Holds(c, h) /\ UNCHANGED containers
      BY <2>1, <2>5 DEF ssftpFsOpen, Does, Stdio, stdio_open, posix_open, psp_open, vita_open
    <3>2. objects' = [objects EXCEPT ![Files] = @ + 1]
      BY <2>5, <3>1 DEF Files, Takes
    <3>3. "none" \in Container /\ containers' = containers + 0
      BY <2>5, <3>1 DEF Container, TypeOK
    <3> QED BY <1>2, <2>1, <2>2, <2>4, <3>1, <3>2, <3>3 DEF FileOpens
  <2>6. CASE ~Stdio
    <3>1. syscall_open(c, h)
      BY <2>1, <2>6 DEF ssftpFsOpen, Does, Stdio, cellos_open, psl1ght_open
    <3>2. objects' = [objects EXCEPT ![Files] = @ + 1]
      BY <2>6, <3>1 DEF syscall_open, Files, Takes
    <3>3. PICK k \in Container : /\ containers' = containers + (IF k = "none" THEN 0 ELSE 1)
                                 /\ Holds(c, [h EXCEPT !.data = (k = "kept")])
      BY <2>6, <3>1 DEF syscall_open, Container
    <3> QED BY <1>2, <2>1, <2>2, <2>3, <3>2, <3>3 DEF FileOpens
  <2> QED BY <2>5, <2>6
<1> QED BY <1>1, <1>2

DirOpens(c) ==
  /\ Holds(c, [Closed EXCEPT !.op = "list", !.dir = TRUE,
                             !.on = {p \in Path : nodes[p].kind # "none"}])
  /\ objects' = [objects EXCEPT ![Dirs] = @ + 1]
  /\ UNCHANGED <<nodes, containers>>

LEMMA ListIs ==
  ASSUME platform \in Platform, NEW c, ssftpCmdList(c)
  PROVE  \/ DirOpens(c) /\ Says("150")
         \/ Refuses("list") /\ UNCHANGED <<nodes, handle, objects, containers>>
<1>1. ssftpFsOpendir(TRUE) => objects' = [objects EXCEPT ![Dirs] = @ + 1]
  BY PlatformIs DEF ssftpFsOpendir, Does, posix_opendir, psp_opendir,
     vita_opendir, cellos_opendir, psl1ght_opendir, Opendir, Takes, Dirs, Stdio
<1>2. ssftpFsOpendir(FALSE) => UNCHANGED objects
  BY PlatformIs DEF ssftpFsOpendir, Does, posix_opendir, psp_opendir,
     vita_opendir, cellos_opendir, psl1ght_opendir, Opendir
<1> QED BY <1>1, <1>2, Zenon DEF ssftpCmdList, DirOpens

DirCloses == objects' = [objects EXCEPT ![Dirs] = @ - 1] /\ UNCHANGED <<nodes, containers>>

FileCloses(h) ==
  /\ Flush(h) \/ (Stdio /\ Can("disk full") /\ h.pending # <<>> /\ UNCHANGED nodes)
  /\ containers' = containers - (IF h.data /\ ~Stdio THEN 1 ELSE 0)
  /\ objects' = [objects EXCEPT ![Files] = @ - 1]

Ending(c, h) == (IF h.dir THEN DirCloses ELSE FileCloses(h)) /\ Holds(c, Closed)

LEMMA EndIs ==
  ASSUME TypeOK, NEW c, NEW h, ftpclient_data_end(c, h)
  PROVE  Ending(c, h)
<1>1. platform \in Platform /\ containers \in Int
  BY DEF TypeOK
<1>2. CASE h.dir
  <2>1. ssftpFsClosedir
    BY <1>2 DEF ftpclient_data_end
  <2>2. DirCloses
    BY <1>1, <2>1, PlatformIs DEF ssftpFsClosedir, DirCloses, Does, posix_closedir, psp_closedir,
       vita_closedir, cellos_closedir, psl1ght_closedir, Returns, Dirs, Stdio
  <2> QED BY <1>2, <2>2 DEF Ending, ftpclient_data_end
<1>3. CASE ~h.dir
  <2>1. ssftpFsClose(h)
    BY <1>3 DEF ftpclient_data_end
  <2>2. CASE Stdio
    <3>1. stdio_close(h)
      BY <2>1, <2>2 DEF ssftpFsClose, Does, Stdio, posix_close, psp_close, vita_close
    <3>2. objects' = [objects EXCEPT ![Files] = @ - 1]
      BY <2>2, <3>1 DEF stdio_close, Files, Returns
    <3>3. UNCHANGED containers /\ containers - 0 = containers
      <4>1. UNCHANGED containers
        BY <3>1, Zenon DEF stdio_close
      <4> QED BY <1>1, <4>1
    <3>4. FileCloses(h)
      BY <2>2, <3>1, <3>2, <3>3 DEF stdio_close, FileCloses
    <3> QED BY <1>3, <3>4 DEF Ending, ftpclient_data_end
  <2>3. CASE ~Stdio
    <3>1. syscall_close(h)
      BY <2>1, <2>3 DEF ssftpFsClose, Does, Stdio, cellos_close, psl1ght_close
    <3>2. FileCloses(h)
      BY <2>3, <3>1 DEF syscall_close, FileCloses, Files, Returns
    <3> QED BY <1>3, <3>2 DEF Ending, ftpclient_data_end
  <2> QED BY <2>2, <2>3
<1> QED BY <1>2, <1>3

\* Something that is there comes next, or nothing, at the end and when a read fails.
LEMMA GotIs ==
  ASSUME platform \in Platform, NEW next
  PROVE  /\ ssftpFsRead(next) = Got(next) /\ ssftpFsReaddir(next) = Got(next)
         /\ \A got \in Got(next) : \/ got = {} /\ (next = {} \/ Can("read fails"))
                                   \/ \E n \in next : got = {n}
BY PlatformIs DEF ssftpFsRead, ssftpFsReaddir, Result, Got,
   posix_read, psp_read, vita_read, cellos_read, psl1ght_read,
   posix_readdir, psp_readdir, vita_readdir, cellos_readdir, psl1ght_readdir

\* What the system says is what the five make of it; psp alone lets a size be.
LEMMA AnswersAre ==
  ASSUME platform \in Platform, NEW b \in BOOLEAN
  PROVE  (Success(b) <=> b) /\ (Found(b) <=> b) /\ (Resized(b) => b)
<1> DEFINE r == Says0(b)
<1>1. (r = 0 <=> b) /\ (CellOk(r) = 0 <=> b)
  BY DEF Says0, CellOk
<1>2. Success(b) <=> Result(r, r, r, CellOk(r), CellOk(r)) = 0
  BY DEF Success, posix_names, psp_names, vita_names, cellos_names, psl1ght_names
<1>3. Found(b) <=> Result(r, r, r, CellOk(r), CellOk(r)) = 0
  BY DEF Found, posix_stat, psp_stat, vita_stat, cellos_stat, psl1ght_stat
<1>4. Resized(b) <=> Result(r, -1, r, CellOk(r), CellOk(r)) = 0
  BY DEF Resized, posix_names, psp_sizes, vita_names, cellos_names, psl1ght_names
<1> HIDE DEF r
<1>5. Result(r, r, r, CellOk(r), CellOk(r)) = 0 <=> b
  BY <1>1, PlatformIs DEF Result
<1>6. Result(r, -1, r, CellOk(r), CellOk(r)) = 0 => b
  BY <1>1, PlatformIs DEF Result
<1> QED BY <1>2, <1>3, <1>4, <1>5, <1>6

LEMMA SuccessIs ==
  ASSUME platform \in Platform, NEW b \in BOOLEAN
  PROVE  Success(b) <=> b
BY AnswersAre

\* A platform of streams, and what it is spared.
LEMMA StreamsAre ==
  ASSUME platform \in Platform, Bearable, Stdio, NEW trouble, Can(trouble)
  PROVE  \/ trouble = "read only" /\ platform \notin ZeroRdonly
         \/ trouble = "far rest" /\ platform \in WideSeek
<1>1. platform \notin {"cellos", "psl1ght"}
  BY DEF Stdio
<1> QED BY <1>1 DEF Bearable, Can

\* No platform bears a read that fails.
LEMMA ReadsSucceed ==
  ASSUME platform \in Platform, Bearable
  PROVE  ~Can("read fails")
BY DEF Bearable, Can

\* What is open is told by the operation.
LEMMA OpenIs ==
  ASSUME TypeOK, NEW c \in Client
  PROVE  /\ Open(c) <=> handle[c].op # "none"
         /\ handle[c].op \in Transfers => ~handle[c].dir
BY DEF TypeOK, HandleOK, Open, Closed, Handle, Transfers

------------------------------------------------------------------------------
(* Counting *)

LEMMA OpenersFinite == \A k : IsFiniteSet(Opener(k))
BY FileSysAssumption, FS_Subset DEF Opener

LEMMA BufferedFinite == IsFiniteSet(Buffered)
BY FileSysAssumption, FS_Subset DEF Buffered

\* What opens is one more of its kind.
LEMMA OneMoreOpen ==
  ASSUME TypeOK, TypeOK', UNCHANGED platform, NEW c \in Client, ~Open(c), Open(c)',
         \A d \in Client \ {c} : handle'[d] = handle[d],
         NEW k, k = IF handle'[c].dir THEN Dirs ELSE Files,
         objects' = [objects EXCEPT ![k] = @ + 1], ObjectsCounted
  PROVE  ObjectsCounted'
<1>1. k \in Kinds /\ UNCHANGED <<Dirs, Files>>
  BY KindsApart DEF TypeOK, Dirs, Files, Stdio
<1>2. Opener(k)' = Opener(k) \cup {c} /\ c \notin Opener(k)
  BY <1>1 DEF Opener, Open
<1>3. \A l \in Kinds \ {k} : Opener(l)' = Opener(l)
  BY <1>1 DEF Opener, Open
<1>4. Cardinality(Opener(k)') = Cardinality(Opener(k)) + 1
  BY <1>2, OpenersFinite, FS_AddElement
<1>5. /\ objects'[k] = objects[k] + 1
      /\ \A l \in Kinds \ {k} : objects'[l] = objects[l]
  BY <1>1 DEF TypeOK
<1> QED BY <1>3, <1>4, <1>5 DEF ObjectsCounted

\* What closes is one less of its kind.
LEMMA OneLessOpen ==
  ASSUME TypeOK, TypeOK', UNCHANGED platform, NEW c \in Client, Open(c), ~Open(c)',
         \A d \in Client \ {c} : handle'[d] = handle[d],
         NEW k, k = IF handle[c].dir THEN Dirs ELSE Files,
         objects' = [objects EXCEPT ![k] = @ - 1], ObjectsCounted
  PROVE  ObjectsCounted'
<1>1. k \in Kinds /\ UNCHANGED <<Dirs, Files>>
  BY KindsApart DEF TypeOK, Dirs, Files, Stdio
<1>2. Opener(k)' = Opener(k) \ {c} /\ c \in Opener(k)
  BY <1>1 DEF Opener, Open
<1>3. \A l \in Kinds \ {k} : Opener(l)' = Opener(l)
  BY <1>1 DEF Opener, Open
<1>4. Cardinality(Opener(k)') = Cardinality(Opener(k)) - 1
  BY <1>2, OpenersFinite, FS_RemoveElement
<1>5. /\ objects'[k] = objects[k] - 1
      /\ \A l \in Kinds \ {k} : objects'[l] = objects[l]
  BY <1>1 DEF TypeOK
<1> QED BY <1>3, <1>4, <1>5 DEF ObjectsCounted

\* A step between keeps what it is about.
LEMMA AsManyOpen ==
  ASSUME UNCHANGED <<platform, objects>>, ObjectsCounted,
         \A d \in Client : (Open(d)' <=> Open(d)) /\ handle'[d].dir = handle[d].dir
  PROVE  ObjectsCounted'
<1>1. UNCHANGED <<Dirs, Files>>
  BY DEF Dirs, Files, Stdio
<1>2. \A k : Opener(k)' = Opener(k)
  BY <1>1 DEF Opener
<1> QED BY <1>2 DEF ObjectsCounted

LEMMA OneMoreBuffered ==
  ASSUME NEW c \in Client, ~handle[c].data, handle'[c].data, ContainersCounted,
         \A d \in Client \ {c} : handle'[d].data = handle[d].data,
         containers' = containers + 1
  PROVE  ContainersCounted'
<1>1. Buffered' = Buffered \cup {c} /\ c \notin Buffered
  BY DEF Buffered
<1> QED BY <1>1, BufferedFinite, FS_AddElement DEF ContainersCounted

LEMMA OneLessBuffered ==
  ASSUME NEW c \in Client, handle[c].data, ~handle'[c].data, ContainersCounted,
         \A d \in Client \ {c} : handle'[d].data = handle[d].data,
         containers' = containers - 1
  PROVE  ContainersCounted'
<1>1. Buffered' = Buffered \ {c} /\ c \in Buffered
  BY DEF Buffered
<1> QED BY <1>1, BufferedFinite, FS_RemoveElement DEF ContainersCounted

LEMMA AsManyBuffered ==
  ASSUME UNCHANGED containers, ContainersCounted,
         \A d \in Client : handle'[d].data = handle[d].data
  PROVE  ContainersCounted'
<1>1. Buffered' = Buffered
  BY DEF Buffered
<1> QED BY <1>1 DEF ContainersCounted

------------------------------------------------------------------------------
(* The steps of a transfer keep the types *)

LEMMA FlushedIsData ==
  ASSUME NEW h \in Handle, NEW d \in Data
  PROVE  Flushed(h, d) \in Data
<1>1. h.pending \in Seq(Block) /\ h.pos - Len(h.pending) \in Int
  BY DEF Handle
<1>2. d \o h.pending \in Data
  <2>1. h.pending \in Data
    BY <1>1, SeqMonotonic DEF Data
  <2> QED BY <2>1, ConcatProperties DEF Data
<1> QED BY <1>1, <1>2, PutIsData DEF Flushed

\* A file is opened.
LEMMA OpenTypes ==
  ASSUME TypeOK, NEW c \in Client, NEW p \in Path, NEW flags, NEW op \in Transfers, NEW rest \in Nat,
         FileOpens(c, p, flags, op, rest), UNCHANGED platform
  PROVE  TypeOK' /\ Open(c)'
<1> DEFINE h(k) == [Closed EXCEPT !.op = op, !.on = {p}, !.pos = Sought(rest),
                                  !.app = Appends(flags), !.data = (k = "kept")]
<1>1. PICK k \in Container : containers' = containers + (IF k = "none" THEN 0 ELSE 1) /\ Holds(c, h(k))
  BY DEF FileOpens
<1>2. Appends(flags) \in BOOLEAN
  <2>1. CASE Stdio
    BY <2>1 DEF Appends
  <2>2. CASE ~Stdio
    BY <2>2 DEF Appends
  <2> QED BY <2>1, <2>2
<1>3. Sought(rest) \in Nat
  BY SoughtRest DEF TypeOK
<1>4. /\ h(k) \in Handle /\ HandleOK(h(k)) /\ h(k).op = op
  BY <1>2, <1>3, EmptySeq DEF Closed, Handle, HandleOK, Transfers
<1>5. Opened(p, flags) \in Node
  BY EmptySeq DEF Opened, Node, TypeOK
<1>6. Files \in Kinds
  BY KindsApart DEF TypeOK
<1> HIDE DEF h
<1>7. handle' = [handle EXCEPT ![c] = h(k)]
  BY <1>1 DEF Holds
<1>8. /\ nodes' \in [Path -> Node] /\ handle' \in [Client -> Handle]
      /\ \A d \in Client : HandleOK(handle'[d])
  BY <1>4, <1>5, <1>7 DEF FileOpens, TypeOK
<1>9. objects' \in [Kinds -> Int] /\ containers' \in Int
  BY <1>1, <1>6 DEF FileOpens, TypeOK
<1>10. TypeOK'
  BY <1>8, <1>9 DEF TypeOK
<1>11. handle'[c].op # "none"
  BY <1>4, <1>7 DEF TypeOK, Transfers
<1> QED BY <1>10, <1>11 DEF Open, Closed

\* A directory is opened.
LEMMA OpendirTypes ==
  ASSUME TypeOK, NEW c \in Client, DirOpens(c), UNCHANGED platform
  PROVE  TypeOK' /\ Open(c)' /\ handle'[c].dir /\ ~handle'[c].data
<1> DEFINE h == [Closed EXCEPT !.op = "list", !.dir = TRUE,
                               !.on = {p \in Path : nodes[p].kind # "none"}]
<1>1. h \in Handle /\ HandleOK(h) /\ h.op = "list" /\ h.dir /\ ~h.data
  BY EmptySeq DEF Closed, Handle, HandleOK, Transfers
<1>2. Dirs \in Kinds
  BY KindsApart DEF TypeOK
<1>3. handle' = [handle EXCEPT ![c] = h]
  BY DEF DirOpens, Holds
<1> HIDE DEF h
<1>4. TypeOK'
  BY <1>1, <1>2, <1>3 DEF TypeOK, DirOpens
<1>5. handle'[c] = h
  BY <1>3 DEF TypeOK
<1> QED BY <1>1, <1>4, <1>5 DEF Open, Closed

\* A transfer ends.
LEMMA EndTypes ==
  ASSUME TypeOK, NEW c \in Client, NEW h \in Handle, ftpclient_data_end(c, h), UNCHANGED platform
  PROVE  /\ TypeOK' /\ handle'[c] = Closed
         /\ \A d \in Client \ {c} : handle'[d] = handle[d]
<1>1. Closed \in Handle /\ HandleOK(Closed)
  BY EmptySeq DEF Closed, Handle, HandleOK, Transfers
<1>2. Ending(c, h)
  BY EndIs
<1>3. /\ handle' \in [Client -> Handle] /\ \A d \in Client : HandleOK(handle'[d])
      /\ handle'[c] = Closed /\ \A d \in Client \ {c} : handle'[d] = handle[d]
  <2>1. handle' = [handle EXCEPT ![c] = Closed]
    BY <1>2 DEF Ending, Holds
  <2> QED BY <1>1, <2>1 DEF TypeOK
<1>4. Files \in Kinds /\ Dirs \in Kinds
  BY KindsApart DEF TypeOK
<1>5. CASE h.dir
  <2>1. DirCloses
    BY <1>2, <1>5 DEF Ending
  <2> QED BY <1>3, <1>4, <2>1 DEF DirCloses, TypeOK
<1>6. CASE ~h.dir
  <2>1. FileCloses(h)
    BY <1>2, <1>6 DEF Ending
  <2>2. nodes' \in [Path -> Node]
    <3>1. CASE UNCHANGED nodes
      BY <3>1 DEF TypeOK
    <3>2. CASE Flush(h)
      <4>1. ASSUME NEW p \in Path
            PROVE  nodes[p] \in Node /\ [nodes[p] EXCEPT !.data = Flushed(h, @)] \in Node
        <5>1. nodes[p] \in Node /\ nodes[p].data \in Data
          BY DEF TypeOK, Node, Data
        <5>2. Flushed(h, nodes[p].data) \in Data
          BY <5>1, FlushedIsData
        <5> QED BY <5>1, <5>2 DEF Node, Data
      <4> QED BY <3>2, <4>1 DEF Flush
    <3> QED BY <2>1, <3>1, <3>2 DEF FileCloses
  <2>3. containers' \in Int /\ objects' \in [Kinds -> Int]
    <3>1. /\ containers' = containers - (IF h.data /\ ~Stdio THEN 1 ELSE 0)
          /\ objects' = [objects EXCEPT ![Files] = @ - 1]
      BY <2>1 DEF FileCloses
    <3> QED BY <1>4, <3>1 DEF TypeOK
  <2>4. platform' \in Platform
    BY DEF TypeOK
  <2> QED BY <1>3, <2>2, <2>3, <2>4 DEF TypeOK
<1> QED BY <1>3, <1>5, <1>6

\* A transfer goes on.
LEMMA MoveTypes ==
  ASSUME TypeOK, NEW c \in Client, NEW h \in Handle, Holds(c, h),
         h.op = handle[c].op, h.dir = handle[c].dir, h.data = handle[c].data,
         h.op # "none", h.op # "list" => h.on = handle[c].on,
         nodes' \in [Path -> Node], UNCHANGED <<platform, objects, containers>>
  PROVE  /\ TypeOK' /\ handle'[c] = h
         /\ \A d \in Client \ {c} : handle'[d] = handle[d]
<1>1. HandleOK(h)
  BY DEF TypeOK, HandleOK, Transfers
<1> QED BY <1>1 DEF TypeOK, Holds

------------------------------------------------------------------------------
(* Nothing is left *)

\* Through stdio no client has a container.
BuffersOK == Stdio => \A c \in Client : ~handle[c].data

CountInv == TypeOK /\ BuffersOK /\ ObjectsCounted /\ (BuffersGranted => ContainersCounted)

LEMMA OpenCounts ==
  ASSUME CountInv, NEW c \in Client, ~Open(c), NEW p \in Path, NEW flags, NEW op \in Transfers,
         NEW rest \in Nat, FileOpens(c, p, flags, op, rest), UNCHANGED platform
  PROVE  CountInv'
<1> DEFINE h(k) == [Closed EXCEPT !.op = op, !.on = {p}, !.pos = Sought(rest),
                                  !.app = Appends(flags), !.data = (k = "kept")]
<1>1. PICK k \in Container : containers' = containers + (IF k = "none" THEN 0 ELSE 1) /\ Holds(c, h(k))
  BY DEF FileOpens
<1>2. TypeOK /\ TypeOK' /\ Open(c)'
  BY OpenTypes DEF CountInv
<1>3. ~h(k).dir /\ (h(k).data <=> k = "kept")
  BY DEF Closed
<1> HIDE DEF h
<1>4. /\ handle'[c] = h(k) /\ \A d \in Client \ {c} : handle'[d] = handle[d]
  BY <1>1, <1>2 DEF Holds, TypeOK
<1>5. ObjectsCounted'
  <2>1. objects' = [objects EXCEPT ![Files] = @ + 1]
    BY DEF FileOpens
  <2> QED BY <1>2, <1>3, <1>4, <2>1, OneMoreOpen DEF CountInv
<1>6. ASSUME BuffersGranted
      PROVE  ContainersCounted'
  <2>1. ~handle[c].data /\ ContainersCounted
    BY <1>6 DEF CountInv, Open, Closed
  <2>2. k \in {"none", "kept"}
    <3>1. ~Can("buffer fails")
      BY <1>2, <1>6 DEF BuffersGranted, Can, TypeOK
    <3>2. Container \subseteq {"none", "kept"}
      BY <3>1 DEF Container
    <3> QED BY <3>2
  <2>3. CASE k = "none"
    <3>1. containers' = containers /\ handle'[c].data = handle[c].data
      <4>1. handle[c].data = FALSE /\ h(k).data = FALSE
        BY <1>3, <2>1, <2>3, <1>2 DEF Open, h, Closed
      <4>2. containers \in Int
        BY <1>2 DEF TypeOK
      <4>3. containers' = containers
        BY <1>1, <2>3, <4>2
      <4> QED BY <1>4, <4>1, <4>3
    <3> QED BY <1>4, <2>1, <3>1, AsManyBuffered
  <2>4. CASE k = "kept"
    <3>1. containers' = containers + 1 /\ handle'[c].data
      BY <1>1, <1>3, <1>4, <2>4
    <3> QED BY <1>4, <2>1, <3>1, OneMoreBuffered
  <2> QED BY <2>2, <2>3, <2>4
<1>7. BuffersOK'
  <2>1. Stdio => k = "none"
    BY DEF Container
  <2>2. Stdio => ~h(k).data
    BY <1>3, <2>1
  <2> QED BY <1>4, <2>2 DEF BuffersOK, CountInv, Stdio
<1> QED BY <1>2, <1>5, <1>6, <1>7 DEF CountInv, BuffersGranted

LEMMA OpendirCounts ==
  ASSUME CountInv, NEW c \in Client, ~Open(c), DirOpens(c), UNCHANGED platform
  PROVE  CountInv'
<1>1. TypeOK /\ TypeOK' /\ Open(c)' /\ handle'[c].dir /\ ~handle'[c].data
  BY OpendirTypes DEF CountInv
<1>2. \A d \in Client \ {c} : handle'[d] = handle[d]
  BY <1>1 DEF DirOpens, Holds, TypeOK
<1>3. ObjectsCounted'
  <2>1. objects' = [objects EXCEPT ![Dirs] = @ + 1]
    BY DEF DirOpens
  <2> QED BY <1>1, <1>2, <2>1, OneMoreOpen DEF CountInv
<1>4. ASSUME ContainersCounted
      PROVE  ContainersCounted'
  <2>1. handle[c].data = FALSE /\ handle'[c].data = FALSE
    BY <1>1 DEF Open, Closed, TypeOK, Handle
  <2>2. UNCHANGED containers
    BY DEF DirOpens
  <2> QED BY <1>2, <1>4, <2>1, <2>2, AsManyBuffered
<1>5. BuffersOK'
  BY <1>1, <1>2 DEF BuffersOK, CountInv, Stdio
<1> QED BY <1>1, <1>3, <1>4, <1>5 DEF CountInv, BuffersGranted

\* h is the handle as the last call left it.
LEMMA EndCounts ==
  ASSUME CountInv, NEW c \in Client, Open(c), NEW h \in Handle, h.dir = handle[c].dir,
         h.data = handle[c].data, ftpclient_data_end(c, h), UNCHANGED platform
  PROVE  CountInv'
<1>1. /\ TypeOK /\ TypeOK' /\ handle'[c] = Closed /\ Ending(c, h)
      /\ \A d \in Client \ {c} : handle'[d] = handle[d]
  BY EndTypes, EndIs DEF CountInv
<1>2. ~Open(c)' /\ handle'[c].data = FALSE
  BY <1>1 DEF Open, Closed
<1>3. BuffersOK'
  BY <1>1, <1>2 DEF BuffersOK, CountInv, Stdio
<1>4. CASE handle[c].dir
  <2>1. objects' = [objects EXCEPT ![Dirs] = @ - 1] /\ UNCHANGED containers
    <3>1. DirCloses
      BY <1>1, <1>4 DEF Ending
    <3> QED BY <3>1 DEF DirCloses
  <2>2. handle[c].data = FALSE
    BY <1>1, <1>4 DEF TypeOK, HandleOK, Handle
  <2>3. ObjectsCounted'
    BY <1>1, <1>2, <1>4, <2>1, OneLessOpen DEF CountInv
  <2>4. ContainersCounted => ContainersCounted'
    BY <1>1, <1>2, <2>1, <2>2, AsManyBuffered
  <2> QED BY <1>1, <1>3, <2>3, <2>4 DEF CountInv, BuffersGranted
<1>5. CASE ~handle[c].dir
  <2>1. /\ objects' = [objects EXCEPT ![Files] = @ - 1]
        /\ containers' = containers - (IF handle[c].data /\ ~Stdio THEN 1 ELSE 0)
    <3>1. FileCloses(h)
      BY <1>1, <1>5 DEF Ending
    <3> QED BY <3>1 DEF FileCloses
  <2>2. ObjectsCounted'
    BY <1>1, <1>2, <1>5, <2>1, OneLessOpen DEF CountInv
  <2>3. ContainersCounted => ContainersCounted'
    <3>1. CASE handle[c].data
      <4>1. ~Stdio
        BY <3>1 DEF CountInv, BuffersOK
      <4> QED BY <1>1, <1>2, <2>1, <3>1, <4>1, OneLessBuffered
    <3>2. CASE ~handle[c].data
      <4>1. handle[c].data = FALSE /\ UNCHANGED containers
        BY <1>1, <2>1, <3>2 DEF TypeOK, Handle
      <4> QED BY <1>1, <1>2, <4>1, AsManyBuffered
    <3> QED BY <3>1, <3>2
  <2> QED BY <1>1, <1>3, <2>2, <2>3 DEF CountInv, BuffersGranted
<1> QED BY <1>4, <1>5

LEMMA MoveCounts ==
  ASSUME CountInv, NEW c \in Client, NEW h \in Handle, Holds(c, h),
         h.op = handle[c].op, h.dir = handle[c].dir, h.data = handle[c].data,
         h.op # "none", h.op # "list" => h.on = handle[c].on,
         nodes' \in [Path -> Node], UNCHANGED <<platform, objects, containers>>
  PROVE  CountInv'
<1>1. /\ TypeOK /\ TypeOK' /\ handle'[c] = h
      /\ \A d \in Client \ {c} : handle'[d] = handle[d]
  BY MoveTypes DEF CountInv
<1>2. \A d \in Client : (Open(d)' <=> Open(d)) /\ handle'[d].dir = handle[d].dir
                        /\ handle'[d].data = handle[d].data
  BY <1>1 DEF Open, Closed
<1>3. BuffersOK'
  BY <1>2 DEF BuffersOK, CountInv, Stdio
<1> QED BY <1>1, <1>2, <1>3, AsManyOpen, AsManyBuffered DEF CountInv, BuffersGranted

\* Steps that leave the handles alone.
LEMMA NamesCount ==
  ASSUME CountInv, nodes' \in [Path -> Node], UNCHANGED <<platform, handle, objects, containers>>
  PROVE  CountInv'
<1>1. \A d \in Client : (Open(d)' <=> Open(d)) /\ handle'[d].dir = handle[d].dir
                        /\ handle'[d].data = handle[d].data
  BY DEF Open
<1>2. TypeOK'
  BY DEF CountInv, TypeOK
<1>3. BuffersOK'
  BY <1>2 DEF BuffersOK, CountInv, Stdio
<1> QED BY <1>1, <1>2, <1>3, AsManyOpen, AsManyBuffered DEF CountInv, BuffersGranted

\* What a client's handle is after an event that does not end its transfer.
LEMMA ReadHandle ==
  ASSUME NEW g \in Handle, NEW h, h = [g EXCEPT !.pos = @ + 1]
  PROVE  /\ h \in Handle /\ h.op = g.op /\ h.dir = g.dir /\ h.data = g.data
         /\ h.on = g.on /\ h.pos = g.pos + 1 /\ h.app = g.app /\ h.pending = g.pending
BY DEF Handle

LEMMA WriteHandle ==
  ASSUME NEW g \in Handle, NEW b \in Block, NEW h, h = With(g, b)
  PROVE  /\ h \in Handle /\ h.op = g.op /\ h.dir = g.dir /\ h.data = g.data
         /\ h.on = g.on /\ h.pos = g.pos + 1 /\ h.app = g.app /\ h.pending = Append(g.pending, b)
<1>1. Append(g.pending, b) \in Seq(Block) /\ g.pos + 1 \in Nat
  BY DEF Handle
<1> DEFINE bs == Append(g.pending, b)
           n == g.pos + 1
<1>2. h = [g EXCEPT !.pending = bs, !.pos = n] /\ bs \in Seq(Block) /\ n \in Nat
  BY <1>1 DEF With
<1> HIDE DEF bs, n
<1>3. /\ h \in Handle /\ h.op = g.op /\ h.dir = g.dir /\ h.data = g.data
      /\ h.on = g.on /\ h.pos = n /\ h.app = g.app /\ h.pending = bs
  BY <1>2 DEF Handle
<1> QED BY <1>3 DEF bs, n

LEMMA TornHandle ==
  ASSUME TypeOK, NEW c \in Client, NEW b \in Block
  PROVE  /\ With(handle[c], b) \in Handle /\ With(handle[c], b).dir = handle[c].dir
         /\ With(handle[c], b).data = handle[c].data
<1>1. handle[c] \in Handle
  BY DEF TypeOK
<1> QED BY <1>1, WriteHandle

LEMMA EmptiedHandle ==
  ASSUME NEW f \in Handle, NEW h, h = [f EXCEPT !.pending = <<>>]
  PROVE  /\ h \in Handle /\ h.op = f.op /\ h.dir = f.dir /\ h.data = f.data
         /\ h.on = f.on /\ h.pos = f.pos /\ h.app = f.app /\ h.pending = <<>>
BY EmptySeq DEF Handle

LEMMA ListHandle ==
  ASSUME NEW g \in Handle, NEW gone, NEW h, h = [g EXCEPT !.on = @ \ gone]
  PROVE  /\ h \in Handle /\ h.op = g.op /\ h.dir = g.dir /\ h.data = g.data
         /\ h.on = g.on \ gone /\ h.pos = g.pos /\ h.app = g.app /\ h.pending = g.pending
BY DEF Handle

\* A block goes to stdio, which may keep it, or into the file.
LEMMA WriteIs ==
  ASSUME TypeOK, NEW c \in Client, NEW p \in Path, NEW b \in Block, ssftpFsWrite(c, p, b)
  PROVE  \E full \in Handle, h \in Handle :
           /\ full.op = handle[c].op /\ full.dir = handle[c].dir /\ full.data = handle[c].data
           /\ full.on = handle[c].on /\ full.pos = handle[c].pos + 1
           /\ full.app = handle[c].app /\ full.pending = Append(handle[c].pending, b)
           /\ h.op = full.op /\ h.dir = full.dir /\ h.data = full.data
           /\ h.on = full.on /\ h.pos = full.pos /\ h.app = full.app
           /\ Holds(c, h)
           /\ \/ Stdio /\ h = full /\ UNCHANGED nodes
              \/ h.pending = <<>> /\ nodes' = [nodes EXCEPT ![p].data = Flushed(full, @)]
<1> DEFINE full == With(handle[c], b)
           none == [full EXCEPT !.pending = <<>>]
<1>1. /\ full \in Handle /\ full.op = handle[c].op /\ full.dir = handle[c].dir /\ full.data = handle[c].data
      /\ full.on = handle[c].on /\ full.pos = handle[c].pos + 1
      /\ full.app = handle[c].app /\ full.pending = Append(handle[c].pending, b)
  <2>1. handle[c] \in Handle
    BY DEF TypeOK
  <2> QED BY <2>1, WriteHandle
<1>2. \/ Stdio /\ Holds(c, full) /\ UNCHANGED nodes
      \/ nodes' = [nodes EXCEPT ![p].data = Flushed(full, @)] /\ Holds(c, none)
  <2>1. (stdio_write(c, p, full) /\ Stdio) \/ syscall_write(c, p, full)
    BY DEF ssftpFsWrite, Does, Stdio, posix_write, psp_write, vita_write, cellos_write, psl1ght_write
  <2> QED BY <2>1 DEF stdio_write, syscall_write
<1>3. none = [full EXCEPT !.pending = <<>>]
  OBVIOUS
<1> HIDE DEF full, none
<1>4. /\ none \in Handle /\ none.op = full.op /\ none.dir = full.dir /\ none.data = full.data
      /\ none.on = full.on /\ none.pos = full.pos /\ none.app = full.app /\ none.pending = <<>>
  BY <1>1, <1>3, EmptiedHandle
<1>5. CASE Stdio /\ Holds(c, full) /\ UNCHANGED nodes
  BY <1>1, <1>5
<1>6. CASE nodes' = [nodes EXCEPT ![p].data = Flushed(full, @)] /\ Holds(c, none)
  <2> DEFINE G == nodes' = [nodes EXCEPT ![p].data = Flushed(full, @)]
  <2>1. G
    BY <1>6
  <2> HIDE DEF G
  <2>2. \/ Stdio /\ none = full /\ UNCHANGED nodes
        \/ none.pending = <<>> /\ G
    BY <2>1, <1>4
  <2> QED BY <1>1, <1>4, <1>6, <2>2 DEF G
<1> QED BY <1>2, <1>5, <1>6

\* A file after its blocks are written is a node.
LEMMA WrittenNode ==
  ASSUME TypeOK, NEW p \in Path, NEW h \in Handle,
         nodes' = [nodes EXCEPT ![p].data = Flushed(h, @)]
  PROVE  /\ nodes' \in [Path -> Node]
         /\ nodes'[p].data = Flushed(h, nodes[p].data) /\ nodes'[p].data \in Data
         /\ nodes'[p].kind = nodes[p].kind /\ nodes'[p].free = nodes[p].free
         /\ \A q \in Path \ {p} : nodes'[q] = nodes[q]
<1>1. nodes[p] \in Node /\ nodes[p].data \in Data
  BY DEF TypeOK, Node, Data
<1>2. Flushed(h, nodes[p].data) \in Data
  BY <1>1, FlushedIsData
<1> DEFINE d == Flushed(h, nodes[p].data)
<1>3. nodes' = [nodes EXCEPT ![p].data = d]
  OBVIOUS
<1> HIDE DEF d
<1>4. d \in Data
  BY <1>2 DEF d
<1> QED BY <1>1, <1>3, <1>4 DEF TypeOK, Node, Data, d

\* Names and sizes leave nodes.
LEMMA NamesAreNodes ==
  ASSUME TypeOK,
         \/ \E p \in Path : ssftpCmdDele(p) \/ ssftpCmdRmd(p) \/ ssftpCmdMkd(p) \/ ssftpCmdChmod(p)
         \/ \E p \in Path : ssftpFsTruncate(p)
         \/ \E p, q \in Path : ssftpCmdRnto(p, q)
         \/ \E c \in Client : ssftpFsFtruncate(c) \/ ssftpFsFstat(c)
  PROVE  nodes' \in [Path -> Node] /\ UNCHANGED <<platform, handle, objects, containers>>
<1>1. Missing \in Node /\ Folder \in Node
  BY EmptySeq DEF Missing, Folder, Node
<1>2. nodes \in [Path -> Node]
  BY DEF TypeOK
<1>3. ASSUME NEW p \in Path, ssftpCmdDele(p) \/ ssftpCmdRmd(p) \/ ssftpCmdMkd(p)
      PROVE  nodes' \in [Path -> Node] /\ UNCHANGED <<platform, handle, objects, containers>>
  <2>1. PICK to \in {Missing, Folder} :
          nodes' \in {nodes, [nodes EXCEPT ![p] = to]} /\ UNCHANGED <<platform, handle, objects, containers>>
    BY <1>3 DEF ssftpCmdDele, ssftpCmdRmd, ssftpCmdMkd, Named, Changes
  <2> QED BY <1>1, <1>2, <2>1
<1>4. ASSUME NEW p \in Path, ssftpCmdChmod(p)
      PROVE  nodes' \in [Path -> Node] /\ UNCHANGED <<platform, handle, objects, containers>>
  <2>1. PICK free \in BOOLEAN : /\ nodes' \in {nodes, [nodes EXCEPT ![p].free = free]}
                                /\ UNCHANGED <<platform, handle, objects, containers>>
    BY <1>4 DEF ssftpCmdChmod, Changes
  <2>2. [nodes[p] EXCEPT !.free = free] \in Node
    BY <1>2 DEF Node
  <2> QED BY <1>2, <2>1, <2>2
<1>5. ASSUME NEW p \in Path, NEW q \in Path, ssftpCmdRnto(p, q)
      PROVE  nodes' \in [Path -> Node] /\ UNCHANGED <<platform, handle, objects, containers>>
  <2>1. /\ nodes' \in {nodes, [nodes EXCEPT ![q] = nodes[p], ![p] = Missing]}
        /\ UNCHANGED <<platform, handle, objects, containers>>
    BY <1>5 DEF ssftpCmdRnto, Changes
  <2> QED BY <1>1, <1>2, <2>1
<1>6. ASSUME NEW p \in Path, NEW done, Resizes(p, done)
      PROVE  nodes' \in [Path -> Node] /\ UNCHANGED <<platform, handle, objects, containers>>
  <2>1. CASE UNCHANGED nodes
    BY <1>2, <1>6, <2>1 DEF Resizes
  <2>2. ASSUME NEW n \in NewSize, nodes' = [nodes EXCEPT ![p].data = Sized(@, n)]
        PROVE  nodes' \in [Path -> Node]
    <3>1. nodes[p] \in Node /\ nodes[p].data \in Data
      BY <1>2 DEF Node, Data
    <3>2. Sized(nodes[p].data, n) \in Data
      BY <3>1, SizedIsData
    <3> DEFINE d == Sized(nodes[p].data, n)
    <3>3. nodes' = [nodes EXCEPT ![p].data = d]
      BY <2>2
    <3> HIDE DEF d
    <3>4. d \in Data
      BY <3>2 DEF d
    <3> QED BY <1>2, <3>1, <3>3, <3>4 DEF Node, Data
  <2> QED BY <1>6, <2>1, <2>2 DEF Resizes
<1>7. ASSUME NEW c \in Client, ssftpFsFtruncate(c) \/ ssftpFsFstat(c)
      PROVE  nodes' \in [Path -> Node] /\ UNCHANGED <<platform, handle, objects, containers>>
  <2>1. CASE ssftpFsFtruncate(c)
    <3>1. PICK p \in handle[c].on : Resizes(p, TRUE)
      BY <2>1 DEF ssftpFsFtruncate
    <3>2. p \in Path
      BY DEF TypeOK, Handle
    <3> QED BY <1>6, <3>1, <3>2
  <2>2. CASE ssftpFsFstat(c)
    BY <1>2, <2>2 DEF ssftpFsFstat
  <2> QED BY <1>7, <2>1, <2>2
<1>8. ASSUME NEW p \in Path, ssftpFsTruncate(p)
      PROVE  nodes' \in [Path -> Node] /\ UNCHANGED <<platform, handle, objects, containers>>
  BY <1>6, <1>8 DEF ssftpFsTruncate
<1> QED BY <1>3, <1>4, <1>5, <1>7, <1>8

LEMMA CountInit == Init => CountInv
<1> SUFFICES ASSUME Init
             PROVE  CountInv
  OBVIOUS
<1>1. Closed \in Handle /\ HandleOK(Closed)
  BY EmptySeq DEF Closed, Handle, HandleOK, Transfers
<1>2. nodes \in [Path -> Node]
  <2>1. {Missing, Folder} \subseteq Node
    BY EmptySeq DEF Missing, Folder, Node
  <2>2. Content \in Seq(Block \cup {Hole})
    BY FileSysAssumption, SeqMonotonic
  <2>3. \A f \in BOOLEAN : [kind |-> "file", data |-> Content, free |-> f] \in Node
    BY <2>2 DEF Node
  <2>4. {Missing, Folder} \cup {[kind |-> "file", data |-> Content, free |-> f] :
           f \in {TRUE} \cup (IF Can("read only") THEN {FALSE} ELSE {})} \subseteq Node
    <3> DEFINE F == {TRUE} \cup (IF Can("read only") THEN {FALSE} ELSE {})
    <3>1. F \subseteq BOOLEAN
      OBVIOUS
    <3> HIDE DEF F
    <3>2. {[kind |-> "file", data |-> Content, free |-> f] : f \in F} \subseteq Node
      BY <2>3, <3>1
    <3> QED BY <2>1, <3>2 DEF F
  <2> DEFINE N == {Missing, Folder} \cup {[kind |-> "file", data |-> Content, free |-> f] :
                    f \in {TRUE} \cup (IF Can("read only") THEN {FALSE} ELSE {})}
  <2>5. nodes \in [Path -> N]
    BY DEF Init
  <2>6. N \subseteq Node
    BY <2>4
  <2> HIDE DEF N
  <2> QED BY <2>5, <2>6
<1>3. TypeOK
  <2>1. handle \in [Client -> Handle] /\ \A c \in Client : HandleOK(handle[c])
    BY <1>1 DEF Init
  <2>2. platform \in Platform /\ containers = 0 /\ objects = [k \in Kinds |-> 0]
    BY DEF Init, Kinds
  <2> QED BY <1>2, <2>1, <2>2 DEF TypeOK
<1>4. \A c \in Client : ~Open(c) /\ ~handle[c].data
  BY DEF Init, Open, Closed
<1>5. Buffered = {} /\ \A k \in Kinds : Opener(k) = {}
  BY <1>4 DEF Buffered, Opener
<1>6. containers = 0 /\ \A k \in Kinds : objects[k] = 0
  BY DEF Init, Kinds
<1> QED BY <1>3, <1>4, <1>5, <1>6, FS_EmptySet DEF CountInv, BuffersOK, ObjectsCounted, ContainersCounted

LEMMA CountNext == CountInv /\ [Next]_vars => CountInv'
<1> SUFFICES ASSUME CountInv, [Next]_vars
             PROVE  CountInv'
  OBVIOUS
<1>1. TypeOK /\ nodes \in [Path -> Node]
  BY DEF CountInv, TypeOK
<1>2. ASSUME NEW c \in Client, Open(c), UNCHANGED platform,
             \/ ftpclient_data_end(c, handle[c])
             \/ \E b \in Block : ftpclient_data_end(c, With(handle[c], b))
      PROVE  CountInv'
  <2>1. handle[c] \in Handle
    BY <1>1 DEF TypeOK
  <2>2. CASE ftpclient_data_end(c, handle[c])
    BY <1>2, <2>1, <2>2, EndCounts
  <2>3. ASSUME NEW b \in Block, ftpclient_data_end(c, With(handle[c], b))
        PROVE  CountInv'
    BY <1>1, <1>2, <2>3, TornHandle, EndCounts
  <2> QED BY <1>2, <2>2, <2>3
<1>3. CASE UNCHANGED vars
  BY <1>1, <1>3, NamesCount DEF vars
<1>4. ASSUME NEW c \in Client, Begin(c)
      PROVE  CountInv'
  <2>1. ~Open(c) /\ UNCHANGED platform
    BY <1>4 DEF Begin
  <2>2. ASSUME NEW p \in Path, NEW flags, NEW op \in Transfers, NEW rest \in 0..MaxRest,
               Begins(c, p, flags, op, rest)
        PROVE  CountInv'
    <3>1. CASE FileOpens(c, p, flags, op, rest)
      BY <2>1, <3>1, OpenCounts
    <3>2. CASE UNCHANGED <<nodes, handle, objects, containers>>
      BY <1>1, <2>1, <3>2, NamesCount
    <3> QED BY <1>1, <2>2, <3>1, <3>2, BeginsIs
  <2>3. CASE ssftpCmdList(c)
    <3>1. CASE DirOpens(c)
      BY <2>1, <3>1, OpendirCounts
    <3>2. CASE UNCHANGED <<nodes, handle, objects, containers>>
      BY <1>1, <2>1, <3>2, NamesCount
    <3> QED BY <1>1, <2>3, <3>1, <3>2, ListIs DEF TypeOK
  <2>4. ASSUME NEW p \in Path, NEW rest \in 0..MaxRest, ssftpCmdRetr(c, p, rest)
        PROVE  CountInv'
    BY <2>2, <2>4 DEF ssftpCmdRetr, Transfers
  <2>5. ASSUME NEW p \in Path, NEW rest \in 0..MaxRest, NEW verb \in {"stor", "appe"},
               ssftpCmdStor(c, p, verb, rest)
        PROVE  CountInv'
    BY <2>2, <2>5 DEF ssftpCmdStor, Transfers
  <2> QED BY <1>4, <2>3, <2>4, <2>5 DEF Begin
<1>5. ASSUME NEW c \in Client, ssftpDataRetr(c)
      PROVE  CountInv'
  <2>1. Open(c) /\ UNCHANGED platform /\ handle[c].op = "retr" /\ handle[c] \in Handle
    BY <1>1, <1>5, OpenIs DEF ssftpDataRetr, TypeOK
  <2>2. CASE ftpclient_data_end(c, handle[c])
    BY <1>2, <2>1, <2>2
  <2>3. CASE /\ Holds(c, [handle[c] EXCEPT !.pos = @ + 1])
             /\ UNCHANGED <<nodes, objects, containers>>
    BY <1>1, <2>1, <2>3, ReadHandle, MoveCounts
  <2> QED BY <1>5, <2>2, <2>3 DEF ssftpDataRetr, Ends
<1>6. ASSUME NEW c \in Client, ssftpDataStor(c)
      PROVE  CountInv'
  <2>1. /\ Open(c) /\ UNCHANGED platform /\ handle[c].op \in {"stor", "appe"}
    BY <1>1, <1>6, OpenIs DEF ssftpDataStor
  <2>2. CASE \/ ftpclient_data_end(c, handle[c])
             \/ \E b \in Block : ftpclient_data_end(c, With(handle[c], b))
    BY <1>2, <2>1, <2>2
  <2>3. ASSUME NEW p \in Path, p \in handle[c].on, NEW b \in Block, ssftpFsWrite(c, p, b),
               UNCHANGED <<objects, containers>>
        PROVE  CountInv'
    <3>1. PICK full \in Handle, h \in Handle :
             /\ full.op = handle[c].op /\ full.dir = handle[c].dir /\ full.data = handle[c].data
             /\ full.on = handle[c].on
             /\ h.op = full.op /\ h.dir = full.dir /\ h.data = full.data
             /\ h.on = full.on
             /\ Holds(c, h)
             /\ \/ UNCHANGED nodes
                \/ nodes' = [nodes EXCEPT ![p].data = Flushed(full, @)]
      BY <1>1, <2>3, WriteIs
    <3>2. nodes' \in [Path -> Node]
      BY <1>1, <3>1, WrittenNode
    <3> QED BY <2>1, <2>3, <3>1, <3>2, MoveCounts
  <2>4. handle[c].on \subseteq Path
    BY <1>1 DEF TypeOK, Handle
  <2> QED BY <1>6, <2>2, <2>3, <2>4 DEF ssftpDataStor, Ends
<1>7. ASSUME NEW c \in Client, ssftpDataList(c)
      PROVE  CountInv'
  <2>1. Open(c) /\ UNCHANGED platform /\ handle[c].op = "list" /\ handle[c] \in Handle
    BY <1>1, <1>7, OpenIs DEF ssftpDataList, TypeOK
  <2>2. CASE ftpclient_data_end(c, handle[c])
    BY <1>2, <2>1, <2>2
  <2>3. ASSUME NEW gone, Holds(c, [handle[c] EXCEPT !.on = @ \ gone]),
               UNCHANGED <<nodes, objects, containers>>
        PROVE  CountInv'
    BY <1>1, <2>1, <2>3, ListHandle, MoveCounts
  <2> QED BY <1>7, <2>2, <2>3 DEF ssftpDataList, Ends
<1>8. ASSUME NEW c \in Client, Abort(c)
      PROVE  CountInv'
  BY <1>2, <1>8 DEF Abort, Ends
<1>9. CASE \/ \E p \in Path : ssftpCmdDele(p) \/ ssftpCmdRmd(p) \/ ssftpCmdMkd(p) \/ ssftpCmdChmod(p)
           \/ \E p \in Path : ssftpFsTruncate(p)
           \/ \E p, q \in Path : ssftpCmdRnto(p, q)
           \/ \E c \in Client : ssftpFsFtruncate(c) \/ ssftpFsFstat(c)
  BY <1>1, <1>9, NamesAreNodes, NamesCount
<1> QED BY <1>3, <1>4, <1>5, <1>6, <1>7, <1>8, <1>9 DEF Next

\* The handles are always of the kind their operation says, and what is open is
\* counted as that, whatever goes wrong.
THEOREM FileSysTypes == Spec => [](TypeOK /\ ObjectsCounted)
<1>1. CountInv => TypeOK /\ ObjectsCounted
  BY DEF CountInv
<1> QED BY <1>1, CountInit, CountNext, PTL DEF Spec

\* Each way a transfer ends gives back what its beginning took (ftpclient_data_end,
\* ssftpFsClose, ssftpFsClosedir), where no buffer is refused: a container whose
\* buffer was refused is forgotten by ssftpFsOpen.
THEOREM FileSysNothingLeft ==
  ASSUME BuffersGranted
  PROVE  Spec => []NothingLeft
<1>1. CountInv => NothingLeft
  <2> SUFFICES ASSUME CountInv
               PROVE  NothingLeft
    OBVIOUS
  <2>1. ObjectsCounted /\ ContainersCounted /\ DOMAIN objects = Kinds
    BY DEF CountInv, TypeOK
  <2> QED BY <2>1 DEF NothingLeft, ObjectsCounted, ContainersCounted, Opener, Buffered
<1> QED BY <1>1, CountInit, CountNext, PTL DEF Spec

------------------------------------------------------------------------------
(* What counts as written *)

Late(p) == {c \in Using(p) : handle[c].pending # <<>>}

\* What is in a node and with the client that has blocks pending for it.
Kept(n, late, hs) ==
  [kind |-> n.kind,
   data |-> IF late = {} THEN n.data ELSE Flushed(hs[CHOOSE c \in late : TRUE], n.data)]

LEMMA WrittenIs ==
  ASSUME NEW p \in Path
  PROVE  /\ Written(p) = Kept(nodes[p], Late(p), handle)
         /\ Written(p)' = Kept(nodes'[p], Late(p)', handle')
<1>1. Written(p) = Kept(nodes[p], Late(p), handle)
  BY DEF Written, Kept, Late
<1>2. Written(p)' = Kept(nodes'[p], Late(p)', handle')
  BY DEF Written, Kept, Late
<1> QED BY <1>1, <1>2

LEMMA KeptInNode ==
  ASSUME NEW n, NEW hs
  PROVE  Kept(n, {}, hs) = [kind |-> n.kind, data |-> n.data]
BY DEF Kept

LEMMA KeptByOne ==
  ASSUME NEW n, NEW c, NEW hs
  PROVE  Kept(n, {c}, hs) = [kind |-> n.kind, data |-> Flushed(hs[c], n.data)]
<1>1. (CHOOSE d \in {c} : TRUE) = c
  OBVIOUS
<1>2. {c} # {}
  OBVIOUS
<1> QED BY <1>1, <1>2 DEF Kept

\* With nothing pending the file is what was written.
LEMMA NothingPending ==
  ASSUME NEW h \in Handle, NEW d \in Data, h.pending = <<>>
  PROVE  Flushed(h, d) = d
<1>1. d \o <<>> = d
  BY ConcatEmptySeq DEF Data
<1> QED BY <1>1 DEF Flushed, Put

\* A file with blocks pending has one user, who has them.
LEMMA LateIs ==
  ASSUME FileInv, NEW p \in Path
  PROVE  /\ Late(p) = {} \/ \E c \in Client : Late(p) = {c} /\ Using(p) = {c} /\ Stdio
         /\ ~Stdio => Late(p) = {}
<1>1. ~Stdio => Late(p) = {}
  BY DEF FileInv, SystemCalls, Late, Using
<1>2. ASSUME NEW c \in Late(p), Stdio
      PROVE  Late(p) = {c} /\ Using(p) = {c} /\ c \in Client
  <2>1. c \in Using(p) /\ Late(p) \subseteq Using(p) /\ Using(p) \subseteq Client
    BY <1>2 DEF Late, Using
  <2>2. \A d \in Using(p) : d = c
    BY <1>2, <2>1 DEF FileInv, Streams
  <2> QED BY <1>2, <2>1, <2>2
<1> QED BY <1>1, <1>2

\* A file nobody uses, or whose users have nothing pending, is what is in it.
LEMMA WrittenInNode ==
  ASSUME NEW p \in Path, Late(p) = {}
  PROVE  Written(p) = [kind |-> nodes[p].kind, data |-> nodes[p].data]
BY WrittenIs, KeptInNode

LEMMA WrittenInNodeNext ==
  ASSUME NEW p \in Path, Late(p)' = {}
  PROVE  Written(p)' = [kind |-> nodes'[p].kind, data |-> nodes'[p].data]
BY WrittenIs, KeptInNode

\* What counts as written is a file.
LEMMA WrittenTypes ==
  ASSUME FileInv, NEW p \in Path
  PROVE  /\ Written(p).kind = nodes[p].kind /\ Written(p).data \in Data
         /\ Written(p) = [kind |-> nodes[p].kind, data |-> Written(p).data]
         /\ nodes[p].kind # "file" => Written(p).data = <<>>
<1>1. nodes[p].data \in Data /\ nodes[p].kind \in {"none", "dir", "file"}
  BY DEF FileInv, TypeOK, Node, Data
<1>2. CASE Late(p) = {}
  <2>1. Written(p) = [kind |-> nodes[p].kind, data |-> nodes[p].data]
    BY <1>2, WrittenInNode
  <2> QED BY <1>1, <2>1 DEF FileInv, NodesOK
<1>3. ASSUME NEW c \in Client, Late(p) = {c}, Using(p) = {c}
      PROVE  /\ Written(p).kind = nodes[p].kind /\ Written(p).data \in Data
             /\ Written(p) = [kind |-> nodes[p].kind, data |-> Written(p).data]
             /\ nodes[p].kind # "file" => Written(p).data = <<>>
  <2>1. Written(p) = [kind |-> nodes[p].kind, data |-> Flushed(handle[c], nodes[p].data)]
    BY <1>3, WrittenIs, KeptByOne
  <2>2. Flushed(handle[c], nodes[p].data) \in Data
    BY <1>1, FlushedIsData DEF FileInv, TypeOK
  <2>3. nodes[p].kind = "file"
    BY <1>3 DEF FileInv, NodesOK
  <2> QED BY <2>1, <2>2, <2>3
<1> QED BY <1>2, <1>3, LateIs

\* A step that touches neither a file nor who has blocks pending for it.
LEMMA WrittenSame ==
  ASSUME NEW p \in Path, nodes'[p].kind = nodes[p].kind, nodes'[p].data = nodes[p].data,
         Late(p)' = Late(p), \A c \in Late(p) : handle'[c] = handle[c]
  PROVE  Written(p)' = Written(p)
<1>1. CASE Late(p) = {}
  BY <1>1, WrittenInNode, WrittenInNodeNext
<1>2. CASE Late(p) # {}
  <2> DEFINE c == CHOOSE d \in Late(p) : TRUE
  <2>1. c \in Late(p)
    BY <1>2
  <2>2. Written(p) = [kind |-> nodes[p].kind, data |-> Flushed(handle[c], nodes[p].data)]
    BY <1>2, WrittenIs DEF Kept
  <2>3. Written(p)' = [kind |-> nodes'[p].kind, data |-> Flushed(handle'[c], nodes'[p].data)]
    BY <1>2, WrittenIs DEF Kept
  <2> QED BY <2>1, <2>2, <2>3
<1> QED BY <1>1, <1>2

------------------------------------------------------------------------------
(* Each kind of step keeps the invariant, and what it makes of what was written *)

\* While the platform stays, so does what is known of it.
LEMMA PlatformStays ==
  ASSUME UNCHANGED platform
  PROVE  (Stdio' <=> Stdio) /\ \A trouble : Can(trouble)' <=> Can(trouble)
BY DEF Stdio, Can

\* Users of a file other than the client that takes a step.
LEMMA OtherUsers ==
  ASSUME NEW c \in Client, \A d \in Client \ {c} : handle'[d] = handle[d], NEW q \in Path
  PROVE  /\ (c \in Using(q)' <=> c \in Using(q)) => Using(q)' = Using(q)
         /\ (c \in Late(q)' <=> c \in Late(q)) => Late(q)' = Late(q)
         /\ c \in Using(q)' => Using(q)' = Using(q) \cup {c}
         /\ c \notin Using(q)' => Using(q)' = Using(q) \ {c}
         /\ c \notin Late(q)' => Late(q)' = Late(q) \ {c}
<1>1. /\ Using(q) \subseteq Client /\ Using(q)' \subseteq Client
      /\ Late(q) \subseteq Client /\ Late(q)' \subseteq Client
  BY DEF Using, Late
<1>2. ASSUME NEW d \in Client \ {c}
      PROVE  (d \in Using(q)' <=> d \in Using(q)) /\ (d \in Late(q)' <=> d \in Late(q))
  BY DEF Using, Open, Late
<1> QED BY <1>1, <1>2

\* A file is opened for a client that had nothing.
LEMMA OpenKeeps ==
  ASSUME FileInv, Bearable, NEW c \in Client, ~Open(c), NEW p \in Path, Using(p) = {} \/ Can("shared"),
         NEW flags, NEW op \in Transfers, NEW rest \in Nat,
         Opens(p, flags), FileOpens(c, p, flags, op, rest), UNCHANGED platform,
         Appends(flags) => op = "appe",
         op = "appe" /\ ~Stdio => Appends(flags),
         op = "appe" /\ Stdio /\ ~Appends(flags) => Sought(rest) = 0 /\ nodes[p].data = <<>>
  PROVE  /\ FileInv'
         /\ Written(p)' = [kind |-> "file", data |-> IF Empties(flags) THEN <<>> ELSE Written(p).data]
         /\ \A q \in Path \ {p} : Written(q)' = Written(q)
         /\ \A d \in Client \ {c} : handle'[d] = handle[d]
         /\ handle'[c].op = op /\ handle'[c].on = {p} /\ handle'[c].pos = Sought(rest)
<1> DEFINE h(k) == [Closed EXCEPT !.op = op, !.on = {p}, !.pos = Sought(rest),
                                  !.app = Appends(flags), !.data = (k = "kept")]
<1>1. PICK k \in Container : Holds(c, h(k))
  BY DEF FileOpens
<1>2. TypeOK /\ TypeOK' /\ Open(c)'
  BY OpenTypes DEF FileInv
<1>3. handle' = [handle EXCEPT ![c] = h(k)] /\ nodes' = [nodes EXCEPT ![p] = Opened(p, flags)]
  BY <1>1 DEF Holds, FileOpens
<1>4. /\ h(k).op = op /\ h(k).on = {p} /\ h(k).pos = Sought(rest) /\ h(k).pending = <<>>
      /\ ~h(k).dir /\ (h(k).app <=> Appends(flags))
  BY DEF Closed
<1>5. /\ Opened(p, flags).kind = "file" /\ Opened(p, flags).free
      /\ Opened(p, flags).data = IF Empties(flags) THEN <<>> ELSE nodes[p].data
  BY DEF Opened
<1> HIDE DEF h
<1>6. /\ handle'[c] = h(k) /\ \A d \in Client \ {c} : handle'[d] = handle[d]
      /\ nodes'[p] = Opened(p, flags) /\ \A q \in Path \ {p} : nodes'[q] = nodes[q]
  BY <1>2, <1>3 DEF TypeOK
<1>7. handle[c].op = "none" /\ \A q \in Path : c \notin Using(q) /\ c \notin Late(q)
  BY <1>2, OpenIs DEF Using, Late
<1>8. /\ Using(p)' = Using(p) \cup {c}
      /\ \A q \in Path \ {p} : Using(q)' = Using(q)
      /\ \A q \in Path : Late(q)' = Late(q)
  <2>1. c \in Using(p)' /\ \A q \in Path \ {p} : c \notin Using(q)'
    BY <1>2, <1>4, <1>6 DEF Using
  <2>2. \A q \in Path : c \notin Late(q)'
    BY <1>4, <1>6 DEF Late
  <2>3. Using(p)' = Using(p) \cup {c}
    BY <1>6, <2>1, OtherUsers
  <2>4. ASSUME NEW q \in Path \ {p}
        PROVE  Using(q)' = Using(q)
    BY <1>6, <1>7, <2>1, OtherUsers
  <2>5. ASSUME NEW q \in Path
        PROVE  Late(q)' = Late(q)
    BY <1>6, <1>7, <2>2, OtherUsers
  <2> QED BY <2>3, <2>4, <2>5
<1>9. Stdio => Using(p) = {} /\ Late(p) = {}
  <2>1. ASSUME Stdio, Can("shared")
        PROVE  FALSE
    <3>1. "shared" \in {"read only", "far rest"}
      BY <1>2, <2>1, StreamsAre DEF TypeOK
    <3> QED BY <3>1
  <2>2. Stdio => Using(p) = {}
    BY <2>1
  <2> QED BY <2>2 DEF Late
<1>10. Late(p) = {}
  BY <1>9, LateIs
<1>11. /\ Written(p)' = [kind |-> "file", data |-> IF Empties(flags) THEN <<>> ELSE Written(p).data]
       /\ \A q \in Path \ {p} : Written(q)' = Written(q)
  <2>1. Written(p)' = [kind |-> nodes'[p].kind, data |-> nodes'[p].data]
    BY <1>8, <1>10, WrittenInNodeNext
  <2>2. Written(p).data = nodes[p].data
    BY <1>10, WrittenInNode
  <2>3. ASSUME NEW q \in Path \ {p}
        PROVE  Written(q)' = Written(q)
    <3>1. \A d \in Late(q) : d \in Client /\ d # c
      BY <1>7 DEF Late, Using
    <3> QED BY <1>6, <1>8, <3>1, WrittenSame
  <2> QED BY <1>5, <1>6, <2>1, <2>2, <2>3
<1>12. NodesOK'
  BY <1>5, <1>6, <1>8 DEF FileInv, NodesOK
<1>13. PendingOK'
  <2>1. Sought(rest) \in Nat
    BY <1>2, SoughtRest DEF TypeOK
  <2>2. Len(h(k).pending) <= h(k).pos
    BY <1>4, <2>1
  <2> QED BY <1>4, <1>6, <2>2 DEF FileInv, PendingOK
<1>14. SystemCalls'
  BY <1>4, <1>6, PlatformStays DEF FileInv, SystemCalls
<1>15. Streams'
  <2> SUFFICES ASSUME Stdio
               PROVE  /\ \A q \in Path : \A d, e \in Using(q)' : d = e
                      /\ \A d \in Client, q \in Path :
                           /\ handle'[d].op = "appe" /\ ~handle'[d].app /\ q \in handle'[d].on
                           => handle'[d].pos - Len(handle'[d].pending) = Len(nodes'[q].data)
                      /\ ~Can("read only") => \A q \in Path : nodes'[q].free
    BY PlatformStays DEF Streams
  <2>1. ASSUME NEW q \in Path, NEW d \in Using(q)', NEW e \in Using(q)'
        PROVE  d = e
    <3>1. CASE q = p
      <4>1. Using(p)' = {c}
        BY <1>8, <1>9
      <4> QED BY <2>1, <3>1, <4>1
    <3>2. CASE q # p
      <4>1. d \in Using(q) /\ e \in Using(q)
        BY <1>8, <2>1, <3>2
      <4> QED BY <4>1 DEF FileInv, Streams
    <3> QED BY <3>1, <3>2
  <2>2. ASSUME NEW d \in Client, NEW q \in Path,
               handle'[d].op = "appe", ~handle'[d].app, q \in handle'[d].on
        PROVE  handle'[d].pos - Len(handle'[d].pending) = Len(nodes'[q].data)
    <3>1. CASE d = c
      <4>1. q = p /\ op = "appe" /\ ~Appends(flags)
        BY <1>4, <1>6, <2>2, <3>1
      <4>2. Sought(rest) = 0 /\ nodes[p].data = <<>>
        BY <4>1
      <4>3. nodes'[p].data = <<>>
        BY <1>5, <1>6, <4>2
      <4>4. handle'[d].pos = 0 /\ handle'[d].pending = <<>>
        BY <1>4, <1>6, <3>1, <4>2
      <4>5. nodes'[q].data = <<>> /\ Len(<<>>) = 0
        BY <4>1, <4>3
      <4>6. Len(handle'[d].pending) = 0 /\ Len(nodes'[q].data) = 0
        BY <4>4, <4>5
      <4>7. 0 - 0 = 0
        OBVIOUS
      <4> QED BY <4>4, <4>6, <4>7, Zenon
    <3>2. CASE d # c
      <4>1. handle'[d] = handle[d]
        BY <1>6, <3>2
      <4>2. d \in Using(q)
        BY <1>2, <2>2, <4>1, OpenIs DEF Using, Transfers
      <4>3. q # p
        BY <1>9, <4>2
      <4>4. nodes'[q] = nodes[q]
        BY <1>6, <4>3
      <4> QED BY <2>2, <4>1, <4>4 DEF FileInv, Streams
    <3> QED BY <3>1, <3>2
  <2>3. ASSUME ~Can("read only"), NEW q \in Path
        PROVE  nodes'[q].free
    BY <1>5, <1>6, <2>3 DEF FileInv, Streams
  <2> QED BY <2>1, <2>2, <2>3
<1> QED BY <1>2, <1>4, <1>6, <1>11, <1>12, <1>13, <1>14, <1>15 DEF FileInv

\* A client takes up, or goes on with, what writes nothing.
LEMMA QuietKeeps ==
  ASSUME FileInv, TypeOK', NEW c \in Client, NEW h \in Handle,
         handle' = [handle EXCEPT ![c] = h],
         UNCHANGED <<platform, nodes>>,
         \/ h.op = handle[c].op /\ h.op = "retr" /\ h.on = handle[c].on /\ Open(c) /\ Open(c)'
         \/ h.op = "list" /\ h.dir /\ (handle[c].dir \/ ~Open(c)),
         ~h.app, h.pending = <<>>, handle[c].pending = <<>>
  PROVE  /\ FileInv'
         /\ \A q \in Path : Written(q)' = Written(q)
         /\ handle'[c] = h /\ \A d \in Client \ {c} : handle'[d] = handle[d]
<1>1. /\ handle'[c] = h /\ \A d \in Client \ {c} : handle'[d] = handle[d]
  BY DEF FileInv, TypeOK
<1>2. ASSUME NEW q \in Path
      PROVE  Using(q)' = Using(q) /\ Late(q)' = Late(q)
  <2>1. c \in Using(q)' <=> c \in Using(q)
    <3>1. CASE h.op = handle[c].op /\ h.op = "retr" /\ h.on = handle[c].on /\ Open(c) /\ Open(c)'
      <4>1. ~handle[c].dir /\ ~h.dir
        BY <1>1, <3>1, OpenIs DEF FileInv, TypeOK, HandleOK
      <4> QED BY <1>1, <3>1, <4>1 DEF Using
    <3>2. CASE h.op = "list" /\ h.dir /\ (handle[c].dir \/ ~Open(c))
      BY <1>1, <3>2 DEF Using
    <3> QED BY <3>1, <3>2
  <2>2. c \notin Late(q)' /\ c \notin Late(q)
    BY <1>1 DEF Late
  <2> QED BY <1>1, <2>1, <2>2, OtherUsers
<1>3. ASSUME NEW q \in Path
      PROVE  Written(q)' = Written(q)
  <2>1. \A d \in Late(q) : d \in Client /\ d # c
    BY DEF Late, Using
  <2> QED BY <1>1, <1>2, <2>1, WrittenSame
<1>4. NodesOK'
  BY <1>2 DEF FileInv, NodesOK
<1>5. PendingOK'
  <2>1. Len(h.pending) <= h.pos
    <3>1. Len(h.pending) = 0
      OBVIOUS
    <3> QED BY <3>1 DEF Handle
  <2> QED BY <1>1, <2>1 DEF FileInv, PendingOK
<1>6. h.op # "appe"
  OBVIOUS
<1>7. SystemCalls'
  BY <1>1, <1>6, PlatformStays DEF FileInv, SystemCalls
<1>8. Streams'
  <2> SUFFICES ASSUME Stdio
               PROVE  /\ \A q \in Path : \A d, e \in Using(q)' : d = e
                      /\ \A d \in Client, q \in Path :
                           /\ handle'[d].op = "appe" /\ ~handle'[d].app /\ q \in handle'[d].on
                           => handle'[d].pos - Len(handle'[d].pending) = Len(nodes'[q].data)
                      /\ ~Can("read only") => \A q \in Path : nodes'[q].free
    BY PlatformStays DEF Streams
  <2> QED BY <1>1, <1>2, <1>6 DEF FileInv, Streams
<1> QED BY <1>1, <1>3, <1>4, <1>5, <1>7, <1>8 DEF FileInv

\* What a transfer had pending is in the file when it ends.
LEMMA EndKeeps ==
  ASSUME FileInv, Bearable, NEW c \in Client, Open(c), ftpclient_data_end(c, handle[c]), UNCHANGED platform
  PROVE  /\ FileInv'
         /\ \A q \in Path : Written(q)' = Written(q)
         /\ handle'[c] = Closed /\ \A d \in Client \ {c} : handle'[d] = handle[d]
<1>1. /\ TypeOK /\ TypeOK' /\ handle'[c] = Closed /\ Ending(c, handle[c])
      /\ \A d \in Client \ {c} : handle'[d] = handle[d]
  <2>1. TypeOK /\ handle[c] \in Handle
    BY DEF FileInv, TypeOK
  <2> QED BY <2>1, EndTypes, EndIs
<1>2. \A q \in Path : c \notin Using(q)' /\ c \notin Late(q)'
  BY <1>1 DEF Using, Late, Open
<1>3. \A q \in Path : Using(q)' = Using(q) \ {c} /\ Late(q)' = Late(q) \ {c}
  BY <1>1, <1>2, OtherUsers
<1>4. handle[c] \in Handle /\ \A q \in Path : nodes[q] \in Node /\ nodes[q].data \in Data
  BY <1>1 DEF TypeOK, Node, Data
<1>5. ASSUME NEW q \in Path
      PROVE  /\ nodes'[q].kind = nodes[q].kind /\ nodes'[q].free = nodes[q].free
             /\ nodes'[q].data = IF c \in Late(q) THEN Flushed(handle[c], nodes[q].data) ELSE nodes[q].data
  <2>1. CASE handle[c].dir
    <3>1. UNCHANGED nodes /\ c \notin Late(q)
      BY <1>1, <2>1 DEF Ending, DirCloses, Late, Using
    <3> QED BY <3>1
  <2>2. CASE ~handle[c].dir
    <3>1. FileCloses(handle[c])
      BY <1>1, <2>2 DEF Ending
    <3>2. ~(Can("disk full") /\ handle[c].pending # <<>>)
      <4>1. SUFFICES ASSUME Can("disk full"), handle[c].pending # <<>>
                     PROVE  FALSE
        OBVIOUS
      <4>2. Stdio
        BY <4>1 DEF FileInv, SystemCalls
      <4>3. "disk full" \in {"read only", "far rest"}
        BY <1>1, <4>1, <4>2, StreamsAre DEF TypeOK
      <4> QED BY <4>3
    <3>3. nodes' = [p \in Path |-> IF p \in handle[c].on
                                   THEN [nodes[p] EXCEPT !.data = Flushed(handle[c], @)]
                                   ELSE nodes[p]]
      BY <3>1, <3>2 DEF FileCloses, Flush
    <3>4. CASE q \in handle[c].on
      <4> DEFINE d == Flushed(handle[c], nodes[q].data)
      <4>1. nodes'[q] = [nodes[q] EXCEPT !.data = d]
        BY <3>3, <3>4
      <4> HIDE DEF d
      <4>2. nodes'[q].kind = nodes[q].kind /\ nodes'[q].free = nodes[q].free /\ nodes'[q].data = d
        BY <1>4, <4>1 DEF Node
      <4>3. c \in Late(q) <=> handle[c].pending # <<>>
        BY <2>2, <3>4 DEF Late, Using
      <4>4. handle[c].pending = <<>> => d = nodes[q].data
        BY <1>4, NothingPending DEF d
      <4> QED BY <4>2, <4>3, <4>4 DEF d
    <3>5. CASE q \notin handle[c].on
      <4>1. nodes'[q] = nodes[q] /\ c \notin Late(q)
        BY <3>3, <3>5 DEF Late, Using
      <4> QED BY <4>1
    <3> QED BY <3>4, <3>5
  <2> QED BY <2>1, <2>2
<1>6. ASSUME NEW q \in Path
      PROVE  Written(q)' = Written(q)
  <2>1. CASE c \in Late(q)
    <3>1. Late(q) = {c}
      BY <2>1, LateIs
    <3>2. Late(q)' = {}
      BY <1>3, <3>1
    <3>3. Written(q) = [kind |-> nodes[q].kind, data |-> Flushed(handle[c], nodes[q].data)]
      BY <3>1, WrittenIs, KeptByOne
    <3>4. Written(q)' = [kind |-> nodes'[q].kind, data |-> nodes'[q].data]
      BY <3>2, WrittenInNodeNext
    <3> QED BY <1>5, <2>1, <3>3, <3>4
  <2>2. CASE c \notin Late(q)
    <3>1. Late(q)' = Late(q)
      BY <1>3, <2>2
    <3>2. \A d \in Late(q) : d \in Client /\ d # c
      BY <2>2 DEF Late, Using
    <3> QED BY <1>1, <1>5, <2>2, <3>1, <3>2, WrittenSame
  <2> QED BY <2>1, <2>2
<1>7. NodesOK'
  <2>1. ASSUME NEW q \in Path
        PROVE  /\ nodes'[q].kind # "file" => nodes'[q].data = <<>>
               /\ Using(q)' # {} => nodes'[q].kind = "file"
    <3>1. c \in Late(q) => nodes[q].kind = "file"
      BY DEF FileInv, NodesOK, Late
    <3> QED BY <1>3, <1>5, <3>1 DEF FileInv, NodesOK
  <2> QED BY <2>1 DEF NodesOK
<1>8. Closed.pending = <<>> /\ Closed.app = FALSE /\ Closed.pos = 0 /\ Closed.op = "none"
  BY DEF Closed
<1>9. PendingOK'
  <2>1. Len(Closed.pending) = 0
    BY <1>8
  <2> QED BY <1>1, <1>8, <2>1 DEF FileInv, PendingOK
<1>10. SystemCalls'
  BY <1>1, <1>8, PlatformStays DEF FileInv, SystemCalls
<1>11. Streams'
  <2> SUFFICES ASSUME Stdio
               PROVE  /\ \A q \in Path : \A d, e \in Using(q)' : d = e
                      /\ \A d \in Client, q \in Path :
                           /\ handle'[d].op = "appe" /\ ~handle'[d].app /\ q \in handle'[d].on
                           => handle'[d].pos - Len(handle'[d].pending) = Len(nodes'[q].data)
                      /\ ~Can("read only") => \A q \in Path : nodes'[q].free
    BY PlatformStays DEF Streams
  <2>1. \A q \in Path : \A d, e \in Using(q)' : d = e
    BY <1>3 DEF FileInv, Streams
  <2>2. ASSUME NEW d \in Client, NEW q \in Path,
               handle'[d].op = "appe", ~handle'[d].app, q \in handle'[d].on
        PROVE  handle'[d].pos - Len(handle'[d].pending) = Len(nodes'[q].data)
    <3>1. d # c /\ handle'[d] = handle[d]
      BY <1>1, <1>8, <2>2
    <3>2. d \in Using(q)
      BY <1>1, <2>2, <3>1, OpenIs DEF Using, Transfers
    <3>3. c \notin Late(q)
      BY <3>1, <3>2 DEF FileInv, Streams, Late
    <3>4. nodes'[q].data = nodes[q].data
      BY <1>5, <3>3
    <3> QED BY <2>2, <3>1, <3>4 DEF FileInv, Streams
  <2>3. ~Can("read only") => \A q \in Path : nodes'[q].free
    BY <1>5 DEF FileInv, Streams
  <2> QED BY <2>1, <2>2, <2>3
<1> QED BY <1>1, <1>6, <1>7, <1>9, <1>10, <1>11 DEF FileInv

\* The block that is written is written once more behind what was, or at the end.
LEMMA OneMoreBlock ==
  ASSUME NEW g \in Handle, NEW h \in Handle, NEW d \in Data, NEW b \in Block,
         h.pending = Append(g.pending, b), h.pos = g.pos + 1, h.app <=> g.app,
         Len(g.pending) <= g.pos
  PROVE  Flushed(h, d) = IF g.app THEN Append(Flushed(g, d), b)
                                  ELSE Store!WriteAt(Flushed(g, d), g.pos, b)
<1>1. g.pending \in Seq(Block) /\ Len(g.pending) \in Nat /\ g.pos \in Nat
  BY DEF Handle
<1>2. CASE g.app
  <2> DEFINE y == <<b>>
             f == d \o g.pending
  <2>1. g.pending \in Data /\ d \in Data /\ b \in Block \cup {Hole}
    BY <1>1, SeqMonotonic DEF Data
  <2>2. Append(g.pending, b) = g.pending \o y
    BY <1>1, AppendIsConcat
  <2>3. f \in Data
    BY <2>1, ConcatProperties DEF Data
  <2>4. Append(f, b) = f \o y
    BY <2>1, <2>3, AppendIsConcat DEF Data
  <2>5. y \in Data
    BY <2>1 DEF Data
  <2> HIDE DEF y
  <2>6. f \o y = d \o (g.pending \o y)
    <3> DEFINE x == g.pending
    <3>1. x \in Seq(Block \cup {Hole}) /\ d \in Seq(Block \cup {Hole}) /\ y \in Seq(Block \cup {Hole})
      BY <2>1, <2>5 DEF Data
    <3> HIDE DEF x
    <3>2. (d \o x) \o y = d \o (x \o y)
      BY <3>1, ConcatAssociative
    <3> QED BY <3>2 DEF x
  <2> QED BY <1>2, <2>2, <2>4, <2>6 DEF Flushed
<1>3. CASE ~g.app
  <2> DEFINE at == g.pos - Len(g.pending)
  <2>1. at \in Nat /\ at + Len(g.pending) = g.pos
    BY <1>1
  <2>2. Len(h.pending) = Len(g.pending) + 1
    BY <1>1
  <2>3. h.pos - Len(h.pending) = at
    <3>1. \A x, y \in Nat : (x + 1) - (y + 1) = x - y
      OBVIOUS
    <3> QED BY <1>1, <2>2, <3>1
  <2>4. Flushed(h, d) = Put(d, at, Append(g.pending, b))
    BY <1>3, <2>3 DEF Flushed
  <2>5. Flushed(g, d) = Put(d, at, g.pending)
    BY <1>3 DEF Flushed
  <2> HIDE DEF at
  <2>6. Put(d, at, Append(g.pending, b)) = Store!WriteAt(Put(d, at, g.pending), at + Len(g.pending), b)
    BY <1>1, <2>1, PutOneMore
  <2> QED BY <1>3, <2>1, <2>4, <2>5, <2>6
<1> QED BY <1>2, <1>3

\* At the end of a file writing there is appending.
LEMMA WriteAtEndAppends ==
  ASSUME NEW s \in Data, NEW b \in Block
  PROVE  Store!WriteAt(s, Len(s), b) = Append(s, b)
<1>1. Len(s) \in Nat /\ b \in Block \cup {Hole}
  BY DEF Data
<1> DEFINE f == [k \in 1..(IF Len(s) < Len(s) THEN Len(s) ELSE Len(s) + 1) |->
                   IF k = Len(s) + 1 THEN b ELSE IF k <= Len(s) THEN s[k] ELSE Hole]
           g == [k \in 1..Len(s) + 1 |-> IF k = Len(s) + 1 THEN b ELSE s[k]]
<1>2. f = g
  BY <1>1
<1>3. Store!WriteAt(s, Len(s), b) = f
  BY DEF Store!WriteAt
<1> HIDE DEF f, g
<1>4. Append(s, b) = g
  <2>1. /\ Len(Append(s, b)) = Len(s) + 1 /\ Append(s, b) \in Data
        /\ \A k \in 1..Len(s) + 1 : Append(s, b)[k] = IF k = Len(s) + 1 THEN b ELSE s[k]
    BY <1>1, AppendProperties DEF Data
  <2>2. \A u \in Data : u = [k \in 1..Len(u) |-> u[k]]
    BY DEF Data
  <2>3. Append(s, b) = [k \in 1..Len(s) + 1 |-> Append(s, b)[k]]
    BY <2>1, <2>2
  <2> QED BY <2>1, <2>3 DEF g
<1> QED BY <1>2, <1>3, <1>4

\* What APPE writes goes to the end even where the file was opened as STOR opens it.
LEMMA AppeAtEnd ==
  ASSUME FileInv, NEW c \in Client, NEW p \in Path, handle[c].op = "appe", p \in handle[c].on,
         ~handle[c].app
  PROVE  Len(Flushed(handle[c], nodes[p].data)) = handle[c].pos
<1>1. Stdio
  BY DEF FileInv, SystemCalls
<1>2. /\ handle[c].pending \in Seq(Block) /\ handle[c].pos \in Nat
      /\ handle[c].pos - Len(handle[c].pending) = Len(nodes[p].data) /\ nodes[p].data \in Data
  BY <1>1 DEF FileInv, Streams, TypeOK, Handle, Node, Data
<1> DEFINE bs == handle[c].pending
           s == nodes[p].data
<1>3. Flushed(handle[c], s) = Put(s, Len(s), bs)
  BY <1>2 DEF Flushed
<1>4. bs \in Seq(Block \cup {Hole}) /\ s \in Seq(Block \cup {Hole})
  BY <1>2, SeqMonotonic DEF Data
<1> HIDE DEF bs, s
<1>5. Put(s, Len(s), bs) = s \o bs /\ Len(s \o bs) = Len(s) + Len(bs)
  BY <1>2, <1>4, WriteAtEnd, ConcatProperties DEF Data, bs
<1>6. Len(s) \in Nat /\ Len(bs) \in Nat
  BY <1>4
<1>7. \A x, y, z \in Nat : x - y = z => z + y = x
  OBVIOUS
<1>8. Len(s) + Len(bs) = handle[c].pos
  BY <1>2, <1>6, <1>7 DEF bs, s
<1> QED BY <1>3, <1>5, <1>8 DEF s

\* Through system calls, a block that is not written, or in part, is all that is lost.
LEMMA TornKeeps ==
  ASSUME FileInv, ~Stdio, NEW c \in Client, NEW p \in Path, p \in handle[c].on,
         handle[c].op \in {"stor", "appe"}, NEW b \in Block,
         ftpclient_data_end(c, With(handle[c], b)), UNCHANGED platform
  PROVE  /\ FileInv'
         /\ Written(p)' = [kind |-> Written(p).kind,
                           data |-> IF handle[c].op = "stor"
                                    THEN Store!WriteAt(Written(p).data, handle[c].pos, b)
                                    ELSE Append(Written(p).data, b)]
         /\ \A q \in Path \ {p} : Written(q)' = Written(q)
         /\ handle'[c] = Closed /\ \A d \in Client \ {c} : handle'[d] = handle[d]
<1>1. TypeOK /\ handle[c] \in Handle /\ nodes[p].data \in Data /\ nodes[p] \in Node
  BY DEF FileInv, TypeOK, Node, Data
<1>2. PICK h \in Handle :
        /\ h = With(handle[c], b)
        /\ h.op = handle[c].op /\ h.dir = handle[c].dir /\ h.data = handle[c].data
        /\ h.on = handle[c].on /\ h.pos = handle[c].pos + 1 /\ h.app = handle[c].app
        /\ h.pending = Append(handle[c].pending, b)
  BY <1>1, WriteHandle
<1> DEFINE d0 == nodes[p].data
           F == Flushed(h, d0)
<1>3. /\ TypeOK' /\ handle'[c] = Closed /\ Ending(c, h)
      /\ \A d \in Client \ {c} : handle'[d] = handle[d]
  BY <1>1, <1>2, EndTypes, EndIs
<1>4. ~handle[c].dir /\ handle[c].on = {p} /\ Open(c)
  <2>1. handle[c].op \in Transfers
    BY DEF Transfers
  <2> QED BY <1>1, <2>1, OpenIs DEF TypeOK, HandleOK, Transfers
<1>5. \A q \in Path : Using(q)' \subseteq Using(q) /\ Late(q) = {} /\ Late(q)' = {}
  <2>1. \A q \in Path : c \notin Using(q)'
    BY <1>3 DEF Using, Open
  <2>2. \A q \in Path : c \notin Late(q)'
    BY <2>1 DEF Late
  <2>3. \A q \in Path : Using(q)' = Using(q) \ {c} /\ Late(q)' = Late(q) \ {c}
    BY <1>3, <2>1, <2>2, OtherUsers
  <2>4. \A q \in Path : Late(q) = {}
    BY LateIs
  <2> QED BY <2>3, <2>4
<1>6. nodes' = [q \in Path |-> IF q \in {p} THEN [nodes[q] EXCEPT !.data = Flushed(h, @)] ELSE nodes[q]]
  <2>1. FileCloses(h)
    BY <1>2, <1>3, <1>4 DEF Ending
  <2> QED BY <1>2, <1>4, <2>1 DEF FileCloses, Flush
<1>7. /\ nodes'[p].kind = nodes[p].kind /\ nodes'[p].data = F
      /\ \A q \in Path \ {p} : nodes'[q] = nodes[q]
  <2>1. nodes'[p] = [nodes[p] EXCEPT !.data = F]
    BY <1>6
  <2> HIDE DEF F
  <2>2. nodes'[p].kind = nodes[p].kind /\ nodes'[p].data = F
    BY <1>1, <2>1 DEF Node
  <2> QED BY <1>6, <2>2
<1>8. F = IF handle[c].op = "stor" THEN Store!WriteAt(d0, handle[c].pos, b) ELSE Append(d0, b)
  <2>1. handle[c].pending = <<>> /\ (handle[c].app <=> handle[c].op = "appe")
        /\ Len(handle[c].pending) <= handle[c].pos
    BY DEF FileInv, SystemCalls, PendingOK
  <2>2. Flushed(handle[c], d0) = d0
    BY <1>1, <2>1, NothingPending
  <2>3. h.app <=> handle[c].app
    BY <1>2
  <2>4. F = IF handle[c].app THEN Append(Flushed(handle[c], d0), b)
                            ELSE Store!WriteAt(Flushed(handle[c], d0), handle[c].pos, b)
    <3>1. Len(handle[c].pending) <= handle[c].pos
      BY <2>1
    <3>2. PICK g \in Handle : g = handle[c]
      BY <1>1
    <3>3. /\ h.pending = Append(g.pending, b) /\ h.pos = g.pos + 1
          /\ Len(g.pending) <= g.pos
      BY <1>2, <3>1, <3>2
    <3>4. h.app <=> g.app
      BY <2>3, <3>2
    <3>5. d0 \in Data
      BY <1>1
    <3> HIDE DEF d0
    <3>6. Flushed(h, d0) = IF g.app THEN Append(Flushed(g, d0), b)
                           ELSE Store!WriteAt(Flushed(g, d0), g.pos, b)
      BY <3>3, <3>4, <3>5, OneMoreBlock
    <3> QED BY <3>2, <3>6
  <2> QED BY <2>1, <2>2, <2>4
<1> HIDE DEF F
<1>9. Written(p) = [kind |-> nodes[p].kind, data |-> d0]
  BY <1>5, WrittenInNode
<1>10. Written(p)' = [kind |-> nodes[p].kind, data |-> F]
  BY <1>5, <1>7, WrittenInNodeNext
<1>11. ASSUME NEW q \in Path \ {p}
       PROVE  Written(q)' = Written(q)
  BY <1>5, <1>7, WrittenInNode, WrittenInNodeNext
<1>12. NodesOK'
  <2>1. ASSUME NEW q \in Path
        PROVE  /\ nodes'[q].kind # "file" => nodes'[q].data = <<>>
               /\ Using(q)' # {} => nodes'[q].kind = "file"
    <3>1. CASE q = p
      <4>1. c \in Using(p)
        BY <1>4 DEF Using
      <4> QED BY <1>7, <3>1, <4>1 DEF FileInv, NodesOK
    <3>2. CASE q # p
      BY <1>5, <1>7, <3>2 DEF FileInv, NodesOK
    <3> QED BY <3>1, <3>2
  <2> QED BY <2>1 DEF NodesOK
<1>13. Closed.pending = <<>> /\ Closed.app = FALSE /\ Closed.pos = 0 /\ Closed.op = "none"
  BY DEF Closed
<1>14. PendingOK'
  <2>1. Len(Closed.pending) = 0
    BY <1>13
  <2> QED BY <1>3, <1>13, <2>1 DEF FileInv, PendingOK
<1>15. SystemCalls' /\ Streams'
  <2>1. SystemCalls'
    BY <1>3, <1>13, PlatformStays DEF FileInv, SystemCalls
  <2>2. Streams'
    BY PlatformStays DEF Streams
  <2> QED BY <2>1, <2>2
<1>16. Written(p)' = [kind |-> Written(p).kind,
                      data |-> IF handle[c].op = "stor"
                               THEN Store!WriteAt(Written(p).data, handle[c].pos, b)
                               ELSE Append(Written(p).data, b)]
  BY <1>8, <1>9, <1>10
<1> QED BY <1>3, <1>11, <1>12, <1>14, <1>15, <1>16 DEF FileInv

\* A block is written, or kept to be written.
LEMMA WriteKeeps ==
  ASSUME FileInv, NEW c \in Client, NEW p \in Path, p \in handle[c].on,
         handle[c].op \in {"stor", "appe"}, NEW b \in Block, ssftpFsWrite(c, p, b),
         UNCHANGED <<platform, objects, containers>>
  PROVE  /\ FileInv'
         /\ Written(p)' = [kind |-> Written(p).kind,
                           data |-> IF handle[c].op = "stor"
                                    THEN Store!WriteAt(Written(p).data, handle[c].pos, b)
                                    ELSE Append(Written(p).data, b)]
         /\ \A q \in Path \ {p} : Written(q)' = Written(q)
         /\ \A d \in Client \ {c} : handle'[d] = handle[d]
         /\ handle'[c].op = handle[c].op /\ handle'[c].on = handle[c].on
         /\ handle'[c].pos = handle[c].pos + 1
<1>1. PICK full \in Handle, h \in Handle :
        /\ full.op = handle[c].op /\ full.dir = handle[c].dir /\ full.data = handle[c].data
        /\ full.on = handle[c].on /\ full.pos = handle[c].pos + 1
        /\ full.app = handle[c].app /\ full.pending = Append(handle[c].pending, b)
        /\ h.op = full.op /\ h.dir = full.dir /\ h.data = full.data
        /\ h.on = full.on /\ h.pos = full.pos /\ h.app = full.app
        /\ Holds(c, h)
        /\ \/ Stdio /\ h = full /\ UNCHANGED nodes
           \/ h.pending = <<>> /\ nodes' = [nodes EXCEPT ![p].data = Flushed(full, @)]
  BY WriteIs DEF FileInv
<1> DEFINE d0 == nodes[p].data
           F == Flushed(full, d0)
           W == Written(p).data
<1>2. /\ TypeOK /\ handle[c] \in Handle /\ d0 \in Data /\ nodes[p].kind \in {"none", "dir", "file"}
      /\ handle[c].pending \in Seq(Block) /\ handle[c].pos \in Nat /\ Len(handle[c].pending) \in Nat
  BY DEF FileInv, TypeOK, Handle, Node, Data
<1>3. \/ Stdio /\ h = full /\ UNCHANGED nodes
      \/ /\ h.pending = <<>>
         /\ nodes' \in [Path -> Node] /\ nodes'[p].data = F /\ F \in Data
         /\ nodes'[p].kind = nodes[p].kind /\ nodes'[p].free = nodes[p].free
         /\ \A q \in Path \ {p} : nodes'[q] = nodes[q]
  BY <1>1, <1>2, WrittenNode
<1>4. nodes' \in [Path -> Node]
  BY <1>2, <1>3 DEF TypeOK
<1>5. /\ TypeOK' /\ handle'[c] = h /\ \A d \in Client \ {c} : handle'[d] = handle[d]
  <2>1. handle[c].op # "none" /\ handle[c].op # "list"
    OBVIOUS
  <2> QED BY <1>1, <1>2, <1>4, <2>1, MoveTypes
<1>6. ~handle[c].dir /\ Open(c) /\ handle[c].on = {p} /\ ~h.dir /\ Open(c)'
  <2>1. handle[c].op \in Transfers
    BY DEF Transfers
  <2>2. ~handle[c].dir /\ Open(c) /\ handle[c].on = {p}
    BY <1>2, <2>1, OpenIs DEF TypeOK, HandleOK, Transfers
  <2>3. h.op # "none"
    BY <1>1
  <2> QED BY <1>1, <1>5, <2>2, <2>3 DEF Open, Closed
<1>7. /\ c \in Using(p) /\ \A q \in Path : Using(q)' = Using(q)
      /\ \A q \in Path \ {p} : c \notin Using(q) /\ Late(q)' = Late(q)
  <2>1. c \in Using(p) /\ c \in Using(p)'
    BY <1>1, <1>5, <1>6 DEF Using
  <2>2. \A q \in Path \ {p} : c \notin Using(q) /\ c \notin Using(q)'
    BY <1>1, <1>5, <1>6 DEF Using
  <2>3. \A q \in Path \ {p} : c \notin Late(q) /\ c \notin Late(q)'
    BY <2>2 DEF Late
  <2>4. ASSUME NEW q \in Path
        PROVE  Using(q)' = Using(q)
    BY <1>5, <2>1, <2>2, OtherUsers
  <2>5. ASSUME NEW q \in Path \ {p}
        PROVE  Late(q)' = Late(q)
    BY <1>5, <2>3, OtherUsers
  <2> QED BY <2>1, <2>2, <2>4, <2>5
<1>8. Stdio => Using(p) = {c}
  <2>1. Stdio => \A d \in Using(p) : d = c
    BY <1>7 DEF FileInv, Streams
  <2> QED BY <1>7, <2>1
<1>9. W = Flushed(handle[c], d0) /\ W \in Data /\ Written(p).kind = nodes[p].kind
  <2>1. CASE Late(p) = {}
    <3>1. handle[c].pending = <<>>
      BY <1>7, <2>1 DEF Late
    <3> QED BY <1>2, <2>1, <3>1, WrittenInNode, NothingPending
  <2>2. ASSUME NEW e \in Client, Late(p) = {e}, Using(p) = {e}
        PROVE  W = Flushed(handle[c], d0)
    <3>1. Late(p) = {c}
      BY <1>7, <2>2
    <3>2. Written(p) = [kind |-> nodes[p].kind, data |-> Flushed(handle[c], nodes[p].data)]
      BY <3>1, WrittenIs, KeptByOne
    <3> QED BY <3>2
  <2>3. W = Flushed(handle[c], d0)
    BY <2>1, <2>2, LateIs
  <2> QED BY <2>3, WrittenTypes
<1>10. Len(handle[c].pending) <= handle[c].pos /\ (handle[c].app => handle[c].op = "appe")
  BY DEF FileInv, PendingOK
<1>11. handle[c].op = "appe" /\ ~handle[c].app => Len(W) = handle[c].pos
  BY <1>9, AppeAtEnd
<1>12. F = IF handle[c].op = "stor" THEN Store!WriteAt(W, handle[c].pos, b) ELSE Append(W, b)
  <2>1. F = IF handle[c].app THEN Append(W, b) ELSE Store!WriteAt(W, handle[c].pos, b)
    <3>1. full.app <=> handle[c].app
      BY <1>1
    <3>2. Flushed(full, d0) = IF handle[c].app THEN Append(Flushed(handle[c], d0), b)
                              ELSE Store!WriteAt(Flushed(handle[c], d0), handle[c].pos, b)
      BY <1>1, <1>2, <1>10, <3>1, OneMoreBlock
    <3> QED BY <1>9, <3>2
  <2>2. CASE handle[c].op = "stor"
    BY <1>10, <2>1, <2>2
  <2>3. CASE handle[c].op = "appe" /\ handle[c].app
    BY <2>1, <2>3
  <2>4. CASE handle[c].op = "appe" /\ ~handle[c].app
    <3>1. Store!WriteAt(W, Len(W), b) = Append(W, b)
      BY <1>9, WriteAtEndAppends
    <3> QED BY <1>11, <2>1, <2>4, <3>1
  <2> QED BY <2>2, <2>3, <2>4
<1> HIDE DEF F, W, d0
<1>13. Written(p)' = [kind |-> nodes[p].kind, data |-> F]
  <2>1. CASE Stdio /\ h = full /\ UNCHANGED nodes
    <3>1. handle'[c].pending # <<>>
      BY <1>1, <1>2, <1>5, <2>1
    <3>2. Late(p)' = {c}
      BY <1>7, <1>8, <2>1, <3>1 DEF Late
    <3>3. Written(p)' = [kind |-> nodes'[p].kind, data |-> Flushed(handle'[c], nodes'[p].data)]
      BY <3>2, WrittenIs, KeptByOne
    <3> QED BY <1>5, <2>1, <3>3 DEF F, d0
  <2>2. CASE h.pending = <<>> /\ nodes'[p].data = F /\ nodes'[p].kind = nodes[p].kind
    <3>1. Late(p)' = {}
      <4>1. c \notin Late(p)'
        BY <1>5, <2>2 DEF Late
      <4>2. Late(p)' = Late(p) \ {c}
        BY <1>5, <4>1, OtherUsers
      <4>3. Late(p) \ {c} = {}
        BY <1>8, LateIs DEF Late
      <4> QED BY <4>2, <4>3
    <3> QED BY <2>2, <3>1, WrittenInNodeNext
  <2> QED BY <1>3, <2>1, <2>2
<1>14. ASSUME NEW q \in Path \ {p}
       PROVE  Written(q)' = Written(q)
  <2>1. \A d \in Late(q) : d \in Client /\ d # c
    BY <1>7 DEF Late, Using
  <2>2. nodes'[q].kind = nodes[q].kind /\ nodes'[q].data = nodes[q].data
    BY <1>3
  <2> QED BY <1>5, <1>7, <2>1, <2>2, WrittenSame
<1>15. NodesOK'
  <2>1. nodes[p].kind = "file" /\ nodes'[p].kind = "file"
    BY <1>3, <1>7 DEF FileInv, NodesOK
  <2>2. ASSUME NEW q \in Path \ {p}
        PROVE  nodes'[q].kind = nodes[q].kind /\ nodes'[q].data = nodes[q].data
    BY <1>3
  <2> QED BY <1>7, <2>1, <2>2 DEF FileInv, NodesOK
<1>16. Len(h.pending) <= h.pos /\ h.app = handle[c].app /\ h.op = handle[c].op
  <2>1. Len(full.pending) = Len(handle[c].pending) + 1
    BY <1>1, <1>2
  <2>2. Len(full.pending) <= full.pos
    <3>1. \A x, y \in Nat : x <= y => x + 1 <= y + 1
      OBVIOUS
    <3> QED BY <1>1, <1>2, <1>10, <2>1, <3>1
  <2>3. CASE h.pending = <<>>
    <3>1. Len(h.pending) = 0
      BY <2>3
    <3> QED BY <1>1, <3>1 DEF Handle
  <2> QED BY <1>1, <1>3, <2>2, <2>3
<1>17. PendingOK'
  BY <1>5, <1>16 DEF FileInv, PendingOK
<1>18. SystemCalls'
  <2>1. ~Stdio => h.pending = <<>>
    BY <1>3
  <2> QED BY <1>5, <1>16, <2>1, PlatformStays DEF FileInv, SystemCalls
<1>19. Streams'
  <2> SUFFICES ASSUME Stdio
               PROVE  /\ \A q \in Path : \A d, e \in Using(q)' : d = e
                      /\ \A d \in Client, q \in Path :
                           /\ handle'[d].op = "appe" /\ ~handle'[d].app /\ q \in handle'[d].on
                           => handle'[d].pos - Len(handle'[d].pending) = Len(nodes'[q].data)
                      /\ ~Can("read only") => \A q \in Path : nodes'[q].free
    BY PlatformStays DEF Streams
  <2>1. ASSUME NEW q \in Path, NEW d \in Using(q)', NEW e \in Using(q)'
        PROVE  d = e
    <3>1. d \in Using(q) /\ e \in Using(q)
      BY <1>7
    <3> QED BY <3>1 DEF FileInv, Streams
  <2>2. ASSUME NEW d \in Client, NEW q \in Path,
               handle'[d].op = "appe", ~handle'[d].app, q \in handle'[d].on
        PROVE  handle'[d].pos - Len(handle'[d].pending) = Len(nodes'[q].data)
    <3>1. CASE d = c
      <4>1. q = p /\ handle[c].op = "appe" /\ ~handle[c].app
        BY <1>1, <1>5, <1>6, <1>16, <2>2, <3>1
      <4>2. CASE h = full /\ UNCHANGED nodes
        <5>1. handle[c].pos - Len(handle[c].pending) = Len(nodes[p].data)
          BY <1>6, <4>1 DEF FileInv, Streams
        <5>2. Len(h.pending) = Len(handle[c].pending) + 1 /\ h.pos = handle[c].pos + 1
          BY <1>1, <1>2, <4>2
        <5>3. \A x, y \in Nat : (x + 1) - (y + 1) = x - y
          OBVIOUS
        <5>4. (handle[c].pos + 1) - (Len(handle[c].pending) + 1) = Len(nodes[p].data)
          BY <1>2, <5>1, <5>3
        <5>5. h.pos - Len(h.pending) = Len(nodes[p].data)
          BY <5>2, <5>4, Zenon
        <5> QED BY <1>5, <3>1, <4>1, <4>2, <5>5
      <4>3. CASE h.pending = <<>> /\ nodes'[p].data = F
        <5>1. F = Append(W, b) /\ Len(W) = handle[c].pos
          BY <1>11, <1>12, <4>1
        <5>2. Len(Append(W, b)) = Len(W) + 1
          BY <1>9 DEF Data
        <5>3. Len(nodes'[q].data) = handle[c].pos + 1
          BY <4>1, <4>3, <5>1, <5>2
        <5>4. Len(handle'[d].pending) = 0 /\ handle'[d].pos = handle[c].pos + 1
          <6>1. Len(h.pending) = 0
            BY <4>3
          <6> QED BY <1>1, <1>5, <3>1, <6>1
        <5>5. \A x \in Nat : (x + 1) - 0 = x + 1
          OBVIOUS
        <5> QED BY <1>2, <5>3, <5>4, <5>5
      <4> QED BY <1>3, <4>2, <4>3
    <3>2. CASE d # c
      <4>1. handle'[d] = handle[d]
        BY <1>5, <3>2
      <4>2. d \in Using(q)
        BY <1>2, <2>2, <4>1, OpenIs DEF Using, Transfers
      <4>3. q # p
        BY <1>8, <3>2, <4>2
      <4>4. nodes'[q].data = nodes[q].data
        BY <1>3, <4>3
      <4> QED BY <2>2, <4>1, <4>4 DEF FileInv, Streams
    <3> QED BY <3>1, <3>2
  <2>3. ASSUME ~Can("read only"), NEW q \in Path
        PROVE  nodes'[q].free
    <3>1. nodes[q].free /\ nodes'[q].free = nodes[q].free
      BY <1>3, <2>3 DEF FileInv, Streams
    <3> QED BY <3>1
  <2> QED BY <2>1, <2>2, <2>3
<1>20. FileInv'
  BY <1>5, <1>15, <1>17, <1>18, <1>19 DEF FileInv
<1>21. Written(p)' = [kind |-> Written(p).kind,
                      data |-> IF handle[c].op = "stor"
                               THEN Store!WriteAt(W, handle[c].pos, b) ELSE Append(W, b)]
  BY <1>9, <1>12, <1>13
<1>22. handle'[c].op = handle[c].op /\ handle'[c].on = handle[c].on /\ handle'[c].pos = handle[c].pos + 1
  BY <1>1, <1>5
<1> QED BY <1>5, <1>14, <1>20, <1>21, <1>22 DEF W

\* Names change where nobody has a file open, and through system calls sizes do anywhere.
LEMMA NamesKeep ==
  ASSUME FileInv, nodes' \in [Path -> Node], UNCHANGED <<platform, handle, objects, containers>>,
         \A q \in Path : nodes'[q].kind # "file" => nodes'[q].data = <<>>,
         \A q \in Path : Using(q) # {} => nodes'[q].kind = nodes[q].kind
                                         /\ (Stdio => nodes'[q].data = nodes[q].data),
         Stdio /\ ~Can("read only") => \A q \in Path : nodes'[q].free
  PROVE  /\ FileInv'
         /\ \A q \in Path :
              /\ Using(q) = {} \/ ~Stdio => Written(q)' = [kind |-> nodes'[q].kind, data |-> nodes'[q].data]
              /\ nodes'[q].kind = nodes[q].kind /\ nodes'[q].data = nodes[q].data => Written(q)' = Written(q)
<1>1. TypeOK'
  BY DEF FileInv, TypeOK
<1>2. \A q \in Path : Using(q)' = Using(q) /\ Late(q)' = Late(q)
  BY DEF Using, Late, Open
<1>3. ASSUME NEW q \in Path
      PROVE  /\ Using(q) = {} \/ ~Stdio => Written(q)' = [kind |-> nodes'[q].kind, data |-> nodes'[q].data]
             /\ nodes'[q].kind = nodes[q].kind /\ nodes'[q].data = nodes[q].data => Written(q)' = Written(q)
  <2>1. Using(q) = {} \/ ~Stdio => Late(q)' = {}
    BY <1>2, LateIs DEF Late
  <2>2. \A d \in Late(q) : handle'[d] = handle[d]
    OBVIOUS
  <2> QED BY <1>2, <2>1, <2>2, WrittenInNodeNext, WrittenSame
<1>4. NodesOK'
  BY <1>2 DEF FileInv, NodesOK
<1>5. PendingOK'
  BY DEF FileInv, PendingOK
<1>6. SystemCalls'
  BY PlatformStays DEF FileInv, SystemCalls
<1>7. Streams'
  <2> SUFFICES ASSUME Stdio
               PROVE  /\ \A q \in Path : \A d, e \in Using(q)' : d = e
                      /\ \A d \in Client, q \in Path :
                           /\ handle'[d].op = "appe" /\ ~handle'[d].app /\ q \in handle'[d].on
                           => handle'[d].pos - Len(handle'[d].pending) = Len(nodes'[q].data)
                      /\ ~Can("read only") => \A q \in Path : nodes'[q].free
    BY PlatformStays DEF Streams
  <2>1. \A q \in Path : \A d, e \in Using(q)' : d = e
    BY <1>2 DEF FileInv, Streams
  <2>2. ASSUME NEW d \in Client, NEW q \in Path,
               handle'[d].op = "appe", ~handle'[d].app, q \in handle'[d].on
        PROVE  handle'[d].pos - Len(handle'[d].pending) = Len(nodes'[q].data)
    <3>1. d \in Using(q)
      BY <2>2, OpenIs DEF Using, Transfers, FileInv
    <3>2. nodes'[q].data = nodes[q].data
      BY <3>1
    <3> QED BY <2>2, <3>2 DEF FileInv, Streams
  <2> QED BY <2>1, <2>2
<1> QED BY <1>1, <1>3, <1>4, <1>5, <1>6, <1>7 DEF FileInv

------------------------------------------------------------------------------
(* What the flags make of a file *)

\* A stream is opened for reading alone, or for writing in one of three ways.
LEMMA Modes ==
  ASSUME NEW flags, flags \cap {"creat", "append"} = {},
         ~("rdonly" \in flags /\ "trunc" \in flags)
  PROVE  /\ "rdonly" \in flags /\ platform \notin ZeroRdonly => Mode(flags) = "r"
         /\ "rdonly" \in flags /\ platform \in ZeroRdonly => Mode(flags) = "rb+"
         /\ "rdonly" \notin flags /\ "trunc" \in flags => Mode(flags) = "wb+"
         /\ "rdonly" \notin flags /\ "trunc" \notin flags => Mode(flags) = "rb+"
<1> DEFINE none == flags \cap {"creat", "append"} = {}
           some == flags \cap {"creat", "append"} = {"append"}
<1>1. "creat" \notin flags /\ none /\ ~some
  OBVIOUS
<1>2. Mode(flags) =
        CASE "creat" \in flags                                             -> "wb"
          [] some                                                          -> "ab+"
          [] none /\ "rdonly" \in flags /\ platform \notin ZeroRdonly -> "r"
          [] none /\ "trunc" \in flags                                     -> "wb+"
          [] OTHER                                                         -> "rb+"
  BY DEF Mode
<1> HIDE DEF none, some
<1>3. CASE "rdonly" \in flags /\ platform \notin ZeroRdonly /\ "trunc" \notin flags
  BY <1>1, <1>2, <1>3
<1>4. CASE ~("rdonly" \in flags /\ platform \notin ZeroRdonly) /\ "trunc" \in flags
  BY <1>1, <1>2, <1>4
<1>5. CASE ~("rdonly" \in flags /\ platform \notin ZeroRdonly) /\ "trunc" \notin flags
  BY <1>1, <1>2, <1>5
<1> QED BY <1>3, <1>4, <1>5

LEMMA ModeCreat ==
  ASSUME NEW flags, "creat" \in flags
  PROVE  Mode(flags) = "wb"
BY DEF Mode

LEMMA ModeAppend ==
  ASSUME NEW flags, "creat" \notin flags, "append" \in flags
  PROVE  Mode(flags) = "ab+"
<1>1. flags \cap {"creat", "append"} = {"append"}
  OBVIOUS
<1> QED BY <1>1 DEF Mode

\* RETR finds every file, protected or not, and leaves it as it is.
LEMMA RetrFlags ==
  ASSUME FileInv, Bearable, NEW p \in Path
  PROVE  /\ ~Appends({"rdonly"}) /\ ~Empties({"rdonly"})
         /\ Opens(p, {"rdonly"}) <=> nodes[p].kind = "file"
<1> DEFINE F == {"rdonly"}
<1>1. "creat" \notin F /\ "append" \notin F /\ "trunc" \notin F /\ "wronly" \notin F /\ "rdonly" \in F
      /\ F \cap {"creat", "append"} = {}
  OBVIOUS
<1> HIDE DEF F
<1>2. CASE ~Stdio
  <2>1. ~Appends(F) /\ ~Empties(F) /\ ~Creates(F) /\ ~Writes(F)
    BY <1>1, <1>2 DEF Appends, Empties, Creates, Writes
  <2> QED BY <2>1 DEF Opens, F
<1>3. CASE Stdio
  <2>1. Mode(F) \in {"r", "rb+"} /\ (Mode(F) = "rb+" => platform \in ZeroRdonly)
    BY <1>1, Modes
  <2>2. ~Appends(F) /\ ~Empties(F) /\ ~Creates(F)
    BY <1>3, <2>1 DEF Appends, Empties, Creates
  <2>3. Writes(F) => nodes[p].free
    <3> SUFFICES ASSUME Writes(F)
                 PROVE  nodes[p].free
      OBVIOUS
    <3>1. platform \in ZeroRdonly
      BY <1>3, <2>1 DEF Writes
    <3>2. Can("read only") => platform \notin ZeroRdonly \/ "read only" = "far rest"
      BY <1>3, StreamsAre DEF FileInv, TypeOK
    <3>3. ~Can("read only")
      BY <3>1, <3>2
    <3> QED BY <1>3, <3>3 DEF FileInv, Streams
  <2> QED BY <2>2, <2>3 DEF Opens, F
<1> QED BY <1>2, <1>3

\* What stat says, where it does not fail.
LEMMA SeenIs ==
  ASSUME FileInv, Bearable, NEW p \in Path, NEW seen \in Seen(p), Stdio
  PROVE  seen <=> nodes[p].kind # "none"
<1>1. ~Can("stat fails")
  <2>1. SUFFICES ASSUME Can("stat fails")
                 PROVE  FALSE
    OBVIOUS
  <2>2. "stat fails" \in {"read only", "far rest"}
    BY <2>1, StreamsAre DEF FileInv, TypeOK
  <2> QED BY <2>2
<1>2. PICK b \in {nodes[p].kind # "none"} : seen = Found(b)
  BY <1>1 DEF Seen
<1>3. b \in BOOLEAN /\ (b <=> nodes[p].kind # "none")
  BY <1>2
<1>4. Found(b) <=> b
  BY <1>3, AnswersAre DEF FileInv, TypeOK
<1>5. seen \in BOOLEAN
  BY <1>2 DEF Found
<1> QED BY <1>2, <1>3, <1>4, <1>5

\* STOR empties a file unless REST was given, and does not append.
LEMMA StorFlags ==
  ASSUME FileInv, Bearable, NEW p \in Path, NEW rest \in Nat, NEW seen \in Seen(p),
         NEW F, F = Oflags("stor", rest, seen)
  PROVE  /\ ~Appends(F)
         /\ nodes[p].kind = "none" \/ (Empties(F) <=> rest = 0)
<1>1. /\ "rdonly" \notin F /\ "append" \notin F /\ ("trunc" \in F <=> rest = 0)
      /\ "creat" \in F <=> ~seen
  BY DEF Oflags
<1>2. CASE ~Stdio
  BY <1>1, <1>2 DEF Appends, Empties
<1>3. CASE Stdio /\ ~seen
  <2>1. Mode(F) = "wb" /\ nodes[p].kind = "none"
    BY <1>1, <1>3, ModeCreat, SeenIs
  <2> QED BY <1>3, <2>1 DEF Appends
<1>4. CASE Stdio /\ seen
  <2>1. F \cap {"creat", "append"} = {}
    BY <1>1, <1>4
  <2>2. Mode(F) = IF rest = 0 THEN "wb+" ELSE "rb+"
    BY <1>1, <2>1, Modes
  <2> QED BY <1>4, <2>2 DEF Appends, Empties
<1> QED BY <1>2, <1>3, <1>4

\* APPE empties nothing that has content, and appends to what was there.
LEMMA AppeFlags ==
  ASSUME FileInv, Bearable, NEW p \in Path, NEW rest \in Nat, NEW seen \in Seen(p),
         NEW F, F = Oflags("appe", rest, seen)
  PROVE  /\ ~Stdio => Appends(F)
         /\ Stdio /\ ~Appends(F) => nodes[p].kind = "none"
         /\ nodes[p].kind = "none" \/ ~Empties(F)
<1>1. /\ "rdonly" \notin F /\ "append" \in F /\ "trunc" \notin F
      /\ "creat" \in F <=> ~seen
  BY DEF Oflags
<1>2. CASE ~Stdio
  BY <1>1, <1>2 DEF Appends, Empties
<1>3. CASE Stdio /\ ~seen
  BY <1>3, SeenIs
<1>4. CASE Stdio /\ seen
  <2>1. Mode(F) = "ab+"
    BY <1>1, <1>4, ModeAppend
  <2> QED BY <1>4, <2>1 DEF Appends, Empties
<1> QED BY <1>2, <1>3, <1>4

------------------------------------------------------------------------------
(* The steps of FileStore *)

SFiles   == [p \in Path |-> Written(p)]
UseOf(h) == [doing |-> Doing(h.op), on |-> h.on, pos |-> IF h.op = "appe" THEN 0 ELSE h.pos]
SUse     == [c \in Client |-> UseOf(handle[c])]

LEMMA FilesStay ==
  ASSUME \A q \in Path : Written(q)' = Written(q)
  PROVE  SFiles' = SFiles
BY DEF SFiles

LEMMA FileChanges ==
  ASSUME NEW p \in Path, \A q \in Path \ {p} : Written(q)' = Written(q)
  PROVE  SFiles' = [SFiles EXCEPT ![p] = Written(p)']
BY DEF SFiles

LEMMA UseStays ==
  ASSUME UNCHANGED handle
  PROVE  SUse' = SUse
BY DEF SUse, UseOf

LEMMA UseChanges ==
  ASSUME NEW c \in Client, \A d \in Client \ {c} : handle'[d] = handle[d]
  PROVE  SUse' = [SUse EXCEPT ![c] = UseOf(handle'[c])]
BY DEF SUse

LEMMA UseOfClosed == UseOf(Closed) = Store!Idle
BY DEF UseOf, Closed, Doing, Store!Idle

\* Its replies are the same, its files and their use what is made of nodes and handles.
LEMMA StoreSays ==
  /\ \A code : Says(code) => Store!Says(code)
  /\ \A what : Gives(what) => Store!Gives(what)
  /\ \A c, u : SUse' = [SUse EXCEPT ![c] = u] => Store!Becomes(c, u)
  /\ \A what : Refuses(what) /\ SFiles' = SFiles /\ SUse' = SUse => Store!Refused(what)
BY DEF Says, Gives, Refuses, SFiles, SUse, UseOf, Store!Says, Store!Gives, Store!Becomes, Store!Refused

LEMMA FileInitial ==
  ASSUME Init
  PROVE  FileInv /\ Store!Init
<1>1. TypeOK
  BY CountInit DEF CountInv
<1>2. /\ handle = [c \in Client |-> Closed] /\ heard = [code |-> "none", what |-> {}]
  BY DEF Init
<1>3. \A c \in Client : ~Open(c) /\ handle[c] = Closed
  BY <1>2 DEF Open
<1>4. \A p \in Path : Using(p) = {} /\ Late(p) = {}
  BY <1>3 DEF Using, Late
<1>5. \A p \in Path : /\ nodes[p].kind # "file" => nodes[p].data = <<>>
                      /\ ~Can("read only") => nodes[p].free = TRUE
  <2> SUFFICES ASSUME NEW p \in Path
               PROVE  /\ nodes[p].kind # "file" => nodes[p].data = <<>>
                      /\ ~Can("read only") => nodes[p].free = TRUE
    OBVIOUS
  <2> DEFINE F == {TRUE} \cup (IF Can("read only") THEN {FALSE} ELSE {})
  <2>1. nodes[p] \in {Missing, Folder} \cup {[kind |-> "file", data |-> Content, free |-> f] : f \in F}
    BY DEF Init
  <2>2. ~Can("read only") => F = {TRUE}
    OBVIOUS
  <2> HIDE DEF F
  <2>3. CASE nodes[p] \in {Missing, Folder}
    <3> DEFINE yes == TRUE
    <3>1. /\ Missing = [kind |-> "none", data |-> <<>>, free |-> yes]
          /\ Folder = [kind |-> "dir", data |-> <<>>, free |-> yes]
      BY DEF Missing, Folder
    <3> HIDE DEF yes
    <3>2. nodes[p].data = <<>> /\ nodes[p].free = yes
      BY <2>3, <3>1
    <3> QED BY <3>2 DEF yes
  <2>4. ASSUME NEW f \in F, nodes[p] = [kind |-> "file", data |-> Content, free |-> f]
        PROVE  /\ nodes[p].kind # "file" => nodes[p].data = <<>>
               /\ ~Can("read only") => nodes[p].free = TRUE
    <3>1. nodes[p].kind = "file" /\ nodes[p].free = f
      BY <2>4
    <3>2. ~Can("read only") => f = TRUE
      BY <2>2
    <3> QED BY <3>1, <3>2
  <2> QED BY <2>1, <2>3, <2>4
<1>6. Closed.pending = <<>> /\ Closed.app = FALSE /\ Closed.pos = 0 /\ Closed.op = "none" /\ Len(<<>>) = 0
  BY DEF Closed
<1>7. NodesOK
  BY <1>4, <1>5 DEF NodesOK
<1>8. PendingOK
  <2>1. Len(Closed.pending) = 0
    BY <1>6
  <2> QED BY <1>3, <1>6, <2>1 DEF PendingOK
<1>9. SystemCalls /\ Streams
  BY <1>3, <1>4, <1>5, <1>6 DEF SystemCalls, Streams
<1>10. FileInv
  BY <1>1, <1>7, <1>8, <1>9 DEF FileInv
<1>11. \A c \in Client : UseOf(handle[c]) = Store!Idle
  BY <1>3, UseOfClosed
<1>12. SUse = [c \in Client |-> Store!Idle]
  BY <1>11 DEF SUse
<1>13. \A p \in Path : \/ SFiles[p] \in {Store!Nothing, Store!Folder}
                       \/ SFiles[p] = Store!File(SFiles[p].data)
  <2> SUFFICES ASSUME NEW p \in Path
               PROVE  \/ SFiles[p] \in {Store!Nothing, Store!Folder}
                      \/ SFiles[p] = Store!File(SFiles[p].data)
    OBVIOUS
  <2>1. SFiles[p] = [kind |-> nodes[p].kind, data |-> nodes[p].data]
    BY <1>4, WrittenInNode DEF SFiles
  <2>2. nodes[p].kind \in {"none", "dir", "file"}
    BY <1>1 DEF TypeOK, Node
  <2>3. nodes[p].kind = "file" => SFiles[p] = Store!File(SFiles[p].data)
    BY <2>1 DEF Store!File
  <2>4. nodes[p].kind \in {"none", "dir"} => SFiles[p] \in {Store!Nothing, Store!Folder}
    <3>1. nodes[p].kind # "file" => nodes[p].data = <<>>
      BY <1>5
    <3> QED BY <2>1, <3>1 DEF Store!Nothing, Store!Folder
  <2> QED BY <2>2, <2>3, <2>4
<1>14. Store!Init
  BY <1>2, <1>12, <1>13 DEF Store!Init, SFiles, SUse, UseOf
<1> QED BY <1>10, <1>14

LEMMA BoundsAreNumbers ==
  /\ MaxRest \in Nat /\ MaxLong \in Nat
  /\ \A r \in 0..MaxRest : r \in Nat /\ (r <= MaxLong \/ r > MaxLong)
<1>1. MaxRest \in Nat /\ MaxLong \in Nat
  BY FileSysAssumption
<1> QED BY <1>1

\* A refusal changes nothing.
LEMMA RefusalKeeps ==
  ASSUME FileInv, UNCHANGED <<platform, nodes, handle, objects, containers>>
  PROVE  FileInv' /\ SFiles' = SFiles /\ SUse' = SUse
<1>1. nodes' \in [Path -> Node]
  BY DEF FileInv, TypeOK
<1>2. \A q \in Path : nodes'[q].kind # "file" => nodes'[q].data = <<>>
  BY DEF FileInv, NodesOK
<1>3. Stdio /\ ~Can("read only") => \A q \in Path : nodes'[q].free
  BY DEF FileInv, Streams
<1>4. FileInv' /\ \A q \in Path : Written(q)' = Written(q)
  BY <1>1, <1>2, <1>3, NamesKeep
<1> QED BY <1>4, FilesStay, UseStays

\* An offset that a long holds, or trouble.
Reached(rest) == rest > MaxLong => Can("far rest")

LEMMA ReachedSought ==
  ASSUME FileInv, Bearable, NEW rest \in 0..MaxRest, Reached(rest)
  PROVE  Sought(rest) = rest
<1>1. rest <= MaxLong \/ ~Stdio \/ platform \in WideSeek
  <2> SUFFICES ASSUME Stdio, ~(rest <= MaxLong)
               PROVE  platform \in WideSeek
    OBVIOUS
  <2>1. rest > MaxLong
    BY BoundsAreNumbers, Zenon
  <2>2. Can("far rest")
    BY <2>1 DEF Reached
  <2>3. "far rest" = "read only" \/ platform \in WideSeek
    BY <2>2, StreamsAre DEF FileInv, TypeOK
  <2> QED BY <2>3
<1> QED BY <1>1, BoundsAreNumbers, SoughtRest DEF FileInv, TypeOK

LEMMA RetrSteps ==
  ASSUME FileInv, Bearable, NEW c \in Client, ~Open(c), NEW p \in Path, NEW rest \in 0..MaxRest,
         Using(p) = {} \/ Can("shared"), Reached(rest),
         ssftpCmdRetr(c, p, rest), UNCHANGED platform
  PROVE  FileInv' /\ Store!Retrieve(c, p, rest)
<1>0. \/ Opens(p, {"rdonly"}) /\ FileOpens(c, p, {"rdonly"}, "retr", rest) /\ Says("150")
      \/ ~Opens(p, {"rdonly"}) /\ Refuses("retr") /\ UNCHANGED <<nodes, handle, objects, containers>>
  BY BeginsIs DEF ssftpCmdRetr, FileInv
<1>1. rest \in Nat /\ MaxLong \in Nat
  BY BoundsAreNumbers
<1>2. Sought(rest) = rest
  BY ReachedSought
<1>3. SFiles[p].kind = nodes[p].kind /\ SFiles[p] = Written(p) /\ Written(p).kind = nodes[p].kind
  BY WrittenTypes DEF SFiles
<1>4. CASE Opens(p, {"rdonly"})
  <2>1. FileOpens(c, p, {"rdonly"}, "retr", rest) /\ Says("150")
    BY <1>0, <1>4
  <2>2. nodes[p].kind = "file" /\ ~Appends({"rdonly"}) /\ ~Empties({"rdonly"})
    BY <1>4, RetrFlags
  <2>3. /\ FileInv'
        /\ Written(p)' = [kind |-> "file", data |-> IF Empties({"rdonly"}) THEN <<>> ELSE Written(p).data]
        /\ \A q \in Path \ {p} : Written(q)' = Written(q)
        /\ \A d \in Client \ {c} : handle'[d] = handle[d]
        /\ handle'[c].op = "retr" /\ handle'[c].on = {p} /\ handle'[c].pos = Sought(rest)
    <3>1. "retr" \in Transfers /\ "retr" # "appe"
      BY DEF Transfers
    <3> QED BY <1>1, <1>4, <2>1, <2>2, <3>1, OpenKeeps
  <2>4. Written(p)' = Written(p)
    BY <2>2, <2>3, WrittenTypes
  <2>5. SFiles' = SFiles
    BY <2>3, <2>4, FilesStay
  <2>6. UseOf(handle'[c]) = Store!Use("reading", {p}, rest)
    BY <1>2, <2>3 DEF UseOf, Doing, Store!Use
  <2>7. Store!Becomes(c, Store!Use("reading", {p}, rest))
    BY <2>3, <2>6, UseChanges, StoreSays
  <2>8. Store!Says("150")
    BY <2>1, StoreSays
  <2> QED BY <1>3, <2>2, <2>3, <2>5, <2>7, <2>8 DEF Store!Retrieve, SFiles
<1>5. CASE ~Opens(p, {"rdonly"})
  <2>1. Refuses("retr") /\ UNCHANGED <<platform, nodes, handle, objects, containers>>
    BY <1>0, <1>5
  <2>2. FileInv' /\ Store!Refused("retr")
    BY <2>1, RefusalKeeps, StoreSays
  <2>3. nodes[p].kind # "file"
    BY <1>5, RetrFlags
  <2> QED BY <1>3, <2>2, <2>3 DEF Store!Retrieve, SFiles
<1> QED BY <1>4, <1>5

LEMMA StorSteps ==
  ASSUME FileInv, Bearable, NEW c \in Client, ~Open(c), NEW p \in Path, NEW rest \in 0..MaxRest,
         Using(p) = {} \/ Can("shared"), Reached(rest),
         NEW verb \in {"stor", "appe"}, ssftpCmdStor(c, p, verb, rest), UNCHANGED platform
  PROVE  /\ FileInv'
         /\ verb = "stor" => Store!Store(c, p, rest)
         /\ verb = "appe" => Store!Extend(c, p)
<1>1. rest \in Nat /\ 0 \in Nat
  BY BoundsAreNumbers
<1>2. PICK seen \in Seen(p) : Begins(c, p, Oflags(verb, rest, seen), verb, rest)
  BY DEF ssftpCmdStor
<1> DEFINE F == Oflags(verb, rest, seen)
           W == Written(p)
<1>0. \/ Opens(p, F) /\ FileOpens(c, p, F, verb, rest) /\ Says("150")
      \/ ~Opens(p, F) /\ Refuses(verb) /\ UNCHANGED <<nodes, handle, objects, containers>>
  BY <1>2, BeginsIs DEF FileInv
<1>3. SFiles[p] = W /\ W.kind = nodes[p].kind /\ (nodes[p].kind # "file" => W.data = <<>>)
  BY WrittenTypes DEF SFiles
<1>4. CASE ~Opens(p, F)
  <2>1. Refuses(verb) /\ UNCHANGED <<platform, nodes, handle, objects, containers>>
    BY <1>0, <1>4
  <2>2. FileInv' /\ Store!Refused(verb)
    BY <2>1, RefusalKeeps, StoreSays
  <2> QED BY <2>2 DEF Store!Store, Store!Extend
<1>5. CASE Opens(p, F)
  <2>1. FileOpens(c, p, F, verb, rest) /\ Says("150") /\ nodes[p].kind \in {"none", "file"}
    BY <1>0, <1>5 DEF Opens
  <2>3. Sought(rest) = rest
    BY ReachedSought
  <2>4. CASE verb = "stor"
    <3>1. ~Appends(F) /\ (nodes[p].kind = "none" \/ (Empties(F) <=> rest = 0))
      BY <1>1, <2>4, StorFlags
    <3>2. "stor" \in Transfers /\ "stor" # "appe"
      BY DEF Transfers
    <3>3. /\ FileInv'
          /\ Written(p)' = [kind |-> "file", data |-> IF Empties(F) THEN <<>> ELSE W.data]
          /\ \A q \in Path \ {p} : Written(q)' = Written(q)
          /\ \A d \in Client \ {c} : handle'[d] = handle[d]
          /\ handle'[c].op = "stor" /\ handle'[c].on = {p} /\ handle'[c].pos = Sought(rest)
      <4>1. FileOpens(c, p, F, "stor", rest)
        BY <2>1, <2>4
      <4>2. Using(p) = {} \/ Can("shared")
        OBVIOUS
      <4>3. Opens(p, F) /\ ~Appends(F)
        BY <1>5, <3>1
      <4> HIDE DEF F, W
      <4> QED BY <1>1, <3>2, <4>1, <4>2, <4>3, OpenKeeps, SMTT(60) DEF W
    <3>4. (IF Empties(F) THEN <<>> ELSE W.data) = IF rest = 0 THEN <<>> ELSE W.data
      <4>1. nodes[p].kind = "none" => W.data = <<>>
        BY <1>3
      <4> QED BY <3>1, <4>1
    <3>5. Written(p)' = IF rest = 0 THEN Store!File(<<>>) ELSE Store!File(W.data)
      BY <3>3, <3>4 DEF Store!File
    <3>6. SFiles' = [SFiles EXCEPT ![p] = IF rest = 0 THEN Store!File(<<>>) ELSE Store!File(@.data)]
      BY <1>3, <3>3, <3>5, FileChanges
    <3>7. UseOf(handle'[c]) = Store!Use("writing", {p}, rest)
      BY <2>3, <3>3 DEF UseOf, Doing, Store!Use
    <3>8. Store!Becomes(c, Store!Use("writing", {p}, rest)) /\ Store!Says("150")
      BY <2>1, <3>3, <3>7, UseChanges, StoreSays
    <3>9. SFiles[p].kind # "dir"
      BY <1>3, <2>1
    <3>10. Store!Store(c, p, rest)
      BY <3>6, <3>8, <3>9 DEF Store!Store, SFiles
    <3> QED BY <2>4, <3>3, <3>10
  <2>5. CASE verb = "appe"
    <3>1. /\ ~Stdio => Appends(F)
          /\ Stdio /\ ~Appends(F) => nodes[p].kind = "none"
          /\ nodes[p].kind = "none" \/ ~Empties(F)
      BY <1>1, <2>5, AppeFlags
    <3>2. Stdio /\ nodes[p].kind = "none" => rest = 0
      <4> SUFFICES ASSUME Stdio, nodes[p].kind = "none", rest # 0
                   PROVE  FALSE
        OBVIOUS
      <4>1. rest > 0
        BY <1>1
      <4>2. Can("rest append")
        BY <2>5, <4>1 DEF ssftpCmdStor
      <4>3. "rest append" \in {"read only", "far rest"}
        BY <4>2, StreamsAre DEF FileInv, TypeOK
      <4> QED BY <4>3
    <3>3. verb = "appe" /\ Stdio /\ ~Appends(F) => Sought(rest) = 0 /\ nodes[p].data = <<>>
      BY <2>3, <3>1, <3>2 DEF FileInv, NodesOK
    <3>4. /\ FileInv'
          /\ Written(p)' = [kind |-> "file", data |-> IF Empties(F) THEN <<>> ELSE W.data]
          /\ \A q \in Path \ {p} : Written(q)' = Written(q)
          /\ \A d \in Client \ {c} : handle'[d] = handle[d]
          /\ handle'[c].op = "appe" /\ handle'[c].on = {p} /\ handle'[c].pos = Sought(rest)
      <4>1. "appe" \in Transfers
        BY DEF Transfers
      <4> QED BY <1>1, <1>5, <2>1, <2>5, <3>1, <3>3, <4>1, OpenKeeps
    <3>5. (IF Empties(F) THEN <<>> ELSE W.data) = W.data
      <4>1. nodes[p].kind = "none" => W.data = <<>>
        BY <1>3
      <4> QED BY <3>1, <4>1
    <3>6. Written(p)' = Store!File(W.data)
      BY <3>4, <3>5 DEF Store!File
    <3>7. SFiles' = [SFiles EXCEPT ![p] = Store!File(@.data)]
      BY <1>3, <3>4, <3>6, FileChanges
    <3>8. UseOf(handle'[c]) = Store!Use("appending", {p}, 0)
      BY <3>4 DEF UseOf, Doing, Store!Use
    <3>9. Store!Becomes(c, Store!Use("appending", {p}, 0)) /\ Store!Says("150")
      BY <2>1, <3>4, <3>8, UseChanges, StoreSays
    <3>10. SFiles[p].kind # "dir"
      BY <1>3, <2>1
    <3>11. Store!Extend(c, p)
      BY <3>7, <3>9, <3>10 DEF Store!Extend, SFiles
    <3> QED BY <2>5, <3>4, <3>11
  <2> QED BY <2>4, <2>5
<1> QED BY <1>4, <1>5

LEMMA OpendirSteps ==
  ASSUME FileInv, NEW c \in Client, ~Open(c), DirOpens(c), Says("150"), UNCHANGED platform
  PROVE  FileInv' /\ Store!List(c)
<1>1. PICK there : there = {p \in Path : nodes[p].kind # "none"}
  OBVIOUS
<1> DEFINE h == [Closed EXCEPT !.op = "list", !.dir = TRUE, !.on = there]
<1>2. TypeOK' /\ TypeOK
  BY OpendirTypes DEF FileInv
<1>3. /\ h \in Handle /\ h.op = "list" /\ h.dir /\ h.on = there /\ h.pos = 0
      /\ ~h.app /\ h.pending = <<>>
  BY <1>1, EmptySeq DEF Closed, Handle
<1>4. handle' = [handle EXCEPT ![c] = h] /\ UNCHANGED nodes /\ handle[c].pending = <<>>
  <2>1. handle[c].pending = <<>>
    BY DEF Open, Closed
  <2> QED BY <1>1, <2>1 DEF DirOpens, Holds
<1>5. there = {p \in Path : SFiles[p].kind # "none"}
  BY <1>1, WrittenTypes DEF SFiles
<1> HIDE DEF h
<1>6. /\ FileInv' /\ \A q \in Path : Written(q)' = Written(q)
      /\ handle'[c] = h /\ \A d \in Client \ {c} : handle'[d] = handle[d]
  BY <1>2, <1>3, <1>4, QuietKeeps
<1>7. UseOf(handle'[c]) = Store!Use("listing", there, 0)
  BY <1>3, <1>6 DEF UseOf, Doing, Store!Use
<1>8. SFiles' = SFiles
  BY <1>6, FilesStay
<1>9. SUse' = [SUse EXCEPT ![c] = Store!Use("listing", there, 0)]
  BY <1>6, <1>7, UseChanges
<1>10. Store!Says("150")
  BY StoreSays
<1>11. Store!List(c)
  BY <1>5, <1>8, <1>9, <1>10 DEF Store!List, Store!Becomes, SFiles, SUse, UseOf
<1> QED BY <1>6, <1>11

LEMMA ListCommandSteps ==
  ASSUME FileInv, NEW c \in Client, ~Open(c), ssftpCmdList(c), UNCHANGED platform
  PROVE  FileInv' /\ Store!List(c)
<1>1. \/ DirOpens(c) /\ Says("150")
      \/ Refuses("list") /\ UNCHANGED <<nodes, handle, objects, containers>>
  BY ListIs DEF FileInv, TypeOK
<1>2. CASE DirOpens(c) /\ Says("150")
  BY <1>2, OpendirSteps
<1>3. CASE Refuses("list") /\ UNCHANGED <<nodes, handle, objects, containers>>
  <2>1. FileInv' /\ Store!Refused("list")
    BY <1>3, RefusalKeeps, StoreSays
  <2> QED BY <2>1 DEF Store!List
<1> QED BY <1>1, <1>2, <1>3

\* What FileStore knows of a client.
LEMMA UseIs ==
  ASSUME NEW c \in Client
  PROVE  /\ SUse[c] = UseOf(handle[c])
         /\ SUse[c].doing = Doing(handle[c].op) /\ SUse[c].on = handle[c].on
         /\ SUse[c].pos = IF handle[c].op = "appe" THEN 0 ELSE handle[c].pos
BY DEF SUse, UseOf

\* A transfer ends.
LEMMA EndSteps ==
  ASSUME FileInv, Bearable, NEW c \in Client, Open(c), NEW code, Ends(c, handle[c], code), UNCHANGED platform
  PROVE  FileInv' /\ SFiles' = SFiles /\ Store!Ends(c, code)
<1>1. ftpclient_data_end(c, handle[c]) /\ Says(code)
  BY DEF Ends
<1>2. /\ FileInv' /\ \A q \in Path : Written(q)' = Written(q)
      /\ handle'[c] = Closed /\ \A d \in Client \ {c} : handle'[d] = handle[d]
  BY <1>1, EndKeeps
<1>3. SUse' = [SUse EXCEPT ![c] = Store!Idle]
  BY <1>2, UseChanges, UseOfClosed
<1>4. Store!Says(code) /\ Store!Becomes(c, Store!Idle)
  BY <1>1, <1>3, StoreSays
<1> QED BY <1>2, <1>4, FilesStay DEF Store!Ends

LEMMA AbortSteps ==
  ASSUME FileInv, Bearable, NEW c \in Client, Abort(c)
  PROVE  FileInv' /\ Store!Stops(c)
<1>1. Open(c) /\ Ends(c, handle[c], "gone") /\ UNCHANGED platform
  BY DEF Abort
<1>2. FileInv' /\ SFiles' = SFiles /\ Store!Ends(c, "gone")
  BY <1>1, EndSteps
<1>3. SUse[c].doing # "nothing"
  <2>1. handle[c].op \in {"list", "retr", "stor", "appe"}
    BY <1>1, OpenIs DEF FileInv, TypeOK, Handle, Transfers
  <2>2. Doing(handle[c].op) # "nothing"
    BY <2>1 DEF Doing
  <2> QED BY <2>2, UseIs
<1> QED BY <1>2, <1>3 DEF Store!Stops, SFiles, SUse, UseOf

\* Who reads a file reads what was written: nothing is pending for it.
LEMMA ReaderSees ==
  ASSUME FileInv, NEW c \in Client, handle[c].op = "retr", NEW p \in Path, p \in handle[c].on
  PROVE  /\ SFiles[p].data = nodes[p].data /\ handle[c].pending = <<>> /\ Open(c)
         /\ ~handle[c].app /\ handle[c] \in Handle
<1>1. handle[c].pending = <<>> /\ ~handle[c].app /\ handle[c] \in Handle
  BY DEF FileInv, PendingOK, TypeOK
<1>2. Open(c) /\ ~handle[c].dir /\ c \in Using(p)
  BY OpenIs DEF FileInv, Transfers, Using
<1>3. Late(p) = {}
  <2>1. ASSUME NEW d \in Client, Late(p) = {d}, Using(p) = {d}
        PROVE  FALSE
    <3>1. d = c /\ c \in Late(p)
      BY <1>2, <2>1
    <3> QED BY <1>1, <3>1 DEF Late
  <2> QED BY <2>1, LateIs
<1>4. Written(p).data = nodes[p].data
  BY <1>3, WrittenInNode
<1> QED BY <1>1, <1>2, <1>4 DEF SFiles

LEMMA ReadSteps ==
  ASSUME FileInv, Bearable, NEW c \in Client, ssftpDataRetr(c)
  PROVE  FileInv' /\ Store!Read(c)
<1>1. handle[c].op = "retr" /\ UNCHANGED platform
  BY DEF ssftpDataRetr
<1>2. PICK p \in handle[c].on :
        IF handle[c].pos < Len(nodes[p].data)
        THEN /\ Gives(nodes[p].data[handle[c].pos + 1])
             /\ Holds(c, [handle[c] EXCEPT !.pos = @ + 1])
             /\ UNCHANGED <<nodes, objects, containers>>
        ELSE Ends(c, handle[c], "226")
  <2> DEFINE next(p) == IF handle[c].pos < Len(nodes[p].data)
                        THEN {nodes[p].data[handle[c].pos + 1]} ELSE {}
  <2>1. PICK p \in handle[c].on : \E got \in ssftpFsRead(next(p)) :
          \/ got = {} /\ Ends(c, handle[c], "226")
          \/ \E b \in got : /\ Gives(b) /\ Holds(c, [handle[c] EXCEPT !.pos = @ + 1])
                            /\ UNCHANGED <<nodes, objects, containers>>
    BY DEF ssftpDataRetr
  <2> HIDE DEF next
  <2>6. PICK got \in ssftpFsRead(next(p)) :
          \/ got = {} /\ Ends(c, handle[c], "226")
          \/ \E b \in got : /\ Gives(b) /\ Holds(c, [handle[c] EXCEPT !.pos = @ + 1])
                            /\ UNCHANGED <<nodes, objects, containers>>
    BY <2>1
  <2>2. ~Can("read fails") /\ platform \in Platform
    BY ReadsSucceed DEF FileInv, TypeOK
  <2>3. \/ got = {} /\ next(p) = {}
        \/ \E n \in next(p) : got = {n}
    <3>1. got \in Got(next(p))
      BY <2>2, <2>6, GotIs
    <3> QED BY <2>2, <3>1, GotIs
  <2>4. CASE handle[c].pos < Len(nodes[p].data)
    <3>1. got = {nodes[p].data[handle[c].pos + 1]}
      BY <2>3, <2>4 DEF next
    <3> QED BY <2>4, <2>6, <3>1
  <2>5. CASE ~(handle[c].pos < Len(nodes[p].data))
    <3>1. got = {}
      BY <2>3, <2>5 DEF next
    <3> QED BY <2>5, <2>6, <3>1
  <2> QED BY <2>4, <2>5
<1>3. p \in Path /\ TypeOK
  BY DEF FileInv, TypeOK, Handle
<1>4. /\ SFiles[p].data = nodes[p].data /\ handle[c].pending = <<>> /\ Open(c)
      /\ ~handle[c].app /\ handle[c] \in Handle
  BY <1>1, <1>2, <1>3, ReaderSees
<1>5. /\ SUse[c].doing = "reading" /\ p \in SUse[c].on /\ SUse[c].pos = handle[c].pos
      /\ SUse[c] = UseOf(handle[c])
  BY <1>1, <1>2, UseIs DEF Doing
<1>6. CASE handle[c].pos < Len(nodes[p].data)
  <2> DEFINE h == [handle[c] EXCEPT !.pos = @ + 1]
             b == nodes[p].data[handle[c].pos + 1]
  <2>1. Gives(b) /\ Holds(c, h) /\ UNCHANGED <<platform, nodes, objects, containers>>
    BY <1>1, <1>2, <1>6
  <2>2. h = [handle[c] EXCEPT !.pos = @ + 1]
    OBVIOUS
  <2> HIDE DEF h
  <2>3. /\ h \in Handle /\ h.op = handle[c].op /\ h.dir = handle[c].dir /\ h.data = handle[c].data
        /\ h.on = handle[c].on /\ h.pos = handle[c].pos + 1 /\ h.app = handle[c].app
        /\ h.pending = handle[c].pending
    BY <1>4, <2>2, ReadHandle
  <2>4. TypeOK' /\ handle'[c] = h
    <3>1. h.op # "none" /\ h.op # "list" /\ nodes' \in [Path -> Node]
      BY <1>1, <1>3, <2>1, <2>3 DEF TypeOK
    <3> QED BY <1>3, <2>1, <2>3, <3>1, MoveTypes
  <2>5. Open(c)'
    <3>1. h.op # "none"
      BY <1>1, <2>3
    <3> QED BY <2>4, <3>1 DEF Open, Closed
  <2>6. /\ FileInv' /\ \A q \in Path : Written(q)' = Written(q)
        /\ \A d \in Client \ {c} : handle'[d] = handle[d]
    <3>1. handle' = [handle EXCEPT ![c] = h] /\ UNCHANGED <<platform, nodes>>
      BY <2>1 DEF Holds
    <3>2. h.op = handle[c].op /\ h.op = "retr" /\ h.on = handle[c].on /\ Open(c) /\ Open(c)'
      BY <1>1, <1>4, <2>3, <2>5
    <3>3. ~h.app /\ h.pending = <<>> /\ handle[c].pending = <<>>
      BY <1>4, <2>3
    <3> QED BY <2>3, <2>4, <3>1, <3>2, <3>3, QuietKeeps
  <2>7. UseOf(h) = [SUse[c] EXCEPT !.pos = @ + 1]
    <3>1. h.op # "appe" /\ handle[c].op # "appe"
      BY <1>1, <2>3
    <3>2. UseOf(h) = [doing |-> Doing(handle[c].op), on |-> handle[c].on, pos |-> handle[c].pos + 1]
      BY <2>3, <3>1 DEF UseOf
    <3>3. UseOf(handle[c]) = [doing |-> Doing(handle[c].op), on |-> handle[c].on, pos |-> handle[c].pos]
      BY <3>1 DEF UseOf
    <3> QED BY <1>5, <3>2, <3>3
  <2>8. SUse' = [SUse EXCEPT ![c] = [SUse[c] EXCEPT !.pos = @ + 1]]
    <3>1. SUse' = [SUse EXCEPT ![c] = UseOf(h)]
      BY <2>4, <2>6, UseChanges
    <3> QED BY <2>7, <3>1
  <2>9. SFiles' = SFiles
    BY <2>6, FilesStay
  <2>10. SUse[c].pos < Len(SFiles[p].data)
    BY <1>4, <1>5, <1>6
  <2>11. Store!Gives(SFiles[p].data[SUse[c].pos + 1])
    BY <1>4, <1>5, <2>1, Zenon DEF Gives, Store!Gives
  <2>12. Store!Read(c)
    BY <1>5, <2>8, <2>9, <2>10, <2>11 DEF Store!Read, Store!Becomes, Store!Gives, SFiles, SUse, UseOf
  <2> QED BY <2>6, <2>12
<1>7. CASE ~(handle[c].pos < Len(nodes[p].data))
  <2>1. Ends(c, handle[c], "226")
    BY <1>2, <1>7
  <2>2. FileInv' /\ SFiles' = SFiles /\ Store!Ends(c, "226")
    BY <1>1, <1>4, <2>1, EndSteps
  <2>3. ~(SUse[c].pos < Len(SFiles[p].data))
    BY <1>4, <1>5, <1>7
  <2>4. Store!Read(c)
    BY <1>5, <2>2, <2>3 DEF Store!Read, SFiles, SUse, UseOf
  <2> QED BY <2>2, <2>4
<1> QED BY <1>6, <1>7

\* One more block of what counts as written is one more block for FileStore.
LEMMA AddedSteps ==
  ASSUME FileInv, NEW c \in Client, NEW p \in Path, NEW b \in Block, handle[c].op \in {"stor", "appe"},
         Written(p)' = [kind |-> Written(p).kind,
                        data |-> IF handle[c].op = "stor"
                                 THEN Store!WriteAt(Written(p).data, handle[c].pos, b)
                                 ELSE Append(Written(p).data, b)],
         \A q \in Path \ {p} : Written(q)' = Written(q)
  PROVE  SFiles' = [SFiles EXCEPT ![p].data = Store!Added(SUse[c], @, b)]
<1> DEFINE d == Store!Added(SUse[c], Written(p).data, b)
<1>1. d = IF handle[c].op = "stor" THEN Store!WriteAt(Written(p).data, handle[c].pos, b)
                                   ELSE Append(Written(p).data, b)
  <2>1. SUse[c].doing = "writing" <=> handle[c].op = "stor"
    BY UseIs DEF Doing
  <2>2. handle[c].op = "stor" => SUse[c].pos = handle[c].pos
    BY UseIs
  <2> QED BY <2>1, <2>2 DEF Store!Added
<1> HIDE DEF d
<1>2. SFiles' = [SFiles EXCEPT ![p] = Written(p)']
  BY FileChanges
<1>3. SFiles[p] = [kind |-> Written(p).kind, data |-> Written(p).data]
  <2>1. Written(p) = [kind |-> nodes[p].kind, data |-> Written(p).data] /\ Written(p).kind = nodes[p].kind
    BY WrittenTypes
  <2>2. SFiles[p] = Written(p)
    BY DEF SFiles
  <2> QED BY <2>1, <2>2
<1>4. Written(p)' = [SFiles[p] EXCEPT !.data = d]
  <2>1. CASE handle[c].op = "stor"
    <3>1. d = Store!WriteAt(Written(p).data, handle[c].pos, b)
      BY <1>1, <2>1
    <3>2. Written(p)' = [kind |-> Written(p).kind,
                         data |-> Store!WriteAt(Written(p).data, handle[c].pos, b)]
      BY <2>1, Zenon
    <3>3. Written(p)' = [kind |-> Written(p).kind, data |-> d]
      BY <3>1, <3>2, Zenon
    <3> QED BY <1>3, <3>3
  <2>2. CASE handle[c].op # "stor"
    <3>1. d = Append(Written(p).data, b)
      BY <1>1, <2>2
    <3>2. Written(p)' = [kind |-> Written(p).kind, data |-> Append(Written(p).data, b)]
      BY <2>2, Zenon
    <3>3. Written(p)' = [kind |-> Written(p).kind, data |-> d]
      BY <3>1, <3>2, Zenon
    <3> QED BY <1>3, <3>3
  <2> QED BY <2>1, <2>2
<1>5. d = Store!Added(SUse[c], SFiles[p].data, b)
  BY <1>3 DEF d
<1> QED BY <1>2, <1>4, <1>5

\* The file a client writes is the one it has open.
LEMMA WriteSteps ==
  ASSUME FileInv, Bearable, NEW c \in Client, ssftpDataStor(c)
  PROVE  FileInv' /\ (Store!Write(c) \/ Store!Stops(c))
<1>1. handle[c].op \in {"stor", "appe"} /\ UNCHANGED platform
  BY DEF ssftpDataStor
<1>2. PICK p \in handle[c].on :
        \/ Ends(c, handle[c], "226")
        \/ Can("disk full") /\ Ends(c, handle[c], "452")
        \/ \E b \in Block :
             \/ ssftpFsWrite(c, p, b) /\ Gives(b) /\ UNCHANGED <<objects, containers>>
             \/ Can("disk full") /\ Ends(c, With(handle[c], b), "452")
  BY DEF ssftpDataStor
<1>3. p \in Path /\ TypeOK /\ handle[c] \in Handle
  BY DEF FileInv, TypeOK, Handle
<1>4. Open(c)
  BY <1>1, <1>3, OpenIs DEF Transfers
<1>5. /\ SUse[c].doing = IF handle[c].op = "stor" THEN "writing" ELSE "appending"
      /\ p \in SUse[c].on /\ SUse[c] = UseOf(handle[c])
      /\ SUse[c].pos = IF handle[c].op = "appe" THEN 0 ELSE handle[c].pos
  <2>1. Doing(handle[c].op) = IF handle[c].op = "stor" THEN "writing" ELSE "appending"
    BY <1>1 DEF Doing
  <2> QED BY <1>2, <2>1, UseIs
<1>6. SUse[c].doing \in {"writing", "appending"} /\ SUse[c].doing # "nothing"
  BY <1>5
<1>7. ASSUME NEW b \in Block, ssftpFsWrite(c, p, b), Gives(b), UNCHANGED <<objects, containers>>
      PROVE  FileInv' /\ Store!Write(c)
  <2>1. /\ FileInv'
        /\ Written(p)' = [kind |-> Written(p).kind,
                          data |-> IF handle[c].op = "stor"
                                   THEN Store!WriteAt(Written(p).data, handle[c].pos, b)
                                   ELSE Append(Written(p).data, b)]
        /\ \A q \in Path \ {p} : Written(q)' = Written(q)
        /\ \A d \in Client \ {c} : handle'[d] = handle[d]
        /\ handle'[c].op = handle[c].op /\ handle'[c].on = handle[c].on
        /\ handle'[c].pos = handle[c].pos + 1
    BY <1>1, <1>2, <1>3, <1>7, WriteKeeps
  <2>2. Store!Gives(b)
    BY <1>7, StoreSays
  <2>3. SFiles' = [SFiles EXCEPT ![p].data = Store!Added(SUse[c], @, b)]
    BY <1>1, <1>3, <2>1, AddedSteps
  <2>4. SUse' = [SUse EXCEPT ![c] = UseOf(handle'[c])]
    BY <2>1, UseChanges
  <2>5. CASE handle[c].op = "stor"
    <3>1. UseOf(handle'[c]) = [SUse[c] EXCEPT !.pos = @ + 1]
      <4>1. UseOf(handle'[c]) = [doing |-> Doing("stor"), on |-> handle[c].on, pos |-> handle[c].pos + 1]
        BY <2>1, <2>5 DEF UseOf
      <4>2. UseOf(handle[c]) = [doing |-> Doing("stor"), on |-> handle[c].on, pos |-> handle[c].pos]
        BY <2>5 DEF UseOf
      <4> QED BY <1>5, <4>1, <4>2
    <3>2. Store!Becomes(c, [SUse[c] EXCEPT !.pos = @ + 1])
      <4>1. SUse' = [SUse EXCEPT ![c] = [SUse[c] EXCEPT !.pos = @ + 1]]
        BY <2>4, <3>1
      <4> QED BY <4>1, Zenon DEF Store!Becomes, SUse, UseOf
    <3>3. SUse[c].doing = "writing"
      BY <1>5, <2>5
    <3>4. Store!Write(c)
      BY <1>5, <1>6, <2>2, <2>3, <3>2, <3>3, Zenon DEF Store!Write, SFiles, SUse, UseOf
    <3> QED BY <2>1, <3>4
  <2>6. CASE handle[c].op = "appe"
    <3>1. SUse' = SUse
      <4>1. UseOf(handle'[c]) = UseOf(handle[c])
        BY <2>1, <2>6 DEF UseOf
      <4> QED BY <1>5, <2>4, <4>1 DEF SUse
    <3>2. SUse[c].doing = "appending" /\ "appending" # "writing"
      BY <1>5, <2>6
    <3>3. Store!Write(c)
      BY <1>5, <1>6, <2>2, <2>3, <3>1, <3>2, Zenon DEF Store!Write, SFiles, SUse, UseOf
    <3> QED BY <2>1, <3>3
  <2> QED BY <1>1, <2>5, <2>6
<1>8. ASSUME NEW code \in {"452", "226"}, Ends(c, handle[c], code)
      PROVE  FileInv' /\ SFiles' = SFiles /\ Store!Ends(c, code)
  BY <1>1, <1>4, <1>8, EndSteps
<1>9. CASE Ends(c, handle[c], "452")
  <2>1. FileInv' /\ SFiles' = SFiles /\ Store!Ends(c, "452")
    BY <1>8, <1>9
  <2>2. Store!Write(c)
    BY <1>5, <1>6, <2>1, Zenon DEF Store!Write, SFiles, SUse, UseOf
  <2> QED BY <2>1, <2>2
<1>10. CASE Ends(c, handle[c], "226")
  <2>1. FileInv' /\ SFiles' = SFiles /\ Store!Ends(c, "226")
    BY <1>8, <1>10
  <2>2. Store!Stops(c)
    BY <1>6, <2>1 DEF Store!Stops, SFiles, SUse, UseOf
  <2> QED BY <2>1, <2>2
<1>11. ASSUME NEW b \in Block, Can("disk full"), Ends(c, With(handle[c], b), "452")
       PROVE  FileInv' /\ Store!Write(c)
  <2>1. ~Stdio
    <3>1. SUFFICES ASSUME Stdio
                   PROVE  FALSE
      OBVIOUS
    <3>2. "disk full" \in {"read only", "far rest"}
      BY <1>11, <3>1, StreamsAre DEF FileInv, TypeOK
    <3> QED BY <3>2
  <2>2. ftpclient_data_end(c, With(handle[c], b)) /\ Says("452")
    BY <1>11 DEF Ends
  <2>3. /\ FileInv'
        /\ Written(p)' = [kind |-> Written(p).kind,
                          data |-> IF handle[c].op = "stor"
                                   THEN Store!WriteAt(Written(p).data, handle[c].pos, b)
                                   ELSE Append(Written(p).data, b)]
        /\ \A q \in Path \ {p} : Written(q)' = Written(q)
        /\ handle'[c] = Closed /\ \A d \in Client \ {c} : handle'[d] = handle[d]
    BY <1>1, <1>2, <1>3, <2>1, <2>2, TornKeeps
  <2>4. SFiles' = [SFiles EXCEPT ![p].data = Store!Added(SUse[c], @, b)]
    BY <1>1, <1>3, <2>3, AddedSteps
  <2>5. Store!Ends(c, "452")
    <3>1. SUse' = [SUse EXCEPT ![c] = Store!Idle]
      BY <2>3, UseChanges, UseOfClosed
    <3>2. Store!Says("452") /\ Store!Becomes(c, Store!Idle)
      BY <2>2, <3>1, StoreSays
    <3> QED BY <3>2 DEF Store!Ends
  <2>6. Store!Write(c)
    BY <1>5, <1>6, <2>4, <2>5, Zenon DEF Store!Write, SFiles, SUse, UseOf
  <2> QED BY <2>3, <2>6
<1> QED BY <1>2, <1>7, <1>9, <1>10, <1>11

LEMMA ListSteps ==
  ASSUME FileInv, Bearable, NEW c \in Client, ssftpDataList(c)
  PROVE  FileInv' /\ Store!Entry(c)
<1>1. handle[c].op = "list" /\ UNCHANGED platform
  BY DEF ssftpDataList
<1>2. TypeOK /\ handle[c] \in Handle
  BY DEF FileInv, TypeOK
<1>3. PICK there : there = {p \in handle[c].on : nodes[p].kind # "none"}
  OBVIOUS
<1>4. /\ Open(c) /\ handle[c].dir /\ handle[c].pending = <<>> /\ ~handle[c].app
      /\ handle[c].on \subseteq Path /\ there \subseteq handle[c].on
  <2>1. Open(c) /\ handle[c].dir
    BY <1>1, <1>2, OpenIs DEF TypeOK, HandleOK
  <2>2. handle[c].pending = <<>> /\ ~handle[c].app
    BY <1>1 DEF FileInv, PendingOK
  <2> QED BY <1>2, <1>3, <2>1, <2>2 DEF Handle
<1>5. there = {p \in SUse[c].on : SFiles[p].kind # "none"} /\ SUse[c].doing = "listing"
  <2>1. SUse[c].on = handle[c].on /\ SUse[c].doing = "listing"
    BY <1>1, UseIs DEF Doing
  <2>2. \A p \in handle[c].on : SFiles[p].kind = nodes[p].kind
    BY <1>4, WrittenTypes DEF SFiles
  <2> QED BY <1>3, <2>1, <2>2
<1>6. CASE there = {} /\ Ends(c, handle[c], "226")
  <2>1. FileInv' /\ SFiles' = SFiles /\ Store!Ends(c, "226")
    BY <1>1, <1>4, <1>6, EndSteps
  <2>2. Store!Entry(c)
    BY <1>5, <1>6, <2>1 DEF Store!Entry, SFiles, SUse, UseOf
  <2> QED BY <2>1, <2>2
<1>7. ASSUME NEW p \in there, NEW gone \in SUBSET (handle[c].on \ there),
             Gives([name |-> p, mode |-> string_getmode(nodes[p].kind)]),
             Holds(c, [handle[c] EXCEPT !.on = @ \ ({p} \cup gone)]),
             UNCHANGED <<nodes, objects, containers>>
      PROVE  FileInv' /\ Store!Entry(c)
  <2> DEFINE less == {p} \cup gone
             h == [handle[c] EXCEPT !.on = @ \ less]
  <2>1. h = [handle[c] EXCEPT !.on = @ \ less] /\ Holds(c, h)
    BY <1>7
  <2> HIDE DEF h, less
  <2>2. /\ h \in Handle /\ h.op = handle[c].op /\ h.dir = handle[c].dir /\ h.data = handle[c].data
        /\ h.on = handle[c].on \ less /\ h.pos = handle[c].pos /\ h.app = handle[c].app
        /\ h.pending = handle[c].pending
    BY <1>2, <2>1, ListHandle
  <2>3. TypeOK' /\ handle'[c] = h
    <3>1. h.op # "none" /\ (h.op # "list" => h.on = handle[c].on) /\ nodes' \in [Path -> Node]
      BY <1>1, <1>2, <1>7, <2>2 DEF TypeOK
    <3> QED BY <1>1, <1>2, <1>7, <2>1, <2>2, <3>1, MoveTypes
  <2>4. /\ FileInv' /\ \A q \in Path : Written(q)' = Written(q)
        /\ \A d \in Client \ {c} : handle'[d] = handle[d]
    <3>1. handle' = [handle EXCEPT ![c] = h] /\ UNCHANGED <<platform, nodes>>
      BY <1>1, <1>7, <2>1 DEF Holds
    <3>2. h.op = "list" /\ h.dir /\ handle[c].dir
      BY <1>1, <1>4, <2>2
    <3>3. ~h.app /\ h.pending = <<>> /\ handle[c].pending = <<>>
      BY <1>4, <2>2
    <3> QED BY <2>2, <2>3, <3>1, <3>2, <3>3, QuietKeeps
  <2>5. UseOf(h) = [SUse[c] EXCEPT !.on = @ \ less]
    <3>1. h.op # "appe" /\ handle[c].op # "appe"
      BY <1>1, <2>2
    <3>2. UseOf(h) = [doing |-> Doing(handle[c].op), on |-> handle[c].on \ less, pos |-> handle[c].pos]
      BY <2>2, <3>1 DEF UseOf
    <3>3. SUse[c] = [doing |-> Doing(handle[c].op), on |-> handle[c].on, pos |-> handle[c].pos]
      BY <3>1, UseIs DEF UseOf
    <3> QED BY <3>2, <3>3
  <2>6. SUse' = [SUse EXCEPT ![c] = [SUse[c] EXCEPT !.on = @ \ less]]
    <3>1. SUse' = [SUse EXCEPT ![c] = UseOf(h)]
      BY <2>3, <2>4, UseChanges
    <3> QED BY <2>5, <3>1
  <2>7. SFiles' = SFiles /\ Store!Gives([name |-> p, mode |-> IF SFiles[p].kind = "dir" THEN "d" ELSE "-"])
    <3>1. SFiles[p].kind = nodes[p].kind /\ nodes[p].kind \in {"dir", "file"}
      <4>1. p \in Path /\ nodes[p].kind # "none"
        BY <1>3, <1>4
      <4> QED BY <1>2, <4>1, WrittenTypes DEF SFiles, TypeOK, Node
    <3>2. string_getmode(nodes[p].kind) = IF SFiles[p].kind = "dir" THEN "d" ELSE "-"
      BY <3>1 DEF string_getmode
    <3>3. Store!Gives([name |-> p, mode |-> string_getmode(nodes[p].kind)])
      BY <1>7, StoreSays
    <3> QED BY <2>4, <3>2, <3>3, FilesStay
  <2>8. gone \in SUBSET (SUse[c].on \ there)
    BY UseIs
  <2>9. Store!Becomes(c, [SUse[c] EXCEPT !.on = @ \ less])
    BY <2>6, Zenon DEF Store!Becomes, SUse, UseOf
  <2>10. Store!Entry(c)
    <3> DEFINE left == {q \in SUse[c].on : SFiles[q].kind # "none"}
    <3>1. p \in left /\ gone \in SUBSET (SUse[c].on \ left)
      BY <1>5, <2>8
    <3> QED BY <1>5, <2>7, <2>9, <3>1, Zenon DEF Store!Entry, Store!Shown, SFiles, SUse, UseOf, less
  <2> QED BY <2>4, <2>10
<1>8. ~Can("read fails") /\ platform \in Platform
  BY <1>2, ReadsSucceed DEF TypeOK
<1>9. PICK got \in ssftpFsReaddir(there) :
        \/ got = {} /\ Ends(c, handle[c], "226")
        \/ \E p \in got, gone \in SUBSET (handle[c].on \ there) :
             /\ Gives([name |-> p, mode |-> string_getmode(nodes[p].kind)])
             /\ Holds(c, [handle[c] EXCEPT !.on = @ \ ({p} \cup gone)])
             /\ UNCHANGED <<nodes, objects, containers>>
  BY <1>3, <1>8 DEF ssftpDataList
<1>10. (got = {} /\ there = {}) \/ \E n \in there : got = {n}
  <2>1. got \in Got(there)
    BY <1>8, <1>9, GotIs
  <2> QED BY <1>8, <2>1, GotIs
<1>11. CASE got = {} /\ there = {}
  BY <1>6, <1>9, <1>11
<1>12. ASSUME NEW n \in there, got = {n}
       PROVE  FileInv' /\ Store!Entry(c)
  BY <1>7, <1>9, <1>12
<1> QED BY <1>10, <1>11, <1>12

------------------------------------------------------------------------------
(* Names *)

\* A name that nobody uses is what it is made to be, or stays.
LEMMA NamedSteps ==
  ASSUME FileInv, NEW p \in Path, NEW from, NEW to \in Node, NEW t,
         to.kind # "file", to.data = <<>>, to.free, t = [kind |-> to.kind, data |-> <<>>],
         Named(p, from, to)
  PROVE  FileInv' /\ Store!Changes(p, from, t)
<1>1. /\ Using(p) = {} /\ Changes(nodes[p].kind = from, [nodes EXCEPT ![p] = to])
      /\ UNCHANGED <<platform, handle, objects, containers>>
  BY DEF Named, Changes
<1>2. Success(nodes[p].kind = from) <=> nodes[p].kind = from
  BY SuccessIs DEF FileInv, TypeOK
<1>3. SFiles[p] = Written(p) /\ SFiles[p].kind = nodes[p].kind
  BY WrittenTypes DEF SFiles
<1>4. CASE nodes[p].kind = from
  <2>1. nodes' = [nodes EXCEPT ![p] = to] /\ Says("250")
    BY <1>1, <1>2, <1>4 DEF Changes
  <2>2. /\ nodes' \in [Path -> Node] /\ nodes'[p] = to
        /\ \A q \in Path \ {p} : nodes'[q] = nodes[q]
    BY <2>1 DEF FileInv, TypeOK
  <2>3. \A q \in Path : nodes'[q].kind # "file" => nodes'[q].data = <<>>
    BY <2>2 DEF FileInv, NodesOK
  <2>4. \A q \in Path : Using(q) # {} => nodes'[q].kind = nodes[q].kind /\ nodes'[q].data = nodes[q].data
    BY <1>1, <2>2
  <2>5. Stdio /\ ~Can("read only") => \A q \in Path : nodes'[q].free
    BY <2>2 DEF FileInv, Streams
  <2>6. /\ FileInv'
        /\ \A q \in Path :
             /\ Using(q) = {} => Written(q)' = [kind |-> nodes'[q].kind, data |-> nodes'[q].data]
             /\ nodes'[q].kind = nodes[q].kind /\ nodes'[q].data = nodes[q].data => Written(q)' = Written(q)
    BY <1>1, <2>2, <2>3, <2>4, <2>5, NamesKeep
  <2>7. Written(p)' = t /\ \A q \in Path \ {p} : Written(q)' = Written(q)
    BY <1>1, <2>2, <2>6
  <2>8. SFiles' = [SFiles EXCEPT ![p] = t]
    BY <2>7, FileChanges
  <2>9. SUse' = SUse /\ Store!Says("250")
    BY <1>1, <2>1, UseStays, StoreSays
  <2>10. Store!Changes(p, from, t)
    BY <1>3, <1>4, <2>8, <2>9, Zenon DEF Store!Changes, SFiles, SUse, UseOf
  <2> QED BY <2>6, <2>10
<1>5. CASE nodes[p].kind # from
  <2>1. Refuses("name") /\ UNCHANGED nodes
    BY <1>1, <1>2, <1>5 DEF Changes
  <2>2. FileInv' /\ SFiles' = SFiles /\ SUse' = SUse
    BY <1>1, <2>1, RefusalKeeps
  <2>3. Store!Refused("name")
    BY <2>1, <2>2, StoreSays
  <2>4. Store!Changes(p, from, t)
    BY <1>3, <1>5, <2>3, Zenon DEF Store!Changes, SFiles, SUse, UseOf
  <2> QED BY <2>2, <2>4
<1> QED BY <1>4, <1>5

LEMMA NothingThere ==
  /\ Missing \in Node /\ Missing.kind = "none" /\ Missing.data = <<>> /\ Missing.free = TRUE
  /\ Folder \in Node /\ Folder.kind = "dir" /\ Folder.data = <<>> /\ Folder.free = TRUE
<1> DEFINE yes == TRUE
<1>1. /\ Missing = [kind |-> "none", data |-> <<>>, free |-> yes]
      /\ Folder = [kind |-> "dir", data |-> <<>>, free |-> yes]
  BY DEF Missing, Folder
<1>2. yes \in BOOLEAN
  OBVIOUS
<1> HIDE DEF yes
<1>3. /\ Missing \in Node /\ Missing.kind = "none" /\ Missing.data = <<>> /\ Missing.free = yes
      /\ Folder \in Node /\ Folder.kind = "dir" /\ Folder.data = <<>> /\ Folder.free = yes
  BY <1>1, <1>2, EmptySeq DEF Node
<1> QED BY <1>3 DEF yes

LEMMA NameSteps ==
  ASSUME FileInv, NEW p \in Path
  PROVE  /\ ssftpCmdDele(p) => FileInv' /\ Store!Delete(p)
         /\ ssftpCmdRmd(p) => FileInv' /\ Store!Rmdir(p)
         /\ ssftpCmdMkd(p) => FileInv' /\ Store!Mkdir(p)
<1>1. /\ Store!Nothing = [kind |-> Missing.kind, data |-> <<>>]
      /\ Store!Folder = [kind |-> Folder.kind, data |-> <<>>]
  BY NothingThere DEF Store!Nothing, Store!Folder
<1>2. Missing.kind # "file" /\ Folder.kind # "file"
  BY NothingThere
<1>3. ASSUME ssftpCmdDele(p)
      PROVE  FileInv' /\ Store!Delete(p)
  BY <1>1, <1>2, <1>3, NothingThere, NamedSteps DEF ssftpCmdDele, Store!Delete
<1>4. ASSUME ssftpCmdRmd(p)
      PROVE  FileInv' /\ Store!Rmdir(p)
  BY <1>1, <1>2, <1>4, NothingThere, NamedSteps DEF ssftpCmdRmd, Store!Rmdir
<1>5. ASSUME ssftpCmdMkd(p)
      PROVE  FileInv' /\ Store!Mkdir(p)
  BY <1>1, <1>2, <1>5, NothingThere, NamedSteps DEF ssftpCmdMkd, Store!Mkdir
<1> QED BY <1>3, <1>4, <1>5

LEMMA RenameSteps ==
  ASSUME FileInv, NEW p \in Path, NEW q \in Path, ssftpCmdRnto(p, q)
  PROVE  FileInv' /\ Store!Rename(p, q)
<1> DEFINE moved == IF p = q THEN nodes ELSE [nodes EXCEPT ![q] = nodes[p], ![p] = Missing]
<1>1. /\ Using(p) = {} /\ Using(q) = {} /\ UNCHANGED <<platform, handle, objects, containers>>
  BY DEF ssftpCmdRnto, Changes
<1>2. PICK done \in {nodes[p].kind # "none"} \cup (IF nodes[q].kind # "none" THEN {FALSE} ELSE {}) :
        Changes(done, moved)
  BY DEF ssftpCmdRnto
<1>3. done \in BOOLEAN /\ (done => nodes[p].kind # "none")
  <2>1. done = (nodes[p].kind # "none") \/ done = FALSE
    BY <1>2
  <2> QED BY <2>1
<1>4. Success(done) <=> done
  BY <1>3, SuccessIs DEF FileInv, TypeOK
<1>5. /\ SFiles[p] = Written(p) /\ SFiles[q] = Written(q) /\ SFiles[p].kind = nodes[p].kind
      /\ Written(p) = [kind |-> nodes[p].kind, data |-> nodes[p].data]
  <2>1. Late(p) = {}
    BY <1>1 DEF Late
  <2> QED BY <2>1, WrittenInNode, WrittenTypes DEF SFiles
<1>6. CASE done
  <2>1. nodes' = moved /\ Says("250")
    BY <1>2, <1>4, <1>6 DEF Changes
  <2>2. Missing \in Node /\ Missing.kind = "none" /\ Missing.data = <<>> /\ Missing.free
    BY NothingThere
  <2>3. /\ nodes' \in [Path -> Node] /\ nodes'[q] = nodes[p]
        /\ p # q => nodes'[p] = Missing
        /\ \A r \in Path \ {p, q} : nodes'[r] = nodes[r]
    BY <2>1, <2>2 DEF FileInv, TypeOK
  <2>4. \A r \in Path : nodes'[r].kind # "file" => nodes'[r].data = <<>>
    BY <2>2, <2>3 DEF FileInv, NodesOK
  <2>5. \A r \in Path : Using(r) # {} => nodes'[r].kind = nodes[r].kind /\ nodes'[r].data = nodes[r].data
    BY <1>1, <2>3
  <2>6. Stdio /\ ~Can("read only") => \A r \in Path : nodes'[r].free
    BY <2>2, <2>3 DEF FileInv, Streams
  <2>7. /\ FileInv'
        /\ \A r \in Path :
             /\ Using(r) = {} => Written(r)' = [kind |-> nodes'[r].kind, data |-> nodes'[r].data]
             /\ nodes'[r].kind = nodes[r].kind /\ nodes'[r].data = nodes[r].data => Written(r)' = Written(r)
    BY <1>1, <2>3, <2>4, <2>5, <2>6, NamesKeep
  <2>8. /\ Written(q)' = Written(p) /\ (p # q => Written(p)' = Store!Nothing)
        /\ \A r \in Path \ {p, q} : Written(r)' = Written(r)
    BY <1>1, <1>5, <2>2, <2>3, <2>7 DEF Store!Nothing
  <2>9. SFiles' = IF p = q THEN SFiles ELSE [SFiles EXCEPT ![q] = SFiles[p], ![p] = Store!Nothing]
    BY <1>5, <2>8 DEF SFiles
  <2>10. SUse' = SUse /\ Store!Says("250")
    BY <1>1, <2>1, UseStays, StoreSays
  <2>11. SFiles[p].kind # "none"
    BY <1>3, <1>5, <1>6
  <2>12. Store!Rename(p, q)
    BY <2>9, <2>10, <2>11, Zenon DEF Store!Rename, SFiles, SUse, UseOf
  <2> QED BY <2>7, <2>12
<1>7. CASE ~done
  <2>1. Refuses("name") /\ UNCHANGED nodes
    BY <1>2, <1>4, <1>7 DEF Changes
  <2>2. FileInv' /\ SFiles' = SFiles /\ SUse' = SUse
    BY <1>1, <2>1, RefusalKeeps
  <2>3. Store!Refused("name")
    BY <2>1, <2>2, StoreSays
  <2> QED BY <2>2, <2>3 DEF Store!Rename
<1> QED BY <1>6, <1>7

\* CHMOD leaves what there is, and what is in it.
LEMMA ChmodSteps ==
  ASSUME FileInv, NEW p \in Path, ssftpCmdChmod(p)
  PROVE  FileInv' /\ Store!Chmod(p)
<1>1. PICK free \in {TRUE} \cup (IF Can("read only") /\ nodes[p].kind = "file" THEN {FALSE} ELSE {}) :
        Changes(nodes[p].kind # "none", [nodes EXCEPT ![p].free = free])
  BY DEF ssftpCmdChmod
<1>2. free \in BOOLEAN /\ (~Can("read only") => free = TRUE)
  BY <1>1
<1>3. Success(nodes[p].kind # "none") <=> nodes[p].kind # "none"
  BY SuccessIs DEF FileInv, TypeOK
<1>4. SFiles[p].kind = nodes[p].kind
  BY WrittenTypes DEF SFiles
<1>5. UNCHANGED <<platform, handle, objects, containers>>
  BY <1>1 DEF Changes
<1>6. CASE nodes[p].kind # "none"
  <2>1. nodes' = [nodes EXCEPT ![p].free = free] /\ Says("250")
    BY <1>1, <1>3, <1>6 DEF Changes
  <2>2. /\ nodes' \in [Path -> Node] /\ nodes'[p].free = free
        /\ nodes'[p].kind = nodes[p].kind /\ nodes'[p].data = nodes[p].data
        /\ \A q \in Path \ {p} : nodes'[q] = nodes[q]
    <3>1. nodes \in [Path -> Node]
      BY DEF FileInv, TypeOK
    <3> QED BY <1>2, <2>1, <3>1 DEF Node
  <2>3. \A q \in Path : nodes'[q].kind = nodes[q].kind /\ nodes'[q].data = nodes[q].data
    BY <2>2
  <2>4. \A q \in Path : nodes'[q].kind # "file" => nodes'[q].data = <<>>
    BY <2>3 DEF FileInv, NodesOK
  <2>5. Stdio /\ ~Can("read only") => \A q \in Path : nodes'[q].free
    BY <1>2, <2>2 DEF FileInv, Streams
  <2>6. FileInv' /\ \A q \in Path : Written(q)' = Written(q)
    BY <1>5, <2>2, <2>3, <2>4, <2>5, NamesKeep
  <2>7. SFiles' = SFiles /\ SUse' = SUse /\ Store!Says("250")
    BY <1>5, <2>1, <2>6, FilesStay, UseStays, StoreSays
  <2>8. Store!Chmod(p)
    BY <1>4, <1>6, <2>7, Zenon DEF Store!Chmod, SFiles, SUse, UseOf
  <2> QED BY <2>6, <2>8
<1>7. CASE nodes[p].kind = "none"
  <2>1. Refuses("name") /\ UNCHANGED nodes
    BY <1>1, <1>3, <1>7 DEF Changes
  <2>2. FileInv' /\ SFiles' = SFiles /\ SUse' = SUse
    BY <1>5, <2>1, RefusalKeeps
  <2>3. Store!Refused("name")
    BY <2>1, <2>2, StoreSays
  <2>4. Store!Chmod(p)
    BY <1>4, <1>7, <2>3, Zenon DEF Store!Chmod, SFiles, SUse, UseOf
  <2> QED BY <2>2, <2>4
<1> QED BY <1>6, <1>7

------------------------------------------------------------------------------
(* Sizes *)

\* A size is given to a file that nobody uses, or through system calls.
LEMMA ResizeSteps ==
  ASSUME FileInv, NEW p \in Path, NEW done \in BOOLEAN, Resizes(p, done),
         done => nodes[p].kind = "file", Using(p) = {} \/ ~Stdio
  PROVE  FileInv' /\ Store!Resize(p)
<1>1. UNCHANGED <<platform, handle, objects, containers>>
  BY DEF Resizes
<1>2. Resized(done) => nodes[p].kind = "file"
  BY AnswersAre DEF FileInv, TypeOK
<1>3. CASE Resized(done)
  <2>1. PICK n \in NewSize : nodes' = [nodes EXCEPT ![p].data = Sized(@, n)] /\ Says("250")
    BY <1>3 DEF Resizes
  <2>2. /\ nodes \in [Path -> Node] /\ nodes[p] \in Node /\ nodes[p].data \in Data
    BY DEF FileInv, TypeOK, Node, Data
  <2> DEFINE d == Sized(nodes[p].data, n)
  <2>3. d \in Data /\ d = Store!Sized(nodes[p].data, n)
    BY <2>2, SizedIsData
  <2>4. nodes' = [nodes EXCEPT ![p].data = d]
    BY <2>1
  <2> HIDE DEF d
  <2>5. /\ nodes' \in [Path -> Node] /\ nodes'[p].data = d /\ nodes'[p].kind = nodes[p].kind
        /\ nodes'[p].free = nodes[p].free /\ \A q \in Path \ {p} : nodes'[q] = nodes[q]
    BY <2>2, <2>3, <2>4 DEF Node, Data
  <2>6. \A q \in Path : nodes'[q].kind # "file" => nodes'[q].data = <<>>
    BY <1>2, <1>3, <2>5 DEF FileInv, NodesOK
  <2>7. \A q \in Path : Using(q) # {} => nodes'[q].kind = nodes[q].kind
                                         /\ (Stdio => nodes'[q].data = nodes[q].data)
    BY <2>5
  <2>8. Stdio /\ ~Can("read only") => \A q \in Path : nodes'[q].free
    BY <2>5 DEF FileInv, Streams
  <2>9. /\ FileInv'
        /\ \A q \in Path :
             /\ Using(q) = {} \/ ~Stdio => Written(q)' = [kind |-> nodes'[q].kind, data |-> nodes'[q].data]
             /\ nodes'[q].kind = nodes[q].kind /\ nodes'[q].data = nodes[q].data => Written(q)' = Written(q)
    BY <1>1, <2>5, <2>6, <2>7, <2>8, NamesKeep
  <2>10. Late(p) = {}
    BY LateIs DEF Late
  <2>11. SFiles[p] = [kind |-> nodes[p].kind, data |-> nodes[p].data]
    BY <2>10, WrittenInNode DEF SFiles
  <2>12. Written(p)' = [kind |-> nodes[p].kind, data |-> d]
    BY <2>5, <2>9
  <2>13. SFiles' = [SFiles EXCEPT ![p] = Written(p)']
    <3>1. \A q \in Path \ {p} : Written(q)' = Written(q)
      BY <2>5, <2>9
    <3> QED BY <3>1, FileChanges
  <2>14. Written(p)' = [SFiles[p] EXCEPT !.data = d]
    BY <2>11, <2>12
  <2>15. SFiles' = [SFiles EXCEPT ![p].data = Store!Sized(@, n)]
    BY <2>3, <2>11, <2>13, <2>14
  <2>16. SUse' = SUse /\ Store!Says("250") /\ SFiles[p].kind = "file"
    BY <1>1, <1>2, <1>3, <2>1, <2>11, UseStays, StoreSays
  <2>17. Store!Resize(p)
    BY <2>15, <2>16, Zenon DEF Store!Resize, SFiles, SUse, UseOf
  <2> QED BY <2>9, <2>17
<1>4. CASE ~Resized(done)
  <2>1. Refuses("size") /\ UNCHANGED nodes
    BY <1>4 DEF Resizes
  <2>2. FileInv' /\ Store!Refused("size")
    BY <1>1, <2>1, RefusalKeeps, StoreSays
  <2> QED BY <2>2 DEF Store!Resize
<1> QED BY <1>3, <1>4

\* What is asked or set for an open file.
LEMMA SizeSteps ==
  ASSUME FileInv, Bearable
  PROVE  /\ \A p \in Path : ssftpFsTruncate(p) => FileInv' /\ Store!Resize(p)
         /\ \A c \in Client : ssftpFsFtruncate(c) => FileInv' /\ \E p \in Path : Store!Resize(p)
         /\ \A c \in Client : ssftpFsFstat(c) => FileInv' /\ Store!Measure(c)
<1>1. Can("sized") => ~Stdio
  <2> SUFFICES ASSUME Can("sized"), Stdio
               PROVE  FALSE
    OBVIOUS
  <2>1. "sized" \in {"read only", "far rest"}
    BY StreamsAre DEF FileInv, TypeOK
  <2> QED BY <2>1
<1>2. ASSUME NEW p \in Path, ssftpFsTruncate(p)
      PROVE  FileInv' /\ Store!Resize(p)
  <2>1. Using(p) = {} \/ ~Stdio
    BY <1>1, <1>2 DEF ssftpFsTruncate
  <2>2. PICK done \in BOOLEAN : Resizes(p, done) /\ (done => nodes[p].kind = "file")
    <3> DEFINE can == nodes[p].kind = "file" /\ nodes[p].free
    <3>1. Resizes(p, can)
      BY <1>2 DEF ssftpFsTruncate
    <3>2. can \in BOOLEAN /\ (can => nodes[p].kind = "file")
      OBVIOUS
    <3> HIDE DEF can
    <3> QED BY <3>1, <3>2
  <2> QED BY <2>1, <2>2, ResizeSteps
<1>3. ASSUME NEW c \in Client, handle[c].op \in Transfers, NEW p \in handle[c].on
      PROVE  p \in Path /\ nodes[p].kind = "file"
  <2>1. p \in Path
    BY DEF FileInv, TypeOK, Handle
  <2>2. Open(c) /\ ~handle[c].dir
    BY <1>3, OpenIs DEF FileInv, Transfers
  <2>3. c \in Using(p)
    BY <2>2 DEF Using
  <2> QED BY <2>1, <2>3 DEF FileInv, NodesOK
<1>4. ASSUME NEW c \in Client, ssftpFsFtruncate(c)
      PROVE  FileInv' /\ \E p \in Path : Store!Resize(p)
  <2>1. PICK p \in handle[c].on : Resizes(p, TRUE)
    BY <1>4 DEF ssftpFsFtruncate
  <2>2. p \in Path /\ nodes[p].kind = "file"
    BY <1>3, <1>4 DEF ssftpFsFtruncate, Transfers
  <2>3. ~Stdio
    BY <1>1, <1>4 DEF ssftpFsFtruncate
  <2> QED BY <2>1, <2>2, <2>3, ResizeSteps
<1>5. ASSUME NEW c \in Client, ssftpFsFstat(c)
      PROVE  FileInv' /\ Store!Measure(c)
  <2>1. PICK p \in handle[c].on : Gives([size |-> Len(nodes[p].data)])
    BY <1>5 DEF ssftpFsFstat
  <2>2. p \in Path /\ handle[c].op \in Transfers
    BY <1>3, <1>5 DEF ssftpFsFstat, Transfers
  <2>3. SFiles[p].data = nodes[p].data
    <3>1. ~Stdio
      BY <1>1, <1>5 DEF ssftpFsFstat
    <3>2. Late(p) = {}
      BY <2>2, <3>1, LateIs
    <3> QED BY <2>2, <3>2, WrittenInNode DEF SFiles
  <2>4. FileInv' /\ SFiles' = SFiles /\ SUse' = SUse
    BY <1>5, RefusalKeeps DEF ssftpFsFstat
  <2>5. p \in SUse[c].on /\ SUse[c].doing \in {"reading", "writing", "appending"}
    BY <2>2, UseIs DEF Transfers, Doing
  <2>6. Store!Gives([size |-> Len(SFiles[p].data)])
    BY <2>1, <2>3, StoreSays
  <2>7. Store!Measure(c)
    BY <2>4, <2>5, <2>6, Zenon DEF Store!Measure, SFiles, SUse, UseOf
  <2> QED BY <2>4, <2>7
<1> QED BY <1>2, <1>4, <1>5

------------------------------------------------------------------------------
(* FileSys implements FileStore *)

LEMMA BeginSteps ==
  ASSUME FileInv, Bearable, NEW c \in Client, Begin(c)
  PROVE  FileInv' /\ Store!Begin(c)
<1>1. ~Open(c) /\ UNCHANGED platform
  BY DEF Begin
<1>2. SUse[c].doing = "nothing"
  <2>1. handle[c].op = "none"
    BY <1>1, OpenIs DEF FileInv
  <2>2. Doing(handle[c].op) = "nothing"
    BY <2>1 DEF Doing
  <2> QED BY <2>2, UseIs
<1>3. CASE ssftpCmdList(c)
  <2>1. FileInv' /\ Store!List(c)
    BY <1>1, <1>3, ListCommandSteps
  <2> QED BY <1>2, <2>1, Zenon DEF Store!Begin, SFiles, SUse, UseOf
<1>4. ASSUME NEW p \in Path, NEW rest \in 0..MaxRest,
             Using(p) = {} \/ Can("shared"), Reached(rest), ssftpCmdRetr(c, p, rest)
      PROVE  FileInv' /\ Store!Begin(c)
  <2>1. FileInv' /\ Store!Retrieve(c, p, rest)
    BY <1>1, <1>4, RetrSteps
  <2> QED BY <1>2, <2>1, Zenon DEF Store!Begin, SFiles, SUse, UseOf
<1>5. ASSUME NEW p \in Path, NEW rest \in 0..MaxRest, NEW verb \in {"stor", "appe"},
             Using(p) = {} \/ Can("shared"), Reached(rest), ssftpCmdStor(c, p, verb, rest)
      PROVE  FileInv' /\ Store!Begin(c)
  <2>1. /\ FileInv'
        /\ verb = "stor" => Store!Store(c, p, rest)
        /\ verb = "appe" => Store!Extend(c, p)
    BY <1>1, <1>5, StorSteps
  <2>2. Store!Store(c, p, rest) \/ Store!Extend(c, p)
    BY <2>1
  <2> QED BY <1>2, <2>1, <2>2, Zenon DEF Store!Begin, SFiles, SUse, UseOf
<1>6. \/ ssftpCmdList(c)
      \/ \E p \in Path, rest \in 0..MaxRest :
           /\ Using(p) = {} \/ Can("shared")
           /\ Reached(rest)
           /\ ssftpCmdRetr(c, p, rest) \/ \E verb \in {"stor", "appe"} : ssftpCmdStor(c, p, verb, rest)
  BY Zenon DEF Begin, Reached
<1> QED BY <1>3, <1>4, <1>5, <1>6, Zenon

LEMMA FileNext ==
  ASSUME Bearable, FileInv, [Next]_vars
  PROVE  FileInv' /\ [Store!Next]_(Store!vars)
<1>1. ASSUME SFiles' = SFiles, SUse' = SUse, UNCHANGED heard
      PROVE  [Store!Next]_(Store!vars)
  BY <1>1 DEF Store!vars, SFiles, SUse, UseOf
<1>2. CASE UNCHANGED vars
  <2>1. FileInv' /\ SFiles' = SFiles /\ SUse' = SUse
    BY <1>2, RefusalKeeps DEF vars
  <2> QED BY <1>1, <1>2, <2>1 DEF vars
<1>3. ASSUME NEW c \in Client,
             Begin(c) \/ ssftpDataRetr(c) \/ ssftpDataStor(c) \/ ssftpDataList(c) \/ Abort(c)
      PROVE  FileInv' /\ [Store!Next]_(Store!vars)
  <2>1. /\ FileInv'
        /\ Store!Begin(c) \/ Store!Read(c) \/ Store!Write(c) \/ Store!Entry(c) \/ Store!Stops(c)
    BY <1>3, BeginSteps, ReadSteps, WriteSteps, ListSteps, AbortSteps
  <2>2. Store!Next
    BY <2>1, Zenon DEF Store!Next
  <2> QED BY <2>1, <2>2
<1>4. ASSUME NEW p \in Path, ssftpCmdDele(p) \/ ssftpCmdRmd(p) \/ ssftpCmdMkd(p)
      PROVE  FileInv' /\ [Store!Next]_(Store!vars)
  <2>1. FileInv' /\ (Store!Delete(p) \/ Store!Rmdir(p) \/ Store!Mkdir(p))
    BY <1>4, NameSteps
  <2>2. Store!Next
    BY <2>1, Zenon DEF Store!Next
  <2> QED BY <2>1, <2>2
<1>5. ASSUME NEW p \in Path, ssftpCmdChmod(p) \/ ssftpFsTruncate(p)
      PROVE  FileInv' /\ [Store!Next]_(Store!vars)
  <2>1. FileInv' /\ (Store!Chmod(p) \/ Store!Resize(p))
    BY <1>5, ChmodSteps, SizeSteps
  <2>2. Store!Next
    BY <2>1, Zenon DEF Store!Next
  <2> QED BY <2>1, <2>2
<1>6. ASSUME NEW p \in Path, NEW q \in Path, ssftpCmdRnto(p, q)
      PROVE  FileInv' /\ [Store!Next]_(Store!vars)
  <2>1. FileInv' /\ Store!Rename(p, q)
    BY <1>6, RenameSteps
  <2>2. Store!Next
    BY <2>1, Zenon DEF Store!Next
  <2> QED BY <2>1, <2>2
<1>7. ASSUME NEW c \in Client, ssftpFsFtruncate(c) \/ ssftpFsFstat(c)
      PROVE  FileInv' /\ [Store!Next]_(Store!vars)
  <2>1. FileInv' /\ (Store!Measure(c) \/ \E p \in Path : Store!Resize(p))
    BY <1>7, SizeSteps
  <2>2. Store!Next
    BY <2>1, Zenon DEF Store!Next
  <2> QED BY <2>1, <2>2
<1>8. Next \/ UNCHANGED vars
  OBVIOUS
<1> QED BY <1>2, <1>3, <1>4, <1>5, <1>6, <1>7, <1>8, Zenon DEF Next

\* The five implementations of compat/fs.h, under RETR, STOR, APPE, LIST, DELE, RMD,
\* MKD, RNTO and CHMOD (cmd.c) and what an application may ask of sizes, are the
\* FileStore the commands expect: what was sent
\* is in the file from then on, wherever stdio keeps it, and no flag loses what REST
\* or APPE keeps.
THEOREM FileSysImplementsFileStore ==
  ASSUME Bearable
  PROVE  Spec => ImplementsFileStore
<1>1. Init => FileInv /\ Store!Init
  BY FileInitial
<1>2. FileInv /\ [Next]_vars => FileInv' /\ [Store!Next]_(Store!vars)
  BY FileNext
<1> QED BY <1>1, <1>2, PTL DEF Spec, ImplementsFileStore, Store!Spec

==============================================================================
