------------------------------- MODULE Session -------------------------------
(***************************************************************************)
(* One control connection: what commands/*.c make of the commands a client *)
(* sends in any order, also while a transfer is running, and what becomes  *)
(* of the files.  EventLoop decides when a command or a data event is      *)
(* handled; here it may be whenever the connection it needs is open.       *)
(*                                                                         *)
(* A file is named by a directory and a name and holds blocks, one of them *)
(* read or written by one data event.  The file system is the one of       *)
(* compat/fs/posix.c; a file that is removed while it is open lives on     *)
(* until it is closed.                                                     *)
(***************************************************************************)
EXTENDS Integers, Sequences

CONSTANTS Dir,         \* directories; Root always exists
          Root,
          Name,        \* names of files in a directory
          Inode,       \* files on the disk
          Block,       \* what a file is made of
          Hole,        \* a block that was never written
          First,       \* the file that is there at the start, and its blocks
          Content,
          None,        \* NULL, the empty string
          Verbs,       \* the commands the client sends in this instance
          MaxRest,     \* bound on the argument of REST, in blocks
          MaxSent,     \* bound on the blocks of one upload
          MaxSize,     \* bound on the blocks of a file
          ReadErrors,  \* whether reading a file may fail
          HangUps      \* whether poll may report POLLERR or POLLHUP for a transfer

File == Dir \X Name

\* What an open file or directory is.
FileOps == {"retr", "stor"}
DirOps  == {"list", "nlst"}
Handle  == [op : FileOps, node : Inode, pos : Nat, app : BOOLEAN] \cup [op : DirOps, left : SUBSET Name]

ASSUME SessionAssumption ==
  /\ Root \in Dir /\ First \in {Root} \X Name
  /\ Content \in Seq(Block) /\ Hole \notin Block
  /\ None \notin Inode \cup File \cup Handle
  /\ MaxRest \in Nat /\ MaxSent \in Nat /\ MaxSize \in Nat
  /\ ReadErrors \in BOOLEAN /\ HangUps \in BOOLEAN

VARIABLES open,    \* the control connection exists
          cl,      \* its struct FTPClient
          disk,    \* directories, the inode of each file, the blocks of each inode
          reply,   \* the last reply, FTP_ and the number in server/response.h
          owed,    \* 150 was sent and the reply that ends the transfer was not
          xfer     \* for the properties: what the last transfer moved, from where

vars == <<open, cl, disk, reply, owed, xfer>>

\* The messages of server/response.h; the rest are worded where they are sent.
Messages ==
  {"150", "200", "202", "215", "221", "226", "226A", "227", "230", "230A", "250", "257", "331",
   "350", "350A", "421", "425", "450", "451", "452", "501", "502", "503", "504", "530", "550", "554"}
Worded == {"211", "213", "214", "220"}

\* cwd is a directory, as PathName resolves it; actv is whether PORT was given.
NoXfer == [from |-> 0, before |-> <<>>, dir |-> Root, moved |-> <<>>]

NewClient == [auth |-> FALSE, named |-> FALSE, rest |-> 0, rnfr |-> None,
              write |-> TRUE, cwd |-> Root, actv |-> FALSE,
              data |-> FALSE, pasv |-> FALSE, handle |-> None]

FileHandle(op, node, pos, app) == [op |-> op, node |-> node, pos |-> pos, app |-> app]
DirHandle(op, left)            == [op |-> op, left |-> left]

Transferring == cl.handle # None
Doing(ops)   == Transferring /\ cl.handle.op \in ops

------------------------------------------------------------------------------
(* the disk *)

Node(f)   == disk.names[f]
Exists(f) == Node(f) # None

\* The blocks of a file without a name go once it is not open either.
Reclaimed(d, n) ==
  IF n = None \/ (Doing(FileOps) /\ cl.handle.node = n) THEN d ELSE [d EXCEPT !.blocks[n] = <<>>]

Unlinked(f) == Reclaimed([disk EXCEPT !.names[f] = None], Node(f))

Renamed(f, t) ==
  IF f = t THEN disk
  ELSE Reclaimed([disk EXCEPT !.names = [@ EXCEPT ![f] = None, ![t] = Node(f)]], Node(t))

UsedInodes == {Node(f) : f \in File} \cup (IF Doing(FileOps) THEN {cl.handle.node} ELSE {})

\* Writing behind the end leaves a hole.
WriteAt(s, pos, b) ==
  [k \in 1..(IF pos < Len(s) THEN Len(s) ELSE pos + 1) |->
     IF k = pos + 1 THEN b ELSE IF k <= Len(s) THEN s[k] ELSE Hole]

\* Mutant: an existing file is never truncated.
ssftpFsOpen_keeps(f, flags) ==
  IF "creat" \in flags
  THEN {<<[disk EXCEPT !.names[f] = n, !.blocks[n] = <<>>], n>> :
          n \in IF f[1] \in disk.dirs THEN Inode \ UsedInodes ELSE {}}
  ELSE IF ~Exists(f) THEN {} ELSE {<<disk, Node(f)>>}

\* The disks and inodes an open can give when it succeeds.
ssftpFsOpen(f, flags) ==
  IF "creat" \in flags
  THEN {<<[disk EXCEPT !.names[f] = n, !.blocks[n] = <<>>], n>> :
          n \in IF f[1] \in disk.dirs THEN Inode \ UsedInodes ELSE {}}
  ELSE IF ~Exists(f) THEN {}
  ELSE {<<IF "trunc" \in flags THEN [disk EXCEPT !.blocks[Node(f)] = <<>>] ELSE disk, Node(f)>>}

------------------------------------------------------------------------------
(* the data connection, as in server/client.c *)

\* Mutant: the file stays open.
ftpclient_data_end_keeps_handle(c) == [c EXCEPT !.data = FALSE, !.pasv = FALSE]

ftpclient_data_end(c) == [c EXCEPT !.handle = None, !.data = FALSE, !.pasv = FALSE]

\* The peer may not come, or not be there.
ftpclient_data_start(c) ==
  IF c.data THEN {<<c, TRUE>>}
  ELSE IF c.pasv THEN {<<[c EXCEPT !.pasv = FALSE, !.data = came], came>> : came \in BOOLEAN}
  ELSE {<<[c EXCEPT !.actv = FALSE, !.data = came], came>> : came \in BOOLEAN}

ftpclient_data_pasv(c) ==
  IF c.data THEN {<<c, FALSE>>}
  ELSE {<<[c EXCEPT !.pasv = bound], bound>> : bound \in BOOLEAN}

------------------------------------------------------------------------------
Init ==
  /\ open = FALSE /\ cl = NewClient /\ reply = "none" /\ owed = FALSE
  /\ xfer = NoXfer
  /\ \E n \in Inode :
       disk = [dirs   |-> {Root},
               names  |-> [f \in File |-> IF f = First THEN n ELSE None],
               blocks |-> [m \in Inode |-> IF m = n THEN Content ELSE <<>>]]

Connect ==
  /\ ~open /\ open' = TRUE /\ cl' = NewClient /\ reply' = "220"
  /\ UNCHANGED <<disk, owed, xfer>>

\* QUIT, end of file, an error, a hang-up, or a reply that could not be sent.
Disconnect(code) ==
  /\ open' = FALSE /\ cl' = NewClient /\ reply' = code /\ owed' = FALSE /\ xfer' = NoXfer
  /\ UNCHANGED disk

ConnectionLost == open /\ Disconnect("none")
ssftpCmdQuit   == open /\ "QUIT" \in Verbs /\ Disconnect("221")

------------------------------------------------------------------------------
(* how a command answers *)

Command(verb) == open /\ verb \in Verbs
Allowed(verb) == Command(verb) /\ cl.auth

\* The client is now c; neither the disk nor a running transfer is touched.
Answer(c, code) ==
  /\ cl' = c /\ reply' = code
  /\ UNCHANGED <<open, disk, owed, xfer>>

Fails(code) == Answer(cl, code)

\* All but USER, PASS, ACCT, QUIT and those that tell about the server.  CHMOD
\* and WRITE come through ssftpCmdSite, which asks for nothing itself.
NeedsLogin == {"ABOR", "ALLO", "APPE", "CDUP", "CHMOD", "CWD", "DELE", "LIST", "MDTM", "MKD",
               "MODE", "NLST", "PASV", "PORT", "PWD", "REST", "RETR", "RMD", "RNFR", "RNTO",
               "SIZE", "STOR", "STRU", "TYPE", "WRITE"}

NotLoggedIn == \E verb \in NeedsLogin : Command(verb) /\ ~cl.auth /\ Fails("530")

\* Some commands do not ask whether there is an argument.  Without one the process ends
\* at a null pointer; Connect comes after the server was started again.
NullArgument(verb) == Allowed(verb) /\ Disconnect("none")

(* commands that only look and answer *)

Looks(verb, code) == Allowed(verb) /\ Fails(code)

ssftpCmdAllo  == Looks("ALLO", "202")
ssftpCmdPwd   == Looks("PWD", "257")
ssftpCmdMode  == Looks("MODE", "200") \/ Looks("MODE", "504") \/ NullArgument("MODE")
ssftpCmdStru  == Looks("STRU", "200") \/ Looks("STRU", "504") \/ NullArgument("STRU")
ssftpCmdType  == Looks("TYPE", "200") \/ NullArgument("TYPE")
ssftpCmdSize  == \E f \in File : Looks("SIZE", IF Exists(f) THEN "213" ELSE "550")
ssftpCmdMdtm  == \E f \in File : Looks("MDTM", IF Exists(f) THEN "213" ELSE "550")
ssftpCmdChmod == Looks("CHMOD", "550") \/ \E f \in File : Exists(f) /\ Looks("CHMOD", "200")

\* These ask for no login.
ssftpCmdHelp == Command("HELP") /\ Fails("214")
ssftpCmdNoop == Command("NOOP") /\ Fails("200")
ssftpCmdSyst == Command("SYST") /\ Fails("215")
ssftpCmdStat == Command("STAT") /\ Fails("211")
ssftpCmdFeat == Command("FEAT") /\ Fails("211")

Inform ==
  \/ ssftpCmdAllo \/ ssftpCmdPwd \/ ssftpCmdMode \/ ssftpCmdStru \/ ssftpCmdType
  \/ ssftpCmdSize \/ ssftpCmdMdtm \/ ssftpCmdChmod
  \/ ssftpCmdHelp \/ ssftpCmdNoop \/ ssftpCmdSyst \/ ssftpCmdStat \/ ssftpCmdFeat

(* logging in *)

ssftpCmdUser ==
  /\ Command("USER")
  /\ IF cl.auth THEN Fails("202") ELSE Answer([cl EXCEPT !.named = TRUE], "331")

ssftpCmdPass ==
  /\ Command("PASS")
  /\ IF cl.auth THEN Fails("202") ELSE Answer([cl EXCEPT !.named = TRUE, !.auth = TRUE], "230")

\* Mutant: the test is the one ssftpCmdPass has.
ssftpCmdAcct_as_pass ==
  /\ Command("ACCT")
  /\ IF cl.auth THEN Fails("202") ELSE Answer([cl EXCEPT !.auth = TRUE], "230A")

ssftpCmdAcct ==
  /\ Command("ACCT")
  /\ IF ~cl.auth THEN Fails("202") ELSE Answer([cl EXCEPT !.auth = TRUE], "230A")

(* directories and names; the operating system may refuse any change *)

ssftpCmdCwd ==
  /\ Allowed("CWD")
  /\ \E d \in Dir : IF d \in disk.dirs THEN Answer([cl EXCEPT !.cwd = d], "250") ELSE Fails("550")

\* Every directory but the root is one below it.
ssftpCmdCdup == Allowed("CDUP") /\ Answer([cl EXCEPT !.cwd = Root], "250")

Changes(newDisk, code) ==
  /\ disk' = newDisk /\ reply' = code
  /\ UNCHANGED <<open, cl, owed, xfer>>

ssftpCmdMkd ==
  /\ Allowed("MKD")
  /\ \/ \E d \in Dir \ disk.dirs : Changes([disk EXCEPT !.dirs = @ \cup {d}], "257")
     \/ Fails("550")

ssftpCmdRmd ==
  /\ Allowed("RMD")
  /\ \/ \E d \in disk.dirs \ {Root} :
          /\ \A n \in Name : ~Exists(<<d, n>>)
          /\ Changes([disk EXCEPT !.dirs = @ \ {d}], "250")
     \/ Fails("550")

\* Mutant: the login is not asked for.
ssftpCmdDele_anyone ==
  /\ Command("DELE")
  /\ \/ \E f \in File : Exists(f) /\ Changes(Unlinked(f), "250")
     \/ Fails("550")

ssftpCmdDele ==
  /\ Allowed("DELE")
  /\ \/ \E f \in File : Exists(f) /\ Changes(Unlinked(f), "250")
     \/ Fails("550")

ssftpCmdRnfr ==
  /\ Allowed("RNFR")
  /\ \E f \in File : IF Exists(f) THEN Answer([cl EXCEPT !.rnfr = f], "350A") ELSE Fails("550")

\* The source is forgotten in any case.
ssftpCmdRnto ==
  /\ Allowed("RNTO")
  /\ cl' = [cl EXCEPT !.rnfr = None]
  /\ \/ /\ reply' = "550" /\ disk' = disk
     \/ /\ cl.rnfr # None /\ Exists(cl.rnfr) /\ reply' = "250"
        /\ \E f \in File : f[1] \in disk.dirs /\ disk' = Renamed(cl.rnfr, f)
  /\ UNCHANGED <<open, owed, xfer>>

(* settings *)

\* Mutant: a negative offset is taken as well.
ssftpCmdRest_any ==
  \/ NullArgument("REST")
  \/ Allowed("REST") /\ \E k \in -1..MaxRest : Answer([cl EXCEPT !.rest = k], "350")

\* A negative offset is answered with 554.
ssftpCmdRest ==
  \/ NullArgument("REST") \/ Looks("REST", "554")
  \/ Allowed("REST") /\ \E k \in 0..MaxRest : Answer([cl EXCEPT !.rest = k], "350")

\* With a data connection the port is refused.
ssftpCmdPort ==
  \/ NullArgument("PORT") \/ Looks("PORT", "501")
  \/ cl.data /\ Looks("PORT", "450")
  \/ ~cl.data /\ Allowed("PORT") /\ Answer([cl EXCEPT !.actv = TRUE], "200")

ssftpCmdWrite == Allowed("WRITE") /\ Answer([cl EXCEPT !.write = ~@], "200")

------------------------------------------------------------------------------
(* transfers *)

ssftpCmdPasv ==
  /\ Allowed("PASV")
  /\ \E out \in ftpclient_data_pasv(cl) :
       IF out[2] THEN Answer(out[1], "227") ELSE Answer(ftpclient_data_end(out[1]), "425")

ssftpCmdAbor ==
  /\ Allowed("ABOR")
  /\ cl' = ftpclient_data_end(cl) /\ reply' = "226A" /\ owed' = FALSE /\ xfer' = NoXfer
  /\ UNCHANGED <<open, disk>>

\* The connection that ftpclient_event accepts before the transfer is asked for.
PasvEvent ==
  /\ open /\ cl.pasv
  /\ \E came \in BOOLEAN : Answer([cl EXCEPT !.pasv = FALSE, !.data = came], reply)

\* The handle is open: 150 or 425.
Start(c, from, before) ==
  \E out \in ftpclient_data_start(c) :
    IF out[2]
    THEN /\ cl' = out[1] /\ reply' = "150" /\ owed' = TRUE
         /\ xfer' = [from |-> from, before |-> before, dir |-> cl.cwd, moved |-> <<>>]
         /\ UNCHANGED open
    ELSE /\ cl' = ftpclient_data_end(out[1]) /\ reply' = "425"
         /\ UNCHANGED <<open, owed, xfer>>

Listing(op) ==
  IF Transferring THEN Fails("450")
  ELSE \/ Fails("550")
       \/ /\ cl.cwd \in disk.dirs
          /\ LET left == {n \in Name : Exists(<<cl.cwd, n>>)}
             IN  Start([cl EXCEPT !.handle = DirHandle(op, left)], 0, left)
          /\ UNCHANGED disk

ssftpCmdList == Allowed("LIST") /\ Listing("list")
ssftpCmdNlst == Allowed("NLST") /\ Listing("nlst")

\* Mutant: the file is not positioned.
Opened_at_start(op, node, app) ==
  [cl EXCEPT !.handle = FileHandle(op, node, 0, app), !.rest = 0]

\* ssftpFsLseek, and the offset is used up.
Opened(op, node, app) ==
  [cl EXCEPT !.handle = FileHandle(op, node, cl.rest, app), !.rest = 0]

ssftpCmdRetr ==
  /\ Allowed("RETR")
  /\ IF Transferring THEN Fails("450")
     ELSE \/ Fails("550")
          \/ \E f \in File : \E out \in ssftpFsOpen(f, {}) :
               /\ disk' = out[1]
               /\ Start(Opened("retr", out[2], FALSE), cl.rest, disk.blocks[out[2]])

\* oflags as STOR and APPE compute them.
Oflags(f, appe) ==
  (IF Exists(f) THEN {} ELSE {"creat"}) \cup
  (IF appe THEN {"append"} ELSE IF cl.rest = 0 THEN {"trunc"} ELSE {})

\* "wb" comes before "ab+": a file that is created is not in append mode.
ssftpCmdStor ==
  \E appe \in BOOLEAN :
    /\ Allowed(IF appe THEN "APPE" ELSE "STOR")
    /\ IF Transferring THEN Fails("450")
       ELSE \/ Fails("550")
            \/ \E f \in File : \E out \in ssftpFsOpen(f, Oflags(f, appe)) :
                 /\ disk' = out[1]
                 /\ LET app == appe /\ Exists(f)
                    IN  Start(Opened("stor", out[2], app),
                              IF app THEN Len(disk.blocks[out[2]]) ELSE cl.rest,
                              IF appe \/ cl.rest # 0 THEN out[1].blocks[out[2]] ELSE <<>>)

(* data events *)

\* Mutant: what cannot be written is not answered.
Finish_silently(code) ==
  /\ cl' = ftpclient_data_end(cl)
  /\ IF code = "452" THEN UNCHANGED <<reply, owed, xfer>>
     ELSE reply' = code /\ owed' = FALSE /\ xfer' = NoXfer
  /\ UNCHANGED <<open, disk>>

\* ftpclient_data_end and the reply.
Finish(code) ==
  /\ cl' = ftpclient_data_end(cl) /\ reply' = code /\ owed' = FALSE /\ xfer' = NoXfer
  /\ UNCHANGED <<open, disk>>

\* One piece reached the peer, or came from it.
Moved(b, c, d) ==
  /\ cl' = c /\ disk' = d /\ xfer' = [xfer EXCEPT !.moved = Append(@, b)]
  /\ UNCHANGED <<open, reply, owed>>

\* Mutant: an entry that is not there ends the listing.
ListEvent_gives_up(op) ==
  /\ Doing({op})
  /\ \/ (\E n \in cl.handle.left : ~Exists(<<cl.cwd, n>>)) /\ Finish("226")
     \/ cl.handle.left = {} /\ Finish("226")
     \/ \E n \in cl.handle.left :
          LET c == [cl EXCEPT !.handle.left = @ \ {n}] IN
          Exists(<<cl.cwd, n>>) /\ (Moved(n, c, disk) \/ Finish("451"))

\* Mutant: an entry that is not there is tried again.
ListEvent_tries_again(op) ==
  /\ Doing({op})
  /\ \/ cl.handle.left = {} /\ Finish("226")
     \/ \E n \in cl.handle.left :
          LET c == [cl EXCEPT !.handle.left = @ \ {n}] IN
          Exists(<<cl.cwd, n>>) /\ (Moved(n, c, disk) \/ Finish("451"))

\* An entry is looked up where the client is now; one that is not there is skipped.
ListEvent(op) ==
  /\ Doing({op})
  /\ \/ cl.handle.left = {} /\ Finish("226")
     \/ \E n \in cl.handle.left :
          LET c == [cl EXCEPT !.handle.left = @ \ {n}] IN
          IF Exists(<<cl.cwd, n>>)
          THEN Moved(n, c, disk) \/ Finish("451")
          ELSE Answer(c, reply)

ssftpDataList == ListEvent("list")
ssftpDataNlst == ListEvent("nlst")

\* Mutant: the last piece is taken for the end.
ssftpDataRetr_short ==
  /\ Doing({"retr"})
  /\ LET s == disk.blocks[cl.handle.node] IN
     \/ cl.handle.pos + 1 >= Len(s) /\ Finish("226")
     \/ cl.handle.pos < Len(s) /\ Moved(s[cl.handle.pos + 1], [cl EXCEPT !.handle.pos = @ + 1], disk)

\* ssftpFsRead returns 0 at the end of the file, and when it cannot read.
ssftpDataRetr ==
  /\ Doing({"retr"})
  /\ LET s == disk.blocks[cl.handle.node] IN
     \/ (cl.handle.pos >= Len(s) \/ ReadErrors) /\ Finish("226")
     \/ cl.handle.pos < Len(s) /\ \/ Moved(s[cl.handle.pos + 1], [cl EXCEPT !.handle.pos = @ + 1], disk)
                                  \/ Finish("451")

\* With writes disabled the piece is dropped.
ssftpDataStor ==
  /\ Doing({"stor"})
  /\ \/ \E code \in {"226", "451"} : Finish(code)
     \/ \E b \in Block :
          LET h   == cl.handle
              pos == IF h.app THEN Len(disk.blocks[h.node]) ELSE h.pos
          IN  /\ Len(xfer.moved) < MaxSent /\ pos < MaxSize
              /\ IF cl.write
                 THEN \/ Moved(b, [cl EXCEPT !.handle.pos = pos + 1],
                               [disk EXCEPT !.blocks[h.node] = WriteAt(@, pos, b)])
                      \/ Finish("452")
                 ELSE Moved(b, cl, disk)

\* POLLERR or POLLHUP on the data connection.
DataHangUp ==
  /\ HangUps /\ open /\ Transferring
  /\ Answer(ftpclient_data_end(cl), reply)

------------------------------------------------------------------------------
DataEvent == ssftpDataList \/ ssftpDataNlst \/ ssftpDataRetr \/ ssftpDataStor

Next ==
  \/ Connect \/ ConnectionLost \/ ssftpCmdQuit \/ NotLoggedIn \/ Inform
  \/ ssftpCmdUser \/ ssftpCmdPass \/ ssftpCmdAcct
  \/ ssftpCmdCwd \/ ssftpCmdCdup \/ ssftpCmdMkd \/ ssftpCmdRmd \/ ssftpCmdDele
  \/ ssftpCmdRnfr \/ ssftpCmdRnto \/ ssftpCmdRest \/ ssftpCmdPort \/ ssftpCmdWrite
  \/ ssftpCmdPasv \/ ssftpCmdAbor \/ PasvEvent
  \/ ssftpCmdList \/ ssftpCmdNlst \/ ssftpCmdRetr \/ ssftpCmdStor
  \/ DataEvent \/ DataHangUp

Spec == Init /\ [][Next]_vars

\* poll reports a data connection again and again while its peer reads.
LiveSpec == Spec /\ WF_vars(DataEvent)

------------------------------------------------------------------------------
Files == Seq(Block \cup {Hole})

TypeOK ==
  /\ open \in BOOLEAN /\ owed \in BOOLEAN /\ reply \in Messages \cup Worded \cup {"none"}
  /\ cl \in [auth : BOOLEAN, named : BOOLEAN, rest : Nat, rnfr : File \cup {None},
             write : BOOLEAN, cwd : Dir, actv : BOOLEAN, data : BOOLEAN, pasv : BOOLEAN,
             handle : Handle \cup {None}]
  /\ disk \in [dirs : SUBSET Dir, names : [File -> Inode \cup {None}], blocks : [Inode -> Files]]
  /\ DOMAIN xfer = {"from", "before", "dir", "moved"}

\* Nothing on the disk changes and no data connection is made before a login,
\* whichever commands come first and whatever they answered.
LoginFirst == [][~cl.auth => disk' = disk /\ ~cl'.data /\ ~cl'.pasv /\ cl'.handle = None]_vars

\* A login always has a user name, also when PASS or ACCT came without USER.
LoginIsNamed == cl.auth => cl.named

\* 226, 451 and 452 answer a 150 that is still unanswered: none comes twice,
\* after an ABOR, or out of a data connection that is over.
NoStrayCompletion ==
  [][reply' \in {"226", "451", "452"} /\ reply' # reply =>
       owed /\ ~owed']_vars

\* Each 150 is answered before its transfer is gone.  Holds without HangUps and
\* without PASV: these two end a transfer and leave its peer waiting.
TransfersAnswered == [][owed /\ Transferring /\ cl'.handle = None /\ open' => ~owed']_vars

\* The transfer of kind op is answered with "Transfer complete."
Completes(ops) == Doing(ops) /\ owed /\ ~owed' /\ reply' = "226"

\* What a file is made of when m was written into it from an offset on.
Overwritten(s, from, m) ==
  LET end == IF m = <<>> THEN 0 ELSE from + Len(m)
  IN  [k \in 1..(IF end > Len(s) THEN end ELSE Len(s)) |->
         IF k \in (from + 1)..end THEN m[k - from] ELSE IF k <= Len(s) THEN s[k] ELSE Hole]

\* After "Transfer complete." a file that was sent holds what was there before,
\* as far as REST or APPE asked to keep it, and every block that arrived.
StoredAsSent ==
  [][Completes({"stor"}) =>
       disk.blocks[cl.handle.node] = Overwritten(xfer.before, xfer.from, xfer.moved)]_vars

\* After "Transfer complete." the peer has all of the file from the offset on,
\* though it may have been renamed or removed meanwhile.
RetrievedInFull ==
  [][Completes({"retr"}) =>
       xfer.moved = SubSeq(xfer.before, xfer.from + 1, Len(xfer.before))]_vars

\* After "Transfer complete." the peer knows every entry the directory had and
\* still has.
ListedInFull ==
  [][Completes(DirOps) =>
       \A n \in xfer.before : Exists(<<xfer.dir, n>>) => \E k \in DOMAIN xfer.moved : xfer.moved[k] = n]_vars

\* A transfer whose peer goes on reading comes to an end.
TransfersEnd == Doing(DirOps \cup {"retr"}) ~> ~Transferring

------------------------------------------------------------------------------
\* "Writes are now disabled.": and the disk stays as it is.
WritesDisabled == [][~cl.write => disk' = disk]_vars

==============================================================================
