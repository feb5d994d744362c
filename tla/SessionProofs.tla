----------------------------- MODULE SessionProofs -----------------------------
(***************************************************************************)
(* One client, any files, any commands: who may do what before a login,    *)
(* that each reply to a transfer is sent once and for a transfer that is   *)
(* there, and what a download and an upload leave when they are complete.  *)
(***************************************************************************)
EXTENDS Session, SequenceTheorems, TLAPS

Client == [auth : BOOLEAN, named : BOOLEAN, rest : Nat, rnfr : File \cup {None},
           write : BOOLEAN, cwd : Dir, actv : BOOLEAN, data : BOOLEAN, pasv : BOOLEAN,
           handle : Handle \cup {None}]
Disk   == [dirs : SUBSET Dir, names : [File -> Inode \cup {None}], blocks : [Inode -> Files]]
Sent   == Messages \cup Worded \cup {"none"}
Fields == {"from", "before", "dir", "moved"}

\* A client has a name when it has logged in, and nothing to transfer before.
Honest(c) ==
  /\ c \in Client
  /\ c.auth => c.named
  /\ ~c.auth => ~c.data /\ ~c.pasv /\ c.handle = None
  /\ "WRITE" \notin Verbs => c.write

\* A transfer is owed a reply; whoever is gone has none.
IInv ==
  /\ open \in BOOLEAN /\ owed \in BOOLEAN /\ reply \in Sent
  /\ Honest(cl) /\ disk \in Disk /\ DOMAIN xfer = Fields
  /\ ~open => cl.handle = None
  /\ Transferring => owed

------------------------------------------------------------------------------
(* What the operators of Session return. *)

LEMMA NewClientHonest == Honest(NewClient)
<1>1. Root \in Dir
  BY SessionAssumption
<1>2. NewClient \in Client
  BY <1>1 DEF NewClient, Client
<1> QED
  BY <1>2 DEF Honest, NewClient

LEMMA NoXferFields == DOMAIN NoXfer = Fields
BY DEF NoXfer, Fields

LEMMA DataEndHonest ==
  ASSUME NEW c, Honest(c)
  PROVE  Honest(ftpclient_data_end(c)) /\ ftpclient_data_end(c).handle = None
BY DEF Honest, Client, ftpclient_data_end

LEMMA DataStartHonest ==
  ASSUME NEW c, Honest(c), c.auth, NEW out \in ftpclient_data_start(c)
  PROVE  /\ Honest(out[1]) /\ out[1].handle = c.handle /\ out[1].auth
         /\ out[2] \in BOOLEAN
<1>1. CASE c.data
  <2>1. out = <<c, TRUE>>
    BY <1>1 DEF ftpclient_data_start
  <2>2. out[1] = c /\ out[2] = TRUE
    BY <2>1
  <2> QED
    BY <2>2
<1>2. CASE ~c.data /\ c.pasv
  <2>1. PICK came \in BOOLEAN : out = <<[c EXCEPT !.pasv = FALSE, !.data = came], came>>
    BY <1>2 DEF ftpclient_data_start
  <2> QED
    BY <2>1 DEF Honest, Client
<1>3. CASE ~c.data /\ ~c.pasv
  <2>1. PICK came \in BOOLEAN : out = <<[c EXCEPT !.actv = FALSE, !.data = came], came>>
    BY <1>3 DEF ftpclient_data_start
  <2> QED
    BY <2>1 DEF Honest, Client
<1> QED
  BY <1>1, <1>2, <1>3

LEMMA DataPasvHonest ==
  ASSUME NEW c, Honest(c), c.auth, NEW out \in ftpclient_data_pasv(c)
  PROVE  Honest(out[1]) /\ out[1].handle = c.handle
<1>1. CASE c.data
  BY <1>1 DEF ftpclient_data_pasv
<1>2. CASE ~c.data
  <2>1. PICK bound \in BOOLEAN : out = <<[c EXCEPT !.pasv = bound], bound>>
    BY <1>2 DEF ftpclient_data_pasv
  <2> QED
    BY <2>1 DEF Honest, Client
<1> QED
  BY <1>1, <1>2

LEMMA OpenKeepsDisk ==
  ASSUME disk \in Disk, NEW f \in File, NEW flags, NEW out \in ssftpFsOpen(f, flags)
  PROVE  out[1] \in Disk /\ out[2] \in Inode /\ out[1].blocks[out[2]] \in Files
<1>1. <<>> \in Files
  BY DEF Files
<1>2. CASE "creat" \in flags
  <2>1. PICK n \in Inode : out = <<[disk EXCEPT !.names[f] = n, !.blocks[n] = <<>>], n>>
    BY <1>2 DEF ssftpFsOpen
  <2> QED
    BY <1>1, <2>1 DEF Disk
<1>3. CASE "creat" \notin flags
  <2>1. /\ Node(f) # None
        /\ out = <<IF "trunc" \in flags THEN [disk EXCEPT !.blocks[Node(f)] = <<>>] ELSE disk, Node(f)>>
    BY <1>3 DEF ssftpFsOpen, Exists
  <2>2. Node(f) \in Inode
    BY <2>1 DEF Node, Disk
  <2> QED
    BY <1>1, <2>1, <2>2 DEF Disk
<1> QED
  BY <1>2, <1>3

LEMMA WriteAtIsFile ==
  ASSUME NEW s \in Files, NEW pos \in Nat, NEW b \in Block
  PROVE  WriteAt(s, pos, b) \in Files
<1> DEFINE n == IF pos < Len(s) THEN Len(s) ELSE pos + 1
<1>1. Len(s) \in Nat /\ n \in Nat
  BY DEF Files
<1>2. \A k \in 1..n : (IF k = pos + 1 THEN b ELSE IF k <= Len(s) THEN s[k] ELSE Hole) \in Block \cup {Hole}
  BY <1>1 DEF Files
<1>3. WriteAt(s, pos, b) \in [1..n -> Block \cup {Hole}]
  BY <1>2 DEF WriteAt
<1> QED
  BY <1>1, <1>3 DEF Files

LEMMA UnlinkedIsDisk ==
  ASSUME disk \in Disk, NEW f \in File
  PROVE  Unlinked(f) \in Disk
<1>1. <<>> \in Files
  BY DEF Files
<1> QED
  BY <1>1 DEF Unlinked, Reclaimed, Disk, Node

LEMMA RenamedIsDisk ==
  ASSUME disk \in Disk, NEW f \in File, NEW t \in File
  PROVE  Renamed(f, t) \in Disk
<1>1. <<>> \in Files
  BY DEF Files
<1> QED
  BY <1>1 DEF Renamed, Reclaimed, Disk, Node

------------------------------------------------------------------------------
(* The ways a command or an event ends. *)

Ends == {"226", "451", "452"}

NothingBefore == ~cl.auth => disk' = disk /\ ~cl'.data /\ ~cl'.pasv /\ cl'.handle = None
NothingStray  == reply' \in Ends /\ reply' # reply => owed /\ ~owed'
Answered      == owed /\ Transferring /\ cl'.handle = None /\ open' => ~owed'

\* What every step keeps and promises.
Kept == IInv' /\ NothingBefore /\ NothingStray /\ (~HangUps /\ "PASV" \notin Verbs => Answered)

LEMMA AnswerKeeps ==
  ASSUME IInv, open, NEW c, NEW code \in Sent, Answer(c, code),
         Honest(c), code \notin Ends \/ code = reply, c.handle # None => owed,
         ~cl.auth => ~c.data /\ ~c.pasv /\ c.handle = None,
         ~HangUps /\ "PASV" \notin Verbs => (Transferring => c.handle # None)
  PROVE  Kept
<1>1. cl' = c /\ reply' = code /\ UNCHANGED <<open, disk, owed, xfer>>
  BY DEF Answer
<1>2. IInv'
  BY <1>1 DEF IInv, Honest, Transferring
<1>3. NothingBefore /\ NothingStray
  BY <1>1 DEF NothingBefore, NothingStray
<1>4. ~HangUps /\ "PASV" \notin Verbs => Answered
  BY <1>1 DEF Answered
<1> QED
  BY <1>2, <1>3, <1>4 DEF Kept

\* A command that leaves a transfer alone.
LEMMA SettingKeeps ==
  ASSUME IInv, open, NEW c, NEW code \in Sent, Answer(c, code), Honest(c),
         code \notin Ends \/ code = reply,
         c.handle = cl.handle, c.data = cl.data, c.pasv = cl.pasv
  PROVE  Kept
<1>1. /\ c.handle # None => owed
      /\ ~cl.auth => ~c.data /\ ~c.pasv /\ c.handle = None
      /\ Transferring => c.handle # None
  BY DEF IInv, Honest, Transferring
<1> QED
  BY <1>1, AnswerKeeps

LEMMA FailsKeeps ==
  ASSUME IInv, open, NEW code \in Sent \ Ends, Fails(code)
  PROVE  Kept
BY SettingKeeps DEF Fails, IInv

LEMMA ChangesKeeps ==
  ASSUME IInv, cl.auth, NEW d \in Disk, NEW code \in Sent \ Ends, Changes(d, code)
  PROVE  Kept
<1>1. disk' = d /\ reply' = code /\ UNCHANGED <<open, cl, owed, xfer>>
  BY DEF Changes
<1>2. IInv'
  BY <1>1 DEF IInv, Honest, Transferring
<1> QED
  BY <1>1, <1>2 DEF Kept, NothingBefore, NothingStray, Answered, Transferring

LEMMA DisconnectKeeps ==
  ASSUME IInv, NEW code \in Sent \ Ends, Disconnect(code)
  PROVE  Kept
<1>1. /\ open' = FALSE /\ cl' = NewClient /\ reply' = code /\ owed' = FALSE /\ xfer' = NoXfer
      /\ disk' = disk
  BY DEF Disconnect
<1>2. NewClient.handle = None /\ ~NewClient.data /\ ~NewClient.pasv
  BY DEF NewClient
<1>3. IInv'
  BY <1>1, <1>2, NewClientHonest, NoXferFields DEF IInv, Transferring, Honest
<1> QED
  BY <1>1, <1>2, <1>3 DEF Kept, NothingBefore, NothingStray, Answered

LEMMA FinishKeeps ==
  ASSUME IInv, Transferring, NEW code \in Ends, Finish(code)
  PROVE  Kept
<1>1. /\ cl' = ftpclient_data_end(cl) /\ reply' = code /\ owed' = FALSE /\ xfer' = NoXfer
      /\ UNCHANGED <<open, disk>>
  BY DEF Finish
<1>2. Honest(ftpclient_data_end(cl)) /\ ftpclient_data_end(cl).handle = None
  BY DataEndHonest DEF IInv
<1>3. code \in Sent
  BY DEF Ends, Sent, Messages
<1>4. IInv'
  BY <1>1, <1>2, <1>3, NoXferFields DEF IInv, Transferring, Honest
<1>5. cl.auth /\ owed
  BY DEF IInv, Honest, Transferring
<1> QED
  BY <1>1, <1>4, <1>5 DEF Kept, NothingBefore, NothingStray, Answered

LEMMA MovedKeeps ==
  ASSUME IInv, Transferring, NEW b, NEW c, NEW d \in Disk, Moved(b, c, d), Honest(c),
         c.handle # None
  PROVE  Kept
<1>1. /\ cl' = c /\ disk' = d /\ xfer' = [xfer EXCEPT !.moved = Append(@, b)]
      /\ UNCHANGED <<open, reply, owed>>
  BY DEF Moved
<1>2. cl.auth /\ owed /\ open
  BY DEF IInv, Honest, Transferring
<1>3. IInv'
  BY <1>1, <1>2 DEF IInv, Transferring, Honest
<1> QED
  BY <1>1, <1>2, <1>3 DEF Kept, NothingBefore, NothingStray, Answered

\* The command had no transfer before, and c has the file or directory open.
LEMMA StartKeeps ==
  ASSUME IInv, open, cl.auth, ~Transferring, NEW c, Honest(c), c.auth, disk' \in Disk,
         NEW from, NEW before, Start(c, from, before)
  PROVE  Kept
<1>1. PICK out \in ftpclient_data_start(c) :
        IF out[2]
        THEN /\ cl' = out[1] /\ reply' = "150" /\ owed' = TRUE
             /\ xfer' = [from |-> from, before |-> before, dir |-> cl.cwd, moved |-> <<>>]
             /\ UNCHANGED open
        ELSE /\ cl' = ftpclient_data_end(out[1]) /\ reply' = "425"
             /\ UNCHANGED <<open, owed, xfer>>
  BY DEF Start
<1>2. Honest(out[1])
  BY DataStartHonest
<1>3. Honest(ftpclient_data_end(out[1])) /\ ftpclient_data_end(out[1]).handle = None
  BY <1>2, DataEndHonest
<1>4. reply' \in Sent \ Ends
  BY <1>1 DEF Sent, Messages, Ends
<1>5. IInv'
  <2>1. CASE out[2]
    <3>1. DOMAIN xfer' = Fields
      BY <1>1, <2>1 DEF Fields
    <3> QED
      BY <1>1, <1>2, <1>4, <2>1, <3>1 DEF IInv, Transferring, Honest
  <2>2. CASE ~out[2]
    BY <1>1, <1>3, <1>4, <2>2 DEF IInv, Transferring, Honest
  <2> QED
    BY <2>1, <2>2
<1> QED
  BY <1>4, <1>5 DEF Kept, NothingBefore, NothingStray, Answered

------------------------------------------------------------------------------
(* The commands and events. *)

LEMMA ConnectKeeps == ASSUME IInv, Connect PROVE Kept
<1>1. /\ open' = TRUE /\ cl' = NewClient /\ reply' = "220" /\ UNCHANGED <<disk, owed, xfer>>
      /\ ~Transferring
  BY DEF Connect, IInv, Transferring
<1>2. NewClient.handle = None /\ ~NewClient.data /\ ~NewClient.pasv
  BY DEF NewClient
<1>3. IInv'
  BY <1>1, <1>2, NewClientHonest DEF IInv, Transferring, Honest, Sent, Worded
<1> QED
  BY <1>1, <1>2, <1>3 DEF Kept, NothingBefore, NothingStray, Answered, Ends

LEMMA LeavingKeeps == ASSUME IInv, ConnectionLost \/ ssftpCmdQuit PROVE Kept
BY DisconnectKeeps DEF ConnectionLost, ssftpCmdQuit, Sent, Messages, Ends

\* A client does not see why the server is gone.
LEMMA NullArgumentLoses == ASSUME NEW verb, NullArgument(verb) PROVE ConnectionLost
BY DEF NullArgument, Allowed, Command, ConnectionLost

\* What is only answered.
LEMMA InformKeeps == ASSUME IInv, NotLoggedIn \/ Inform, ~ConnectionLost PROVE Kept
<1>1. PICK code \in {"530", "202", "257", "200", "504", "213", "550", "214", "215", "211"} :
        open /\ Fails(code)
  <2>1. CASE NotLoggedIn
    BY <2>1 DEF NotLoggedIn, Command
  <2>2. CASE Inform
    BY <2>2, NullArgumentLoses DEF Inform, ssftpCmdAllo, ssftpCmdPwd, ssftpCmdMode, ssftpCmdStru, ssftpCmdType, ssftpCmdSize,
                ssftpCmdMdtm, ssftpCmdChmod, ssftpCmdHelp, ssftpCmdNoop, ssftpCmdSyst, ssftpCmdStat,
                ssftpCmdFeat, Looks, Allowed, Command
  <2> QED
    BY <2>1, <2>2
<1>2. code \in Sent \ Ends
  BY DEF Sent, Messages, Worded, Ends
<1> QED
  BY <1>1, <1>2, FailsKeeps

LEMMA LoginKeeps == ASSUME IInv, ssftpCmdUser \/ ssftpCmdPass \/ ssftpCmdAcct PROVE Kept
<1>1. open
  BY DEF ssftpCmdUser, ssftpCmdPass, ssftpCmdAcct, Command
<1>2. {"202", "331", "230", "230A"} \subseteq Sent \ Ends
  BY DEF Sent, Messages, Ends
<1>3. /\ Honest([cl EXCEPT !.named = TRUE]) /\ Honest([cl EXCEPT !.named = TRUE, !.auth = TRUE])
      /\ cl.auth => Honest([cl EXCEPT !.auth = TRUE])
  BY DEF IInv, Honest, Client
<1>4. \A n, a : /\ [cl EXCEPT !.named = n].handle = cl.handle
                /\ [cl EXCEPT !.named = n, !.auth = a].handle = cl.handle
                /\ [cl EXCEPT !.auth = a].handle = cl.handle
                /\ [cl EXCEPT !.named = n].data = cl.data
                /\ [cl EXCEPT !.named = n, !.auth = a].data = cl.data
                /\ [cl EXCEPT !.auth = a].data = cl.data
                /\ [cl EXCEPT !.named = n].pasv = cl.pasv
                /\ [cl EXCEPT !.named = n, !.auth = a].pasv = cl.pasv
                /\ [cl EXCEPT !.auth = a].pasv = cl.pasv
  BY DEF IInv, Honest, Client
<1>5. CASE cl.auth = TRUE /\ (ssftpCmdUser \/ ssftpCmdPass)
  BY <1>1, <1>2, <1>5, FailsKeeps DEF ssftpCmdUser, ssftpCmdPass
<1>6. CASE ~cl.auth /\ ssftpCmdAcct
  BY <1>1, <1>2, <1>6, FailsKeeps DEF ssftpCmdAcct
<1>7. CASE ~cl.auth /\ ssftpCmdUser
  <2>1. Answer([cl EXCEPT !.named = TRUE], "331")
    BY <1>7 DEF ssftpCmdUser
  <2> QED
    BY <1>1, <1>2, <1>3, <1>4, <2>1, SettingKeeps
<1>8. CASE ~cl.auth /\ ssftpCmdPass
  <2>1. Answer([cl EXCEPT !.named = TRUE, !.auth = TRUE], "230")
    BY <1>8 DEF ssftpCmdPass
  <2> QED
    BY <1>1, <1>2, <1>3, <1>4, <2>1, SettingKeeps
<1>9. CASE cl.auth /\ ssftpCmdAcct
  <2>1. Answer([cl EXCEPT !.auth = TRUE], "230A")
    BY <1>9 DEF ssftpCmdAcct
  <2> QED
    BY <1>1, <1>2, <1>3, <1>4, <1>9, <2>1, SettingKeeps
<1> QED
  BY <1>5, <1>6, <1>7, <1>8, <1>9

\* The commands that change a field of the client and nothing else.
LEMMA SettingsKeep ==
  ASSUME IInv, \/ ssftpCmdCwd \/ ssftpCmdCdup \/ ssftpCmdRnfr \/ ssftpCmdRest \/ ssftpCmdPort \/ ssftpCmdWrite,
         ~ConnectionLost
  PROVE  Kept
<1>1. open /\ cl.auth
  BY DEF ssftpCmdCwd, ssftpCmdCdup, ssftpCmdRnfr, ssftpCmdRest, ssftpCmdPort, ssftpCmdWrite, NullArgument,
         Looks, Allowed, Command
<1>2. {"250", "550", "350A", "554", "350", "450", "501", "200"} \subseteq Sent \ Ends
  BY DEF Sent, Messages, Ends
<1>3. CASE \E code \in {"550", "554", "450", "501"} : Fails(code)
  BY <1>1, <1>2, <1>3, FailsKeeps
<1>4. CASE \E d \in Dir : Answer([cl EXCEPT !.cwd = d], "250")
  <2>1. PICK d \in Dir : Answer([cl EXCEPT !.cwd = d], "250")
    BY <1>4
  <2> DEFINE c == [cl EXCEPT !.cwd = d]
  <2>2. Honest(c) /\ c.handle = cl.handle /\ c.data = cl.data /\ c.pasv = cl.pasv
    BY DEF IInv, Honest, Client
  <2> QED
    BY <1>1, <1>2, <2>1, <2>2, SettingKeeps
<1>5. CASE \E f \in File : Answer([cl EXCEPT !.rnfr = f], "350A")
  <2>1. PICK f \in File : Answer([cl EXCEPT !.rnfr = f], "350A")
    BY <1>5
  <2> DEFINE c == [cl EXCEPT !.rnfr = f]
  <2>2. Honest(c) /\ c.handle = cl.handle /\ c.data = cl.data /\ c.pasv = cl.pasv
    BY DEF IInv, Honest, Client
  <2> QED
    BY <1>1, <1>2, <2>1, <2>2, SettingKeeps
<1>6. CASE \E k \in 0..MaxRest : Answer([cl EXCEPT !.rest = k], "350")
  <2>1. PICK k \in 0..MaxRest : Answer([cl EXCEPT !.rest = k], "350")
    BY <1>6
  <2> DEFINE c == [cl EXCEPT !.rest = k]
  <2>2. k \in Nat
    BY SessionAssumption
  <2>3. Honest(c) /\ c.handle = cl.handle /\ c.data = cl.data /\ c.pasv = cl.pasv
    BY <2>2 DEF IInv, Honest, Client
  <2> QED
    BY <1>1, <1>2, <2>1, <2>3, SettingKeeps
<1>7. CASE Answer([cl EXCEPT !.actv = TRUE], "200")
  <2> DEFINE c == [cl EXCEPT !.actv = TRUE]
  <2>1. Honest(c) /\ c.handle = cl.handle /\ c.data = cl.data /\ c.pasv = cl.pasv
    BY DEF IInv, Honest, Client
  <2> QED
    BY <1>1, <1>2, <1>7, <2>1, SettingKeeps
<1>8. CASE ssftpCmdWrite
  <2> DEFINE c == [cl EXCEPT !.write = ~cl.write]
  <2>1. "WRITE" \in Verbs /\ Answer(c, "200")
    BY <1>8 DEF ssftpCmdWrite, Allowed, Command
  <2>2. Honest(c) /\ c.handle = cl.handle /\ c.data = cl.data /\ c.pasv = cl.pasv
    BY <2>1 DEF IInv, Honest, Client
  <2> QED
    BY <1>1, <1>2, <2>1, <2>2, SettingKeeps
<1> QED
  BY <1>3, <1>4, <1>5, <1>6, <1>7, <1>8, NullArgumentLoses, SessionAssumption
     DEF ssftpCmdCwd, ssftpCmdCdup, ssftpCmdRnfr, ssftpCmdRest, ssftpCmdPort, Looks

\* The commands that change directories and names.
LEMMA NamesKeep ==
  ASSUME IInv, ssftpCmdMkd \/ ssftpCmdRmd \/ ssftpCmdDele
  PROVE  Kept
<1>1. open /\ cl.auth /\ disk \in Disk
  BY DEF ssftpCmdMkd, ssftpCmdRmd, ssftpCmdDele, Allowed, Command, IInv
<1>2. {"257", "250", "550"} \subseteq Sent \ Ends
  BY DEF Sent, Messages, Ends
<1>3. CASE Fails("550")
  BY <1>1, <1>2, <1>3, FailsKeeps
<1>4. ASSUME NEW d \in Dir, Changes([disk EXCEPT !.dirs = @ \cup {d}], "257")
      PROVE  Kept
  <2>1. [disk EXCEPT !.dirs = @ \cup {d}] \in Disk
    BY <1>1 DEF Disk
  <2> QED
    BY <1>1, <1>2, <1>4, <2>1, ChangesKeeps
<1>5. ASSUME NEW d \in Dir, Changes([disk EXCEPT !.dirs = @ \ {d}], "250")
      PROVE  Kept
  <2>1. [disk EXCEPT !.dirs = @ \ {d}] \in Disk
    BY <1>1 DEF Disk
  <2> QED
    BY <1>1, <1>2, <1>5, <2>1, ChangesKeeps
<1>6. ASSUME NEW f \in File, Changes(Unlinked(f), "250")
      PROVE  Kept
  BY <1>1, <1>2, <1>6, UnlinkedIsDisk, ChangesKeeps
<1>7. disk.dirs \subseteq Dir
  BY <1>1 DEF Disk
<1> QED
  BY <1>3, <1>4, <1>5, <1>6, <1>7 DEF ssftpCmdMkd, ssftpCmdRmd, ssftpCmdDele

LEMMA RntoKeeps == ASSUME IInv, ssftpCmdRnto PROVE Kept
<1> DEFINE c == [cl EXCEPT !.rnfr = None]
<1>1. /\ open /\ cl.auth /\ cl' = c /\ reply' \in {"550", "250"}
      /\ UNCHANGED <<open, owed, xfer>>
  BY DEF ssftpCmdRnto, Allowed, Command
<1>2. Honest(c) /\ c.handle = cl.handle
  BY DEF IInv, Honest, Client
<1>3. disk' \in Disk
  <2>1. disk \in Disk /\ (cl.rnfr # None => cl.rnfr \in File)
    BY DEF IInv, Honest, Client
  <2> QED
    BY <2>1, RenamedIsDisk DEF ssftpCmdRnto
<1>4. reply' \in Sent \ Ends
  BY <1>1 DEF Sent, Messages, Ends
<1> HIDE DEF c
<1>5. IInv'
  BY <1>1, <1>2, <1>3, <1>4 DEF IInv, Transferring, Honest
<1> QED
  BY <1>1, <1>2, <1>4, <1>5 DEF Kept, NothingBefore, NothingStray, Answered, Transferring

\* PASV may end a transfer, and the early accept adds a connection to none.
LEMMA PasvKeeps == ASSUME IInv, ssftpCmdPasv \/ PasvEvent PROVE Kept
<1>1. {"227", "425"} \subseteq Sent \ Ends /\ reply \in Sent
  BY DEF Sent, Messages, Ends, IInv
<1>2. CASE ssftpCmdPasv
  <2>1. open /\ cl.auth /\ "PASV" \in Verbs
    BY <1>2 DEF ssftpCmdPasv, Allowed, Command
  <2>2. PICK out \in ftpclient_data_pasv(cl) :
          IF out[2] THEN Answer(out[1], "227") ELSE Answer(ftpclient_data_end(out[1]), "425")
    BY <1>2 DEF ssftpCmdPasv
  <2>3. Honest(out[1]) /\ out[1].handle = cl.handle
    BY <2>1, DataPasvHonest DEF IInv
  <2>4. Honest(ftpclient_data_end(out[1])) /\ ftpclient_data_end(out[1]).handle = None
    BY <2>3, DataEndHonest
  <2>5. out[1].handle # None => owed
    BY <2>3 DEF IInv, Transferring
  <2> QED
    BY <1>1, <2>1, <2>2, <2>3, <2>4, <2>5, AnswerKeeps
<1>3. CASE PasvEvent
  <2>1. PICK came \in BOOLEAN : Answer([cl EXCEPT !.pasv = FALSE, !.data = came], reply)
    BY <1>3 DEF PasvEvent
  <2> DEFINE c == [cl EXCEPT !.pasv = FALSE, !.data = came]
  <2>2. open /\ cl.auth
    BY <1>3 DEF PasvEvent, IInv, Honest, Client
  <2>3. Honest(c) /\ c.handle = cl.handle
    BY <2>2 DEF IInv, Honest, Client
  <2>4. c.handle # None => owed
    BY <2>3 DEF IInv, Transferring
  <2>5. Transferring => c.handle # None
    BY <2>3 DEF Transferring
  <2> HIDE DEF c
  <2> QED
    BY <1>1, <2>1, <2>2, <2>3, <2>4, <2>5, AnswerKeeps DEF c
<1> QED
  BY <1>2, <1>3

LEMMA AborKeeps == ASSUME IInv, ssftpCmdAbor PROVE Kept
<1>1. /\ open /\ cl.auth /\ cl' = ftpclient_data_end(cl) /\ reply' = "226A" /\ owed' = FALSE
      /\ xfer' = NoXfer /\ UNCHANGED <<open, disk>>
  BY DEF ssftpCmdAbor, Allowed, Command
<1>2. Honest(ftpclient_data_end(cl)) /\ ftpclient_data_end(cl).handle = None
  BY DataEndHonest DEF IInv
<1>3. reply' \in Sent \ Ends
  BY <1>1 DEF Sent, Messages, Ends
<1>4. IInv'
  BY <1>1, <1>2, <1>3, NoXferFields DEF IInv, Transferring, Honest
<1> QED
  BY <1>1, <1>3, <1>4 DEF Kept, NothingBefore, NothingStray, Answered

------------------------------------------------------------------------------
LEMMA OpenedHonest ==
  ASSUME IInv, cl.auth, NEW op \in FileOps, NEW node \in Inode, NEW app \in BOOLEAN
  PROVE  Honest(Opened(op, node, app)) /\ Opened(op, node, app).auth
<1>1. cl.rest \in Nat
  BY DEF IInv, Honest, Client
<1>2. FileHandle(op, node, cl.rest, app) \in Handle
  BY <1>1 DEF FileHandle, Handle
<1> QED
  BY <1>2 DEF Opened, IInv, Honest, Client

\* The commands that start a transfer.
LEMMA ListingKeeps == ASSUME IInv, ssftpCmdList \/ ssftpCmdNlst PROVE Kept
<1>1. PICK op \in DirOps : open /\ cl.auth /\ Listing(op)
  BY DEF ssftpCmdList, ssftpCmdNlst, Allowed, Command, DirOps
<1>2. {"450", "550"} \subseteq Sent \ Ends
  BY DEF Sent, Messages, Ends
<1>3. CASE \E code \in {"450", "550"} : Fails(code)
  BY <1>1, <1>2, <1>3, FailsKeeps
<1>4. CASE ~Transferring /\ ~\E code \in {"450", "550"} : Fails(code)
  <2> DEFINE left == {n \in Name : Exists(<<cl.cwd, n>>)}
             c == [cl EXCEPT !.handle = DirHandle(op, left)]
  <2>1. Start(c, 0, left) /\ disk' = disk
    BY <1>1, <1>4 DEF Listing
  <2>2. DirHandle(op, left) \in Handle
    BY DEF DirHandle, Handle
  <2> HIDE DEF left
  <2>3. Honest(c) /\ c.auth
    BY <1>1, <2>2 DEF IInv, Honest, Client
  <2>4. disk' \in Disk
    BY <2>1 DEF IInv
  <2> HIDE DEF c
  <2> QED
    BY <1>1, <1>4, <2>1, <2>3, <2>4, StartKeeps
<1> QED
  BY <1>1, <1>3, <1>4 DEF Listing

LEMMA RetrKeeps == ASSUME IInv, ssftpCmdRetr PROVE Kept
<1>1. open /\ cl.auth
  BY DEF ssftpCmdRetr, Allowed, Command
<1>2. {"450", "550"} \subseteq Sent \ Ends
  BY DEF Sent, Messages, Ends
<1>3. CASE \E code \in {"450", "550"} : Fails(code)
  BY <1>1, <1>2, <1>3, FailsKeeps
<1>4. CASE ~Transferring /\ ~\E code \in {"450", "550"} : Fails(code)
  <2>1. PICK f \in File : \E out \in ssftpFsOpen(f, {}) :
          /\ disk' = out[1]
          /\ Start(Opened("retr", out[2], FALSE), cl.rest, disk.blocks[out[2]])
    BY <1>4 DEF ssftpCmdRetr
  <2>2. PICK out \in ssftpFsOpen(f, {}) :
          /\ disk' = out[1]
          /\ Start(Opened("retr", out[2], FALSE), cl.rest, disk.blocks[out[2]])
    BY <2>1
  <2>3. disk' \in Disk /\ out[2] \in Inode
    BY <2>2, OpenKeepsDisk DEF IInv
  <2>4. Honest(Opened("retr", out[2], FALSE)) /\ Opened("retr", out[2], FALSE).auth
    BY <1>1, <2>3, OpenedHonest DEF FileOps
  <2> QED
    BY <1>1, <1>4, <2>2, <2>3, <2>4, StartKeeps
<1> QED
  BY <1>3, <1>4 DEF ssftpCmdRetr

LEMMA StorKeeps == ASSUME IInv, ssftpCmdStor PROVE Kept
<1>1. PICK appe \in BOOLEAN :
        /\ open /\ cl.auth
        /\ IF Transferring THEN Fails("450")
           ELSE \/ Fails("550")
                \/ \E f \in File : \E out \in ssftpFsOpen(f, Oflags(f, appe)) :
                     /\ disk' = out[1]
                     /\ LET app == appe /\ Exists(f)
                        IN  Start(Opened("stor", out[2], app),
                                  IF app THEN Len(disk.blocks[out[2]]) ELSE cl.rest,
                                  IF appe \/ cl.rest # 0 THEN out[1].blocks[out[2]] ELSE <<>>)
  BY DEF ssftpCmdStor, Allowed, Command
<1>2. {"450", "550"} \subseteq Sent \ Ends
  BY DEF Sent, Messages, Ends
<1>3. CASE \E code \in {"450", "550"} : Fails(code)
  BY <1>1, <1>2, <1>3, FailsKeeps
<1>4. CASE ~Transferring /\ ~\E code \in {"450", "550"} : Fails(code)
  <2>0. PICK f \in File : \E out \in ssftpFsOpen(f, Oflags(f, appe)) :
          /\ disk' = out[1]
          /\ \E from, before : Start(Opened("stor", out[2], appe /\ Exists(f)), from, before)
    BY <1>1, <1>4
  <2>1. PICK out \in ssftpFsOpen(f, Oflags(f, appe)) :
          /\ disk' = out[1]
          /\ \E from, before : Start(Opened("stor", out[2], appe /\ Exists(f)), from, before)
    BY <2>0
  <2>2. disk' \in Disk /\ out[2] \in Inode
    BY <2>1, OpenKeepsDisk DEF IInv
  <2>3. (appe /\ Exists(f)) \in BOOLEAN
    OBVIOUS
  <2>4. /\ Honest(Opened("stor", out[2], appe /\ Exists(f)))
        /\ Opened("stor", out[2], appe /\ Exists(f)).auth
    BY <1>1, <2>2, <2>3, OpenedHonest DEF FileOps
  <2> QED
    BY <1>1, <1>4, <2>1, <2>2, <2>4, StartKeeps
<1> QED
  BY <1>1, <1>3, <1>4

------------------------------------------------------------------------------
\* A handle is a file's or a directory's, and not NULL.
LEMMA HandleKind ==
  ASSUME IInv, Transferring
  PROVE  /\ cl.handle \in Handle /\ cl.handle # None /\ owed /\ cl.auth /\ open /\ None \notin Handle
         /\ cl.handle.op \in FileOps =>
              cl.handle \in [op : FileOps, node : Inode, pos : Nat, app : BOOLEAN]
         /\ cl.handle.op \in DirOps => cl.handle \in [op : DirOps, left : SUBSET Name]
<1>1. cl.handle # None /\ cl.handle \in Handle /\ owed /\ cl.auth /\ open
  BY DEF IInv, Honest, Client, Transferring
<1>2. None \notin Handle
  BY SessionAssumption
<1> QED
  BY <1>1, <1>2 DEF Handle, FileOps, DirOps

LEMMA ListEventKeeps == ASSUME IInv, ssftpDataList \/ ssftpDataNlst PROVE Kept
<1>1. PICK op \in DirOps : ListEvent(op)
  BY DEF ssftpDataList, ssftpDataNlst, DirOps
<1>2. Transferring /\ cl.handle.op = op
  BY <1>1 DEF ListEvent, Doing
<1>3. /\ cl.handle \in [op : DirOps, left : SUBSET Name] /\ owed /\ cl.auth /\ open
      /\ None \notin Handle
  BY <1>2, HandleKind
<1>4. {"226", "451"} \subseteq Ends
  BY DEF Ends
<1>5. CASE \E code \in {"226", "451"} : Finish(code)
  BY <1>2, <1>4, <1>5, FinishKeeps
<1>6. ASSUME NEW n \in cl.handle.left,
             LET c == [cl EXCEPT !.handle.left = @ \ {n}]
             IN  IF Exists(<<cl.cwd, n>>) THEN Moved(n, c, disk) ELSE Answer(c, reply)
      PROVE  Kept
  <2> DEFINE h == [cl.handle EXCEPT !.left = @ \ {n}]
             c == [cl EXCEPT !.handle = h]
  <2>1. h \in Handle
    BY <1>3 DEF Handle
  <2>2. [cl EXCEPT !.handle.left = @ \ {n}] = c
    OBVIOUS
  <2> HIDE DEF h
  <2>3. /\ Honest(c) /\ c.handle = h /\ c.data = cl.data /\ c.pasv = cl.pasv
        /\ h # None /\ disk \in Disk /\ reply \in Sent
    BY <1>3, <2>1 DEF IInv, Honest, Client
  <2> HIDE DEF c
  <2>4. CASE Exists(<<cl.cwd, n>>)
    <3>1. Moved(n, c, disk)
      BY <1>6, <2>2, <2>4
    <3> QED
      BY <1>2, <2>3, <3>1, MovedKeeps
  <2>5. CASE ~Exists(<<cl.cwd, n>>)
    <3>1. Answer(c, reply)
      BY <1>6, <2>2, <2>5
    <3> QED
      BY <1>3, <2>3, <3>1, AnswerKeeps
  <2> QED
    BY <2>4, <2>5
<1> QED
  BY <1>1, <1>5, <1>6 DEF ListEvent

LEMMA RetrEventKeeps == ASSUME IInv, ssftpDataRetr PROVE Kept
<1>1. Transferring /\ cl.handle.op = "retr"
  BY DEF ssftpDataRetr, Doing
<1>2. /\ cl.handle \in [op : FileOps, node : Inode, pos : Nat, app : BOOLEAN]
      /\ None \notin Handle /\ cl.auth
  BY <1>1, HandleKind DEF FileOps
<1>3. CASE \E code \in {"226", "451"} : Finish(code)
  BY <1>1, <1>3, FinishKeeps DEF Ends
<1>4. ASSUME NEW b, Moved(b, [cl EXCEPT !.handle.pos = @ + 1], disk)
      PROVE  Kept
  <2> DEFINE h == [cl.handle EXCEPT !.pos = @ + 1]
             c == [cl EXCEPT !.handle = h]
  <2>1. h \in Handle
    BY <1>2 DEF Handle
  <2>2. [cl EXCEPT !.handle.pos = @ + 1] = c
    OBVIOUS
  <2> HIDE DEF h
  <2>3. Honest(c) /\ c.handle = h /\ h # None /\ disk \in Disk
    BY <1>2, <2>1 DEF IInv, Honest, Client
  <2> HIDE DEF c
  <2> QED
    BY <1>1, <1>4, <2>2, <2>3, MovedKeeps
<1> QED
  BY <1>3, <1>4 DEF ssftpDataRetr

LEMMA StorEventKeeps == ASSUME IInv, ssftpDataStor PROVE Kept
<1>1. Transferring /\ cl.handle.op = "stor"
  BY DEF ssftpDataStor, Doing
<1>2. /\ cl.handle \in [op : FileOps, node : Inode, pos : Nat, app : BOOLEAN]
      /\ None \notin Handle /\ cl.auth /\ disk \in Disk
  BY <1>1, HandleKind DEF FileOps, IInv
<1>3. CASE \E code \in {"226", "451", "452"} : Finish(code)
  BY <1>1, <1>3, FinishKeeps DEF Ends
<1>4. ASSUME NEW b, Moved(b, cl, disk) PROVE Kept
  BY <1>1, <1>2, <1>4, HandleKind, MovedKeeps DEF IInv
<1>5. ASSUME NEW b \in Block, NEW pos \in Nat,
             Moved(b, [cl EXCEPT !.handle.pos = pos + 1],
                   [disk EXCEPT !.blocks[cl.handle.node] = WriteAt(@, pos, b)])
      PROVE  Kept
  <2> DEFINE h == [cl.handle EXCEPT !.pos = pos + 1]
             c == [cl EXCEPT !.handle = h]
             d == [disk EXCEPT !.blocks[cl.handle.node] = WriteAt(@, pos, b)]
  <2>1. h \in Handle
    BY <1>2 DEF Handle
  <2>2. [cl EXCEPT !.handle.pos = pos + 1] = c
    OBVIOUS
  <2> HIDE DEF h
  <2>3. Honest(c) /\ c.handle = h /\ h # None
    BY <1>2, <2>1 DEF IInv, Honest, Client
  <2>4. WriteAt(disk.blocks[cl.handle.node], pos, b) \in Files
    BY <1>2, WriteAtIsFile DEF Disk
  <2>5. d \in Disk
    BY <1>2, <2>4 DEF Disk
  <2> HIDE DEF c, d
  <2>6. Moved(b, c, d)
    BY <1>5, <2>2 DEF d
  <2> QED
    BY <1>1, <2>3, <2>5, <2>6, MovedKeeps
<1>6. Len(disk.blocks[cl.handle.node]) \in Nat
  BY <1>2 DEF Disk, Files
<1> QED
  BY <1>2, <1>3, <1>4, <1>5, <1>6 DEF ssftpDataStor

LEMMA HangUpKeeps == ASSUME IInv, DataHangUp PROVE Kept
<1>1. HangUps /\ open /\ Transferring /\ Answer(ftpclient_data_end(cl), reply)
  BY DEF DataHangUp
<1>2. Honest(ftpclient_data_end(cl)) /\ ftpclient_data_end(cl).handle = None
  BY DataEndHonest DEF IInv
<1>3. reply \in Sent /\ cl.auth
  BY <1>1, HandleKind DEF IInv
<1> QED
  BY <1>1, <1>2, <1>3, AnswerKeeps

------------------------------------------------------------------------------
LEMMA InitHolds == Init => IInv
<1> SUFFICES ASSUME Init PROVE IInv
  OBVIOUS
<1>1. Content \in Files /\ <<>> \in Files /\ Root \in Dir
  BY SessionAssumption DEF Files
<1>2. disk \in Disk
  BY <1>1 DEF Init, Disk
<1>3. DOMAIN xfer = Fields
  BY NoXferFields DEF Init
<1> QED
  BY <1>2, <1>3, NewClientHonest DEF Init, IInv, Transferring, NewClient, Sent

LEMMA NextKeeps == IInv /\ [Next]_vars => IInv' /\ Kept
<1> SUFFICES ASSUME IInv, [Next]_vars PROVE Kept
  BY DEF Kept
<1>1. CASE UNCHANGED vars
  <2>1. IInv'
    BY <1>1 DEF vars, IInv, Transferring, Honest
  <2>2. NothingBefore /\ NothingStray /\ Answered
    BY <1>1 DEF vars, NothingBefore, NothingStray, Answered, IInv, Honest, Transferring
  <2> QED
    BY <2>1, <2>2 DEF Kept
<1>2. CASE Next
  BY <1>2, ConnectKeeps, LeavingKeeps, InformKeeps, LoginKeeps, SettingsKeep, NamesKeep, RntoKeeps,
     PasvKeeps, AborKeeps, ListingKeeps, RetrKeeps, StorKeeps, ListEventKeeps, RetrEventKeeps,
     StorEventKeeps, HangUpKeeps
     DEF Next, DataEvent
<1> QED
  BY <1>1, <1>2

------------------------------------------------------------------------------
\* The fields of struct FTPClient, the files and the replies keep their types,
\* for any files, blocks and offsets.
THEOREM TypeCorrect == Spec => []TypeOK
<1>1. IInv => TypeOK
  BY DEF IInv, Honest, TypeOK, Client, Disk, Sent, Fields
<1> QED
  BY <1>1, InitHolds, NextKeeps, PTL DEF Spec

\* Whoever has logged in has a user name, whichever of USER, PASS and ACCT came.
THEOREM LoginNamed == Spec => []LoginIsNamed
<1>1. IInv => LoginIsNamed
  BY DEF IInv, Honest, LoginIsNamed
<1> QED
  BY <1>1, InitHolds, NextKeeps, PTL DEF Spec

\* Before a login no command of commands/*.c changes a file or opens a data connection.
THEOREM NothingBeforeLogin == Spec => LoginFirst
<1>1. Kept => (~cl.auth => disk' = disk /\ ~cl'.data /\ ~cl'.pasv /\ cl'.handle = None)
  BY DEF Kept, NothingBefore
<1> QED
  BY <1>1, InitHolds, NextKeeps, PTL DEF Spec, LoginFirst

\* 226, 451 and 452 are sent for a transfer that was announced, and once.
THEOREM CompletionsPaired == Spec => NoStrayCompletion
<1>1. Kept => (reply' \in {"226", "451", "452"} /\ reply' # reply => owed /\ ~owed')
  BY DEF Kept, NothingStray, Ends
<1> QED
  BY <1>1, InitHolds, NextKeeps, PTL DEF Spec, NoStrayCompletion

\* While data connections do not break off and PASV is not sent, each 150 is
\* answered before its transfer is gone.
THEOREM EveryTransferAnswered ==
  ASSUME ~HangUps, "PASV" \notin Verbs
  PROVE  Spec => TransfersAnswered
<1>1. Kept => (owed /\ Transferring /\ cl'.handle = None /\ open' => ~owed')
  BY DEF Kept, Answered
<1> QED
  BY <1>1, InitHolds, NextKeeps, PTL DEF Spec, TransfersAnswered

------------------------------------------------------------------------------
(* "Transfer complete." for one file: any file, any offset, any length,    *)
(* whatever other commands come while the transfer runs.                   *)

Blocks == disk.blocks[cl.handle.node]

\* A download: the file is as it was, and the peer has what was passed of it.
Reading ==
  /\ xfer.before \in Files /\ xfer.from \in Nat /\ cl.handle.pos \in Nat
  /\ Blocks = xfer.before
  /\ xfer.from <= cl.handle.pos
  /\ cl.handle.pos = xfer.from \/ cl.handle.pos <= Len(xfer.before)
  /\ xfer.moved = SubSeq(xfer.before, xfer.from + 1, cl.handle.pos)

\* An upload: the file is what it was, overwritten with what has come.
Writing ==
  /\ xfer.before \in Files /\ xfer.from \in Nat /\ xfer.moved \in Seq(Block)
  /\ Blocks = Overwritten(xfer.before, xfer.from, xfer.moved)
  /\ cl.handle.app => xfer.from = Len(xfer.before)
  /\ ~cl.handle.app => cl.handle.pos = xfer.from + Len(xfer.moved)

\* With writes disabled what comes is dropped.
Moving ==
  /\ Doing({"retr"}) => Reading
  /\ "WRITE" \notin Verbs => (Doing({"stor"}) => Writing)

\* A step that leaves a transfer of a file alone or ends it without completing it.
Harmless ==
  /\ \/ cl'.handle = cl.handle /\ xfer' = xfer /\ (Doing(FileOps) => Blocks' = Blocks)
     \/ cl'.handle = None
     \/ cl'.handle.op \in DirOps
  /\ Doing(FileOps) => owed' = owed \/ reply' # "226"

Done == Completes({"retr"}) => xfer.moved = SubSeq(xfer.before, xfer.from + 1, Len(xfer.before))
Full == Completes({"stor"}) => Blocks = Overwritten(xfer.before, xfer.from, xfer.moved)

LEMMA HarmlessKeeps == ASSUME Moving, Harmless PROVE Moving' /\ Done /\ Full
<1>1. Done /\ Full
  BY DEF Harmless, Done, Full, Completes, Doing, FileOps
<1>2. ASSUME cl'.handle = cl.handle /\ xfer' = xfer /\ (Doing(FileOps) => Blocks' = Blocks)
      PROVE  Moving'
  <2>1. CASE Doing({"retr"})
    BY <1>2, <2>1 DEF Moving, Reading, Doing, Transferring, FileOps
  <2>2. CASE Doing({"stor"})
    BY <1>2, <2>2 DEF Moving, Writing, Doing, Transferring, FileOps
  <2>3. CASE ~Doing({"retr"}) /\ ~Doing({"stor"})
    BY <1>2, <2>3 DEF Moving, Doing, Transferring
  <2> QED
    BY <2>1, <2>2, <2>3
<1>3. ASSUME cl'.handle = None PROVE Moving'
  BY <1>3 DEF Moving, Doing, Transferring
<1>4. ASSUME cl'.handle.op \in DirOps PROVE Moving'
  BY <1>4 DEF Moving, Doing, DirOps
<1> QED
  BY <1>1, <1>2, <1>3, <1>4 DEF Harmless

------------------------------------------------------------------------------
(* Overwriting, block by block. *)

LEMMA NothingOverwritten ==
  ASSUME NEW s \in Files, NEW from \in Nat
  PROVE  Overwritten(s, from, <<>>) = s
<1>1. Len(s) \in Nat /\ s = [k \in 1..Len(s) |-> s[k]]
  BY DEF Files
<1>2. Overwritten(s, from, <<>>) =
        [k \in 1..Len(s) |-> IF k \in (from + 1)..0 THEN <<>>[k - from]
                             ELSE IF k <= Len(s) THEN s[k] ELSE Hole]
  BY <1>1 DEF Overwritten
<1>3. \A k \in 1..Len(s) : k \notin (from + 1)..0 /\ k <= Len(s)
  BY <1>1
<1> QED
  BY <1>1, <1>2, <1>3

\* What Overwritten is when something came.
LEMMA SomethingOverwritten ==
  ASSUME NEW s \in Files, NEW from \in Nat, NEW m \in Seq(Block), m # <<>>
  PROVE  LET end == from + Len(m)
             n   == IF end > Len(s) THEN end ELSE Len(s)
         IN  /\ Overwritten(s, from, m) =
                  [k \in 1..n |-> IF k \in (from + 1)..end THEN m[k - from]
                                  ELSE IF k <= Len(s) THEN s[k] ELSE Hole]
             /\ Len(Overwritten(s, from, m)) = n
<1> DEFINE end == from + Len(m)
           n   == IF end > Len(s) THEN end ELSE Len(s)
<1>1. Len(s) \in Nat /\ Len(m) \in Nat /\ n \in Nat
  BY DEF Files
<1>2. Overwritten(s, from, m) =
        [k \in 1..n |-> IF k \in (from + 1)..end THEN m[k - from]
                        ELSE IF k <= Len(s) THEN s[k] ELSE Hole]
  BY DEF Overwritten
<1>3. DOMAIN Overwritten(s, from, m) = 1..n
  BY <1>2
<1>4. \A k \in 1..n : Overwritten(s, from, m)[k] \in Block \cup {Hole}
  <2> TAKE k \in 1..n
  <2>1. CASE k \in (from + 1)..end
    <3>1. k - from \in 1..Len(m)
      BY <1>1, <2>1
    <3> QED
      BY <1>2, <2>1, <3>1
  <2>2. CASE k \notin (from + 1)..end
    BY <1>1, <1>2, <2>2 DEF Files
  <2> QED
    BY <2>1, <2>2
<1>5. Overwritten(s, from, m) \in [1..n -> Block \cup {Hole}]
  BY <1>2, <1>3, <1>4
<1> HIDE DEF n
<1>6. Len(Overwritten(s, from, m)) = n
  BY <1>1, <1>5
<1> QED
  BY <1>2, <1>6 DEF n

LEMMA LongerByOne ==
  ASSUME NEW m \in Seq(Block), NEW b \in Block
  PROVE  /\ Append(m, b) \in Seq(Block) /\ Append(m, b) # <<>> /\ Len(Append(m, b)) = Len(m) + 1
         /\ \A k \in 1..Len(m) : Append(m, b)[k] = m[k]
         /\ Append(m, b)[Len(m) + 1] = b /\ Len(m) \in Nat
OBVIOUS

\* A block written behind those that have come is one more that has.
LEMMA WrittenBehind ==
  ASSUME NEW s \in Files, NEW from \in Nat, NEW m \in Seq(Block), NEW b \in Block
  PROVE  WriteAt(Overwritten(s, from, m), from + Len(m), b) = Overwritten(s, from, Append(m, b))
<1> DEFINE o   == Overwritten(s, from, m)
           p   == from + Len(m)
           w   == Append(m, b)
           end == from + Len(w)
           n   == IF end > Len(s) THEN end ELSE Len(s)
<1> SUFFICES WriteAt(o, p, b) = Overwritten(s, from, w)
  OBVIOUS
<1>1. /\ Len(s) \in Nat /\ Len(m) \in Nat /\ w \in Seq(Block) /\ w # <<>> /\ Len(w) = Len(m) + 1
      /\ \A k \in 1..Len(m) : w[k] = m[k]
      /\ w[Len(m) + 1] = b
  BY LongerByOne DEF Files
<1>2. Overwritten(s, from, w) = [k \in 1..n |-> IF k \in (from + 1)..end THEN w[k - from]
                                               ELSE IF k <= Len(s) THEN s[k] ELSE Hole]
  BY <1>1, SomethingOverwritten
<1>3. WriteAt(o, p, b) = [k \in 1..(IF p < Len(o) THEN Len(o) ELSE p + 1) |->
                            IF k = p + 1 THEN b ELSE IF k <= Len(o) THEN o[k] ELSE Hole]
  BY DEF WriteAt
<1>4. CASE m = <<>>
  <2>1. o = s /\ Len(m) = 0
    BY <1>4, NothingOverwritten
  <2>2. p = from /\ end = from + 1
    BY <1>1, <2>1
  <2>3. (IF p < Len(o) THEN Len(o) ELSE p + 1) = n
    BY <1>1, <2>1, <2>2
  <2>4. \A k \in 1..n : (IF k = p + 1 THEN b ELSE IF k <= Len(o) THEN o[k] ELSE Hole)
                        = (IF k \in (from + 1)..end THEN w[k - from]
                           ELSE IF k <= Len(s) THEN s[k] ELSE Hole)
    <3> TAKE k \in 1..n
    <3>1. CASE k = from + 1
      <4>1. k \in (from + 1)..end /\ k - from = 1
        BY <2>2, <3>1
      <4> QED
        BY <1>1, <2>1, <2>2, <3>1, <4>1
    <3>2. CASE k # from + 1
      <4>1. k \notin (from + 1)..end
        BY <1>1, <2>2, <3>2
      <4> QED
        BY <2>1, <2>2, <3>2, <4>1
    <3> QED
      BY <3>1, <3>2
  <2> HIDE DEF o, p, w, end, n
  <2> QED
    BY <1>2, <1>3, <2>3, <2>4
<1>5. CASE m # <<>>
  <2> DEFINE l == IF p > Len(s) THEN p ELSE Len(s)
  <2>1. /\ o = [k \in 1..l |-> IF k \in (from + 1)..p THEN m[k - from]
                               ELSE IF k <= Len(s) THEN s[k] ELSE Hole]
        /\ Len(o) = l
    BY <1>5, SomethingOverwritten
  <2>2. p \in Nat /\ end = p + 1 /\ l \in Nat /\ n \in Nat
    BY <1>1
  <2>3. (IF p < Len(o) THEN Len(o) ELSE p + 1) = n
    BY <1>1, <2>1, <2>2
  <2>4. \A k \in 1..n : (IF k = p + 1 THEN b ELSE IF k <= Len(o) THEN o[k] ELSE Hole)
                        = (IF k \in (from + 1)..end THEN w[k - from]
                           ELSE IF k <= Len(s) THEN s[k] ELSE Hole)
    <3> TAKE k \in 1..n
    <3>1. CASE k = p + 1
      <4>1. k \in (from + 1)..end /\ k - from = Len(m) + 1
        BY <1>1, <2>2, <3>1
      <4> QED
        BY <1>1, <3>1, <4>1
    <3>2. CASE k \in (from + 1)..p
      <4>1. k \in (from + 1)..end /\ k - from \in 1..Len(m) /\ k # p + 1 /\ k \in 1..l
        BY <1>1, <2>2, <3>2
      <4>2. o[k] = m[k - from] /\ k <= Len(o)
        BY <2>1, <2>2, <3>2, <4>1
      <4> QED
        BY <1>1, <4>1, <4>2
    <3>3. CASE k # p + 1 /\ k \notin (from + 1)..p
      <4>1. k \notin (from + 1)..end
        BY <1>1, <2>2, <3>3
      <4>2. k \in 1..l
        BY <1>1, <2>2, <3>3, <4>1
      <4>3. o[k] = (IF k <= Len(s) THEN s[k] ELSE Hole) /\ k <= Len(o)
        BY <2>1, <2>2, <3>3, <4>2
      <4> QED
        BY <3>3, <4>1, <4>2, <4>3
    <3> QED
      BY <3>1, <3>2, <3>3
  <2> HIDE DEF o, p, w, end, n, l
  <2> QED
    BY <1>2, <1>3, <2>3, <2>4
<1> QED
  BY <1>4, <1>5

------------------------------------------------------------------------------
(* The steps that are not those of a file's transfer. *)

LEMMA StillHarmless ==
  ASSUME cl'.handle = cl.handle, UNCHANGED <<xfer, owed>>,
         Doing(FileOps) => disk'.blocks[cl.handle.node] = disk.blocks[cl.handle.node]
  PROVE  Harmless
BY DEF Harmless, Blocks

LEMMA FailureHarmless == ASSUME NEW code, Fails(code) PROVE Harmless
BY StillHarmless DEF Fails, Answer

LEMMA OverHarmless ==
  ASSUME cl'.handle = None, owed' = owed \/ reply' # "226"
  PROVE  Harmless
BY DEF Harmless

LEMMA LeavingHarmless ==
  ASSUME IInv, Connect \/ ConnectionLost \/ ssftpCmdQuit \/ ssftpCmdAbor \/ DataHangUp
  PROVE  Harmless
<1>1. cl'.handle = None
  <2>1. cl' = NewClient \/ cl' = ftpclient_data_end(cl)
    BY DEF Connect, ConnectionLost, ssftpCmdQuit, ssftpCmdAbor, DataHangUp, Disconnect, Answer
  <2>2. NewClient.handle = None /\ ftpclient_data_end(cl).handle = None
    BY DataEndHonest DEF IInv, NewClient
  <2> QED
    BY <2>1, <2>2
<1>2. owed' = owed \/ reply' # "226"
  BY DEF Connect, ConnectionLost, ssftpCmdQuit, ssftpCmdAbor, DataHangUp, Disconnect, Answer
<1> QED
  BY <1>1, <1>2, OverHarmless

\* A file that is removed or replaced while it is open keeps its blocks.
LEMMA NamesLeaveBlocks ==
  ASSUME disk \in Disk, Doing(FileOps), cl.handle.node \in Inode
  PROVE  /\ \A f \in File : Unlinked(f).blocks[cl.handle.node] = disk.blocks[cl.handle.node]
         /\ \A f, t \in File : Renamed(f, t).blocks[cl.handle.node] = disk.blocks[cl.handle.node]
<1> DEFINE h == cl.handle.node
<1>1. \A d \in Disk : \A m : Reclaimed(d, m).blocks[h] = d.blocks[h]
  <2> SUFFICES ASSUME NEW d \in Disk, NEW m PROVE Reclaimed(d, m).blocks[h] = d.blocks[h]
    OBVIOUS
  <2>1. CASE m = None \/ h = m
    BY <2>1 DEF Reclaimed
  <2>2. CASE m # None /\ h # m
    BY <2>2 DEF Reclaimed, Disk
  <2> QED
    BY <2>1, <2>2
<1>2. \A f \in File : Unlinked(f).blocks[h] = disk.blocks[h]
  <2> TAKE f \in File
  <2> DEFINE d == [disk EXCEPT !.names[f] = None]
  <2>1. d \in Disk /\ d.blocks = disk.blocks
    BY DEF Disk
  <2>2. Unlinked(f) = Reclaimed(d, Node(f))
    BY DEF Unlinked
  <2> HIDE DEF d
  <2> QED
    BY <1>1, <2>1, <2>2
<1>3. \A f, t \in File : Renamed(f, t).blocks[h] = disk.blocks[h]
  <2> TAKE f, t \in File
  <2> DEFINE d == [disk EXCEPT !.names = [@ EXCEPT ![f] = None, ![t] = Node(f)]]
  <2>1. d \in Disk /\ d.blocks = disk.blocks
    BY DEF Disk, Node
  <2>2. Renamed(f, t) = IF f = t THEN disk ELSE Reclaimed(d, Node(t))
    BY DEF Renamed
  <2> HIDE DEF d
  <2> QED
    BY <1>1, <2>1, <2>2
<1> QED
  BY <1>2, <1>3

LEMMA NamesHarmless ==
  ASSUME IInv, ssftpCmdMkd \/ ssftpCmdRmd \/ ssftpCmdDele \/ ssftpCmdRnto
  PROVE  Harmless
<1>1. disk \in Disk /\ cl'.handle = cl.handle /\ UNCHANGED <<xfer, owed>>
  BY DEF ssftpCmdMkd, ssftpCmdRmd, ssftpCmdDele, ssftpCmdRnto, Changes, Fails, Answer, IInv, Honest, Client
<1>2. ASSUME Doing(FileOps)
      PROVE  disk'.blocks[cl.handle.node] = disk.blocks[cl.handle.node]
  <2>1. cl.handle.node \in Inode
    BY <1>2, HandleKind DEF Doing
  <2>2. CASE disk' = disk
    BY <2>2
  <2>3. CASE ssftpCmdMkd \/ ssftpCmdRmd
    BY <1>1, <2>3 DEF ssftpCmdMkd, ssftpCmdRmd, Changes, Fails, Answer, Disk
  <2>4. CASE \E f \in File : disk' = Unlinked(f)
    BY <1>1, <1>2, <2>1, <2>4, NamesLeaveBlocks
  <2>5. CASE \E f, t \in File : disk' = Renamed(f, t)
    BY <1>1, <1>2, <2>1, <2>5, NamesLeaveBlocks
  <2>6. ssftpCmdDele => disk' = disk \/ \E f \in File : disk' = Unlinked(f)
    BY DEF ssftpCmdDele, Changes, Fails, Answer
  <2>7. ssftpCmdRnto => disk' = disk \/ \E f, t \in File : disk' = Renamed(f, t)
    BY DEF ssftpCmdRnto, IInv, Honest, Client
  <2> QED
    BY <2>2, <2>3, <2>4, <2>5, <2>6, <2>7
<1> QED
  BY <1>1, <1>2, StillHarmless

LEMMA InformHarmless == ASSUME NotLoggedIn \/ Inform, ~ConnectionLost PROVE Harmless
<1>1. \E code : Fails(code)
  BY NullArgumentLoses DEF NotLoggedIn, Inform, ssftpCmdAllo, ssftpCmdPwd, ssftpCmdMode, ssftpCmdStru, ssftpCmdType,
         ssftpCmdSize, ssftpCmdMdtm, ssftpCmdChmod, ssftpCmdHelp, ssftpCmdNoop, ssftpCmdSyst,
         ssftpCmdStat, ssftpCmdFeat, Looks
<1> QED
  BY <1>1, FailureHarmless

LEMMA SettingsHarmless ==
  ASSUME IInv, \/ ssftpCmdUser \/ ssftpCmdPass \/ ssftpCmdAcct \/ ssftpCmdCwd \/ ssftpCmdCdup \/ ssftpCmdRnfr
               \/ ssftpCmdRest \/ ssftpCmdPort \/ ssftpCmdWrite \/ PasvEvent,
         ~ConnectionLost
  PROVE  Harmless
<1>1. cl \in Client
  BY DEF IInv, Honest
<1>2. UNCHANGED <<disk, xfer, owed>>
  BY NullArgumentLoses DEF ssftpCmdUser, ssftpCmdPass, ssftpCmdAcct, ssftpCmdCwd, ssftpCmdCdup, ssftpCmdRnfr, ssftpCmdRest,
         ssftpCmdPort, ssftpCmdWrite, PasvEvent, Looks, Fails, Answer
<1>3. cl'.handle = cl.handle
  BY <1>1, NullArgumentLoses
     DEF ssftpCmdUser, ssftpCmdPass, ssftpCmdAcct, ssftpCmdCwd, ssftpCmdCdup, ssftpCmdRnfr, ssftpCmdRest,
         ssftpCmdPort, ssftpCmdWrite, PasvEvent, Looks, Fails, Answer, Client
<1> QED
  BY <1>2, <1>3, StillHarmless

LEMMA PasvHarmless == ASSUME IInv, ssftpCmdPasv PROVE Harmless
<1>1. cl.auth /\ UNCHANGED <<disk, xfer, owed>>
  BY DEF ssftpCmdPasv, Allowed, Answer
<1>2. PICK out \in ftpclient_data_pasv(cl) : cl' = out[1] \/ cl' = ftpclient_data_end(out[1])
  BY DEF ssftpCmdPasv, Answer
<1>3. Honest(out[1]) /\ out[1].handle = cl.handle
  BY <1>1, DataPasvHonest DEF IInv
<1>4. ftpclient_data_end(out[1]).handle = None
  BY <1>3, DataEndHonest
<1> QED
  BY <1>1, <1>2, <1>3, <1>4, StillHarmless, OverHarmless

LEMMA ListsHarmless ==
  ASSUME IInv, ssftpCmdList \/ ssftpCmdNlst \/ ssftpDataList \/ ssftpDataNlst
  PROVE  Harmless
<1>1. CASE ssftpCmdList \/ ssftpCmdNlst
  <2>1. PICK op \in DirOps : cl.auth /\ Listing(op)
    BY <1>1 DEF ssftpCmdList, ssftpCmdNlst, Allowed, DirOps
  <2>2. CASE \E code : Fails(code)
    BY <2>2, FailureHarmless
  <2>3. CASE ~Transferring /\ ~\E code : Fails(code)
    <3> DEFINE left == {n \in Name : Exists(<<cl.cwd, n>>)}
               c == [cl EXCEPT !.handle = DirHandle(op, left)]
    <3>1. Start(c, 0, left)
      BY <2>1, <2>3 DEF Listing
    <3>2. DirHandle(op, left) \in Handle /\ DirHandle(op, left).op \in DirOps
      BY DEF DirHandle, Handle
    <3> HIDE DEF left
    <3>3. Honest(c) /\ c.auth /\ c.handle.op \in DirOps
      BY <2>1, <3>2 DEF IInv, Honest, Client
    <3> HIDE DEF c
    <3>4. PICK out \in ftpclient_data_start(c) : cl' = out[1] \/ cl' = ftpclient_data_end(out[1])
      BY <3>1 DEF Start
    <3>5. /\ Honest(out[1]) /\ out[1].handle.op \in DirOps
          /\ ftpclient_data_end(out[1]).handle = None
      BY <3>3, DataStartHonest, DataEndHonest
    <3>6. ~Doing(FileOps)
      BY <2>3 DEF Doing
    <3> QED
      BY <3>4, <3>5, <3>6 DEF Harmless
  <2> QED
    BY <2>1, <2>2, <2>3 DEF Listing
<1>2. CASE ssftpDataList \/ ssftpDataNlst
  <2>1. PICK op \in DirOps : ListEvent(op)
    BY <1>2 DEF ssftpDataList, ssftpDataNlst, DirOps
  <2>2. Transferring /\ cl.handle.op = op /\ ~Doing(FileOps)
    BY <2>1 DEF ListEvent, Doing, DirOps, FileOps
  <2>3. cl.handle \in [op : DirOps, left : SUBSET Name] /\ cl \in Client
    BY <2>2, HandleKind DEF IInv, Honest
  <2>4. CASE \E code : Finish(code)
    BY <2>2, <2>4, DataEndHonest DEF Finish, IInv, Harmless
  <2>5. CASE \E n : cl' = [cl EXCEPT !.handle.left = @ \ {n}]
    <3>1. PICK n : cl' = [cl EXCEPT !.handle = [cl.handle EXCEPT !.left = @ \ {n}]]
      BY <2>5
    <3>2. cl'.handle.op = op
      BY <2>2, <2>3, <3>1 DEF Client
    <3> QED
      BY <2>2, <3>2 DEF Harmless
  <2> QED
    BY <2>1, <2>4, <2>5 DEF ListEvent, Moved, Answer
<1> QED
  BY <1>1, <1>2

------------------------------------------------------------------------------
(* A file's transfer. *)

\* What Start leaves, when the file is open.
LEMMA StartBegins ==
  ASSUME Honest(cl), cl.auth, ~Transferring, NEW op \in FileOps, NEW node \in Inode, NEW app \in BOOLEAN,
         IInv, NEW from, NEW before, Start(Opened(op, node, app), from, before)
  PROVE  \/ cl'.handle = None
         \/ /\ cl'.handle = FileHandle(op, node, cl.rest, app)
            /\ xfer' = [from |-> from, before |-> before, dir |-> cl.cwd, moved |-> <<>>]
<1> DEFINE c == Opened(op, node, app)
<1>1. Honest(c) /\ c.auth
  BY OpenedHonest
<1>2. c.handle = FileHandle(op, node, cl.rest, app)
  BY DEF Opened, Honest, Client
<1> HIDE DEF c
<1>3. PICK out \in ftpclient_data_start(c) :
        IF out[2]
        THEN /\ cl' = out[1]
             /\ xfer' = [from |-> from, before |-> before, dir |-> cl.cwd, moved |-> <<>>]
        ELSE cl' = ftpclient_data_end(out[1])
  BY DEF Start, c
<1>4. /\ Honest(out[1]) /\ out[1].handle = FileHandle(op, node, cl.rest, app)
      /\ ftpclient_data_end(out[1]).handle = None
  BY <1>1, <1>2, DataStartHonest, DataEndHonest
<1> QED
  BY <1>3, <1>4

LEMMA OverMoves == ASSUME cl'.handle = None PROVE Moving'
BY DEF Moving, Doing, Transferring

\* Nothing is complete that has not begun.
LEMMA NothingComplete == ASSUME ~Transferring PROVE Done /\ Full
BY DEF Done, Full, Completes, Doing

LEMMA RetrMoves == ASSUME IInv, Moving, ssftpCmdRetr PROVE Moving' /\ Done /\ Full
<1>1. CASE \E code : Fails(code)
  BY <1>1, FailureHarmless, HarmlessKeeps
<1>2. CASE ~Transferring /\ ~\E code : Fails(code)
  <2>1. PICK f \in File : \E out \in ssftpFsOpen(f, {}) :
          /\ disk' = out[1]
          /\ Start(Opened("retr", out[2], FALSE), cl.rest, disk.blocks[out[2]])
    BY <1>2 DEF ssftpCmdRetr
  <2>2. PICK out \in ssftpFsOpen(f, {}) :
          /\ disk' = out[1]
          /\ Start(Opened("retr", out[2], FALSE), cl.rest, disk.blocks[out[2]])
    BY <2>1
  <2>3. cl.auth /\ Honest(cl) /\ disk \in Disk /\ cl.rest \in Nat
    BY DEF ssftpCmdRetr, Allowed, IInv, Honest, Client
  <2>4. out[2] \in Inode /\ disk' = disk
    <3>1. out = <<disk, Node(f)>>
      BY <2>2 DEF ssftpFsOpen
    <3>2. disk' = disk
      BY <2>2, <3>1
    <3> QED
      BY <2>2, <2>3, <3>2, OpenKeepsDisk
  <2> DEFINE s == disk.blocks[out[2]]
  <2>5. s \in Files
    BY <2>3, <2>4 DEF Disk
  <2>6. \/ cl'.handle = None
        \/ /\ cl'.handle = FileHandle("retr", out[2], cl.rest, FALSE)
           /\ xfer' = [from |-> cl.rest, before |-> s, dir |-> cl.cwd, moved |-> <<>>]
    BY <1>2, <2>2, <2>3, <2>4, StartBegins DEF FileOps
  <2>7. ASSUME cl'.handle = FileHandle("retr", out[2], cl.rest, FALSE),
               xfer' = [from |-> cl.rest, before |-> s, dir |-> cl.cwd, moved |-> <<>>]
        PROVE  Moving'
    <3>1. SubSeq(s, cl.rest + 1, cl.rest) = <<>>
      BY <2>3, <2>5 DEF Files
    <3>2. /\ cl'.handle.op = "retr" /\ cl'.handle.pos = cl.rest /\ Blocks' = s
          /\ xfer'.from = cl.rest /\ xfer'.before = s /\ xfer'.moved = <<>>
      BY <2>4, <2>7 DEF FileHandle, Blocks
    <3> HIDE DEF s
    <3>3. Reading'
      BY <2>3, <2>5, <3>1, <3>2 DEF Reading
    <3> QED
      BY <3>2, <3>3 DEF Moving, Doing
  <2> QED
    BY <1>2, <2>6, <2>7, OverMoves, NothingComplete
<1> QED
  BY <1>1, <1>2 DEF ssftpCmdRetr

LEMMA OneMore ==
  ASSUME NEW s \in Files, NEW i \in Nat, NEW p \in Nat, i <= p, p < Len(s)
  PROVE  Append(SubSeq(s, i + 1, p), s[p + 1]) = SubSeq(s, i + 1, p + 1)
<1>1. /\ s \in Seq(Block \cup {Hole}) /\ Len(s) \in Nat
      /\ i + 1 \in 1..Len(s) /\ p + 1 \in (i + 1)..Len(s) /\ (p + 1) - 1 = p
  BY DEF Files
<1>2. SubSeq(s, i + 1, p + 1) = SubSeq(s, i + 1, p) \o <<s[p + 1]>>
  BY <1>1, SubSeqRecursiveSecond
<1>3. SubSeq(s, i + 1, p) \in Seq(Block \cup {Hole}) /\ s[p + 1] \in Block \cup {Hole}
  <2>1. \A k \in (i + 1)..p : s[k] \in Block \cup {Hole}
    BY <1>1
  <2>2. i + 1 \in Int /\ p \in Int
    OBVIOUS
  <2> QED
    BY <1>1, <2>1, <2>2, SubSeqProperties
<1> QED
  BY <1>2, <1>3, AppendIsConcat

LEMMA RetrEventMoves == ASSUME IInv, Moving, ssftpDataRetr PROVE Moving' /\ Full /\ (~ReadErrors => Done)
<1>1. /\ Transferring /\ cl.handle.op = "retr" /\ Doing({"retr"}) /\ ~Doing({"stor"}) /\ Reading
      /\ cl \in Client
  BY DEF ssftpDataRetr, Doing, Moving, IInv, Honest
<1>2. /\ cl.handle \in [op : FileOps, node : Inode, pos : Nat, app : BOOLEAN] /\ Full
  BY <1>1, HandleKind DEF FileOps, Full, Completes
<1>3. Len(xfer.before) \in Nat /\ xfer.from \in Nat /\ cl.handle.pos \in Nat /\ xfer.before \in Files
  BY <1>1 DEF Reading, Files
<1>4. ASSUME NEW code \in {"226", "451"}, Finish(code) PROVE cl'.handle = None
  BY <1>4, DataEndHonest DEF Finish, IInv
<1>5. CASE (cl.handle.pos >= Len(Blocks) \/ ReadErrors) /\ Finish("226")
  <2>1. ASSUME ~ReadErrors
        PROVE  xfer.moved = SubSeq(xfer.before, xfer.from + 1, Len(xfer.before))
    <3>1. /\ xfer.moved = SubSeq(xfer.before, xfer.from + 1, cl.handle.pos)
          /\ cl.handle.pos >= Len(xfer.before)
          /\ cl.handle.pos = xfer.from \/ cl.handle.pos <= Len(xfer.before)
      BY <1>1, <1>5, <2>1 DEF Reading
    <3>2. CASE cl.handle.pos <= Len(xfer.before)
      <4>1. cl.handle.pos = Len(xfer.before)
        BY <1>3, <3>1, <3>2
      <4> QED
        BY <3>1, <4>1
    <3>3. CASE cl.handle.pos = xfer.from /\ cl.handle.pos > Len(xfer.before)
      <4>1. SubSeq(xfer.before, xfer.from + 1, xfer.from) = <<>>
        BY <1>3, SubSeqEmpty
      <4>2. SubSeq(xfer.before, xfer.from + 1, Len(xfer.before)) = <<>>
        BY <1>3, <3>3, SubSeqEmpty
      <4>3. xfer.moved = SubSeq(xfer.before, xfer.from + 1, xfer.from)
        BY <3>1, <3>3
      <4> QED
        BY <4>1, <4>2, <4>3
    <3>4. cl.handle.pos <= Len(xfer.before) \/ cl.handle.pos > Len(xfer.before)
      BY <1>3
    <3> QED
      BY <3>1, <3>2, <3>3, <3>4
  <2> QED
    BY <1>2, <1>4, <1>5, <2>1, OverMoves DEF Done
<1>6. CASE Finish("451")
  <2>1. Done
    BY <1>6 DEF Finish, Done, Completes
  <2> QED
    BY <1>2, <1>4, <1>6, <2>1, OverMoves
<1>7. CASE /\ cl.handle.pos < Len(Blocks)
           /\ Moved(Blocks[cl.handle.pos + 1], [cl EXCEPT !.handle.pos = @ + 1], disk)
  <2> DEFINE s == xfer.before  p == cl.handle.pos
  <2>1. /\ cl' = [cl EXCEPT !.handle = [cl.handle EXCEPT !.pos = @ + 1]] /\ disk' = disk
        /\ xfer' = [xfer EXCEPT !.moved = Append(@, s[p + 1])] /\ p < Len(s)
        /\ owed' = owed
    BY <1>1, <1>7 DEF Moved, Reading
  <2>2. /\ cl'.handle.op = "retr" /\ cl'.handle.pos = p + 1 /\ cl'.handle.node = cl.handle.node
    BY <1>1, <1>2, <2>1 DEF Client
  <2>3. /\ xfer'.from = xfer.from /\ xfer'.before = s
        /\ xfer'.moved = Append(xfer.moved, s[p + 1])
    BY <2>1 DEF IInv, Fields
  <2>4. Append(SubSeq(s, xfer.from + 1, p), s[p + 1]) = SubSeq(s, xfer.from + 1, p + 1)
    <3>1. xfer.from <= p
      BY <1>1 DEF Reading
    <3> QED
      BY <1>3, <2>1, <3>1, OneMore
  <2>5. xfer'.moved = SubSeq(s, xfer.from + 1, p + 1)
    BY <1>1, <2>3, <2>4 DEF Reading
  <2>6. Blocks' = Blocks
    BY <2>1, <2>2 DEF Blocks
  <2>7. Reading'
    <3>1. Blocks = s /\ xfer.from <= p
      BY <1>1 DEF Reading
    <3>2. /\ xfer.from <= p + 1 /\ p + 1 <= Len(s) /\ p + 1 \in Nat
      BY <1>3, <2>1, <3>1
    <3> QED
      BY <1>3, <2>2, <2>3, <2>5, <2>6, <3>1, <3>2 DEF Reading
  <2>8. Moving'
    BY <2>2, <2>7 DEF Moving, Doing
  <2>9. Done
    BY <2>1 DEF Done, Completes
  <2> QED
    BY <1>2, <2>8, <2>9
<1> QED
  BY <1>5, <1>6, <1>7 DEF ssftpDataRetr, Blocks

------------------------------------------------------------------------------
\* An upload begins with what REST or APPE keeps of the file, and nothing that came.
LEMMA StorMoves == ASSUME IInv, Moving, ssftpCmdStor PROVE Moving' /\ Done /\ Full
<1>1. CASE \E code : Fails(code)
  BY <1>1, FailureHarmless, HarmlessKeeps
<1>2. CASE ~\E code : Fails(code)
  <2>1. PICK appe \in BOOLEAN :
          /\ cl.auth /\ ~Transferring
          /\ \E f \in File : \E out \in ssftpFsOpen(f, Oflags(f, appe)) :
               /\ disk' = out[1]
               /\ LET app == appe /\ Exists(f)
                  IN  Start(Opened("stor", out[2], app),
                            IF app THEN Len(disk.blocks[out[2]]) ELSE cl.rest,
                            IF appe \/ cl.rest # 0 THEN out[1].blocks[out[2]] ELSE <<>>)
    BY <1>2 DEF ssftpCmdStor, Allowed
  <2>2. PICK f \in File : \E out \in ssftpFsOpen(f, Oflags(f, appe)) :
          /\ disk' = out[1]
          /\ LET app == appe /\ Exists(f)
             IN  Start(Opened("stor", out[2], app),
                       IF app THEN Len(disk.blocks[out[2]]) ELSE cl.rest,
                       IF appe \/ cl.rest # 0 THEN out[1].blocks[out[2]] ELSE <<>>)
    BY <2>1
  <2> DEFINE app == appe /\ Exists(f)
  <2>3. PICK out \in ssftpFsOpen(f, Oflags(f, appe)) :
          /\ disk' = out[1]
          /\ Start(Opened("stor", out[2], app),
                   IF app THEN Len(disk.blocks[out[2]]) ELSE cl.rest,
                   IF appe \/ cl.rest # 0 THEN out[1].blocks[out[2]] ELSE <<>>)
    BY <2>2
  <2>4. Honest(cl) /\ disk \in Disk /\ cl.rest \in Nat /\ <<>> \in Files /\ app \in BOOLEAN
    BY DEF IInv, Honest, Client, Files
  <2> DEFINE s      == out[1].blocks[out[2]]
             from   == IF app THEN Len(disk.blocks[out[2]]) ELSE cl.rest
             before == IF appe \/ cl.rest # 0 THEN s ELSE <<>>
  <2>5. out[1] \in Disk /\ out[2] \in Inode /\ s \in Files
    BY <2>3, <2>4, OpenKeepsDisk
  <2>6. /\ before = s
        /\ app => from = Len(s)
    <3>1. CASE "creat" \in Oflags(f, appe)
      <4>1. ~Exists(f)
        BY <3>1 DEF Oflags
      <4>2. PICK n \in Inode : out = <<[disk EXCEPT !.names[f] = n, !.blocks[n] = <<>>], n>>
        BY <2>3, <3>1 DEF ssftpFsOpen
      <4>3. s = <<>>
        BY <2>4, <4>2 DEF Disk
      <4> QED
        BY <4>1, <4>3
    <3>2. CASE "creat" \notin Oflags(f, appe)
      <4>1. /\ Exists(f)
            /\ out = <<IF "trunc" \in Oflags(f, appe) THEN [disk EXCEPT !.blocks[Node(f)] = <<>>] ELSE disk,
                       Node(f)>>
        BY <2>3, <3>2 DEF ssftpFsOpen
      <4>2. Node(f) \in Inode
        BY <2>4, <4>1 DEF Exists, Node, Disk
      <4>3. CASE "trunc" \in Oflags(f, appe)
        <5>1. ~appe /\ cl.rest = 0
          BY <4>3 DEF Oflags
        <5>2. s = <<>>
          BY <2>4, <4>1, <4>2, <4>3 DEF Disk
        <5> QED
          BY <5>1, <5>2
      <4>4. CASE "trunc" \notin Oflags(f, appe)
        <5>1. appe \/ cl.rest # 0
          BY <4>1, <4>4 DEF Oflags
        <5>2. s = disk.blocks[out[2]]
          BY <4>1, <4>4
        <5> QED
          BY <5>1, <5>2
      <4> QED
        BY <4>3, <4>4
    <3> QED
      BY <3>1, <3>2
  <2>7. from \in Nat
    BY <2>4, <2>5, <2>6 DEF Files
  <2> HIDE DEF s, from, before, app
  <2>8. \/ cl'.handle = None
        \/ /\ cl'.handle = FileHandle("stor", out[2], cl.rest, app)
           /\ xfer' = [from |-> from, before |-> before, dir |-> cl.cwd, moved |-> <<>>]
    <3>1. Start(Opened("stor", out[2], app), from, before)
      BY <2>3 DEF from, before, s
    <3> QED
      BY <2>1, <2>4, <2>5, <3>1, StartBegins DEF FileOps
  <2>9. ASSUME cl'.handle = FileHandle("stor", out[2], cl.rest, app),
               xfer' = [from |-> from, before |-> before, dir |-> cl.cwd, moved |-> <<>>]
        PROVE  Moving'
    <3>1. /\ cl'.handle.op = "stor" /\ cl'.handle.pos = cl.rest /\ cl'.handle.app = app
          /\ xfer'.from = from /\ xfer'.before = s /\ xfer'.moved = <<>>
      BY <2>6, <2>9 DEF FileHandle
    <3>2. Blocks' = s
      BY <2>3, <2>9 DEF FileHandle, Blocks, s
    <3>3. Overwritten(s, from, <<>>) = s
      BY <2>5, <2>7, NothingOverwritten
    <3>4. ~app => from = cl.rest
      BY DEF from
    <3>5. xfer'.moved \in Seq(Block) /\ Len(xfer'.moved) = 0
      BY <3>1
    <3>6. Writing'
      BY <2>4, <2>5, <2>6, <2>7, <3>1, <3>2, <3>3, <3>4, <3>5 DEF Writing
    <3> QED
      BY <3>1, <3>6 DEF Moving, Doing
  <2> QED
    BY <2>1, <2>8, <2>9, OverMoves, NothingComplete
<1> QED
  BY <1>1, <1>2

\* Where the next block of an upload goes: behind those that have come.
LEMMA NextPosition ==
  ASSUME IInv, Doing({"stor"}), Writing
  PROVE  (IF cl.handle.app THEN Len(Blocks) ELSE cl.handle.pos) = xfer.from + Len(xfer.moved)
<1> DEFINE s == xfer.before  m == xfer.moved
<1>1. /\ s \in Files /\ Len(s) \in Nat /\ m \in Seq(Block) /\ xfer.from \in Nat
      /\ Blocks = Overwritten(s, xfer.from, m)
      /\ cl.handle.app => xfer.from = Len(s)
      /\ ~cl.handle.app => cl.handle.pos = xfer.from + Len(m)
  BY DEF Writing, Files
<1>2. CASE ~cl.handle.app
  BY <1>1, <1>2
<1>3. CASE cl.handle.app /\ m = <<>>
  <2>1. Blocks = s /\ Len(m) = 0
    BY <1>1, <1>3, NothingOverwritten
  <2> QED
    BY <1>1, <1>3, <2>1
<1>4. CASE cl.handle.app /\ m # <<>>
  <2>1. Len(m) \in Nat /\ Len(m) > 0
    BY <1>1, <1>4
  <2>2. Len(Blocks) = IF xfer.from + Len(m) > Len(s) THEN xfer.from + Len(m) ELSE Len(s)
    BY <1>1, <1>4, SomethingOverwritten
  <2> QED
    BY <1>1, <1>4, <2>1, <2>2
<1> QED
  BY <1>2, <1>3, <1>4

LEMMA DroppedMoves ==
  ASSUME "WRITE" \in Verbs, IInv, ssftpDataStor
  PROVE  Moving' /\ Done
<1>1. Transferring /\ cl.handle.op = "stor" /\ cl \in Client
  BY DEF ssftpDataStor, Doing, IInv, Honest
<1>2. cl.handle \in [op : FileOps, node : Inode, pos : Nat, app : BOOLEAN] /\ Done
  BY <1>1, HandleKind DEF FileOps, Done, Completes, Doing
<1>3. CASE \E code : Finish(code)
  BY <1>2, <1>3, DataEndHonest, OverMoves DEF Finish, IInv
<1>4. CASE \E k : cl' = [cl EXCEPT !.handle.pos = k]
  <2>1. PICK k : cl' = [cl EXCEPT !.handle = [cl.handle EXCEPT !.pos = k]]
    BY <1>4
  <2>2. cl'.handle.op = "stor"
    BY <1>1, <1>2, <2>1 DEF Client
  <2> QED
    BY <1>2, <2>2 DEF Moving, Doing
<1>5. CASE cl' = cl
  BY <1>1, <1>2, <1>5 DEF Moving, Doing
<1> QED
  BY <1>3, <1>4, <1>5 DEF ssftpDataStor, Moved

LEMMA StorEventMoves ==
  ASSUME "WRITE" \notin Verbs, IInv, Moving, ssftpDataStor
  PROVE  Moving' /\ Done /\ Full
<1>1. /\ Transferring /\ cl.handle.op = "stor" /\ Doing({"stor"}) /\ ~Doing({"retr"}) /\ Writing
      /\ cl \in Client /\ disk \in Disk /\ cl.write
  BY DEF ssftpDataStor, Doing, Moving, IInv, Honest
<1>2. /\ cl.handle \in [op : FileOps, node : Inode, pos : Nat, app : BOOLEAN]
      /\ Done /\ Full
  BY <1>1, HandleKind DEF FileOps, Done, Full, Completes, Writing
<1>3. CASE \E code : Finish(code)
  <2>1. cl'.handle = None
    BY <1>3, DataEndHonest DEF Finish, IInv
  <2> QED
    BY <1>2, <2>1, OverMoves
<1>4. CASE ~\E code : Finish(code)
  <2> DEFINE p == xfer.from + Len(xfer.moved)  s == xfer.before
  <2>1. PICK b \in Block :
          Moved(b, [cl EXCEPT !.handle.pos = p + 1],
                [disk EXCEPT !.blocks[cl.handle.node] = WriteAt(@, p, b)])
    <3>1. (IF cl.handle.app THEN Len(disk.blocks[cl.handle.node]) ELSE cl.handle.pos) = p
      BY <1>1, NextPosition DEF Blocks
    <3> HIDE DEF p
    <3> QED
      BY <1>1, <1>4, <3>1 DEF ssftpDataStor
  <2>2. /\ cl' = [cl EXCEPT !.handle = [cl.handle EXCEPT !.pos = p + 1]]
        /\ xfer' = [xfer EXCEPT !.moved = Append(@, b)]
        /\ disk' = [disk EXCEPT !.blocks[cl.handle.node] = WriteAt(@, p, b)]
    BY <2>1 DEF Moved
  <2>3. /\ cl'.handle.op = "stor" /\ cl'.handle.pos = p + 1 /\ cl'.handle.node = cl.handle.node
        /\ cl'.handle.app = cl.handle.app
    BY <1>1, <1>2, <2>2 DEF Client
  <2>4. xfer'.from = xfer.from /\ xfer'.before = s /\ xfer'.moved = Append(xfer.moved, b)
    BY <2>2 DEF IInv, Fields
  <2>5. Blocks' = WriteAt(Blocks, p, b)
    BY <1>1, <1>2, <2>2, <2>3 DEF Blocks, Disk
  <2>6. /\ s \in Files /\ xfer.from \in Nat /\ xfer.moved \in Seq(Block)
        /\ Blocks = Overwritten(s, xfer.from, xfer.moved)
        /\ cl.handle.app => xfer.from = Len(s)
    BY <1>1 DEF Writing
  <2>7. Blocks' = Overwritten(s, xfer.from, Append(xfer.moved, b))
    BY <2>5, <2>6, WrittenBehind
  <2>8. /\ Append(xfer.moved, b) \in Seq(Block)
        /\ p + 1 = xfer.from + Len(Append(xfer.moved, b))
    BY <2>6, LongerByOne
  <2> HIDE DEF p, s
  <2>9. Writing'
    BY <2>3, <2>4, <2>6, <2>7, <2>8 DEF Writing
  <2> QED
    BY <1>2, <2>3, <2>9 DEF Moving, Doing
<1> QED
  BY <1>3, <1>4

------------------------------------------------------------------------------
LEMMA InitMoves == Init => Moving
BY DEF Init, Moving, Doing, Transferring, NewClient

LEMMA NextMoves ==
  ASSUME IInv, Moving, [Next]_vars
  PROVE  Moving' /\ ("WRITE" \notin Verbs => Full) /\ (~ReadErrors => Done)
<1>1. CASE UNCHANGED vars
  <2>1. Harmless
    BY <1>1, StillHarmless DEF vars
  <2> QED
    BY <2>1, HarmlessKeeps
<1>2. CASE Next
  <2>1. CASE ssftpCmdRetr \/ ssftpCmdStor \/ ssftpDataRetr \/ ssftpDataStor
    BY <2>1, RetrMoves, StorMoves, RetrEventMoves, StorEventMoves, DroppedMoves
  <2>2. CASE ~(ssftpCmdRetr \/ ssftpCmdStor \/ ssftpDataRetr \/ ssftpDataStor)
    <3>1. Harmless
      BY <1>2, <2>2, LeavingHarmless, NamesHarmless, InformHarmless, SettingsHarmless, PasvHarmless,
         ListsHarmless
         DEF Next, DataEvent
    <3> QED
      BY <3>1, HarmlessKeeps
  <2> QED
    BY <2>1, <2>2
<1> QED
  BY <1>1, <1>2

------------------------------------------------------------------------------
\* For any file, offset and length: a download that is answered with 226 gave the
\* peer all of the file from the offset on, also when the file was renamed or
\* removed meanwhile, unless reading it failed.
THEOREM DownloadsComplete ==
  ASSUME ~ReadErrors
  PROVE  Spec => RetrievedInFull
<1>1. Done => (Completes({"retr"}) =>
                 xfer.moved = SubSeq(xfer.before, xfer.from + 1, Len(xfer.before)))
  BY DEF Done
<1> QED
  BY <1>1, InitHolds, NextKeeps, InitMoves, NextMoves, PTL DEF Spec, RetrievedInFull

\* For any file, offset and length: with writes enabled an upload that is answered
\* with 226 left the file as it was, overwritten from the offset on, or from its end
\* for APPE, with every block that came.
THEOREM UploadsComplete ==
  ASSUME "WRITE" \notin Verbs
  PROVE  Spec => StoredAsSent
<1>1. Full => (Completes({"stor"}) =>
                 disk.blocks[cl.handle.node] = Overwritten(xfer.before, xfer.from, xfer.moved))
  BY DEF Full, Blocks
<1> QED
  BY <1>1, InitHolds, NextKeeps, InitMoves, NextMoves, PTL DEF Spec, StoredAsSent

------------------------------------------------------------------------------
(* Listings, of a directory that the client does not leave (CWD) and in which no *)
(* name comes back (RNTO) while it is listed.                                    *)

InOnePlace == "CWD" \notin Verbs /\ "RNTO" \notin Verbs

\* What the directory had and still has is either still to come or was sent.
Listed ==
  /\ cl.cwd = Root
  /\ Doing(DirOps) =>
       /\ xfer.dir = Root /\ xfer.before \subseteq Name /\ xfer.moved \in Seq(Name)
       /\ \A n \in xfer.before : Exists(<<Root, n>>) =>
            n \in cl.handle.left \/ \E k \in DOMAIN xfer.moved : xfer.moved[k] = n

\* A step that neither goes on with a listing nor completes one, and adds no name
\* to what is listed.
Undisturbed ==
  /\ cl'.cwd = Root
  /\ \/ /\ cl'.handle = cl.handle /\ xfer' = xfer
        /\ \A n \in Name : Doing(DirOps) /\ Node(<<Root, n>>) = None => Node(<<Root, n>>)' = None
     \/ cl'.handle = None
     \/ cl'.handle.op \in FileOps
  /\ Doing(DirOps) => owed' = owed \/ reply' # "226"

Known ==
  Completes(DirOps) =>
    \A n \in xfer.before : Exists(<<xfer.dir, n>>) => \E k \in DOMAIN xfer.moved : xfer.moved[k] = n

LEMMA UndisturbedKeeps == ASSUME Listed, Undisturbed PROVE Listed' /\ Known
<1>1. Known
  BY DEF Undisturbed, Known, Completes
<1>2. ASSUME cl'.handle = cl.handle, xfer' = xfer,
             \A n \in Name : Doing(DirOps) /\ Node(<<Root, n>>) = None => Node(<<Root, n>>)' = None
      PROVE  Listed'
  <2>1. Doing(DirOps)' <=> Doing(DirOps)
    BY <1>2 DEF Doing, Transferring
  <2> QED
    BY <1>2, <2>1 DEF Listed, Undisturbed, Exists
<1>3. ASSUME cl'.handle = None PROVE Listed'
  BY <1>3 DEF Listed, Undisturbed, Doing, Transferring
<1>4. ASSUME cl'.handle.op \in FileOps PROVE Listed'
  BY <1>4 DEF Listed, Undisturbed, Doing, FileOps, DirOps
<1> QED
  BY <1>1, <1>2, <1>3, <1>4 DEF Undisturbed

\* Nothing that has to do with the data connection moves the client.
LEMMA ConnectionStays ==
  ASSUME NEW c \in Client
  PROVE  /\ ftpclient_data_end(c).cwd = c.cwd
         /\ \A out \in ftpclient_data_start(c) :
              /\ out[1].cwd = c.cwd /\ ftpclient_data_end(out[1]).cwd = c.cwd
              /\ out[1].handle = c.handle /\ ftpclient_data_end(out[1]).handle = None
         /\ \A out \in ftpclient_data_pasv(c) :
              out[1].cwd = c.cwd /\ ftpclient_data_end(out[1]).cwd = c.cwd
<1>1. \A d \in Client : ftpclient_data_end(d).cwd = d.cwd /\ ftpclient_data_end(d).handle = None
  BY DEF ftpclient_data_end, Client
<1>2. ASSUME NEW came \in BOOLEAN, NEW x \in BOOLEAN
      PROVE  /\ [c EXCEPT !.pasv = x] \in Client /\ [c EXCEPT !.pasv = x].cwd = c.cwd
             /\ [c EXCEPT !.pasv = x, !.data = came] \in Client
             /\ [c EXCEPT !.pasv = x, !.data = came].cwd = c.cwd
             /\ [c EXCEPT !.pasv = x, !.data = came].handle = c.handle
             /\ [c EXCEPT !.actv = x, !.data = came] \in Client
             /\ [c EXCEPT !.actv = x, !.data = came].cwd = c.cwd
             /\ [c EXCEPT !.actv = x, !.data = came].handle = c.handle
  BY DEF Client
<1>3. ASSUME NEW out \in ftpclient_data_start(c)
      PROVE  out[1] \in Client /\ out[1].cwd = c.cwd /\ out[1].handle = c.handle
  <2> DEFINE no == FALSE
  <2>1. no \in BOOLEAN
    OBVIOUS
  <2> HIDE DEF no
  <2>2. \/ out[1] = c
        \/ \E came \in BOOLEAN : \/ out[1] = [c EXCEPT !.pasv = no, !.data = came]
                                 \/ out[1] = [c EXCEPT !.actv = no, !.data = came]
    <3>1. CASE c.data
      <4>1. out = <<c, TRUE>>
        BY <1>3, <3>1 DEF ftpclient_data_start
      <4> QED
        BY <4>1
    <3>2. CASE ~c.data /\ c.pasv
      <4>1. PICK came \in BOOLEAN : out = <<[c EXCEPT !.pasv = no, !.data = came], came>>
        BY <1>3, <3>2 DEF ftpclient_data_start, no
      <4> QED
        BY <4>1
    <3>3. CASE ~c.data /\ ~c.pasv
      <4>1. PICK came \in BOOLEAN : out = <<[c EXCEPT !.actv = no, !.data = came], came>>
        BY <1>3, <3>3 DEF ftpclient_data_start, no
      <4> QED
        BY <4>1
    <3> QED
      BY <3>1, <3>2, <3>3
  <2> QED
    BY <1>2, <2>1, <2>2
<1>4. ASSUME NEW out \in ftpclient_data_pasv(c)
      PROVE  out[1] \in Client /\ out[1].cwd = c.cwd
  <2>1. out[1] = c \/ \E bound \in BOOLEAN : out[1] = [c EXCEPT !.pasv = bound]
    <3>1. CASE c.data
      <4>1. out = <<c, FALSE>>
        BY <1>4, <3>1 DEF ftpclient_data_pasv
      <4> QED
        BY <4>1
    <3>2. CASE ~c.data
      <4>1. PICK bound \in BOOLEAN : out = <<[c EXCEPT !.pasv = bound], bound>>
        BY <1>4, <3>2 DEF ftpclient_data_pasv
      <4> QED
        BY <4>1
    <3> QED
      BY <3>1, <3>2
  <2> QED
    BY <1>2, <2>1
<1> QED
  BY <1>1, <1>3, <1>4

LEMMA AnswerUndisturbed ==
  ASSUME UNCHANGED <<disk, xfer, owed>>, cl'.cwd = Root, cl'.handle = cl.handle
  PROVE  Undisturbed
BY DEF Undisturbed, Node

LEMMA FailureUndisturbed ==
  ASSUME Listed, NEW code, Fails(code)
  PROVE  Undisturbed
BY AnswerUndisturbed DEF Fails, Answer, Listed

LEMMA OverUndisturbed ==
  ASSUME cl'.cwd = Root, cl'.handle = None, owed' = owed \/ reply' # "226"
  PROVE  Undisturbed
BY DEF Undisturbed

LEMMA LeavingUndisturbed ==
  ASSUME IInv, Listed, Connect \/ ConnectionLost \/ ssftpCmdQuit \/ ssftpCmdAbor \/ DataHangUp
  PROVE  Undisturbed
<1>1. cl' = NewClient \/ cl' = ftpclient_data_end(cl)
  BY DEF Connect, ConnectionLost, ssftpCmdQuit, ssftpCmdAbor, DataHangUp, Disconnect, Answer
<1>2. NewClient.handle = None /\ NewClient.cwd = Root
  BY DEF NewClient
<1>3. ftpclient_data_end(cl).handle = None /\ ftpclient_data_end(cl).cwd = Root
  BY DataEndHonest, ConnectionStays DEF IInv, Honest, Listed
<1>4. owed' = owed \/ reply' # "226"
  BY DEF Connect, ConnectionLost, ssftpCmdQuit, ssftpCmdAbor, DataHangUp, Disconnect, Answer
<1> QED
  BY <1>1, <1>2, <1>3, <1>4, OverUndisturbed

LEMMA SettingsUndisturbed ==
  ASSUME IInv, Listed, InOnePlace,
         \/ ssftpCmdUser \/ ssftpCmdPass \/ ssftpCmdAcct \/ ssftpCmdCwd \/ ssftpCmdCdup \/ ssftpCmdRnfr
         \/ ssftpCmdRest \/ ssftpCmdPort \/ ssftpCmdWrite \/ PasvEvent,
         ~ConnectionLost
  PROVE  Undisturbed
<1>1. cl \in Client /\ cl.cwd = Root
  BY DEF IInv, Honest, Listed
<1>2. ~ssftpCmdCwd
  BY DEF InOnePlace, ssftpCmdCwd, Allowed, Command
<1>3. UNCHANGED <<disk, xfer, owed>>
  BY <1>2, NullArgumentLoses
     DEF ssftpCmdUser, ssftpCmdPass, ssftpCmdAcct, ssftpCmdCdup, ssftpCmdRnfr, ssftpCmdRest,
         ssftpCmdPort, ssftpCmdWrite, PasvEvent, Looks, Fails, Answer
<1>4. cl'.handle = cl.handle /\ cl'.cwd = Root
  BY <1>1, <1>2, NullArgumentLoses
     DEF ssftpCmdUser, ssftpCmdPass, ssftpCmdAcct, ssftpCmdCdup, ssftpCmdRnfr, ssftpCmdRest,
         ssftpCmdPort, ssftpCmdWrite, PasvEvent, Looks, Fails, Answer, Client
<1> QED
  BY <1>3, <1>4, AnswerUndisturbed

LEMMA PasvUndisturbed == ASSUME IInv, Listed, ssftpCmdPasv PROVE Undisturbed
<1>1. cl.auth /\ UNCHANGED <<disk, xfer, owed>> /\ cl \in Client /\ cl.cwd = Root
  BY DEF ssftpCmdPasv, Allowed, Answer, IInv, Honest, Listed
<1>2. PICK out \in ftpclient_data_pasv(cl) : cl' = out[1] \/ cl' = ftpclient_data_end(out[1])
  BY DEF ssftpCmdPasv, Answer
<1>3. Honest(out[1]) /\ out[1].handle = cl.handle
  BY <1>1, DataPasvHonest DEF IInv
<1>4. ftpclient_data_end(out[1]).handle = None
  BY <1>3, DataEndHonest
<1>5. cl'.cwd = Root
  BY <1>1, <1>2, ConnectionStays
<1> QED
  BY <1>1, <1>2, <1>3, <1>4, <1>5, AnswerUndisturbed, OverUndisturbed

\* DELE takes one name away, MKD and RMD none.
LEMMA NamesUndisturbed ==
  ASSUME IInv, Listed, InOnePlace, ssftpCmdMkd \/ ssftpCmdRmd \/ ssftpCmdDele \/ ssftpCmdRnto
  PROVE  Undisturbed
<1>1. ~ssftpCmdRnto
  BY DEF InOnePlace, ssftpCmdRnto, Allowed, Command
<1>2. UNCHANGED <<cl, xfer, owed>> /\ cl.cwd = Root /\ disk \in Disk
  BY <1>1 DEF ssftpCmdMkd, ssftpCmdRmd, ssftpCmdDele, Changes, Fails, Answer, IInv, Listed
<1>3. \A f \in File : Node(f) = None => Node(f)' = None
  <2>1. CASE disk' = disk
    BY <2>1 DEF Node
  <2>2. CASE ssftpCmdMkd \/ ssftpCmdRmd
    BY <1>2, <2>2 DEF ssftpCmdMkd, ssftpCmdRmd, Changes, Fails, Answer, Disk, Node
  <2>3. ASSUME NEW g \in File, disk' = Unlinked(g)
        PROVE  \A f \in File : Node(f) = None => Node(f)' = None
    <3> DEFINE d == [disk EXCEPT !.names[g] = None]
    <3>1. d \in Disk /\ d.names = [disk.names EXCEPT ![g] = None]
      BY <1>2 DEF Disk
    <3>2. disk' = Reclaimed(d, Node(g))
      BY <2>3 DEF Unlinked
    <3> HIDE DEF d
    <3>3. disk'.names = [disk.names EXCEPT ![g] = None]
      BY <3>1, <3>2 DEF Reclaimed, Disk
    <3> QED
      BY <1>2, <3>3 DEF Node, Disk
  <2>4. ssftpCmdDele => disk' = disk \/ \E f \in File : disk' = Unlinked(f)
    BY DEF ssftpCmdDele, Changes, Fails, Answer
  <2> QED
    BY <1>1, <2>1, <2>2, <2>3, <2>4
<1>4. \A n \in Name : <<Root, n>> \in File
  BY SessionAssumption DEF File
<1> QED
  BY <1>2, <1>3, <1>4 DEF Undisturbed


------------------------------------------------------------------------------
\* What Start leaves, whatever the handle is for.
LEMMA StartStays ==
  ASSUME NEW c \in Client, NEW from, NEW before, Start(c, from, before)
  PROVE  /\ cl'.cwd = c.cwd
         /\ \/ cl'.handle = None
            \/ /\ cl'.handle = c.handle
               /\ xfer' = [from |-> from, before |-> before, dir |-> cl.cwd, moved |-> <<>>]
<1>1. PICK out \in ftpclient_data_start(c) :
        \/ /\ cl' = out[1]
           /\ xfer' = [from |-> from, before |-> before, dir |-> cl.cwd, moved |-> <<>>]
        \/ cl' = ftpclient_data_end(out[1])
  BY DEF Start
<1>2. /\ out[1].cwd = c.cwd /\ ftpclient_data_end(out[1]).cwd = c.cwd
      /\ out[1].handle = c.handle /\ ftpclient_data_end(out[1]).handle = None
  BY ConnectionStays
<1> QED
  BY <1>1, <1>2

\* A listing begins with nothing sent and every name of the directory still to come.
LEMMA ListBegins ==
  ASSUME IInv, Listed, ssftpCmdList \/ ssftpCmdNlst
  PROVE  Listed' /\ Known
<1>1. PICK op \in DirOps : cl.auth /\ Listing(op)
  BY DEF ssftpCmdList, ssftpCmdNlst, Allowed, DirOps
<1>2. CASE \E code : Fails(code)
  BY <1>2, FailureUndisturbed, UndisturbedKeeps
<1>3. CASE ~Transferring /\ ~\E code : Fails(code)
  <2> DEFINE left == {n \in Name : Exists(<<cl.cwd, n>>)}
             c == [cl EXCEPT !.handle = DirHandle(op, left)]
  <2>1. Start(c, 0, left) /\ disk' = disk
    BY <1>1, <1>3 DEF Listing
  <2>2. /\ DirHandle(op, left) \in Handle /\ DirHandle(op, left).op \in DirOps
        /\ DirHandle(op, left).left = left
    BY DEF DirHandle, Handle
  <2>3. cl.cwd = Root /\ cl \in Client
    BY DEF Listed, IInv, Honest
  <2>4. left \subseteq Name /\ \A n \in left : Exists(<<Root, n>>)
    BY <2>3
  <2> HIDE DEF left
  <2>5. c \in Client /\ c.cwd = Root /\ c.handle = DirHandle(op, left)
    BY <2>2, <2>3 DEF Client
  <2> HIDE DEF c
  <2>6. /\ cl'.cwd = Root
        /\ \/ cl'.handle = None
           \/ /\ cl'.handle = DirHandle(op, left)
              /\ xfer' = [from |-> 0, before |-> left, dir |-> Root, moved |-> <<>>]
    BY <2>1, <2>3, <2>5, StartStays
  <2>7. Known
    BY <1>3 DEF Known, Completes, Doing
  <2>8. CASE cl'.handle = None
    BY <2>6, <2>7, <2>8 DEF Listed, Doing, Transferring
  <2>9. CASE /\ cl'.handle = DirHandle(op, left)
             /\ xfer' = [from |-> 0, before |-> left, dir |-> Root, moved |-> <<>>]
    <3>1. cl'.handle.left = left /\ xfer'.dir = Root /\ xfer'.before = left /\ xfer'.moved = <<>>
      BY <2>2, <2>9
    <3>2. <<>> \in Seq(Name)
      OBVIOUS
    <3> QED
      BY <2>4, <2>6, <2>7, <3>1, <3>2 DEF Listed
  <2> QED
    BY <2>6, <2>8, <2>9
<1> QED
  BY <1>1, <1>2, <1>3 DEF Listing

\* An entry that is there is sent; one that is not is nobody's loss.  When no name is
\* left the peer knows them all.
LEMMA ListGoesOn ==
  ASSUME IInv, Listed, ssftpDataList \/ ssftpDataNlst
  PROVE  Listed' /\ Known
<1>1. PICK op \in DirOps : ListEvent(op)
  BY DEF ssftpDataList, ssftpDataNlst, DirOps
<1>2. Transferring /\ cl.handle.op = op
  BY <1>1 DEF ListEvent, Doing
<1>3. cl.handle \in [op : DirOps, left : SUBSET Name] /\ cl \in Client /\ Doing(DirOps)
  BY <1>2, HandleKind DEF IInv, Honest, Doing
<1>4. /\ cl.cwd = Root /\ xfer.dir = Root /\ xfer.before \subseteq Name /\ xfer.moved \in Seq(Name)
      /\ \A n \in xfer.before : Exists(<<Root, n>>) =>
           n \in cl.handle.left \/ \E k \in DOMAIN xfer.moved : xfer.moved[k] = n
  BY <1>3 DEF Listed
<1>5. ASSUME NEW code, Finish(code) PROVE Listed'
  BY <1>3, <1>4, <1>5, DataEndHonest, ConnectionStays DEF Finish, IInv, Listed, Doing, Transferring
<1>6. ASSUME cl.handle.left = {}, Finish("226") PROVE Known
  BY <1>4, <1>6 DEF Known
<1>7. ASSUME Finish("451") PROVE Known
  BY <1>7 DEF Finish, Known, Completes
<1>8. ASSUME NEW n \in cl.handle.left,
             LET c == [cl EXCEPT !.handle.left = @ \ {n}]
             IN  IF Exists(<<cl.cwd, n>>) THEN Moved(n, c, disk) ELSE Answer(c, reply)
      PROVE  Listed' /\ Known
  <2> DEFINE h == [cl.handle EXCEPT !.left = @ \ {n}]
             c == [cl EXCEPT !.handle = h]
  <2>1. h.left = cl.handle.left \ {n} /\ h.op \in DirOps
    BY <1>3
  <2>2. [cl EXCEPT !.handle.left = @ \ {n}] = c
    OBVIOUS
  <2> HIDE DEF h
  <2>3. c.handle = h /\ c.cwd = Root
    BY <1>3, <1>4 DEF Client
  <2> HIDE DEF c
  <2>4. n \in Name
    BY <1>3
  <2>5. CASE Exists(<<cl.cwd, n>>)
    <3>1. Moved(n, c, disk)
      BY <1>8, <2>2, <2>5
    <3>2. cl' = c /\ disk' = disk /\ owed' = owed /\ xfer' = [xfer EXCEPT !.moved = Append(@, n)]
      BY <3>1 DEF Moved
    <3> DEFINE w == Append(xfer.moved, n)
    <3>3. /\ xfer'.dir = xfer.dir /\ xfer'.before = xfer.before /\ xfer'.moved = w
      BY <3>2 DEF IInv, Fields
    <3>4. /\ w \in Seq(Name) /\ DOMAIN xfer.moved \subseteq DOMAIN w
          /\ \A k \in DOMAIN xfer.moved : w[k] = xfer.moved[k]
          /\ \E k \in DOMAIN w : w[k] = n
      <4>1. Len(xfer.moved) \in Nat /\ DOMAIN xfer.moved = 1..Len(xfer.moved)
        BY <1>4
      <4>2. /\ w \in Seq(Name) /\ DOMAIN w = 1..(Len(xfer.moved) + 1)
            /\ \A k \in 1..Len(xfer.moved) : w[k] = xfer.moved[k]
            /\ w[Len(xfer.moved) + 1] = n
        BY <1>4, <2>4
      <4> HIDE DEF w
      <4>3. Len(xfer.moved) + 1 \in DOMAIN w
        BY <4>1, <4>2
      <4> QED
        BY <4>1, <4>2, <4>3
    <3> HIDE DEF w
    <3>5. ASSUME NEW m \in xfer.before, Exists(<<Root, m>>)'
          PROVE  m \in h.left \/ \E k \in DOMAIN w : w[k] = m
      <4>1. Exists(<<Root, m>>)
        BY <3>2, <3>5 DEF Exists, Node
      <4> QED
        BY <1>4, <2>1, <3>4, <4>1
    <3>6. Listed'
      BY <1>4, <2>3, <3>2, <3>3, <3>4, <3>5 DEF Listed
    <3>7. Known
      BY <3>2 DEF Known, Completes
    <3> QED
      BY <3>6, <3>7
  <2>6. CASE ~Exists(<<cl.cwd, n>>)
    <3>1. Answer(c, reply)
      BY <1>8, <2>2, <2>6
    <3>2. cl' = c /\ UNCHANGED <<disk, owed, xfer>>
      BY <3>1 DEF Answer
    <3>3. ASSUME NEW m \in xfer.before, Exists(<<Root, m>>)'
          PROVE  m \in h.left \/ \E k \in DOMAIN xfer.moved : xfer.moved[k] = m
      <4>1. Exists(<<Root, m>>)
        BY <3>2, <3>3 DEF Exists, Node
      <4> QED
        BY <1>4, <2>1, <2>6, <4>1
    <3>4. Listed'
      BY <1>4, <2>3, <3>2, <3>3 DEF Listed
    <3>5. Known
      BY <3>2 DEF Known, Completes
    <3> QED
      BY <3>4, <3>5
  <2> QED
    BY <2>5, <2>6
<1> QED
  BY <1>1, <1>5, <1>6, <1>7, <1>8 DEF ListEvent

\* A file's transfer begins when no listing runs, and none begins while it runs.
LEMMA FilesUndisturbed ==
  ASSUME IInv, Listed, ssftpCmdRetr \/ ssftpCmdStor \/ ssftpDataRetr \/ ssftpDataStor
  PROVE  Undisturbed
<1>1. cl \in Client /\ cl.cwd = Root
  BY DEF IInv, Honest, Listed
<1>2. CASE \E code : Fails(code)
  BY <1>2, FailureUndisturbed
<1>3. CASE /\ ~Transferring
           /\ \E op \in FileOps, node \in Inode, app \in BOOLEAN : \E from, before :
                Start(Opened(op, node, app), from, before)
  <2>1. PICK op \in FileOps, node \in Inode, app \in BOOLEAN : \E from, before :
               Start(Opened(op, node, app), from, before)
    BY <1>3
  <2> DEFINE c == Opened(op, node, app)
  <2>2. FileHandle(op, node, cl.rest, app) \in Handle /\ FileHandle(op, node, cl.rest, app).op = op
    BY <1>1 DEF FileHandle, Handle, Client
  <2>3. c \in Client /\ c.cwd = Root /\ c.handle = FileHandle(op, node, cl.rest, app)
    BY <1>1, <2>2 DEF Opened, Client
  <2> HIDE DEF c
  <2>4. cl'.cwd = Root /\ (cl'.handle = None \/ cl'.handle.op \in FileOps)
    BY <2>1, <2>2, <2>3, StartStays DEF c
  <2> QED
    BY <1>3, <2>4 DEF Undisturbed, Doing
<1>4. CASE ssftpDataRetr \/ ssftpDataStor
  <2>1. Transferring /\ cl.handle.op \in FileOps /\ ~Doing(DirOps)
    BY <1>4 DEF ssftpDataRetr, ssftpDataStor, Doing, FileOps, DirOps
  <2>2. cl.handle \in [op : FileOps, node : Inode, pos : Nat, app : BOOLEAN]
    BY <2>1, HandleKind
  <2>3. ASSUME NEW code, Finish(code) PROVE Undisturbed
    BY <1>1, <2>1, <2>3, DataEndHonest, ConnectionStays DEF Finish, Undisturbed, IInv
  <2>4. ASSUME NEW pos, cl' = [cl EXCEPT !.handle.pos = pos] PROVE Undisturbed
    <3>1. cl' = [cl EXCEPT !.handle = [cl.handle EXCEPT !.pos = pos]]
      BY <2>4
    <3>2. cl'.cwd = Root /\ cl'.handle.op \in FileOps
      BY <1>1, <2>2, <3>1 DEF Client
    <3> QED
      BY <2>1, <3>2 DEF Undisturbed
  <2>5. ASSUME cl' = cl PROVE Undisturbed
    BY <1>1, <2>1, <2>5 DEF Undisturbed
  <2>6. CASE ssftpDataRetr
    <3>1. [cl EXCEPT !.handle.pos = @ + 1] = [cl EXCEPT !.handle.pos = cl.handle.pos + 1]
      OBVIOUS
    <3> QED
      BY <2>3, <2>4, <2>6, <3>1 DEF ssftpDataRetr, Moved
  <2>7. CASE ssftpDataStor
    BY <2>3, <2>4, <2>5, <2>7 DEF ssftpDataStor, Moved
  <2> QED
    BY <1>4, <2>6, <2>7
<1>5. CASE ssftpCmdRetr /\ ~\E code : Fails(code)
  <2>1. PICK f \in File : \E out \in ssftpFsOpen(f, {}) :
          /\ disk' = out[1]
          /\ Start(Opened("retr", out[2], FALSE), cl.rest, disk.blocks[out[2]])
    BY <1>5 DEF ssftpCmdRetr
  <2>2. PICK out \in ssftpFsOpen(f, {}) :
          Start(Opened("retr", out[2], FALSE), cl.rest, disk.blocks[out[2]])
    BY <2>1
  <2>3. out[2] \in Inode
    BY <2>2, OpenKeepsDisk DEF IInv
  <2> QED
    BY <1>3, <1>5, <2>2, <2>3 DEF ssftpCmdRetr, FileOps
<1>6. CASE ssftpCmdStor /\ ~\E code : Fails(code)
  <2>1. PICK appe \in BOOLEAN : \E f \in File : \E out \in ssftpFsOpen(f, Oflags(f, appe)) :
          /\ ~Transferring
          /\ \E app \in BOOLEAN : \E from, before : Start(Opened("stor", out[2], app), from, before)
    BY <1>6 DEF ssftpCmdStor
  <2>2. PICK f \in File : \E out \in ssftpFsOpen(f, Oflags(f, appe)) :
          /\ ~Transferring
          /\ \E app \in BOOLEAN : \E from, before : Start(Opened("stor", out[2], app), from, before)
    BY <2>1
  <2>3. PICK out \in ssftpFsOpen(f, Oflags(f, appe)) :
          /\ ~Transferring
          /\ \E app \in BOOLEAN : \E from, before : Start(Opened("stor", out[2], app), from, before)
    BY <2>2
  <2>4. out[2] \in Inode
    BY <2>3, OpenKeepsDisk DEF IInv
  <2> QED
    BY <1>3, <2>3, <2>4 DEF FileOps
<1> QED
  BY <1>2, <1>4, <1>5, <1>6

LEMMA NextListed ==
  ASSUME IInv, Listed, InOnePlace, [Next]_vars
  PROVE  Listed' /\ Known
<1>1. CASE UNCHANGED vars
  <2>1. Undisturbed
    BY <1>1, AnswerUndisturbed DEF vars, Listed
  <2> QED
    BY <2>1, UndisturbedKeeps
<1>2. CASE (NotLoggedIn \/ Inform) /\ ~ConnectionLost
  <2>1. \E code : Fails(code)
    BY <1>2, NullArgumentLoses DEF NotLoggedIn, Inform, ssftpCmdAllo, ssftpCmdPwd, ssftpCmdMode, ssftpCmdStru, ssftpCmdType,
         ssftpCmdSize, ssftpCmdMdtm, ssftpCmdChmod, ssftpCmdHelp, ssftpCmdNoop, ssftpCmdSyst,
         ssftpCmdStat, ssftpCmdFeat, Looks
  <2> QED
    BY <2>1, FailureUndisturbed, UndisturbedKeeps
<1>3. CASE ssftpCmdList \/ ssftpCmdNlst \/ ssftpDataList \/ ssftpDataNlst
  BY <1>3, ListBegins, ListGoesOn
<1>4. CASE Next /\ (~(NotLoggedIn \/ Inform) \/ ConnectionLost) /\ ~(ssftpCmdList \/ ssftpCmdNlst \/ ssftpDataList \/ ssftpDataNlst)
  <2>1. Undisturbed
    BY <1>4, LeavingUndisturbed, SettingsUndisturbed, PasvUndisturbed, NamesUndisturbed, FilesUndisturbed
       DEF Next, DataEvent
  <2> QED
    BY <2>1, UndisturbedKeeps
<1> QED
  BY <1>1, <1>2, <1>3, <1>4

LEMMA InitListed == Init => Listed
BY DEF Init, Listed, Doing, Transferring, NewClient

\* For any directory: a listing that is answered with 226 told the peer of every
\* entry that was there when it began and still is, whatever was removed meanwhile, if
\* the client does not leave the directory and renames nothing.
THEOREM ListingsComplete ==
  ASSUME InOnePlace
  PROVE  Spec => ListedInFull
<1>1. Known => (Completes(DirOps) =>
        \A n \in xfer.before : Exists(<<xfer.dir, n>>) => \E k \in DOMAIN xfer.moved : xfer.moved[k] = n)
  BY DEF Known
<1>2. IInv /\ Listed /\ [Next]_vars => Listed' /\ Known
  BY NextListed
<1> QED
  BY <1>1, <1>2, InitHolds, NextKeeps, InitListed, PTL DEF Spec, ListedInFull

==============================================================================
