----------------------------- MODULE ControlLine -----------------------------
(***************************************************************************)
(* From the bytes of a control connection to the callback of a command:    *)
(* ftpclient_event of server/client.c, string_parsecmd and string_toupper  *)
(* of server/cmd.c, and the commands of commands/base.c that take a line   *)
(* apart once more (SITE), move about (CWD, CDUP, PWD) or end the          *)
(* connection (QUIT, SITE STOP).  A request has a reply when a callback    *)
(* sends one, or the last broadcast of server/server.c.  The client is     *)
(* logged in.  A verb, like a name, is one character that comes in two     *)
(* cases; lookup is the map CommandTable shows the tables to be.           *)
(***************************************************************************)
EXTENDS PathName

CONSTANTS Cwd, Cdup, Pwd, Quit, Site,
          Stop,                         \* after SITE
          Registered, RegisteredSite,   \* the other verbs the tables hold
          Unasked,       \* those whose callback takes for granted that there is an argument
          Lower,                        \* verb -> its lower case
          Space, CR, LF,
          None,          \* NULL
          Request,       \* what the client asks in this instance: [verb, sub, args]
          BufSize,       \* client->bufsiz
          Patient,       \* whether the client waits for each reply
          Whole          \* whether recv returns all that was sent

Verb == DOMAIN Lower

ASSUME ControlAssumption ==
  /\ Registered \cup RegisteredSite \cup {Cwd, Cdup, Pwd, Quit, Site, Stop} \subseteq Verb
  /\ Unasked \subseteq Registered
  /\ \A v \in Verb : Lower[v] \notin Verb
  /\ BufSize \in Nat \ {0} /\ Patient \in BOOLEAN /\ Whole \in BOOLEAN
  /\ <<>> \in Tree

VARIABLES open,    \* the connection
          stop,    \* server->stop
          hup,     \* the client has closed its end
          wire,    \* the characters sent and not received
          asked,   \* for Shell: the requests that have no reply yet
          cwd,     \* client->cwd
          reply    \* the last reply

vars == <<open, stop, hup, wire, asked, cwd, reply>>

Init ==
  /\ open = TRUE /\ stop = FALSE /\ hup = FALSE /\ wire = <<>> /\ asked = <<>> /\ cwd = <<Slash>>
  /\ reply = [code |-> 220, says |-> None]

------------------------------------------------------------------------------
(* the client *)

\* A verb and what follows it.
Said(v, args) == IF args = None THEN <<v>> ELSE <<v, Space>> \o args

\* A verb comes in either case.
Spelled(v) == IF v = None THEN {None} ELSE {v, Lower[v]}

Line(v, s, args) == Said(v, IF s = None THEN args ELSE Said(s, args)) \o <<CR, LF>>

Lines(r) == {Line(v, s, r.args) : v \in Spelled(r.verb), s \in Spelled(r.sub)}

Send ==
  /\ open /\ ~hup /\ (Patient => asked = <<>>)
  /\ \E r \in Request : \E line \in Lines(r) :
       wire' = wire \o line /\ asked' = Append(asked, r)
  /\ UNCHANGED <<open, stop, hup, cwd, reply>>

Close ==
  /\ open /\ ~hup /\ asked = <<>>
  /\ hup' = TRUE
  /\ UNCHANGED <<open, stop, wire, asked, cwd, reply>>

------------------------------------------------------------------------------
(* the server *)

string_toupper(s) ==
  [k \in DOMAIN s |-> IF \E v \in Verb : s[k] = Lower[v]
                      THEN CHOOSE v \in Verb : s[k] = Lower[v] ELSE s[k]]

\* Name and args: before and after the first space.
string_parsecmd(src) ==
  IF Space \notin Range(src) THEN [name |-> src, args |-> None]
  ELSE LET gap == CHOOSE k \in DOMAIN src : src[k] = Space /\ Space \notin Range(SubSeq(src, 1, k - 1))
       IN  [name |-> SubSeq(src, 1, gap - 1), args |-> SubSeq(src, gap + 1, Len(src))]

\* Each reply is the client's answer to the first request that has none.
Sends(code, text) ==
  /\ reply' = [code |-> code, says |-> text]
  /\ asked' = IF asked = <<>> THEN asked ELSE Tail(asked)

Answers(code, text) == Sends(code, text) /\ UNCHANGED <<open, stop, cwd>>

\* Whether ftpcmd_call finds a callback, which it calls then.
Finds(known, name) == Len(name) = 1 /\ name[1] \in known

ssftpCmdCwd(args) ==
  IF args = None THEN Answers(501, None)
  ELSE LET path == string_getpath(cwd, args)
       IN  IF IsDirectory(path) THEN Sends(250, None) /\ cwd' = path /\ UNCHANGED <<open, stop>>
                                ELSE Answers(550, None)

ssftpCmdCdup == Sends(250, None) /\ cwd' = CutLast(cwd) /\ UNCHANGED <<open, stop>>
ssftpCmdPwd  == Answers(257, cwd)
ssftpCmdQuit == Sends(221, None) /\ open' = FALSE /\ UNCHANGED <<stop, cwd>>

\* ftpserv_stop, and no reply.
ssftpCmdStop == stop' = TRUE /\ UNCHANGED <<open, asked, cwd, reply>>

\* A callback this module does not look into sends one reply, which may depend on the
\* argument.  MODE, PORT, REST, STRU and TYPE read it first: without one the process ends.
OtherCallback(name, args) ==
  IF name[1] \in Unasked /\ args = None
  THEN open' = FALSE /\ UNCHANGED <<stop, asked, cwd, reply>>
  ELSE Answers(200, args)

ssftpCmdSite(args) ==
  IF args = None THEN Answers(501, None)
  ELSE LET cmd  == string_parsecmd(args)
           name == string_toupper(cmd.name)
       IN  CASE name = <<Stop>>             -> ssftpCmdStop
             [] ~Finds(RegisteredSite, name) /\ name # <<Stop>> -> Answers(502, None)
             [] OTHER                       -> Answers(200, cmd.args)

Callback(name, args) ==
  CASE name = <<Cwd>>  -> ssftpCmdCwd(args)
    [] name = <<Cdup>> -> ssftpCmdCdup
    [] name = <<Pwd>>  -> ssftpCmdPwd
    [] name = <<Quit>> -> ssftpCmdQuit
    [] name = <<Site>> -> ssftpCmdSite(args)
    [] OTHER           -> OtherCallback(name, args)

\* What one call of recv may return.
Received == IF Whole THEN {IF Len(wire) < BufSize THEN Len(wire) ELSE BufSize}
            ELSE {n \in 1..Len(wire) : n <= BufSize}

\* The last two characters are taken for the end of the line.
Command(buf) == string_parsecmd(SubSeq(buf, 1, Len(buf) - 2))

\* What no table holds is answered here, everything else by its callback or not at all.
Dispatch(buf) ==
  \E cmd \in {Command(buf)} : \E name \in {string_toupper(cmd.name)} :
      IF Finds(Registered \cup {Cwd, Cdup, Pwd, Quit, Site}, name)
      THEN Callback(name, cmd.args)
      ELSE Answers(502, None)

Receive ==
  /\ open /\ wire # <<>>
  /\ \E n \in Received :
       /\ wire' = SubSeq(wire, n + 1, Len(wire))
       /\ IF n <= 2 THEN open' = FALSE /\ UNCHANGED <<stop, asked, cwd, reply>>
          ELSE Dispatch(SubSeq(wire, 1, n))
  /\ UNCHANGED hup

\* recv returns 0.
EndOfFile ==
  /\ open /\ hup /\ wire = <<>>
  /\ open' = FALSE
  /\ UNCHANGED <<stop, hup, wire, asked, cwd, reply>>

\* The application, or another client, stops the server.
ftpserv_stop == stop' = TRUE /\ UNCHANGED <<open, hup, wire, asked, cwd, reply>>

\* Mutant: the clients that are left are disconnected without a word.
Broadcast_mute ==
  /\ open /\ stop /\ open' = FALSE
  /\ UNCHANGED <<stop, hup, wire, asked, cwd, reply>>

\* The loop is left between two rounds of events, and says goodbye.
Broadcast ==
  /\ open /\ stop
  /\ Sends(421, None) /\ open' = FALSE
  /\ UNCHANGED <<stop, hup, wire, cwd>>

Next == Send \/ Close \/ Receive \/ EndOfFile \/ ftpserv_stop \/ Broadcast

\* poll reports what can be received, and the loop looks at stop.
Spec == Init /\ [][Next]_vars /\ WF_vars(Receive) /\ WF_vars(EndOfFile) /\ WF_vars(Broadcast)

------------------------------------------------------------------------------
(* Properties *)

Meant(d, args) == IF args # <<>> /\ args[1] = Slash THEN Place(args) ELSE Walked(d, args)

Expected == INSTANCE Shell WITH
  connected <- open, here <- Place(cwd),
  reply     <- IF reply.code = 257 THEN [reply EXCEPT !.says = Place(@)] ELSE reply,
  Target    <- Meant, Up <- Parent

\* Each reply answers the first request that has none, by what it means from where
\* the client stands, or says goodbye: the client waits for its replies, recv returns
\* whole lines, and no path has a slash at its end or goes up by itself.
ImplementsShell == Expected!Spec

\* No request waits for ever.  What SITE STOP asks for is answered by the broadcast
\* that ends the server, as is a request that it overtakes; what no table holds and a
\* path that leads nowhere are answered where they are found.
RequestsAnswered == asked # <<>> ~> asked = <<>>

\* Names with single slashes between them, from the root or from where one stands.
Plain(path) ==
  /\ path # <<>> /\ DotDot \notin Range(path)
  /\ \A k \in 1..(Len(path) - 1) : path[k] = Slash <=> path[k + 1] # Slash
  /\ path = <<Slash>> \/ path[Len(path)] # Slash

\* What the shell asks of its client: to wait for each reply, to ask for plain paths,
\* to give an argument to the verbs that do not ask for it, and to send what fits in
\* the buffer.  Char is what lines are made of.
Ordinary(Char) ==
  /\ Patient /\ Whole
  /\ {Space, Slash, CR, LF} \cup Verb \cup Range(Lower) \subseteq Char
  /\ None \notin Seq(Char) /\ None \notin Char /\ Slash # DotDot
  /\ Space \notin Verb \cup Range(Lower)
  /\ \A v, w \in Verb : Lower[v] = Lower[w] => v = w
  /\ Cwd \notin {Cdup, Pwd, Quit, Site} /\ Cdup \notin {Pwd, Quit, Site}
  /\ Pwd \notin {Quit, Site} /\ Quit # Site
  /\ \A r \in Request :
       /\ DOMAIN r = {"verb", "sub", "args"}
       /\ r.verb \in Verb /\ r.sub \in Verb \cup {None} /\ r.args \in Seq(Char) \cup {None}
       /\ r.sub # None => r.verb = Site
       /\ r.verb = Site /\ r.args # None => r.sub # None
       /\ r.verb = Cwd /\ r.args # None => Plain(r.args)
       /\ r.verb \in Unasked => r.args # None
       /\ \A line \in Lines(r) : Len(line) <= BufSize

==============================================================================
