------------------------------ MODULE EventLoop ------------------------------
(***************************************************************************)
(* The poll loop of server/server.c together with the connection handling  *)
(* of server/client.c: which descriptors are open, which of them the loop  *)
(* polls, which client the lookup tree hands an event to, and what happens *)
(* to all three when a handler opens or closes descriptors while the loop  *)
(* is still walking the poll array.                                        *)
(*                                                                         *)
(* Everything a handler touches is the record srv:                         *)
(*   fds, nfds  server->fds and server->nfds.  Slots 1..nfds are live; the *)
(*              slots after nfds are what a shrinking realloc leaves in    *)
(*              memory.                                                    *)
(*   tree       server->clients as the map AvlTree.tla shows it to be      *)
(*   cl         the struct FTPClient of each allocated client              *)
(*   kernel     what each descriptor number is to the operating system     *)
(*                                                                         *)
(* The value of revents is kept as the class the loop tells apart; "old"   *)
(* is a revents the loop has already handled in this pass and "junk" one   *)
(* that nobody has written since the slot was allocated.                   *)
(***************************************************************************)
EXTENDS Integers, Sequences, FiniteSets

CONSTANTS Client,     \* addresses malloc can return for a struct FTPClient
          Fd,         \* descriptor numbers
          Listener,   \* server->sock
          None,       \* -1 and NULL
          ListenHup,  \* whether this platform's poll reports POLLERR/POLLHUP
                      \* on a listening socket (Linux never does)
          SendFails   \* whether a send on a control connection may fail

ASSUME ConstantsAssumption ==
  /\ Listener \in Fd
  /\ None \notin Fd \cup Client
  /\ ListenHup \in BOOLEAN /\ SendFails \in BOOLEAN

VARIABLES srv,    \* the server and its clients, see above
          pc,     \* where ftpserv_run is
          i,      \* the loop variable i: the slots 1..i are still to be visited
          p,      \* the loop variable p: events poll counted and not yet seen
          stop,   \* server->stop
          fault   \* first undefined behaviour the execution ran into

vars == <<srv, pc, i, p, stop, fault>>

Polled  == {"none", "ready", "hup", "nval"}
Revents == Polled \cup {"old", "junk"}
Slot    == [fd : Fd, rev : Revents]
Kind    == {"closed", "conn", "listen"}
Record  == [ctl  : Fd \cup {None}, data : Fd \cup {None},
            pasv : Fd \cup {None}, handle : BOOLEAN, cb : BOOLEAN]

\* Memory of a client that is not allocated; an allocated one has ctl # None.
Freed == [ctl |-> None, data |-> None, pasv |-> None,
          handle |-> FALSE, cb |-> FALSE]

Alive(S, c) == S.cl[c].ctl # None
Own(S, c)   == {S.cl[c].ctl, S.cl[c].data, S.cl[c].pasv} \ {None}
Unused(S)   == {s \in Fd : S.kernel[s] = "closed"}

------------------------------------------------------------------------------
(* util/array.h and util/avl.c as the server uses them *)

pollfd_array_add(S, s) ==
  LET new == [fd |-> s, rev |-> "junk"]
  IN  [S EXCEPT !.fds  = IF S.nfds < Len(@) THEN [@ EXCEPT ![S.nfds + 1] = new]
                                            ELSE Append(@, new),
                !.nfds = @ + 1]

\* realloc to zero entries frees the array.
pollfd_array_remove(S, k) ==
  [S EXCEPT !.fds  = IF S.nfds = 1 THEN <<>> ELSE [@ EXCEPT ![k] = S.fds[S.nfds]],
            !.nfds = @ - 1]

\* Mutant: nothing is removed.
avltree_remove_nothing(S, s) == S

\* An existing key keeps its client.
avltree_insert(S, s, c) == [S EXCEPT !.tree[s] = IF @ = None THEN c ELSE @]
avltree_remove(S, s)    == [S EXCEPT !.tree[s] = None]

------------------------------------------------------------------------------
(* server/client.c; each operator maps the server before to the server after *)

Opened(S, s, kind) == [S EXCEPT !.kernel[s] = kind]
Closed(S, s)       == [S EXCEPT !.kernel[s] = "closed"]

\* Mutant: the poll array is left alone.
Unlink_tree_only(S, s) == avltree_remove(S, s)

\* The first half of ftpclient_disconnect: the last slot that polls s goes.
Unlink(S, s) ==
  LET hits == {k \in 1..S.nfds : S.fds[k].fd = s}
      last == CHOOSE k \in hits : \A j \in hits : j <= k
  IN  avltree_remove(IF hits = {} THEN S ELSE pollfd_array_remove(S, last), s)

\* ftpclient_disconnect for a descriptor that is not the control connection,
\* under the callers' test for -1.
Drop(S, s) == IF s = None THEN S ELSE Closed(Unlink(S, s), s)

\* Mutant: sock_pasv keeps the number of the closed descriptor.
DropPasv_stale(S, c) == Drop(S, S.cl[c].pasv)

DropPasv(S, c) == [Drop(S, S.cl[c].pasv) EXCEPT !.cl[c].pasv = None]

\* Mutant: the handle is closed and not set to NULL.
ftpclient_data_end_keeps_handle(S, c) ==
  DropPasv([Drop(S, S.cl[c].data)
              EXCEPT !.cl[c] = [@ EXCEPT !.data = None, !.cb = FALSE]], c)

ftpclient_data_end(S, c) ==
  DropPasv([Drop(S, S.cl[c].data)
              EXCEPT !.cl[c] = [@ EXCEPT !.data = None, !.handle = FALSE, !.cb = FALSE]], c)

ftpclient_destroy(S, c) ==
  [Closed(S, S.cl[c].ctl) EXCEPT !.cl[c] = Freed]

ftpclient_disconnect(S, c, s) ==
  IF s = S.cl[c].ctl
  THEN ftpclient_destroy(ftpclient_data_end(Unlink(S, s), c), c)
  ELSE Drop(S, s)

\* A send that fails disconnects, and thereby frees, the client.
ftpclient_send_message(S, c, sent) ==
  IF sent THEN S ELSE ftpclient_disconnect(S, c, S.cl[c].ctl)

Sendings == {TRUE, ~SendFails}

\* Mutant: the tree is forgotten.
Watch_poll_only(S, s, c) == pollfd_array_add(S, s)

\* The descriptor s becomes pollable and finds its client.
Watch(S, s, c) == avltree_insert(pollfd_array_add(S, s), s, c)

\* accept on the passive listener, or connect to an active-mode peer; a number
\* that is no listener any more accepts nothing.
AcceptData(S, c) ==
  {S} \cup {[Opened(S, s, "conn") EXCEPT !.cl[c].data = s] :
              s \in {t \in Unused(S) : S.cl[c].pasv = None \/ S.kernel[S.cl[c].pasv] = "listen"}}

\* Mutant: the listener is kept for the next transfer.
ftpclient_data_start_again(S, c) ==
  {IF T.cl[c].data = None
   THEN <<T, FALSE>>
   ELSE <<[Watch(T, T.cl[c].data, c) EXCEPT !.cl[c].cb = TRUE], TRUE>>
     : T \in IF S.cl[c].data # None THEN {S} ELSE AcceptData(S, c)}

\* The pairs of server and return value that ftpclient_data_start can end in.
ftpclient_data_start(S, c) ==
  LET connected == IF S.cl[c].data # None THEN {S}
                   ELSE IF S.cl[c].pasv = None THEN AcceptData(S, c)
                   ELSE {DropPasv(T, c) : T \in AcceptData(S, c)}
  IN  {IF T.cl[c].data = None
       THEN <<T, FALSE>>
       ELSE <<[Watch(T, T.cl[c].data, c) EXCEPT !.cl[c].cb = TRUE], TRUE>>
         : T \in connected}

\* Mutant: a second PASV forgets the first listener.
ftpclient_data_pasv_again(S, c) ==
  IF S.cl[c].data # None THEN {<<S, FALSE>>}
  ELSE {<<Watch([Opened(S, s, "listen") EXCEPT !.cl[c].pasv = s], s, c), TRUE>>
          : s \in Unused(S)}

\* socket or bind may fail after the previous passive listener is gone.
ftpclient_data_pasv(S, c) ==
  IF S.cl[c].data # None THEN {<<S, FALSE>>}
  ELSE LET T == DropPasv(S, c)
       IN  {<<T, FALSE>>} \cup
           {<<Watch([Opened(T, s, "listen") EXCEPT !.cl[c].pasv = s], s, c), TRUE>>
              : s \in Unused(T)}

------------------------------------------------------------------------------
(* ftpserv_create has run, in test/main.c or in the service thread *)

Init ==
  /\ srv = [fds |-> <<>>, nfds |-> 0, tree |-> [s \in Fd |-> None],
            cl |-> [c \in Client |-> Freed],
            kernel |-> [s \in Fd |-> IF s = Listener THEN "listen" ELSE "closed"]]
  /\ pc = "created" /\ i = 0 /\ p = 0 /\ stop = FALSE /\ fault = "none"

\* What poll will overwrite is forgotten between two passes.
Settled(S) == [S EXCEPT !.fds = [k \in 1..S.nfds |-> [S.fds[k] EXCEPT !.rev = "none"]]]

(* ftpserv_run up to its loop, ftpserv_stop, ftpserv_destroy *)

Run ==
  /\ pc = "created"
  /\ srv' = Settled(pollfd_array_add(srv, Listener))
  /\ pc' \in {"poll", "stopped"}        \* bind may fail
  /\ stop' = FALSE
  /\ UNCHANGED <<i, p, fault>>

Stop ==
  /\ pc \notin {"destroyed", "crashed"} /\ ~stop
  /\ stop' = TRUE
  /\ UNCHANGED <<srv, pc, i, p, fault>>

Destroy ==
  /\ pc = "stopped"
  /\ srv' = [Closed(srv, Listener) EXCEPT !.fds = <<>>, !.nfds = 0,
                                          !.tree = [s \in Fd |-> None]]
  /\ pc' = "destroyed"
  /\ UNCHANGED <<i, p, stop, fault>>

(* the poll call and the loop around it *)

\* A 500 ms timeout leaves everything as it is and is not a step.
Reported(S, s) ==
  CASE S.kernel[s] = "closed" -> {"nval"}
    [] S.kernel[s] = "conn"   -> {"none", "ready", "hup"}
    [] S.kernel[s] = "listen" -> {"none", "ready"} \cup (IF ListenHup THEN {"hup"} ELSE {})

Poll ==
  /\ pc = "poll" /\ ~stop
  /\ \E R \in [1..srv.nfds -> Polled] :
       /\ \A k \in 1..srv.nfds : R[k] \in Reported(srv, srv.fds[k].fd)
       /\ srv' = [srv EXCEPT !.fds = [k \in 1..srv.nfds |-> [srv.fds[k] EXCEPT !.rev = R[k]]]]
       /\ p' = Cardinality({k \in 1..srv.nfds : R[k] # "none"})
  /\ p' > 0 /\ i' = srv.nfds /\ pc' = "scan"
  /\ UNCHANGED <<stop, fault>>

\* Mutant: the flag is not looked at.
LeaveLoop_on_error ==
  /\ pc = "poll" /\ ~stop /\ pc' = "shutdown"
  /\ UNCHANGED <<srv, i, p, stop, fault>>

\* poll returns -1, or ftpserv_stop was called since the loop last looked.
LeaveLoop ==
  /\ pc = "poll" /\ pc' = "shutdown"
  /\ UNCHANGED <<srv, i, p, stop, fault>>

EndScan ==
  /\ pc = "scan" /\ (p = 0 \/ i = 0)
  /\ srv' = Settled(srv) /\ pc' = "poll" /\ i' = 0 /\ p' = 0
  /\ UNCHANGED <<stop, fault>>

------------------------------------------------------------------------------
(* One turn of the inner loop, which looks at slot i. *)

Sock   == srv.fds[i].fd
Owner  == srv.tree[Sock]
Marked == [srv EXCEPT !.fds[i].rev = "old"]

\* The values revents can have when the loop reads it.
Read(rev) == CASE rev = "junk" -> Polled
               [] rev = "old"  -> {"ready"}
               [] OTHER        -> {rev}

\* Mutant: the walk does not end with the last counted event.
Scanning_uncounted == pc = "scan" /\ i > 0

Scanning == pc = "scan" /\ p > 0 /\ i > 0

Unseen ==
  /\ Scanning /\ i <= Len(srv.fds) /\ "none" \in Read(srv.fds[i].rev)
  /\ i' = i - 1
  /\ UNCHANGED <<srv, pc, p, stop, fault>>

\* The array is gone; only slot 0 of it is the NULL the code tests for.
NullArray ==
  /\ Scanning /\ i > Len(srv.fds)
  /\ i' = i - 1
  /\ IF i = 1 THEN UNCHANGED <<pc, fault>>
     ELSE pc' = "crashed" /\ fault' = IF fault = "none" THEN "null" ELSE fault
  /\ UNCHANGED <<srv, p, stop>>

\* Mutant: the slot just handled is looked at once more, for what moved there.
Visit_again(r) ==
  /\ Scanning /\ i <= Len(srv.fds)
  /\ r \in Read(srv.fds[i].rev)
  /\ i' = i /\ p' = p - 1

\* The loop takes r for the revents of slot i.
Visit(r) ==
  /\ Scanning /\ i <= Len(srv.fds)
  /\ r \in Read(srv.fds[i].rev)
  /\ i' = i - 1 /\ p' = p - 1

Noted == IF fault # "none" THEN fault
         ELSE IF i > srv.nfds THEN "oob"
         ELSE IF srv.fds[i].rev = "junk" THEN "junk" ELSE "none"

Becomes(T) == srv' = T /\ fault' = Noted /\ UNCHANGED <<pc, stop>>

\* The handler goes on with a client it has freed; the model follows no further.
UseAfterFree ==
  /\ pc' = "crashed" /\ fault' = (IF Noted = "none" THEN "uaf" ELSE Noted)
  /\ UNCHANGED <<srv, stop>>

InvalidSocket ==
  Visit("nval") /\ Becomes(pollfd_array_remove(Marked, i))

\* accept, or the malloc for the client, fails: nothing stays open.
Accept ==
  /\ Visit("ready") \/ Visit("hup")
  /\ Sock = Listener
  /\ \/ Becomes(Marked)
     \/ \E s \in Unused(srv), c \in Client, sent \in Sendings :
          /\ ~Alive(srv, c)
          /\ LET T == [Opened(Marked, s, "conn")
                         EXCEPT !.cl[c] = [Freed EXCEPT !.ctl = s]]
             IN  Becomes(ftpclient_send_message(Watch(T, s, c), c, sent))

Orphan ==
  /\ Visit("ready") \/ Visit("hup")
  /\ Sock # Listener /\ Owner = None
  /\ Becomes(pollfd_array_remove(Closed(Marked, Sock), i))

\* NoStaleLookup: the client the tree names is allocated and owns the descriptor.
\* CellOS, whose poll reports no POLLHUP, peeks at data connections instead; what it
\* does when the peer is gone is the same.
HangUp ==
  /\ Visit("hup")
  /\ Sock # Listener /\ Owner # None
  /\ Becomes(IF Sock = srv.cl[Owner].data THEN ftpclient_data_end(Marked, Owner)
             ELSE ftpclient_disconnect(Marked, Owner, Sock))

(* ftpclient_event *)

Event ==
  /\ Visit("ready")
  /\ Sock # Listener /\ Owner # None

\* ssftpDataList, Nlst, Retr and Stor move a piece, or end the transfer and reply.
DataEvent ==
  /\ Event /\ Sock = srv.cl[Owner].data
  /\ IF srv.cl[Owner].cb
     THEN \/ Becomes(Marked)
          \/ \E sent \in Sendings :
               Becomes(ftpclient_send_message(ftpclient_data_end(Marked, Owner), Owner, sent))
     ELSE Becomes(ftpclient_data_end(Marked, Owner))

ControlEvent == Event /\ Sock = srv.cl[Owner].ctl /\ Sock # srv.cl[Owner].data

PasvEvent ==
  /\ Event /\ Sock = srv.cl[Owner].pasv /\ Sock \notin {srv.cl[Owner].data, srv.cl[Owner].ctl}
  /\ \E T \in IF srv.cl[Owner].data = None THEN AcceptData(Marked, Owner) ELSE {Marked} :
       Becomes(DropPasv(T, Owner))

(* what a line on the control connection can do to the connections *)

\* At most two bytes, which includes end of file and an error.
ShortLine == ControlEvent /\ Becomes(ftpclient_disconnect(Marked, Owner, Sock))

\* Every command not below, and those below when they are refused.
Reply ==
  /\ ControlEvent
  /\ \E sent \in Sendings : Becomes(ftpclient_send_message(Marked, Owner, sent))

\* ssftpCmdStat and ssftpCmdFeat send on after a reply that could not be sent.
ReplyLost == ControlEvent /\ SendFails /\ UseAfterFree

\* A reply that cannot be sent has freed the client already.
ssftpCmdQuit ==
  /\ ControlEvent
  /\ \/ Becomes(ftpclient_disconnect(Marked, Owner, Sock))
     \/ SendFails /\ UseAfterFree

ssftpCmdAbor ==
  /\ ControlEvent
  /\ \E sent \in Sendings :
       Becomes(ftpclient_send_message(ftpclient_data_end(Marked, Owner), Owner, sent))

ssftpCmdPasv ==
  /\ ControlEvent
  /\ \E out \in ftpclient_data_pasv(Marked, Owner), sent \in Sendings :
       Becomes(ftpclient_send_message(
         IF out[2] THEN out[1] ELSE ftpclient_data_end(out[1], Owner), Owner, sent))

\* LIST, NLST, RETR, STOR and APPE whose directory or file could be opened.
Transfer ==
  /\ ControlEvent /\ ~srv.cl[Owner].handle
  /\ \E out \in ftpclient_data_start([Marked EXCEPT !.cl[Owner].handle = TRUE], Owner),
        sent \in Sendings :
       Becomes(ftpclient_send_message(
         IF out[2] THEN out[1] ELSE ftpclient_data_end(out[1], Owner), Owner, sent))

\* SITE STOP sends no reply.
ssftpCmdStop ==
  /\ ControlEvent
  /\ srv' = Marked /\ stop' = TRUE /\ fault' = Noted /\ UNCHANGED pc

------------------------------------------------------------------------------
(* the shutdown broadcast at the end of ftpserv_run *)

Keys(S) == {s \in Fd : S.tree[s] # None}

\* A client whose 421 cannot be sent is freed by the send and disconnected again.
Broadcast ==
  /\ pc = "shutdown"
  /\ \E s \in Keys(srv), sent \in Sendings :
       LET c == srv.tree[s] IN
       IF sent /\ Alive(srv, c)
       THEN /\ srv' = ftpclient_disconnect(srv, c, srv.cl[c].ctl)
            /\ UNCHANGED <<pc, fault>>
       ELSE /\ pc' = "crashed" /\ fault' = IF fault = "none" THEN "uaf" ELSE fault
            /\ UNCHANGED srv
  /\ UNCHANGED <<i, p, stop>>

\* Mutant: the broadcast reaches one client at most.
Stopped_early ==
  /\ pc = "shutdown"
  /\ pc' = "stopped"
  /\ UNCHANGED <<srv, i, p, stop, fault>>

Stopped ==
  /\ pc = "shutdown" /\ Keys(srv) = {}
  /\ pc' = "stopped"
  /\ UNCHANGED <<srv, i, p, stop, fault>>

Ended == pc \in {"destroyed", "crashed"} /\ UNCHANGED vars

------------------------------------------------------------------------------
Handler ==
  \/ Unseen \/ NullArray \/ InvalidSocket \/ Accept \/ Orphan \/ HangUp
  \/ DataEvent \/ PasvEvent
  \/ ShortLine \/ Reply \/ ReplyLost \/ ssftpCmdQuit \/ ssftpCmdAbor
  \/ ssftpCmdPasv \/ Transfer \/ ssftpCmdStop

Server == Run \/ Destroy \/ Poll \/ LeaveLoop \/ EndScan \/ Handler \/ Broadcast \/ Stopped

Next == Server \/ Stop \/ Ended

Spec == Init /\ [][Next]_vars

\* A descriptor read again in the pass that handled it, or read uninitialised,
\* may have nothing to accept or receive: the call blocks until a peer acts.
MayBlock == Scanning /\ i <= Len(srv.fds) /\ srv.fds[i].rev \in {"old", "junk"}

\* Nothing else stops the server but poll, while ftpserv_stop is not called.
Progress == \/ stop /\ LeaveLoop
            \/ ~MayBlock /\ (EndScan \/ Handler)
            \/ Broadcast \/ Stopped

LiveSpec == Spec /\ WF_vars(Progress)

------------------------------------------------------------------------------
TypeOK ==
  /\ srv \in [fds : Seq(Slot), nfds : Nat, tree : [Fd -> Client \cup {None}],
              cl : [Client -> Record], kernel : [Fd -> Kind]]
  /\ srv.nfds <= Len(srv.fds) /\ (srv.nfds = 0 => srv.fds = <<>>)
  /\ pc \in {"created", "poll", "scan", "shutdown", "stopped", "destroyed", "crashed"}
  /\ i \in Nat /\ p \in Nat /\ stop \in BOOLEAN
  /\ fault \in {"none", "junk", "oob", "null", "uaf"}

(* Three views of the connections agree while no undefined behaviour occurred. *)

PolledFds(S) == {S.fds[k].fd : k \in 1..S.nfds}

\* What is polled is the listener and whatever the tree can find a client for,
\* each in one slot.
PollsTheTree(S) ==
  /\ \A j, k \in 1..S.nfds : S.fds[j].fd = S.fds[k].fd => j = k
  /\ PolledFds(S) = Keys(S) \cup {Listener}

\* The tree leads to living clients, and to every descriptor that must be heard:
\* the control connection, the passive listener, the data connection in use.
TreeFindsOwners(S) ==
  /\ \A s \in Keys(S) : Alive(S, S.tree[s]) /\ s \in Own(S, S.tree[s])
  /\ \A c \in Client : Alive(S, c) =>
       /\ S.tree[S.cl[c].ctl] = c
       /\ S.cl[c].pasv # None => S.tree[S.cl[c].pasv] = c
       /\ S.cl[c].data # None => S.tree[S.cl[c].data] = IF S.cl[c].handle THEN c ELSE None

\* Every descriptor is closed or in the hands of exactly one field of one client.
EveryFdOwnedOnce(S) ==
  /\ \A s \in Fd : S.kernel[s] # "closed" <=> s = Listener \/ \E c \in Client : s \in Own(S, c)
  /\ \A c \in Client : Listener \notin Own(S, c)
  /\ \A c, d \in Client : c # d => Own(S, c) \cap Own(S, d) = {}
  /\ \A c \in Client :
       /\ S.cl[c].ctl \notin {S.cl[c].data, S.cl[c].pasv} \ {None}
       /\ S.cl[c].data = None \/ S.cl[c].pasv = None

\* An open file always belongs to a data connection that is polled for it.
HandleHasTransfer(S) ==
  \A c \in Client : /\ S.cl[c].handle <=> S.cl[c].cb
                    /\ S.cl[c].handle => S.cl[c].data # None

Running == pc \in {"poll", "scan", "shutdown"}

(* Safety: the invariants of connection handling. *)

\* server->fds and server->clients stay two indexes of the same descriptors,
\* whatever handlers add and remove while the loop walks the first.
PollMatchesTree == Running /\ fault = "none" => PollsTheTree(srv)

\* The tree never leads to a client that is freed or has let go of the
\* descriptor, not even after the loop has read or removed the wrong slot.
NoStaleLookup ==
  \A s \in Keys(srv) : Alive(srv, srv.tree[s]) /\ s \in Own(srv, srv.tree[s])

\* Every event finds the client it belongs to, and no client goes unheard.
TreeMatchesClients == Running /\ fault = "none" => TreeFindsOwners(srv)

\* No path through ftpclient_data_start, _pasv, _end or _disconnect loses a
\* descriptor, closes one twice, or lets two clients hold one.
NoDescriptorLeak == Running /\ fault = "none" => EveryFdOwnedOnce(srv)

\* A client refused with 450 for its open handle has a transfer to wait for.
TransfersComplete == fault = "none" => HandleHasTransfer(srv)

\* After ftpserv_run and ftpserv_destroy nothing is left open or allocated.
ResourcesFreed ==
  pc = "destroyed" /\ fault = "none" =>
    /\ \A s \in Fd : srv.kernel[s] = "closed"
    /\ \A c \in Client : ~Alive(srv, c)

\* Handling an event of one client leaves every other client's record,
\* descriptors, tree entries and polling alone.
ClientsIsolated ==
  [][Scanning /\ i <= Len(srv.fds) /\ fault' = "none" =>
       \A d \in Client : Alive(srv, d) /\ d # Owner =>
         /\ srv'.cl[d] = srv.cl[d]
         /\ \A s \in Own(srv, d) : /\ srv'.kernel[s] = srv.kernel[s]
                                   /\ srv'.tree[s] = srv.tree[s]
                                   /\ s \in PolledFds(srv') <=> s \in PolledFds(srv)]_vars

\* What each client has, in the terms of Connections.
SessionOf(c) ==
  IF fault # "none" THEN [here |-> FALSE, listening |-> FALSE, connected |-> FALSE, busy |-> FALSE]
  ELSE [here      |-> Alive(srv, c),          listening |-> srv.cl[c].pasv # None,
        connected |-> srv.cl[c].data # None,  busy      |-> srv.cl[c].handle]

PhaseOf ==
  IF fault # "none" THEN "broken"
  ELSE CASE pc \in {"poll", "scan"} -> "serving"
         [] pc = "shutdown"         -> "closing"
         [] OTHER                   -> pc

Abstract == INSTANCE Connections WITH phase   <- PhaseOf,
                                      session <- [c \in Client |-> SessionOf(c)]

\* Without undefined behaviour the loop is the server Connections describes: each
\* event changes what one client has, in one of six ways, no transfer takes the
\* place of another, and the server stops when everybody is gone.
ServesConnections == Abstract!Spec

------------------------------------------------------------------------------
(* What the walk over a changing array promises.  With one client and sends   *)
(* that succeed all of it holds; each part is refuted without one of the two. *)

\* "new event": the loop handles what this call of poll reported, once.
NewEventsOnly == [][Scanning /\ p' < p => srv.fds[i].rev # "old"]_vars

\* The loop stays within the array, and no client is used after it was freed.
NoFault == fault = "none"

\* "orphan socket": what is closed and forgotten there is open and polled.
OrphansOnly == [][Orphan => Sock \in PolledFds(srv) /\ srv.kernel[Sock] # "closed"]_vars

\* ftpserv_stop, called while ftpserv_run runs, makes it return.
StopHonoured == (stop /\ Running) ~> (pc \in {"stopped", "destroyed", "crashed"})

==============================================================================
