-------------------------------- MODULE LibFtp --------------------------------
(***************************************************************************)
(* compat/libftp.c: the application's thread starts and stops a server     *)
(* that runs in a thread of its own.  Both use libftp_server,              *)
(* libftp_running and libftp_tid without a lock.  A step is what a thread  *)
(* does up to its next access of one of these or call of the handler; the  *)
(* poll loop itself, which EventLoop models, is one place here.            *)
(***************************************************************************)
EXTENDS Integers

CONSTANTS Thread,        \* what sys_ppu_thread_create can return
          None,          \* 0
          PatientStart,  \* whether the application starts no server while libftp_running
                         \* is clear and a thread is there all the same: before
                         \* STARTED, and from STOPPED or FATAL on until it has exited
          PatientHandler,\* and unregisters the handler, other than from within it,
                         \* only when there is no such thread
          SendFails,     \* whether a 421 of the last broadcast may fail
          MaxClients     \* bound on the clients connected

ASSUME LibFtpAssumption ==
  /\ None \notin Thread
  /\ {PatientStart, PatientHandler, SendFails} \subseteq BOOLEAN /\ MaxClients \in Nat

VARIABLES running,  \* libftp_running
          tid,      \* libftp_tid
          stop,     \* libftp_server.stop
          pc,       \* where each server thread is
          ret,      \* what its ftpserv_run returned
          handler,  \* libftp_handler is not NULL
          calling,  \* the event a thread has found a handler for, and where it goes on
          told,     \* the last event, "unheard" if there was no handler for it
          clients,  \* the clients libftp_server has
          present,  \* what the handler makes of it, CONNECTED less DISCONNECTED, as
                    \* long as it missed no event of the server
          app,      \* the application's thread: "idle", or in cellFtpServiceStop
          answer    \* what cellFtpServiceStart or cellFtpServiceStop last returned

vars == <<running, tid, stop, pc, ret, handler, calling, told, clients, present, app, answer>>

\* What the handler and the clients have to do with, and the application's view.
news == <<calling, told, clients, present>>
mine == <<handler, app, answer>>

NoCall == [event |-> "none", to |-> "none"]
Unknown == -1

Init ==
  /\ running = FALSE /\ tid = None /\ stop = FALSE
  /\ pc = [t \in Thread |-> "none"] /\ ret = [t \in Thread |-> 0]
  /\ handler = FALSE /\ calling = [t \in Thread |-> NoCall] /\ told = "unheard"
  /\ clients = 0 /\ present = 0 /\ app = "idle" /\ answer = "none"

Goes(t, from, to) == pc[t] = from /\ pc' = [pc EXCEPT ![t] = to]

\* Between ftpserv_create and ftpserv_destroy a thread uses libftp_server.
Using(t) == pc[t] \notin {"none", "born", "exited", "crashed"}

\* The handler is compared with NULL; without one, nobody hears of the event.
Looks(t, event, from, to) ==
  /\ pc[t] = from /\ calling[t] = NoCall
  /\ IF handler
     THEN /\ calling' = [calling EXCEPT ![t] = [event |-> event, to |-> to]]
          /\ UNCHANGED <<pc, told, present>>
     ELSE /\ told' = "unheard" /\ present' = Unknown
          /\ Goes(t, from, to) /\ UNCHANGED calling
  /\ UNCHANGED <<running, tid, stop, ret, clients>> /\ UNCHANGED mine

Counted(event) ==
  IF present = Unknown THEN Unknown
  ELSE CASE event = "CONNECTED" -> present + 1 [] event = "DISCONNECTED" -> present - 1
         [] OTHER -> present

\* It is read once more for the call, in which it may register another or none.
Calls(t) ==
  /\ calling[t] # NoCall
  /\ IF handler
     THEN /\ told' = calling[t].event /\ Goes(t, pc[t], calling[t].to)
          /\ present' = Counted(calling[t].event) /\ handler' \in BOOLEAN
     ELSE Goes(t, pc[t], "crashed") /\ UNCHANGED <<told, present, handler>>
  /\ calling' = [calling EXCEPT ![t] = NoCall]
  /\ UNCHANGED <<running, tid, stop, ret, clients, app, answer>>

------------------------------------------------------------------------------
(* _cellFtpServiceStart, the server's thread *)

\* The tables of commands and the server are made; the server is not stopped.
Create(t) ==
  /\ Goes(t, "born", "created")
  /\ stop' = FALSE /\ clients' = 0 /\ present' = 0
  /\ UNCHANGED <<running, tid, ret, calling, told>> /\ UNCHANGED mine

SetRunning(t) ==
  /\ Goes(t, "created", "running")
  /\ running' = TRUE
  /\ UNCHANGED <<tid, stop, ret>> /\ UNCHANGED news /\ UNCHANGED mine

TellStarted(t) == Looks(t, "STARTED", "running", "entering")

\* The first lines of ftpserv_run.  Without a descriptor or memory it returns 1 at once,
\* without an address when it has cleared stop.
Enter(t) ==
  /\ \/ Goes(t, "entering", "serving") /\ stop' = FALSE /\ UNCHANGED ret
     \/ /\ Goes(t, "entering", "left") /\ ret' = [ret EXCEPT ![t] = 1]
        /\ stop' \in {stop, FALSE}
  /\ UNCHANGED <<running, tid>> /\ UNCHANGED news /\ UNCHANGED mine

\* Accept, and _cellFtpServiceEventClientConnected.
Greet(t) ==
  /\ clients < MaxClients /\ Goes(t, "serving", "greeting") /\ clients' = clients + 1
  /\ UNCHANGED <<running, tid, stop, ret, calling, told, present>> /\ UNCHANGED mine

TellConnected(t) == Looks(t, "CONNECTED", "greeting", "serving")


\* ftpclient_disconnect of a client, for whatever reason, or in the last broadcast.
Part(t, from, to) ==
  /\ clients > 0 /\ Goes(t, from, to) /\ clients' = clients - 1
  /\ UNCHANGED <<running, tid, stop, ret, calling, told, present>> /\ UNCHANGED mine

Leave(t) == Part(t, "serving", "parting")

\* A send that fails disconnects the client, which is freed and disconnected again.
Evict(t) ==
  \E to \in IF SendFails THEN {"evicting", "dying"} ELSE {"evicting"} : Part(t, "closing", to)

TellDisconnected(t) ==
  \E way \in {<<"parting", "serving">>, <<"evicting", "closing">>, <<"dying", "crashed">>} :
    Looks(t, "DISCONNECTED", way[1], way[2])

\* Mutant: libftp_running is cleared when the loop is over.
LeaveLoop_cleared(t) ==
  /\ stop /\ Goes(t, "serving", "closing") /\ running' = FALSE
  /\ UNCHANGED <<tid, stop, ret>> /\ UNCHANGED news /\ UNCHANGED mine

LeaveLoop(t) ==
  /\ stop /\ Goes(t, "serving", "closing")
  /\ UNCHANGED <<running, tid, stop, ret>> /\ UNCHANGED news /\ UNCHANGED mine

\* Mutant: the result is the one of poll.
PollFails_minus_one(t) ==
  /\ Goes(t, "serving", "closing")
  /\ ret' = [ret EXCEPT ![t] = -1]
  /\ UNCHANGED <<running, tid, stop>> /\ UNCHANGED news /\ UNCHANGED mine

PollFails(t) ==
  /\ Goes(t, "serving", "closing")
  /\ ret' = [ret EXCEPT ![t] = 2]
  /\ UNCHANGED <<running, tid, stop>> /\ UNCHANGED news /\ UNCHANGED mine

\* Mutant: the clients that are left are not said goodbye.
EndRun_now(t) ==
  /\ Goes(t, "closing", "left")
  /\ UNCHANGED <<running, tid, stop, ret>> /\ UNCHANGED news /\ UNCHANGED mine

\* ftpserv_run returns when the broadcast has reached everybody.
EndRun(t) ==
  /\ clients = 0 /\ Goes(t, "closing", "left")
  /\ UNCHANGED <<running, tid, stop, ret>> /\ UNCHANGED news /\ UNCHANGED mine

\* SITE STOP.
ssftpCmdStop(t) ==
  /\ pc[t] = "serving" /\ clients > 0 /\ stop' = TRUE
  /\ UNCHANGED <<running, tid, pc, ret>> /\ UNCHANGED news /\ UNCHANGED mine

ClearRunning(t) ==
  /\ Goes(t, "left", "leaving")
  /\ running' = FALSE
  /\ UNCHANGED <<tid, stop, ret>> /\ UNCHANGED news /\ UNCHANGED mine

\* Mutant: a server that failed is said to have stopped.
TellStopped_always(t) == Looks(t, "STOPPED", "leaving", "over")

TellStopped(t) == Looks(t, IF ret[t] = 0 THEN "STOPPED" ELSE "FATAL", "leaving", "over")

\* ftpserv_destroy, ftpcmd_destroy, sys_ppu_thread_exit.
Exit(t) ==
  /\ Goes(t, "over", "exited")
  /\ UNCHANGED <<running, tid, stop, ret>> /\ UNCHANGED news /\ UNCHANGED mine

------------------------------------------------------------------------------
(* the application's thread *)

MayStart ==
  PatientStart => \A t \in Thread : pc[t] \notin {"born", "created", "leaving", "over"}

\* Mutant: a server that runs is not looked for.
cellFtpServiceStart_again ==
  /\ app = "idle" /\ MayStart
  /\ \E t \in Thread : Goes(t, "none", "born") /\ tid' = t /\ ret' = [ret EXCEPT ![t] = 0]
  /\ answer' = "OK"
  /\ UNCHANGED <<running, stop, handler, app>> /\ UNCHANGED news

\* Without a thread to be had nothing happens.
cellFtpServiceStart ==
  /\ app = "idle" /\ MayStart
  /\ IF running
     THEN answer' = "ALREADY_RUNNING" /\ UNCHANGED <<pc, tid, ret>>
     ELSE /\ \E t \in Thread : Goes(t, "none", "born") /\ tid' = t /\ ret' = [ret EXCEPT ![t] = 0]
          /\ answer' = "OK"
  /\ UNCHANGED <<running, stop, handler, app>> /\ UNCHANGED news

cellFtpServiceStop ==
  /\ app = "idle"
  /\ IF running THEN app' = "stopping" /\ UNCHANGED answer
     ELSE answer' = "NOT_RUNNING" /\ UNCHANGED app
  /\ UNCHANGED <<running, tid, stop, pc, ret, handler>> /\ UNCHANGED news

\* The thread may have gone on since.
ftpserv_stop ==
  /\ app = "stopping" /\ app' = "joining" /\ stop' = TRUE
  /\ UNCHANGED <<running, tid, pc, ret, handler, answer>> /\ UNCHANGED news

\* The rest of it: the thread has exited, and its number may be used again.
Join ==
  /\ app = "joining" /\ app' = "idle" /\ tid' = None
  /\ IF tid = None THEN answer' = "ERROR" /\ UNCHANGED pc
     ELSE /\ Goes(tid, "exited", "none")
          /\ answer' = <<"OK", "NULL_POINTER", "NETWORK_ERROR">>[ret[tid] + 1]
  /\ UNCHANGED <<running, stop, ret, handler>> /\ UNCHANGED news

\* cellFtpServiceRegisterHandler and cellFtpServiceUnregisterHandler.
SetHandler ==
  /\ app = "idle" /\ handler' \in BOOLEAN
  /\ PatientHandler /\ ~handler' => \A t \in Thread : pc[t] \in {"none", "exited"}
  /\ UNCHANGED <<running, tid, stop, pc, ret, app, answer>> /\ UNCHANGED news

------------------------------------------------------------------------------
Server(t) ==
  \/ Create(t) \/ SetRunning(t) \/ TellStarted(t) \/ Enter(t)
  \/ TellConnected(t) \/ TellDisconnected(t) \/ Calls(t)
  \/ LeaveLoop(t) \/ Evict(t) \/ EndRun(t) \/ ClearRunning(t) \/ TellStopped(t) \/ Exit(t)

Next ==
  \/ cellFtpServiceStart \/ cellFtpServiceStop \/ ftpserv_stop \/ Join \/ SetHandler
  \/ \E t \in Thread : Server(t) \/ Greet(t) \/ Leave(t) \/ PollFails(t) \/ ssftpCmdStop(t)

Spec == Init /\ [][Next]_vars

\* Threads are scheduled.  The loop looks at stop every 500 milliseconds and between
\* two rounds of events, however many clients come and go.
LiveSpec ==
  Spec /\ WF_vars(ftpserv_stop) /\ WF_vars(Join) /\ \A t \in Thread : WF_vars(Server(t)) /\ SF_vars(LeaveLoop(t))

------------------------------------------------------------------------------
TypeOK ==
  /\ running \in BOOLEAN /\ stop \in BOOLEAN /\ handler \in BOOLEAN
  /\ tid \in Thread \cup {None} /\ app \in {"idle", "stopping", "joining"}
  /\ \A t \in Thread : ret[t] \in 0..2
  /\ told \in {"unheard", "STARTED", "CONNECTED", "DISCONNECTED", "STOPPED", "FATAL"}
  /\ clients \in 0..MaxClients /\ present \in Unknown..MaxClients
  /\ answer \in {"none", "OK", "NULL_POINTER", "NETWORK_ERROR", "ERROR", "ALREADY_RUNNING",
                "NOT_RUNNING"}

\* "ALREADY_RUNNING": no thread makes, runs or destroys libftp_server while another one
\* does, whether the last server was stopped, stopped itself or failed, and was joined or
\* not.  A start before libftp_running is set, or after it is cleared, refutes it.
OneServer == \A t, u \in Thread : Using(t) /\ Using(u) => t = u

\* When cellFtpServiceStop returns, the server it stopped is gone, and the code
\* it returns is a failure if FATAL is what the handler was told.
StopIsFinal ==
  [][app = "joining" /\ app' = "idle" =>
       /\ ~running /\ \A t \in Thread : ~Using(t)
       /\ told # "unheard" => (answer' = "OK" <=> told = "STOPPED")]_vars


\* A handler that has missed no event of a server counts the clients: each that came
\* has gone when it hears that the server has stopped.
AllGoneFirst ==
  [][told' \in {"STOPPED", "FATAL"} /\ told' # told => present \in {0, Unknown}]_vars

\* Over servers that follow one another, however each came to its end: STARTED is heard
\* when the server before has been heard to stop, everything else before its own STOPPED
\* or FATAL, and only a client that came is heard to go.
EventsInOrder ==
  [][\A t \in Thread : Calls(t) =>
       /\ calling[t].event = "STARTED" => told \in {"unheard", "STOPPED", "FATAL"}
       /\ calling[t].event # "STARTED" => told \notin {"STOPPED", "FATAL"}
       /\ calling[t].event = "DISCONNECTED" => present # 0]_vars

==============================================================================
