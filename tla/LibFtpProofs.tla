----------------------------- MODULE LibFtpProofs -----------------------------
(***************************************************************************)
(* The application that starts no server in the two windows in which       *)
(* libftp_running does not tell of a thread, and leaves its handler alone  *)
(* while there is one: for any number of threads and clients, whenever it  *)
(* stops and whatever the handler does about itself, its server is alone   *)
(* and what it is told is true and in order.                               *)
(***************************************************************************)
EXTENDS LibFtp, TLAPS

Busy   == {"serving", "greeting", "parting", "closing", "evicting", "dying", "crashed"}
Served == Busy \cup {"running", "entering", "left"}
Middle == Busy \cup {"entering", "left", "leaving"}
Gone   == {"none", "exited"}
Place  == Served \cup {"none", "born", "created", "leaving", "over", "exited"}
Events == {"STARTED", "CONNECTED", "DISCONNECTED", "STOPPED", "FATAL"}
Quiet  == {"unheard", "STOPPED", "FATAL"}
Answer == {"none", "OK", "NULL_POINTER", "NETWORK_ERROR", "ERROR", "ALREADY_RUNNING", "NOT_RUNNING"}

Verdict(t) == IF ret[t] = 0 THEN "STOPPED" ELSE "FATAL"

\* The call a thread may be about to make where it is.
Due(t) ==
  IF pc[t] = "running" THEN [event |-> "STARTED", to |-> "entering"]
  ELSE IF pc[t] = "greeting" THEN [event |-> "CONNECTED", to |-> "serving"]
  ELSE IF pc[t] = "parting" THEN [event |-> "DISCONNECTED", to |-> "serving"]
  ELSE IF pc[t] = "evicting" THEN [event |-> "DISCONNECTED", to |-> "closing"]
  ELSE IF pc[t] = "dying" THEN [event |-> "DISCONNECTED", to |-> "crashed"]
  ELSE IF pc[t] = "leaving" THEN [event |-> Verdict(t), to |-> "over"]
  ELSE NoCall

\* A client that is connected and not greeted, or gone and not parted from.
Extra(t) ==
  IF pc[t] = "greeting" THEN -1 ELSE IF pc[t] \in {"parting", "evicting", "dying"} THEN 1 ELSE 0

Types ==
  /\ running \in BOOLEAN /\ stop \in BOOLEAN /\ handler \in BOOLEAN
  /\ tid \in Thread \cup {None} /\ app \in {"idle", "stopping", "joining"}
  /\ pc \in [Thread -> Place] /\ ret \in [Thread -> 0..2]
  /\ told \in Events \cup {"unheard"}
  /\ clients \in 0..MaxClients /\ present \in Unknown..MaxClients
  /\ answer \in Answer

\* The one thread there is is that of libftp_tid; libftp_running is set while it serves.
\* Who is stopped has said that it is running.
Alone ==
  /\ \A t \in Thread : pc[t] \notin Gone => tid = t
  /\ \A t \in Thread : tid = t => pc[t] # "none"
  /\ \A t \in Thread : pc[t] \in Served => running
  /\ running => \E t \in Thread : pc[t] \in Served
  /\ app # "idle" => tid # None /\ \A t \in Thread : tid = t => pc[t] \notin {"born", "created"}

\* A thread that has looked at the handler finds it when it calls.
Calling ==
  /\ calling \in [Thread -> [event : Events \cup {"none"}, to : Place \cup {"none"}]]
  /\ \A t \in Thread : calling[t] # NoCall => handler /\ calling[t] = Due(t)

\* A handler that missed nothing has heard of every client, but for the one the thread
\* is busy with.
Numbers ==
  /\ \A t \in Thread :
       /\ pc[t] \notin {"none", "born", "exited"} =>
            present = Unknown \/ present = clients + Extra(t)
       /\ pc[t] = "greeting" => clients > 0
       /\ pc[t] \in {"parting", "evicting", "dying"} => clients < MaxClients
  /\ clients # 0 => \E t \in Thread : pc[t] \in Busy

\* The end is told by who ends, and nothing else between it and the next start.
Order ==
  /\ tid = None => told \in Quiet
  /\ \A t \in Thread :
       /\ tid = t /\ pc[t] \in {"over", "exited"} => told \in {"unheard", Verdict(t)}
       /\ tid = t /\ pc[t] \in {"born", "created", "running"} => told \in Quiet
       /\ pc[t] \in Middle => told \notin {"STOPPED", "FATAL"}

IInv == Types /\ Alone /\ Calling /\ Numbers /\ Order

------------------------------------------------------------------------------
LEMMA InitHolds == Init => IInv
<1> SUFFICES ASSUME Init PROVE IInv
  OBVIOUS
<1> USE DEF Init, Place, Served, Busy, Events
<1>0. MaxClients \in Nat /\ None \notin Thread
  BY LibFtpAssumption
<1>1. Types
  <2>1. running \in BOOLEAN /\ stop \in BOOLEAN /\ handler \in BOOLEAN
    OBVIOUS
  <2>2. tid \in Thread \cup {None} /\ app \in {"idle", "stopping", "joining"}
    OBVIOUS
  <2>3. pc \in [Thread -> Place] /\ ret \in [Thread -> 0..2]
    OBVIOUS
  <2>4. clients \in 0..MaxClients /\ present \in Unknown..MaxClients
    BY <1>0 DEF Unknown
  <2>5. answer \in Answer /\ told \in Events \cup {"unheard"}
    BY DEF Answer
  <2> QED
    BY <2>1, <2>2, <2>3, <2>4, <2>5 DEF Types
<1>2. Alone
  BY <1>0 DEF Alone, Gone
<1>3. Calling
  BY DEF Calling, NoCall
<1>4. Numbers
  BY <1>0 DEF Numbers
<1>5. Order
  BY DEF Order, Quiet, Middle
<1> QED
  BY <1>1, <1>2, <1>3, <1>4, <1>5 DEF IInv

\* With one thread about, nobody else calls.
LEMMA Lonely ==
  ASSUME IInv, NEW t \in Thread, pc[t] \notin Gone
  PROVE  /\ tid = t /\ tid # None
         /\ \A u \in Thread : u # t => pc[u] \in Gone /\ calling[u] = NoCall
<1>1. tid = t /\ \A u \in Thread : u # t => pc[u] \in Gone
  BY DEF IInv, Alone
<1>2. \A u \in Thread : u # t => calling[u] = NoCall
  <2> TAKE u \in Thread
  <2> HAVE u # t
  <2>1. Due(u) = NoCall
    BY <1>1 DEF Due, Gone
  <2> QED
    BY <2>1 DEF IInv, Calling
<1> QED
  BY <1>1, <1>2, LibFtpAssumption

\* The next place of the one thread, with no call in between.
LEMMA MoveKeeps ==
  ASSUME IInv, NEW t \in Thread, NEW from, NEW to \in Place,
         from \notin Gone, to # "none", Goes(t, from, to),
         UNCHANGED <<tid, app, answer>>, handler' \in BOOLEAN,
         running' \in BOOLEAN, stop' \in BOOLEAN, ret' \in [Thread -> 0..2],
         told' \in Events \cup {"unheard"}, clients' \in 0..MaxClients,
         present' \in Unknown..MaxClients,
         calling' = [calling EXCEPT ![t] = NoCall],
         running' <=> to \in Served,
         to \in {"born", "created"} => app = "idle",
         to \notin {"born", "exited"} => present' = Unknown \/ present' = clients' + Extra(t)',
         to = "greeting" => clients' > 0,
         to \in {"parting", "evicting", "dying"} => clients' < MaxClients,
         clients' # 0 => to \in Busy,
         to \in {"over", "exited"} => told' \in {"unheard", Verdict(t)'},
         to \in {"born", "created", "running"} => told' \in Quiet,
         to \in Middle => told' \notin {"STOPPED", "FATAL"}
  PROVE  IInv'
<1>1. /\ pc[t] = from /\ pc' \in [Thread -> Place] /\ pc'[t] = to
      /\ \A u \in Thread : u # t => pc'[u] = pc[u]
  BY DEF IInv, Types, Goes
<1>2. /\ tid = t /\ tid # None
      /\ \A u \in Thread : u # t => pc[u] \in Gone /\ calling[u] = NoCall
  BY <1>1, Lonely
<1>3. Types'
  BY <1>1 DEF IInv, Types
<1>4. Alone'
  <2>1. \A u \in Thread : pc'[u] \notin Gone => tid = u
    BY <1>1, <1>2
  <2>2. \A u \in Thread : tid = u => pc'[u] # "none"
    BY <1>1, <1>2
  <2>3. \A u \in Thread : pc'[u] \in Served => running'
    BY <1>1, <1>2 DEF Served, Gone, Busy
  <2>4. running' => \E u \in Thread : pc'[u] \in Served
    BY <1>1
  <2>5. app # "idle" => tid # None /\ \A u \in Thread : tid = u => pc'[u] \notin {"born", "created"}
    BY <1>1, <1>2
  <2> QED
    BY <2>1, <2>2, <2>3, <2>4, <2>5 DEF Alone
<1>5. Calling'
  <2>1. calling' \in [Thread -> [event : Events \cup {"none"}, to : Place \cup {"none"}]]
    BY DEF IInv, Calling, NoCall
  <2>2. \A u \in Thread : calling'[u] = NoCall
    BY <1>2 DEF IInv, Calling
  <2> QED
    BY <2>1, <2>2 DEF Calling
<1>6. Numbers'
  <2>1. \A u \in Thread : u # t => pc'[u] \in {"none", "exited"}
    BY <1>1, <1>2 DEF Gone
  <2>2. clients' # 0 => \E u \in Thread : pc'[u] \in Busy
    BY <1>1
  <2> QED
    BY <1>1, <2>1, <2>2 DEF Numbers
<1>7. Order'
  <2>1. \A u \in Thread : u # t => tid # u /\ pc'[u] \notin Middle
    BY <1>1, <1>2 DEF Gone, Middle, Busy
  <2> QED
    BY <1>1, <1>2, <2>1 DEF Order
<1> QED
  BY <1>3, <1>4, <1>5, <1>6, <1>7 DEF IInv

\* What a place says of the clients and of what was told.
LEMMA Here ==
  ASSUME IInv, NEW t \in Thread, pc[t] \notin Gone
  PROVE  /\ running \in BOOLEAN /\ stop \in BOOLEAN /\ handler \in BOOLEAN
         /\ ret \in [Thread -> 0..2] /\ pc \in [Thread -> Place]
         /\ clients \in 0..MaxClients /\ clients \in Int /\ MaxClients \in Nat
         /\ pc[t] \notin Busy => clients = 0
         /\ told \in Events \cup {"unheard"} /\ present \in Unknown..MaxClients
         /\ running <=> pc[t] \in Served
         /\ pc[t] \in {"born", "created"} => app = "idle"
         /\ pc[t] # "born" => present = Unknown \/ present = clients + Extra(t)
         /\ pc[t] \in {"parting", "evicting", "dying"} => clients < MaxClients
         /\ pc[t] \in {"over", "exited"} => told \in {"unheard", Verdict(t)}
         /\ pc[t] \in {"born", "created", "running"} => told \in Quiet
         /\ pc[t] \in Middle => told \notin {"STOPPED", "FATAL"}
<1>1. tid = t /\ \A u \in Thread : u # t => pc[u] \in Gone
  BY Lonely
<1>2. MaxClients \in Nat
  BY LibFtpAssumption
<1>3. /\ running \in BOOLEAN /\ stop \in BOOLEAN /\ handler \in BOOLEAN
      /\ ret \in [Thread -> 0..2] /\ pc \in [Thread -> Place]
      /\ clients \in 0..MaxClients /\ told \in Events \cup {"unheard"}
      /\ present \in Unknown..MaxClients /\ app \in {"idle", "stopping", "joining"}
  BY DEF IInv, Types
<1>4. pc[t] \notin Busy => clients = 0
  BY <1>1 DEF IInv, Numbers, Busy, Gone
<1>5. running <=> pc[t] \in Served
  BY <1>1 DEF IInv, Alone, Served, Busy, Gone
<1>6. pc[t] \in {"born", "created"} => app = "idle"
  BY <1>1 DEF IInv, Alone
<1>7. /\ pc[t] # "born" => present = Unknown \/ present = clients + Extra(t)
      /\ pc[t] \in {"parting", "evicting", "dying"} => clients < MaxClients
  BY DEF IInv, Numbers, Gone
<1>8. /\ pc[t] \in {"over", "exited"} => told \in {"unheard", Verdict(t)}
      /\ pc[t] \in {"born", "created", "running"} => told \in Quiet
      /\ pc[t] \in Middle => told \notin {"STOPPED", "FATAL"}
  BY <1>1 DEF IInv, Order
<1>9. clients \in Int
  BY <1>2, <1>3
<1> QED
  BY <1>2, <1>3, <1>4, <1>5, <1>6, <1>7, <1>8, <1>9

\* A move from a place where the handler is not called: each client that comes or
\* goes is one the handler still has to hear of.
LEMMA SilentMoveKeeps ==
  ASSUME IInv, NEW t \in Thread, NEW from, NEW to \in Place,
         from \notin {"none", "born", "exited", "running", "greeting", "parting", "evicting",
                      "dying", "leaving"},
         to \notin {"none", "born", "created"}, Goes(t, from, to),
         UNCHANGED <<tid, handler, app, answer, calling, told, present>>,
         running' \in BOOLEAN, stop' \in BOOLEAN, ret' \in [Thread -> 0..2],
         clients' \in 0..MaxClients,
         running' <=> to \in Served,
         clients' + Extra(t)' = clients,
         to = "greeting" => clients' > 0,
         to \in {"parting", "evicting", "dying"} => clients' < MaxClients,
         clients' # 0 => to \in Busy,
         to \in {"over", "exited"} => told \in {"unheard", Verdict(t)'},
         to = "running" => told \in Quiet,
         to \in Middle => told \notin {"STOPPED", "FATAL"}
  PROVE  IInv'
<1>1. pc[t] = from /\ pc[t] \notin Gone /\ pc[t] # "born" /\ Due(t) = NoCall /\ Extra(t) = 0
  BY DEF Goes, Due, Extra, Gone
<1>2. /\ clients \in Int /\ present \in Unknown..MaxClients /\ handler \in BOOLEAN
      /\ told \in Events \cup {"unheard"} /\ (present = Unknown \/ present = clients + Extra(t))
  BY <1>1, Here
<1>3. calling' = [calling EXCEPT ![t] = NoCall]
  BY <1>1 DEF IInv, Calling
<1>4. present' = Unknown \/ present' = clients' + Extra(t)'
  BY <1>1, <1>2
<1>5. from \notin Gone
  BY <1>1
<1>6. to \in {"born", "created", "running"} => told' \in Quiet
  OBVIOUS
<1>7. to \in {"born", "created"} => app = "idle"
  OBVIOUS
<1> QED
  BY <1>2, <1>3, <1>4, <1>5, <1>6, <1>7, MoveKeeps

LEMMA CreateKeeps == ASSUME IInv, NEW t \in Thread, Create(t) PROVE IInv'
<1>1. /\ Goes(t, "born", "created") /\ stop' = FALSE /\ clients' = 0 /\ present' = 0
      /\ UNCHANGED <<running, tid, ret, handler, app, answer, calling, told>>
  BY DEF Create, mine
<1>2. pc[t] = "born" /\ pc'[t] = "created" /\ pc[t] \notin Gone
  BY <1>1 DEF Goes, IInv, Types, Gone
<1>3. /\ ret' \in [Thread -> 0..2] /\ 0 \in 0..MaxClients /\ running' \in BOOLEAN /\ ~running
      /\ handler' \in BOOLEAN /\ told' \in Events \cup {"unheard"} /\ app = "idle"
      /\ told' \in Quiet /\ 0 \in Unknown..MaxClients
  BY <1>1, <1>2, Here DEF Served, Busy, Unknown
<1>4. present' = clients' + Extra(t)'
  BY <1>1, <1>2 DEF Extra
<1>5. calling' = [calling EXCEPT ![t] = NoCall]
  BY <1>1, <1>2 DEF IInv, Calling, Due
<1>6. "created" \in Place /\ "created" \notin Served /\ "created" \notin Middle
  BY DEF Place, Served, Middle, Busy
<1> QED
  BY <1>1, <1>2, <1>3, <1>4, <1>5, <1>6, MoveKeeps DEF Gone

LEMMA SetRunningKeeps == ASSUME IInv, NEW t \in Thread, SetRunning(t) PROVE IInv'
<1>1. /\ Goes(t, "created", "running") /\ running' = TRUE
      /\ UNCHANGED <<stop, clients, tid, ret, handler, app, answer, calling, told, present>>
  BY DEF SetRunning, news, mine
<1>2. pc[t] = "created" /\ pc'[t] = "running" /\ pc[t] \notin Gone
  BY <1>1 DEF Goes, IInv, Types, Gone
<1>3. /\ clients = 0 /\ ret' \in [Thread -> 0..2] /\ clients' \in 0..MaxClients /\ stop' \in BOOLEAN
      /\ told \in Quiet
  BY <1>1, <1>2, Here DEF Busy
<1>4. clients' + Extra(t)' = clients
  BY <1>1, <1>2, <1>3 DEF Extra
<1>5. "running" \in Served /\ "running" \in Place /\ "running" \notin Middle
  BY DEF Served, Place, Middle, Busy
<1> QED
  BY <1>1, <1>2, <1>3, <1>4, <1>5, SilentMoveKeeps

LEMMA EnterKeeps == ASSUME IInv, NEW t \in Thread, Enter(t) PROVE IInv'
<1>1. /\ pc[t] = "entering" /\ pc[t] \notin Gone
      /\ UNCHANGED <<running, clients, tid, handler, app, answer, calling, told, present>>
  BY DEF Enter, news, mine, Goes, Gone
<1>2. /\ clients = 0 /\ clients' \in 0..MaxClients /\ running' \in BOOLEAN /\ running'
      /\ ret \in [Thread -> 0..2] /\ pc \in [Thread -> Place] /\ stop \in BOOLEAN
      /\ told \notin {"STOPPED", "FATAL"}
  BY <1>1, Here DEF Busy, Served, Middle
<1>3. {"serving", "left"} \subseteq Served \cap Place
  BY DEF Served, Place, Busy
<1>4. CASE Goes(t, "entering", "serving") /\ stop' = FALSE /\ UNCHANGED ret
  <2>1. clients' + Extra(t)' = clients
    BY <1>1, <1>2, <1>4 DEF Extra, Goes
  <2> QED
    BY <1>1, <1>2, <1>3, <1>4, <2>1, SilentMoveKeeps
<1>5. CASE Goes(t, "entering", "left") /\ ret' = [ret EXCEPT ![t] = 1] /\ stop' \in {stop, FALSE}
  <2>1. pc'[t] = "left"
    BY <1>2, <1>5 DEF Goes
  <2>2. Extra(t)' = 0
    BY <2>1 DEF Extra
  <2>3. clients' + Extra(t)' = clients
    BY <1>1, <1>2, <2>2
  <2>4. ret' \in [Thread -> 0..2]
    BY <1>2, <1>5
  <2>5. stop' \in BOOLEAN
    BY <1>2, <1>5
  <2> QED
    BY <1>1, <1>2, <1>3, <1>5, <2>3, <2>4, <2>5, SilentMoveKeeps
<1> QED
  BY <1>4, <1>5 DEF Enter

LEMMA GreetKeeps == ASSUME IInv, NEW t \in Thread, Greet(t) PROVE IInv'
<1>1. /\ Goes(t, "serving", "greeting") /\ clients < MaxClients /\ clients' = clients + 1
      /\ UNCHANGED <<running, stop, tid, ret, handler, app, answer, calling, told, present>>
  BY DEF Greet, mine
<1>2. pc[t] = "serving" /\ pc'[t] = "greeting" /\ pc[t] \notin Gone
  BY <1>1 DEF Goes, IInv, Types, Gone
<1>3. /\ clients \in 0..MaxClients /\ MaxClients \in Nat /\ running'
      /\ ret' \in [Thread -> 0..2] /\ stop' \in BOOLEAN /\ running' \in BOOLEAN
      /\ told \notin {"STOPPED", "FATAL"}
  BY <1>1, <1>2, Here DEF Served, Busy, Middle
<1>4. clients' + Extra(t)' = clients /\ clients' \in 0..MaxClients /\ clients' > 0
  BY <1>1, <1>2, <1>3 DEF Extra
<1>5. "greeting" \in Served /\ "greeting" \in Place /\ "greeting" \in Busy
  BY DEF Served, Place, Busy
<1> QED
  BY <1>1, <1>2, <1>3, <1>4, <1>5, SilentMoveKeeps

\* From the loop or from the last broadcast.
LEMMA PartKeeps ==
  ASSUME IInv, NEW t \in Thread, Leave(t) \/ Evict(t)
  PROVE  IInv'
<1>1. PICK from \in {"serving", "closing"}, to \in {"parting", "evicting", "dying"} : Part(t, from, to)
  BY DEF Leave, Evict
<1>2. /\ clients > 0 /\ clients' = clients - 1 /\ Goes(t, from, to)
      /\ UNCHANGED <<running, stop, tid, ret, handler, app, answer, calling, told, present>>
  BY <1>1 DEF Part, mine
<1>3. pc[t] = from /\ pc'[t] = to /\ pc[t] \notin Gone
  BY <1>2 DEF Goes, IInv, Types, Gone
<1>4. /\ clients \in 0..MaxClients /\ MaxClients \in Nat /\ running'
      /\ ret' \in [Thread -> 0..2] /\ stop' \in BOOLEAN /\ running' \in BOOLEAN
      /\ told \notin {"STOPPED", "FATAL"}
  BY <1>2, <1>3, Here DEF Served, Busy, Middle
<1>5. clients' + Extra(t)' = clients /\ clients' \in 0..MaxClients /\ clients' < MaxClients
  BY <1>2, <1>3, <1>4 DEF Extra
<1>6. to \in Served /\ to \in Place /\ to \in Busy
  BY DEF Served, Place, Busy
<1> QED
  BY <1>2, <1>3, <1>4, <1>5, <1>6, SilentMoveKeeps

\* LeaveLoop, PollFails, EndRun, ClearRunning, Exit: nobody comes or goes.
LEMMA EndingKeeps ==
  ASSUME IInv, NEW t \in Thread,
         LeaveLoop(t) \/ PollFails(t) \/ EndRun(t) \/ ClearRunning(t) \/ Exit(t)
  PROVE  IInv'
<1>1. UNCHANGED <<stop, clients, tid, handler, app, answer, calling, told, present>>
  BY DEF LeaveLoop, PollFails, EndRun, ClearRunning, Exit, mine, news
<1>2. /\ pc[t] \in {"serving", "closing", "left", "over"} /\ pc \in [Thread -> Place]
      /\ pc[t] \notin Gone
  BY DEF LeaveLoop, PollFails, EndRun, ClearRunning, Exit, Goes, IInv, Types, Gone
<1>3. /\ clients \in 0..MaxClients /\ clients \in Int
      /\ ret \in [Thread -> 0..2] /\ stop' \in BOOLEAN /\ running \in BOOLEAN
      /\ pc[t] \notin Busy => clients = 0
      /\ running <=> pc[t] \in Served
      /\ pc[t] = "over" => told \in {"unheard", Verdict(t)}
      /\ pc[t] \in Middle => told \notin {"STOPPED", "FATAL"}
  BY <1>1, <1>2, Here
<1>4. /\ {"closing", "left", "leaving", "exited"} \subseteq Place
      /\ {"serving", "closing", "left"} \subseteq Served \cap Middle
      /\ {"serving", "closing"} \subseteq Busy
      /\ {"left", "leaving", "over", "exited"} \cap Busy = {}
      /\ {"leaving", "over", "exited"} \cap Served = {}
      /\ {"over", "exited"} \cap Middle = {}
  BY DEF Place, Served, Middle, Busy
<1>5. CASE LeaveLoop(t) \/ PollFails(t)
  <2>1. /\ Goes(t, "serving", "closing") /\ pc[t] = "serving" /\ pc'[t] = "closing"
        /\ running' = running /\ ret' \in [Thread -> 0..2]
    BY <1>2, <1>3, <1>5 DEF LeaveLoop, PollFails, Goes
  <2>2. clients' + Extra(t)' = clients
    BY <1>1, <1>3, <2>1 DEF Extra
  <2> QED
    BY <1>1, <1>3, <1>4, <2>1, <2>2, SilentMoveKeeps
<1>6. CASE EndRun(t)
  <2>1. /\ Goes(t, "closing", "left") /\ pc[t] = "closing" /\ pc'[t] = "left"
        /\ running' = running /\ ret' \in [Thread -> 0..2] /\ clients = 0
    BY <1>2, <1>3, <1>6 DEF EndRun, Goes
  <2>2. clients' + Extra(t)' = clients
    BY <1>1, <1>3, <2>1 DEF Extra
  <2> QED
    BY <1>1, <1>3, <1>4, <2>1, <2>2, SilentMoveKeeps
<1>7. CASE ClearRunning(t)
  <2>1. /\ Goes(t, "left", "leaving") /\ pc[t] = "left" /\ pc'[t] = "leaving"
        /\ running' = FALSE /\ ret' \in [Thread -> 0..2]
    BY <1>2, <1>3, <1>7 DEF ClearRunning, Goes
  <2>2. clients' + Extra(t)' = clients /\ clients = 0
    BY <1>1, <1>3, <1>4, <2>1 DEF Extra
  <2> QED
    BY <1>1, <1>3, <1>4, <2>1, <2>2, SilentMoveKeeps
<1>8. CASE Exit(t)
  <2>1. /\ Goes(t, "over", "exited") /\ pc[t] = "over" /\ pc'[t] = "exited" /\ running' = running
        /\ ret' = ret
    BY <1>2, <1>3, <1>8 DEF Exit, Goes
  <2>2. clients' + Extra(t)' = clients /\ clients = 0 /\ ~running'
    BY <1>1, <1>3, <1>4, <2>1 DEF Extra
  <2>3. told \in {"unheard", Verdict(t)'}
    BY <1>3, <2>1 DEF Verdict
  <2> QED
    BY <1>1, <1>3, <1>4, <2>1, <2>2, <2>3, SilentMoveKeeps
<1> QED
  BY <1>5, <1>6, <1>7, <1>8

LEMMA StopCommandKeeps == ASSUME IInv, NEW t \in Thread, ssftpCmdStop(t) PROVE IInv'
<1>1. /\ stop' = TRUE
      /\ UNCHANGED <<pc, ret, running, clients, tid, handler, app, answer, calling, told, present>>
  BY DEF ssftpCmdStop, mine, news
<1>2. Types' /\ Alone' /\ Calling' /\ Numbers' /\ Order'
  BY <1>1 DEF IInv, Types, Alone, Calling, Numbers, Order, Due, Extra, Verdict
<1> QED
  BY <1>2 DEF IInv

------------------------------------------------------------------------------
\* The tests for a handler, and what each is about.
Telling(t) == TellStarted(t) \/ TellConnected(t) \/ TellDisconnected(t) \/ TellStopped(t)

LEMMA TellingLooks ==
  ASSUME IInv, NEW t \in Thread, Telling(t)
  PROVE  Due(t) # NoCall /\ Looks(t, Due(t).event, pc[t], Due(t).to)
<1>1. CASE TellStarted(t)
  BY <1>1 DEF TellStarted, Looks, Due, NoCall, Goes
<1>2. CASE TellConnected(t)
  BY <1>2 DEF TellConnected, Looks, Due, NoCall, Goes
<1>3. CASE TellDisconnected(t)
  BY <1>3 DEF TellDisconnected, Looks, Due, NoCall, Goes
<1>4. CASE TellStopped(t)
  BY <1>4 DEF TellStopped, Looks, Due, NoCall, Goes, Verdict
<1> QED
  BY <1>1, <1>2, <1>3, <1>4 DEF Telling

\* Where a thread goes when the event is heard, or there is nobody to hear it.
LEMMA DueMoves ==
  ASSUME IInv, NEW t \in Thread, Due(t) # NoCall
  PROVE  /\ pc[t] \notin Gone /\ pc[t] # "born"
         /\ Due(t).to \notin {"none", "born", "created", "running", "exited"}
         /\ Due(t).to \in Place /\ Due(t).event \in Events
         /\ Due(t).to \notin {"greeting", "parting", "evicting", "dying"}
         /\ running <=> Due(t).to \in Served
         /\ clients # 0 => Due(t).to \in Busy
         /\ Due(t).to = "over" => Due(t).event = Verdict(t)
         /\ Due(t).to \in Middle => Due(t).event \notin {"STOPPED", "FATAL"}
         /\ Due(t).event = "STARTED" => told \in Quiet
         /\ Due(t).event # "STARTED" => told \notin {"STOPPED", "FATAL"}
         /\ Due(t).event \in {"STOPPED", "FATAL"} => clients = 0
         /\ Extra(t) = (CASE Due(t).event = "CONNECTED" -> -1 [] Due(t).event = "DISCONNECTED" -> 1
                          [] OTHER -> 0)
<1>1. pc[t] \in {"running", "greeting", "parting", "evicting", "dying", "leaving"}
  BY DEF Due
<1>2. pc[t] \notin Gone /\ pc[t] # "born"
  BY <1>1 DEF Gone
<1>3. /\ pc[t] \notin Busy => clients = 0
      /\ running <=> pc[t] \in Served
      /\ pc[t] = "running" => told \in Quiet
      /\ pc[t] \in Middle => told \notin {"STOPPED", "FATAL"}
  BY <1>2, Here
<1>4. Verdict(t) \in {"STOPPED", "FATAL"}
  BY DEF Verdict
<1>5. /\ Due(t).to \notin {"none", "born", "created", "running", "exited"}
      /\ Due(t).to \in Place /\ Due(t).event \in Events
      /\ Due(t).to \notin {"greeting", "parting", "evicting", "dying"}
  BY <1>1, <1>4 DEF Due, Place, Served, Busy, Events
<1>6. (running <=> Due(t).to \in Served) /\ (clients # 0 => Due(t).to \in Busy)
  BY <1>1, <1>3 DEF Due, Served, Busy
<1>7. /\ Due(t).to = "over" => Due(t).event = Verdict(t)
      /\ Due(t).to \in Middle => Due(t).event \notin {"STOPPED", "FATAL"}
      /\ Due(t).event = "STARTED" => pc[t] = "running"
      /\ Due(t).event # "STARTED" => pc[t] \in Middle
      /\ Due(t).event \in {"STOPPED", "FATAL"} => pc[t] = "leaving"
  BY <1>1, <1>4 DEF Due, Middle, Busy
<1>8. Extra(t) = (CASE Due(t).event = "CONNECTED" -> -1 [] Due(t).event = "DISCONNECTED" -> 1
                    [] OTHER -> 0)
  BY <1>1, <1>4 DEF Due, Extra
<1>9. Due(t).event \in {"STOPPED", "FATAL"} => clients = 0
  BY <1>3, <1>7 DEF Busy
<1> QED
  BY <1>2, <1>3, <1>5, <1>6, <1>7, <1>8, <1>9

LEMMA TellingKeeps == ASSUME IInv, NEW t \in Thread, Telling(t) PROVE IInv'
<1> DEFINE to == Due(t).to
<1>1. /\ Due(t) # NoCall /\ calling[t] = NoCall
      /\ UNCHANGED <<running, tid, stop, ret, clients, handler, app, answer>>
  BY TellingLooks DEF Looks, mine
<1>2. CASE handler
  <2>1. calling' = [calling EXCEPT ![t] = Due(t)] /\ UNCHANGED <<pc, told, present>>
    BY <1>1, <1>2, TellingLooks DEF Looks, Due, NoCall
  <2>2. Types' /\ Alone' /\ Numbers' /\ Order'
    BY <1>1, <2>1 DEF IInv, Types, Alone, Numbers, Order, Extra, Verdict
  <2>3. \A u \in Thread : Due(u)' = Due(u)
    BY <1>1, <2>1 DEF Due, Verdict
  <2>4. Due(t) \in [event : Events \cup {"none"}, to : Place \cup {"none"}]
    BY DEF Due, Verdict, NoCall, Events, Place, Served, Busy
  <2>5. Calling'
    BY <1>1, <1>2, <2>1, <2>3, <2>4 DEF IInv, Calling
  <2> QED
    BY <2>2, <2>5 DEF IInv
<1>3. CASE ~handler
  <2>1. told' = "unheard" /\ present' = Unknown /\ Goes(t, pc[t], to) /\ UNCHANGED calling
    BY <1>3, TellingLooks DEF Looks
  <2>2. /\ pc[t] \notin Gone /\ to \notin {"none", "born", "created", "running", "exited"}
        /\ to \in Place /\ to \notin {"greeting", "parting", "evicting", "dying"}
        /\ running <=> to \in Served
        /\ clients # 0 => to \in Busy
    BY <1>1, DueMoves
  <2>3. calling' = [calling EXCEPT ![t] = NoCall]
    BY <1>1, <2>1 DEF IInv, Calling
  <2>4. /\ running' \in BOOLEAN /\ stop' \in BOOLEAN /\ ret' \in [Thread -> 0..2]
        /\ clients' \in 0..MaxClients /\ handler' \in BOOLEAN /\ Unknown \in Unknown..MaxClients
    BY <1>1, <2>2, Here DEF Unknown
  <2> HIDE DEF to
  <2> QED
    BY <1>1, <2>1, <2>2, <2>3, <2>4, MoveKeeps
<1> QED
  BY <1>2, <1>3

LEMMA CallsKeeps == ASSUME IInv, NEW t \in Thread, Calls(t) PROVE IInv'
<1> DEFINE to == Due(t).to
<1>1. /\ calling[t] = Due(t) /\ Due(t) # NoCall /\ handler
      /\ UNCHANGED <<running, tid, stop, ret, clients, app, answer>>
      /\ calling' = [calling EXCEPT ![t] = NoCall]
  BY DEF Calls, IInv, Calling
<1>2. /\ told' = Due(t).event /\ Goes(t, pc[t], to) /\ handler' \in BOOLEAN
      /\ present' = Counted(Due(t).event)
  BY <1>1 DEF Calls
<1>3. /\ pc[t] \notin Gone /\ pc[t] # "born"
      /\ to \notin {"none", "born", "created", "running", "exited"}
      /\ to \in Place /\ to \notin {"greeting", "parting", "evicting", "dying"}
      /\ running <=> to \in Served
      /\ clients # 0 => to \in Busy
      /\ to = "over" => Due(t).event = Verdict(t)
      /\ to \in Middle => Due(t).event \notin {"STOPPED", "FATAL"}
      /\ Due(t).event \in Events
      /\ Extra(t) = (CASE Due(t).event = "CONNECTED" -> -1 [] Due(t).event = "DISCONNECTED" -> 1
                       [] OTHER -> 0)
  BY <1>1, DueMoves
<1>4. /\ running' \in BOOLEAN /\ stop' \in BOOLEAN /\ ret' \in [Thread -> 0..2] /\ clients \in Int
      /\ clients' \in 0..MaxClients /\ MaxClients \in Nat /\ clients \in 0..MaxClients
      /\ present \in Unknown..MaxClients /\ (present = Unknown \/ present = clients + Extra(t))
  BY <1>1, <1>3, Here
<1>5. present' = Unknown \/ present' = clients'
  <2>1. CASE present = Unknown
    BY <1>2, <2>1 DEF Counted
  <2>2. CASE present # Unknown
    <3>1. present = clients + Extra(t) /\ clients' = clients
      BY <1>1, <1>4, <2>2
    <3>2. CASE Due(t).event = "CONNECTED"
      BY <1>2, <1>3, <1>4, <2>2, <3>1, <3>2 DEF Counted
    <3>3. CASE Due(t).event = "DISCONNECTED"
      BY <1>2, <1>3, <1>4, <2>2, <3>1, <3>3 DEF Counted
    <3>4. CASE Due(t).event \notin {"CONNECTED", "DISCONNECTED"}
      BY <1>2, <1>3, <1>4, <2>2, <3>1, <3>4 DEF Counted
    <3> QED
      BY <3>2, <3>3, <3>4
  <2> QED
    BY <2>1, <2>2
<1>6. present' \in Unknown..MaxClients
  BY <1>1, <1>4, <1>5 DEF Unknown
<1>7. pc'[t] = to
  BY <1>2 DEF Goes, IInv, Types
<1>8. present' = Unknown \/ present' = clients' + Extra(t)'
  BY <1>1, <1>3, <1>4, <1>5, <1>7 DEF Extra
<1>9. to \in {"over", "exited"} => told' \in {"unheard", Verdict(t)'}
  BY <1>1, <1>2, <1>3 DEF Verdict
<1>10. told' \in Events \cup {"unheard"} /\ (to \in Middle => told' \notin {"STOPPED", "FATAL"})
  BY <1>2, <1>3
<1> HIDE DEF to
<1> QED
  BY <1>1, <1>2, <1>3, <1>4, <1>6, <1>8, <1>9, <1>10, MoveKeeps

\* What is called is what the order of events asks for.
LEMMA CallsInOrder ==
  ASSUME IInv, NEW t \in Thread, Calls(t)
  PROVE  /\ calling[t].event = "STARTED" => told \in Quiet
         /\ calling[t].event # "STARTED" => told \notin {"STOPPED", "FATAL"}
         /\ calling[t].event = "DISCONNECTED" => present # 0
         /\ told' \in {"STOPPED", "FATAL"} => present \in {0, Unknown}
<1>1. calling[t] = Due(t) /\ Due(t) # NoCall /\ told' = Due(t).event
  BY DEF Calls, IInv, Calling
<1>2. /\ Due(t).event = "STARTED" => told \in Quiet
      /\ Due(t).event # "STARTED" => told \notin {"STOPPED", "FATAL"}
      /\ Due(t).event \in {"STOPPED", "FATAL"} => clients = 0
      /\ Due(t).event = "DISCONNECTED" => Extra(t) = 1
      /\ Due(t).event \in {"STOPPED", "FATAL"} => Extra(t) = 0
      /\ pc[t] \notin Gone /\ pc[t] # "born"
  BY <1>1, DueMoves
<1>3. /\ clients \in 0..MaxClients /\ MaxClients \in Nat
      /\ present = Unknown \/ present = clients + Extra(t)
  BY <1>2, Here
<1>4. Due(t).event = "DISCONNECTED" => present # 0
  BY <1>2, <1>3 DEF Unknown
<1>5. Due(t).event \in {"STOPPED", "FATAL"} => present \in {0, Unknown}
  BY <1>2, <1>3
<1> QED
  BY <1>1, <1>2, <1>4, <1>5

------------------------------------------------------------------------------
\* The patient application starts when no thread is alive.
LEMMA StartKeeps == ASSUME PatientStart, IInv, cellFtpServiceStart PROVE IInv'
<1>1. /\ app = "idle"
      /\ UNCHANGED <<running, stop, calling, told, clients, present, handler, app>>
  BY DEF cellFtpServiceStart, news
<1>2. CASE running
  <2>1. answer' = "ALREADY_RUNNING" /\ UNCHANGED <<pc, tid, ret>>
    BY <1>2 DEF cellFtpServiceStart
  <2>2. Types' /\ Alone' /\ Calling' /\ Numbers' /\ Order'
    BY <1>1, <2>1 DEF IInv, Types, Alone, Calling, Numbers, Order, Due, Extra, Verdict, Answer
  <2> QED
    BY <2>2 DEF IInv
<1>3. CASE ~running
  <2>1. PICK t \in Thread :
          Goes(t, "none", "born") /\ tid' = t /\ ret' = [ret EXCEPT ![t] = 0]
    BY <1>3 DEF cellFtpServiceStart
  <2>2. \A u \in Thread : pc[u] \in Gone
    <3> TAKE u \in Thread
    <3>1. pc[u] \notin {"born", "created", "leaving", "over"} /\ pc[u] \in Place
      BY DEF cellFtpServiceStart, MayStart, IInv, Types
    <3>2. pc[u] \notin Served
      BY <1>3 DEF IInv, Alone
    <3> QED
      BY <3>1, <3>2 DEF Place, Gone
  <2>3. \A u \in Thread : calling[u] = NoCall
    <3> TAKE u \in Thread
    <3>1. Due(u) = NoCall
      BY <2>2 DEF Due, Gone
    <3> QED
      BY <3>1 DEF IInv, Calling
  <2>4. /\ pc' \in [Thread -> Place] /\ pc'[t] = "born"
        /\ \A u \in Thread : u # t => pc'[u] \in Gone
    BY <2>1, <2>2 DEF Goes, IInv, Types, Place
  <2>5. clients = 0
    BY <2>2 DEF IInv, Numbers, Busy, Gone
  <2>6. told \in Quiet
    <3>1. CASE tid = None
      BY <3>1 DEF IInv, Order
    <3>2. CASE tid # None
      <4>1. tid \in Thread /\ pc[tid] = "exited"
        BY <2>2, <3>2 DEF IInv, Types, Alone, Gone
      <4>2. told \in {"unheard", Verdict(tid)}
        BY <4>1 DEF IInv, Order
      <4> QED
        BY <4>2 DEF Verdict, Quiet
    <3> QED
      BY <3>1, <3>2
  <2>7. Types'
    <3>1. ret' \in [Thread -> 0..2] /\ tid' \in Thread \cup {None} /\ answer' \in Answer
      BY <1>3, <2>1 DEF IInv, Types, Answer, cellFtpServiceStart
    <3> QED
      BY <1>1, <2>4, <3>1 DEF IInv, Types
  <2>8. Alone'
    BY <1>1, <1>3, <2>1, <2>4 DEF Alone, Gone, Served, Busy
  <2>9. Numbers'
    BY <1>1, <2>4, <2>5 DEF Numbers, Gone
  <2>10. Order'
    BY <1>1, <2>1, <2>4, <2>6, LibFtpAssumption DEF Order, Gone, Middle, Busy
  <2>11. Calling'
    BY <1>1, <2>3 DEF IInv, Calling
  <2> QED
    BY <2>7, <2>8, <2>9, <2>10, <2>11 DEF IInv
<1> QED
  BY <1>2, <1>3

LEMMA StopKeeps == ASSUME IInv, cellFtpServiceStop PROVE IInv'
<1>1. UNCHANGED <<running, tid, stop, pc, ret, handler, calling, told, clients, present>>
  BY DEF cellFtpServiceStop, news
<1>2. CASE running
  <2>1. app' = "stopping" /\ answer' = answer
    BY <1>2 DEF cellFtpServiceStop
  <2>2. PICK t \in Thread : pc[t] \in Served
    BY <1>2 DEF IInv, Alone
  <2>3. /\ tid = t /\ tid # None /\ pc[t] \notin {"born", "created"}
    BY <2>2, Lonely DEF Served, Busy, Gone
  <2>4. Types' /\ Alone' /\ Calling' /\ Numbers' /\ Order'
    BY <1>1, <2>1, <2>3 DEF IInv, Types, Alone, Calling, Numbers, Order, Due, Extra, Verdict
  <2> QED
    BY <2>4 DEF IInv
<1>3. CASE ~running
  <2>1. app' = app /\ answer' = "NOT_RUNNING"
    BY <1>3 DEF cellFtpServiceStop
  <2>2. Types' /\ Alone' /\ Calling' /\ Numbers' /\ Order'
    BY <1>1, <2>1 DEF IInv, Types, Alone, Calling, Numbers, Order, Due, Extra, Verdict, Answer
  <2> QED
    BY <2>2 DEF IInv
<1> QED
  BY <1>2, <1>3

LEMMA ServStopKeeps == ASSUME IInv, ftpserv_stop PROVE IInv'
<1>1. /\ stop' = TRUE /\ app = "stopping" /\ app' = "joining"
      /\ UNCHANGED <<running, tid, pc, ret, handler, answer, calling, told, clients, present>>
  BY DEF ftpserv_stop, news
<1>2. Types' /\ Alone' /\ Calling' /\ Numbers' /\ Order'
  BY <1>1 DEF IInv, Types, Alone, Calling, Numbers, Order, Due, Extra, Verdict
<1> QED
  BY <1>2 DEF IInv

\* What the join finds and returns.
LEMMA JoinReturns ==
  ASSUME IInv, Join
  PROVE  /\ IInv' /\ ~running /\ \A t \in Thread : ~Using(t)
         /\ told # "unheard" => (answer' = "OK" <=> told = "STOPPED")
<1>0. tid # None
  BY DEF Join, IInv, Alone
<1>1. /\ app' = "idle" /\ tid' = None
      /\ UNCHANGED <<running, stop, ret, handler, calling, told, clients, present>>
  BY DEF Join, news
<1>2. /\ tid \in Thread /\ Goes(tid, "exited", "none") /\ pc[tid] = "exited"
      /\ answer' = <<"OK", "NULL_POINTER", "NETWORK_ERROR">>[ret[tid] + 1]
  BY <1>0 DEF Join, IInv, Types, Goes
<1>3. \A u \in Thread : pc[u] \in Gone
  BY <1>2 DEF IInv, Alone, Gone
<1>4. \A u \in Thread : calling[u] = NoCall
  <2> TAKE u \in Thread
  <2>1. Due(u) = NoCall
    BY <1>3 DEF Due, Gone
  <2> QED
    BY <2>1 DEF IInv, Calling
<1>5. pc' \in [Thread -> Place] /\ \A u \in Thread : pc'[u] \in Gone
  BY <1>2, <1>3 DEF Goes, IInv, Types, Place, Gone
<1>6. ~running /\ clients = 0
  <2>1. ~running
    BY <1>3 DEF IInv, Alone, Served, Busy, Gone
  <2>2. clients = 0
    BY <1>3 DEF IInv, Numbers, Busy, Gone
  <2> QED
    BY <2>1, <2>2
<1>7. ret[tid] \in {0, 1, 2} /\ told \in {"unheard", Verdict(tid)}
  BY <1>2 DEF IInv, Types, Order
<1>8. /\ answer' \in {"OK", "NULL_POINTER", "NETWORK_ERROR"}
      /\ answer' = "OK" <=> ret[tid] = 0
  BY <1>2, <1>7
<1>9. told # "unheard" => (answer' = "OK" <=> told = "STOPPED")
  BY <1>7, <1>8 DEF Verdict
<1>10. Types'
  BY <1>1, <1>5, <1>8 DEF IInv, Types, Answer
<1>11. Alone' /\ Calling' /\ Numbers'
  BY <1>1, <1>4, <1>5, <1>6, LibFtpAssumption
     DEF IInv, Alone, Calling, Numbers, Gone, Served, Busy
<1>12. Order'
  BY <1>1, <1>5, <1>7, LibFtpAssumption DEF Order, Quiet, Verdict, Gone, Middle, Busy
<1>13. \A t \in Thread : ~Using(t)
  BY <1>3 DEF Using, Gone
<1> QED
  BY <1>6, <1>9, <1>10, <1>11, <1>12, <1>13 DEF IInv

LEMMA SetHandlerKeeps == ASSUME PatientHandler, IInv, SetHandler PROVE IInv'
<1>1. /\ handler' \in BOOLEAN /\ (~handler' => \A t \in Thread : pc[t] \in Gone)
      /\ UNCHANGED <<running, tid, stop, pc, ret, app, answer, calling, told, clients, present>>
  BY DEF SetHandler, news, Gone
<1>2. Types' /\ Alone' /\ Numbers' /\ Order'
  BY <1>1 DEF IInv, Types, Alone, Numbers, Order, Extra, Verdict
<1>3. \A t \in Thread : Due(t)' = Due(t) /\ (pc[t] \in Gone => Due(t) = NoCall)
  BY <1>1 DEF Due, Verdict, Gone
<1>4. Calling'
  BY <1>1, <1>3 DEF IInv, Calling
<1> QED
  BY <1>2, <1>4 DEF IInv

------------------------------------------------------------------------------
\* A step of a thread; what it says of the end, everybody has gone.
LEMMA ThreadKeeps ==
  ASSUME IInv, NEW t \in Thread,
         Server(t) \/ Greet(t) \/ Leave(t) \/ PollFails(t) \/ ssftpCmdStop(t)
  PROVE  /\ IInv' /\ app' = app
         /\ told' \in {"STOPPED", "FATAL"} /\ told' # told => present \in {0, Unknown}
<1>1. Server(t) => \/ Create(t) \/ SetRunning(t) \/ Enter(t) \/ Telling(t) \/ Calls(t)
                   \/ LeaveLoop(t) \/ Evict(t) \/ EndRun(t) \/ ClearRunning(t) \/ Exit(t)
  BY DEF Server, Telling
<1>2. IInv'
  BY <1>1, CreateKeeps, SetRunningKeeps, EnterKeeps, GreetKeeps, PartKeeps, EndingKeeps,
     StopCommandKeeps, TellingKeeps, CallsKeeps
<1>3. app' = app
  BY DEF Server, Create, SetRunning, TellStarted, Enter, TellConnected, TellDisconnected, Calls, LeaveLoop,
         Evict, EndRun, ClearRunning, TellStopped, Exit, Greet, Leave, PollFails, ssftpCmdStop, Part, Looks,
         mine
<1>4. ASSUME told' \in {"STOPPED", "FATAL"}, told' # told
      PROVE  present \in {0, Unknown}
  <2>1. Calls(t)
    BY <1>4 DEF Server, Create, SetRunning, TellStarted, Enter, TellConnected, TellDisconnected, LeaveLoop,
                Evict, EndRun, ClearRunning, TellStopped, Exit, Greet, Leave, PollFails, ssftpCmdStop, Part,
                Looks, news
  <2> QED
    BY <1>4, <2>1, CallsInOrder
<1> QED
  BY <1>2, <1>3, <1>4

\* What the application is promised of a step.
Promised ==
  /\ app = "joining" /\ app' = "idle" =>
       /\ ~running /\ \A t \in Thread : ~Using(t)
       /\ told # "unheard" => (answer' = "OK" <=> told = "STOPPED")
  /\ told' \in {"STOPPED", "FATAL"} /\ told' # told => present \in {0, Unknown}

LEMMA NextKeeps ==
  ASSUME PatientStart, PatientHandler, IInv, [Next]_vars
  PROVE  IInv' /\ Promised
<1>1. CASE UNCHANGED vars
  BY <1>1 DEF vars, Promised, IInv, Types, Alone, Calling, Numbers, Order, Due, Extra, Verdict
<1>2. CASE cellFtpServiceStart
  BY <1>2, StartKeeps DEF Promised, cellFtpServiceStart, news
<1>3. CASE cellFtpServiceStop
  BY <1>3, StopKeeps DEF Promised, cellFtpServiceStop, news
<1>4. CASE ftpserv_stop
  BY <1>4, ServStopKeeps DEF Promised, ftpserv_stop, news
<1>5. CASE Join
  <2>1. told' = told
    BY <1>5 DEF Join, news
  <2> QED
    BY <1>5, <2>1, JoinReturns DEF Promised
<1>6. CASE SetHandler
  BY <1>6, SetHandlerKeeps DEF Promised, SetHandler, news
<1>7. ASSUME NEW t \in Thread,
             Server(t) \/ Greet(t) \/ Leave(t) \/ PollFails(t) \/ ssftpCmdStop(t)
      PROVE  IInv' /\ Promised
  <2>1. /\ IInv' /\ app' = app
        /\ told' \in {"STOPPED", "FATAL"} /\ told' # told => present \in {0, Unknown}
    BY <1>7, ThreadKeeps
  <2> QED
    BY <2>1 DEF Promised
<1> QED
  BY <1>1, <1>2, <1>3, <1>4, <1>5, <1>6, <1>7 DEF Next

LEMMA IInvSuffices == IInv => TypeOK /\ OneServer
<1> SUFFICES ASSUME IInv PROVE TypeOK /\ OneServer
  OBVIOUS
<1>1. OneServer
  BY DEF IInv, Alone, OneServer, Using, Gone
<1>2. TypeOK
  BY DEF IInv, Types, TypeOK, Events, Answer
<1> QED
  BY <1>1, <1>2

LEMMA Always == ASSUME PatientStart, PatientHandler PROVE Spec => []IInv
BY InitHolds, NextKeeps, PTL DEF Spec

------------------------------------------------------------------------------
\* The globals of compat/libftp.c keep their types, for any threads and clients.
THEOREM TypeCorrect == ASSUME PatientStart, PatientHandler PROVE Spec => []TypeOK
BY Always, IInvSuffices, PTL

\* Two threads never use libftp_server at once, also when a server that stopped by
\* itself is followed by another without having been joined.
THEOREM OneServerOnly == ASSUME PatientStart, PatientHandler PROVE Spec => []OneServer
BY Always, IInvSuffices, PTL

\* cellFtpServiceStop, whenever it is called, returns when the server is gone, and
\* returns what the handler was told.
THEOREM StopTellsTheTruth == ASSUME PatientStart, PatientHandler PROVE Spec => StopIsFinal
<1>1. Promised => (app = "joining" /\ app' = "idle" =>
                     /\ ~running /\ \A t \in Thread : ~Using(t)
                     /\ told # "unheard" => (answer' = "OK" <=> told = "STOPPED"))
  BY DEF Promised
<1> QED
  BY <1>1, InitHolds, NextKeeps, PTL DEF Spec, StopIsFinal

\* A handler hears that each client has gone before it hears of the end.
THEOREM EverybodyLeaves == ASSUME PatientStart, PatientHandler PROVE Spec => AllGoneFirst
<1>1. Promised => (told' \in {"STOPPED", "FATAL"} /\ told' # told => present \in {0, Unknown})
  BY DEF Promised
<1> QED
  BY <1>1, InitHolds, NextKeeps, PTL DEF Spec, AllGoneFirst

\* Events are heard in the order of the servers and of each server's life.
THEOREM HeardInOrder == ASSUME PatientStart, PatientHandler PROVE Spec => EventsInOrder
<1>1. IInv => \A t \in Thread : Calls(t) =>
                /\ calling[t].event = "STARTED" => told \in {"unheard", "STOPPED", "FATAL"}
                /\ calling[t].event # "STARTED" => told \notin {"STOPPED", "FATAL"}
                /\ calling[t].event = "DISCONNECTED" => present # 0
  BY CallsInOrder DEF Quiet
<1> QED
  BY <1>1, Always, PTL DEF Spec, EventsInOrder

==============================================================================
