----------------------------- MODULE Connections -----------------------------
(***************************************************************************)
(* What ftpserv_run promises, without descriptors, arrays and trees: a set *)
(* of clients, each with at most one passive listener or one data          *)
(* connection, over which at most one transfer runs.  A step concerns one  *)
(* client.  EventLoop implements this as long as it runs into no undefined *)
(* behaviour; what follows one is not promised anything.                   *)
(***************************************************************************)
CONSTANT Client

VARIABLES phase,    \* where the server is
          session   \* what each client has

vars == <<phase, session>>

Gone    == [here |-> FALSE, listening |-> FALSE, connected |-> FALSE, busy |-> FALSE]
Idle    == [Gone EXCEPT !.here = TRUE]
Waiting == [Idle EXCEPT !.listening = TRUE]
Ready   == [Idle EXCEPT !.connected = TRUE]
Busy    == [Ready EXCEPT !.busy = TRUE]
Nobody  == [c \in Client |-> Gone]

Init == phase = "created" /\ session = Nobody

(* the server *)

Moves(from, to) == phase = from /\ phase' = to

Start == (Moves("created", "serving") \/ Moves("created", "stopped")) /\ UNCHANGED session
Close == Moves("serving", "closing") /\ UNCHANGED session

\* Nobody is left behind.
Stop    == Moves("closing", "stopped") /\ session = Nobody /\ UNCHANGED session
Destroy == Moves("stopped", "destroyed") /\ UNCHANGED session

Break == phase # "broken" /\ phase' = "broken" /\ session' = Nobody

(* one client *)

Becomes(c, s) == session' = [session EXCEPT ![c] = s] /\ UNCHANGED phase

Connect(c) == phase = "serving" /\ session[c] = Gone /\ Becomes(c, Idle)
Leave(c)   == phase \in {"serving", "closing"} /\ session[c].here /\ Becomes(c, Gone)

\* PASV; a new listener takes the place of the old one.
Listen(c) == phase = "serving" /\ session[c] \in {Idle, Waiting} /\ Becomes(c, Waiting)

\* The peer came before the command that needs it.
Meet(c) == phase = "serving" /\ session[c] = Waiting /\ Becomes(c, Ready)

\* A transfer begins over what is there and never takes the place of another.
Begin(c) == phase = "serving" /\ session[c] \in {Idle, Waiting, Ready} /\ Becomes(c, Busy)

\* A transfer ends, is aborted or cannot begin: all of it goes together.
End(c) == phase = "serving" /\ session[c].here /\ Becomes(c, Idle)

Next ==
  \/ Start \/ Close \/ Stop \/ Destroy \/ Break
  \/ \E c \in Client : Connect(c) \/ Leave(c) \/ Listen(c) \/ Meet(c) \/ Begin(c) \/ End(c)

Spec == Init /\ [][Next]_vars

==============================================================================
