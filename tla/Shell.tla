-------------------------------- MODULE Shell --------------------------------
(***************************************************************************)
(* What a client expects of a control connection: its requests are         *)
(* answered, one reply each and in the order it asked, and between them it *)
(* stands in a directory that CWD and CDUP move about in the tree.  The    *)
(* server may say goodbye at any time; it is all it says to SITE STOP.     *)
(***************************************************************************)
EXTENDS Naturals, Sequences

CONSTANTS Request,          \* [verb, sub, args]; sub is the verb after SITE
          Cwd, Cdup, Pwd, Quit, Site, Stop,
          Registered, RegisteredSite,   \* the verbs that have a callback
          None,             \* no argument
          Target(_, _),     \* the directory an argument means, from a directory
          Up(_),            \* the directory above
          Tree              \* the directories there are

VARIABLES connected,
          asked,    \* the requests that have no reply yet
          here,     \* the directory
          reply     \* the last reply: a code and what it says

vars == <<connected, asked, here, reply>>

Init == connected = TRUE /\ asked = <<>> /\ here = <<>> /\ reply = [code |-> 220, says |-> None]

Ask == connected /\ \E r \in Request : asked' = Append(asked, r) /\ UNCHANGED <<connected, here, reply>>

Says(code, what) == reply' = [code |-> code, says |-> what]

\* A callback hears its argument; an unknown verb has none.
Heard(known, verb, args) == IF verb \in known THEN Says(200, args) ELSE Says(502, None)

Move(r) ==
  \/ r.args = None /\ Says(501, None) /\ here' = here
  \/ /\ r.args # None /\ Target(here, r.args) \in Tree
     /\ Says(250, None) /\ here' = Target(here, r.args)
  \/ /\ r.args # None /\ Target(here, r.args) \notin Tree
     /\ Says(550, None) /\ here' = here

Serve(r) ==
  \/ r.verb = Cwd /\ Move(r)
  \/ r.verb = Cdup /\ Says(250, None) /\ here' = Up(here)
  \/ r.verb = Pwd /\ Says(257, here) /\ here' = here
  \/ r.verb = Quit /\ Says(221, None) /\ here' = here
  \/ /\ r.verb = Site /\ r.sub # Stop /\ here' = here
     /\ IF r.sub = None THEN Says(501, None) ELSE Heard(RegisteredSite, r.sub, r.args)
  \/ /\ r.verb \notin {Cwd, Cdup, Pwd, Quit, Site} /\ here' = here
     /\ Heard(Registered, r.verb, r.args)

Answer ==
  /\ connected /\ asked # <<>> /\ Serve(Head(asked)) /\ asked' = Tail(asked)
  /\ connected' = (Head(asked).verb # Quit)

\* To whoever waits, or to nobody.
Goodbye ==
  /\ connected /\ connected' = FALSE
  /\ Says(421, None) /\ asked' = (IF asked = <<>> THEN asked ELSE Tail(asked)) /\ here' = here

Leave == connected /\ asked = <<>> /\ connected' = FALSE /\ UNCHANGED <<asked, here, reply>>

Next == Ask \/ Answer \/ Goodbye \/ Leave

Spec == Init /\ [][Next]_vars

==============================================================================
