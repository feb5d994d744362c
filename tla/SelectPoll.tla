------------------------------ MODULE SelectPoll ------------------------------
(***************************************************************************)
(* poll over select, compat/selectpoll.c, which the PSP and Vita builds    *)
(* link (mk/psp.mk, mk/vita.mk), and the walk of ftpserv_run over what it  *)
(* reports.  A slot of the poll array is [fd, events, revents]; a handler  *)
(* takes what is ready at its descriptor and may add or remove a slot.     *)
(***************************************************************************)
EXTENDS Integers, Sequences, SequencesExt, FiniteSets

CONSTANTS Fd,        \* the numbers socket and accept hand out
          Beyond,    \* what select does with descriptors that are not below its first
                     \* argument: "tested" like the others, "left" set, "cleared"
          Dirty,     \* whether realloc may hand out memory with revents in it
          MaxSlots   \* bound on the slots of the poll array

VARIABLES fds,       \* server->fds and server->nfds
          ready,     \* [Fd -> SUBSET Bit]: what select finds at each descriptor
          i,         \* the loop variable: slots 1..i are still to be looked at
          p,         \* what poll returned, less the slots handled
          pc,        \* "poll", "walk" or "over"
          reported   \* for the property: fds at this poll, with what was ready then

vars == <<fds, ready, i, p, pc, reported>>

Bit == {"POLLIN", "POLLOUT"}

\* A new slot has its descriptor and events assigned and revents as realloc left it.
NewSlots(fd, events) ==
  {[fd |-> fd, events |-> events, revents |-> r] : r \in IF Dirty THEN SUBSET Bit ELSE {{}}}

\* The descriptors polled.
Watched == {s.fd : s \in ToSet(fds)}

\* The listener alone, as ftpserv_run begins.
Init ==
  /\ \E fd \in Fd : \E s \in NewSlots(fd, {"POLLIN"}) : fds = <<s>>
  /\ ready = [fd \in Fd |-> {}] /\ i = 0 /\ p = 0 /\ pc = "poll" /\ reported = {}

------------------------------------------------------------------------------
\* The bits select sets for a descriptor it looks at.
Tested(s) == s.fd < Len(fds) \/ Beyond = "tested"
Found(s)  == IF Tested(s) THEN s.events \cap ready[s.fd] ELSE {}

\* select returns how many these are, over both sets.
select == FoldSeq(LAMBDA s, n : Cardinality(Found(s)) + n, 0, fds)

\* What is set in readset and writeset afterwards.
Chosen(s) == IF ~Tested(s) /\ Beyond = "left" THEN s.events ELSE Found(s)

\* revents is never cleared, only added to.
Marked(s, bits) ==
  [s EXCEPT !.revents = @ \cup bits \cup (IF s.fd <= 0 THEN {"POLLNVAL"} ELSE {})]

poll ==
  /\ pc = "poll"
  /\ fds' = [k \in DOMAIN fds |-> Marked(fds[k], Chosen(fds[k]))]
  /\ p' = select
  /\ reported' = {[fd |-> s.fd, bits |-> s.events \cap ready[s.fd]] : s \in ToSet(fds)}
  /\ IF select = 0 THEN UNCHANGED <<i, pc>> ELSE i' = Len(fds) /\ pc' = "walk"
  /\ UNCHANGED ready

\* select fails and leaves both sets as they were: ftpserv_run returns 2.
PollFails ==
  /\ pc = "poll" /\ pc' = "over" /\ p' = -1
  /\ fds' = [k \in DOMAIN fds |-> Marked(fds[k], fds[k].events)]
  /\ UNCHANGED <<ready, i, reported>>

EndWalk ==
  /\ pc = "walk" /\ (p = 0 \/ i = 0)
  /\ pc' = "poll" /\ UNCHANGED <<fds, ready, i, p, reported>>

Unseen ==
  /\ pc = "walk" /\ p > 0 /\ i > 0 /\ fds[i].revents = {}
  /\ i' = i - 1 /\ UNCHANGED <<fds, ready, p, pc, reported>>

\* A slot that goes is replaced by the last.
Removed(k) == SubSeq([fds EXCEPT ![k] = Last(fds)], 1, Len(fds) - 1)

Visit ==
  /\ pc = "walk" /\ p > 0 /\ i > 0 /\ fds[i].revents # {}
  /\ i' = i - 1 /\ p' = p - 1
  /\ ready' = [ready EXCEPT ![fds[i].fd] = {}]
  /\ \/ "POLLNVAL" \notin fds[i].revents /\ UNCHANGED fds
     \/ fds' = Removed(i)
     \/ /\ "POLLNVAL" \notin fds[i].revents /\ Len(fds) < MaxSlots
        /\ \E fd \in Fd \ Watched, e \in {{"POLLIN"}, Bit} :
             \E s \in NewSlots(fd, e) : fds' = Append(fds, s)
  /\ UNCHANGED <<pc, reported>>

\* The network: a descriptor gets ready.
Arrives ==
  \E fd \in Watched, b \in Bit :
    /\ b \notin ready[fd]
    /\ ready' = [ready EXCEPT ![fd] = @ \cup {b}]
    /\ UNCHANGED <<fds, i, p, pc, reported>>

Over == pc = "over" /\ UNCHANGED vars

Next == poll \/ PollFails \/ EndWalk \/ Unseen \/ Visit \/ Arrives \/ Over

Spec == Init /\ [][Next]_vars

------------------------------------------------------------------------------

==============================================================================
