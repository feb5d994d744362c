------------------------------ MODULE Callbacks ------------------------------
(***************************************************************************)
(* The callbacks server/server.c calls when a client comes and when one    *)
(* goes: two arrays of util/array.h that an application registers with,    *)
(* also from within a callback, in which another client may go.            *)
(***************************************************************************)
EXTENDS Naturals, Sequences, SequencesExt

CONSTANTS Callback,     \* functions an application registers
          Junk,         \* memory nobody has written
          MaxLen,       \* bound on the callbacks registered for an event
          MaxDepth,     \* bound on the events told of within each other
          Unregisters   \* whether the application unregisters what it registered, or
                        \* only callbacks that are not registered

ASSUME CallbacksAssumption ==
  Junk \notin Callback /\ MaxLen \in Nat /\ MaxDepth \in Nat /\ Unregisters \in BOOLEAN

Event == {"connect", "disconnect"}

VARIABLES memory,   \* connect_callbacks, disconnect_callbacks: the slots allocated
          count,    \* nconnect_callbacks, ndisconnect_callbacks
          walks,    \* the events being told of, each within a callback of the one before
          fault     \* a slot was used that is not there or was never written

vars == <<memory, count, walks, fault>>

\* The event, the loop variable n (the slots 1..n are still to be called) and, for the
\* property, the callbacks registered when it began and those called since, in order.
Walk == [on : Event, n : Nat, due : Seq(Callback \cup {Junk}), called : Seq(Callback)]

Init ==
  /\ memory = [e \in Event |-> <<>>] /\ count = [e \in Event |-> 0]
  /\ walks = <<>> /\ fault = FALSE

\* realloc to one slot more than there are, of which the last is written.
array_add(a, size, f) ==
  [k \in 1..size + 1 |-> IF k = size + 1 THEN f ELSE IF k <= Len(a) THEN a[k] ELSE Junk]

\* The slot size moves to k and realloc leaves one slot less than size: none for 1, and
\* none for 0, where it is asked for more than there is.
array_remove(a, k, size) ==
  IF size <= 1 THEN <<>> ELSE SubSeq([a EXCEPT ![k] = a[size]], 1, size - 1)

\* Where the application runs: between events, or in the callback called last.
Outside == ~fault /\ (walks # <<>> => Last(walks).called # <<>>)

Written(e, k) == k <= Len(memory[e]) /\ memory[e][k] # Junk

Register(e, f) ==
  /\ Outside /\ count[e] < MaxLen
  /\ memory' = [memory EXCEPT ![e] = array_add(@, count[e], f)]
  /\ count' = [count EXCEPT ![e] = @ + 1]
  /\ UNCHANGED <<walks, fault>>

\* The last slot that holds f goes.  The count is decremented on the way to array_remove,
\* which expects the one before and for 0 reads what lies before the array.
Unregister(e, f) ==
  /\ Outside
  /\ LET hits == {k \in 1..count[e] : Written(e, k) /\ memory[e][k] = f}
         Seen(k) == \A j \in hits : j <= k
     IN  /\ Unregisters \/ hits = {}
         /\ IF \E k \in 1..count[e] : Seen(k) /\ ~Written(e, k)
            THEN fault' = TRUE /\ UNCHANGED <<memory, count>>
            ELSE \/ hits = {} /\ UNCHANGED <<memory, count, fault>>
                 \/ \E k \in hits :
                      /\ Seen(k)
                      /\ memory' = [memory EXCEPT ![e] = array_remove(@, k, count[e] - 1)]
                      /\ count' = [count EXCEPT ![e] = @ - 1]
                      /\ fault' = (count[e] = 1)
  /\ UNCHANGED walks

\* A client comes only in the server's loop; one may go in a callback that sends.
Occurs(e) == Outside /\ Len(walks) < MaxDepth /\ (walks = <<>> \/ e = "disconnect")

Begun(e, n) ==
  [on |-> e, n |-> n, called |-> <<>>,
   due |-> [k \in 1..count[e] |-> LET j == count[e] - k + 1
                                  IN  IF j <= Len(memory[e]) THEN memory[e][j] ELSE Junk]]

\* Mutant: the walk begins below the last slot.
Raise_below(e) ==
  /\ Occurs(e)
  /\ walks' = Append(walks, Begun(e, IF count[e] = 0 THEN 0 ELSE count[e] - 1))
  /\ UNCHANGED <<memory, count, fault>>

\* ftpserv_event_connect_call and ftpserv_event_disconnect_call begin.
Raise(e) ==
  /\ Occurs(e)
  /\ walks' = Append(walks, Begun(e, count[e]))
  /\ UNCHANGED <<memory, count, fault>>

CallNext ==
  /\ walks # <<>> /\ ~fault
  /\ LET w == Last(walks)
     IN  /\ w.n > 0
         /\ IF Written(w.on, w.n)
            THEN /\ walks' = Append(Front(walks), [w EXCEPT !.n = @ - 1,
                                         !.called = Append(@, memory[w.on][w.n])])
                 /\ UNCHANGED fault
            ELSE fault' = TRUE /\ UNCHANGED walks
  /\ UNCHANGED <<memory, count>>

\* The event is over, and the callback it happened in goes on.
Done ==
  /\ walks # <<>> /\ Last(walks).n = 0 /\ ~fault
  /\ walks' = Front(walks) /\ UNCHANGED <<memory, count, fault>>

Next ==
  \/ \E e \in Event : Raise(e) \/ \E f \in Callback : Register(e, f) \/ Unregister(e, f)
  \/ CallNext \/ Done

Spec == Init /\ [][Next]_vars

------------------------------------------------------------------------------
\* Whatever callbacks register meanwhile, and whatever other events happen in them, an
\* event reaches each one that was registered when it began, once, the latest first, and
\* no slot is used that is not there or was never written.  An application that
\* unregisters what it registered refutes it.
EachCalledOnce ==
  [][~fault' /\ (Done => Last(walks).called = Last(walks).due)]_vars

==============================================================================
