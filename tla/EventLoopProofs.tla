--------------------------- MODULE EventLoopProofs ---------------------------
(***************************************************************************)
(* Type correctness of EventLoop and the agreement of poll array, lookup   *)
(* tree, client records and open descriptors, for any number of clients    *)
(* and descriptors; for one client, the order of the walk; and that the    *)
(* loop implements Connections.                                            *)
(***************************************************************************)
EXTENDS EventLoop, SequenceTheorems, FiniteSetTheorems, WellFoundedInduction, TLAPS

State == [fds : Seq(Slot), nfds : Nat, tree : [Fd -> Client \cup {None}],
          cl : [Client -> Record], kernel : [Fd -> Kind]]

\* The part of TypeOK that speaks of srv.
Sized(S) == /\ S \in State
            /\ S.nfds <= Len(S.fds)
            /\ S.nfds = 0 => S.fds = <<>>

\* T differs from S in the poll array and nothing else.
SameButFds(S, T) == T.tree = S.tree /\ T.cl = S.cl /\ T.kernel = S.kernel

------------------------------------------------------------------------------
(* The poll array. *)

LEMMA WithFds ==
  ASSUME NEW S \in State, NEW q \in Seq(Slot), NEW n \in Nat,
         NEW T, T = [S EXCEPT !.fds = q, !.nfds = n]
  PROVE  T \in State /\ T.fds = q /\ T.nfds = n /\ SameButFds(S, T)
BY DEF State, SameButFds

\* pollfd_array_add appends one uninitialised slot to the live ones.
LEMMA ArrayAdd ==
  ASSUME NEW S, Sized(S), NEW s \in Fd,
         NEW T, T = pollfd_array_add(S, s)
  PROVE  /\ Sized(T) /\ SameButFds(S, T)
         /\ T.nfds = S.nfds + 1
         /\ \A k \in 1..S.nfds : T.fds[k] = S.fds[k]
         /\ T.fds[S.nfds + 1] = [fd |-> s, rev |-> "junk"]
<1> DEFINE new == [fd |-> s, rev |-> "junk"]
           q == IF S.nfds < Len(S.fds) THEN [S.fds EXCEPT ![S.nfds + 1] = new]
                                       ELSE Append(S.fds, new)
<1>1. new \in Slot
  BY DEF Slot, Revents
<1>2. S \in State /\ S.fds \in Seq(Slot) /\ S.nfds \in Nat /\ Len(S.fds) \in Nat
      /\ S.nfds <= Len(S.fds)
  BY DEF Sized, State
<1>3. T = [S EXCEPT !.fds = q, !.nfds = S.nfds + 1]
  BY DEF pollfd_array_add
<1> HIDE DEF new
<1>4. /\ q \in Seq(Slot) /\ S.nfds + 1 <= Len(q)
      /\ \A k \in 1..S.nfds : q[k] = S.fds[k]
      /\ q[S.nfds + 1] = new
  <2>1. CASE S.nfds < Len(S.fds)
    <3>1. S.nfds + 1 \in 1..Len(S.fds)
      BY <1>2, <2>1
    <3> QED
      BY <1>1, <1>2, <2>1, <3>1, ExceptSeq
  <2>2. CASE ~(S.nfds < Len(S.fds))
    BY <1>1, <1>2, <2>2, AppendProperties
  <2> QED
    BY <2>1, <2>2
<1> HIDE DEF q
<1>5. T \in State /\ T.fds = q /\ T.nfds = S.nfds + 1 /\ SameButFds(S, T)
  <2>1. S.nfds + 1 \in Nat
    BY <1>2
  <2> QED
    BY <1>2, <1>3, <1>4, <2>1, WithFds
<1> QED
  BY <1>2, <1>4, <1>5 DEF Sized, new

\* pollfd_array_remove moves the last live slot to k, which may lie beyond it.
LEMMA ArrayRemove ==
  ASSUME NEW S, Sized(S), NEW k \in 1..Len(S.fds), S.nfds > 0,
         NEW T, T = pollfd_array_remove(S, k)
  PROVE  /\ Sized(T) /\ SameButFds(S, T)
         /\ T.nfds = S.nfds - 1
         /\ \A j \in 1..T.nfds : T.fds[j] = IF j = k THEN S.fds[S.nfds] ELSE S.fds[j]
<1> DEFINE last == S.fds[S.nfds]
           q == IF S.nfds = 1 THEN <<>> ELSE [S.fds EXCEPT ![k] = last]
<1>1. S \in State /\ S.fds \in Seq(Slot) /\ S.nfds \in 1..Len(S.fds) /\ Len(S.fds) \in Nat
  BY DEF Sized, State
<1>2. last \in Slot
  BY <1>1, ElementOfSeq
<1>3. T = [S EXCEPT !.fds = q, !.nfds = S.nfds - 1]
  BY DEF pollfd_array_remove
<1> HIDE DEF last
<1>4. /\ q \in Seq(Slot) /\ S.nfds - 1 <= Len(q) /\ (S.nfds = 1 => q = <<>>)
      /\ \A j \in 1..(S.nfds - 1) : q[j] = IF j = k THEN last ELSE S.fds[j]
  <2>1. CASE S.nfds = 1
    BY <1>1, <2>1, EmptySeq
  <2>2. CASE S.nfds # 1
    BY <1>1, <1>2, <2>2, ExceptSeq
  <2> QED
    BY <2>1, <2>2
<1> HIDE DEF q
<1>5. T \in State /\ T.fds = q /\ T.nfds = S.nfds - 1 /\ SameButFds(S, T)
  <2> DEFINE n == S.nfds - 1
  <2>1. S \in State /\ n \in Nat /\ q \in Seq(Slot) /\ T = [S EXCEPT !.fds = q, !.nfds = n]
    BY <1>1, <1>3, <1>4
  <2> HIDE DEF n
  <2>2. T \in State /\ T.fds = q /\ T.nfds = n /\ SameButFds(S, T)
    BY <2>1, WithFds
  <2> QED
    BY <2>2 DEF n
<1> QED
  BY <1>1, <1>4, <1>5 DEF Sized, last

\* The loops that walk down the array find a last hit when there is one.
LEMMA LastHit ==
  ASSUME NEW n \in Nat, NEW H \in SUBSET (1..n), H # {}
  PROVE  \E k \in H : \A j \in H : j <= k
<1> DEFINE R == OpToRel(<, Nat)
           M == {m \in Nat : n - m \in H}
<1>1. \A x, y \in Nat : x < y => <<x, y>> \in R
  BY DEF OpToRel
<1>2. M \subseteq Nat /\ M # {}
  <2>1. PICK k \in H : TRUE
    OBVIOUS
  <2>2. n - k \in Nat /\ n - (n - k) = k
    BY <2>1
  <2> QED
    BY <2>1, <2>2
<1>3. IsWellFoundedOn(R, Nat)
  BY NatLessThanWellFounded
<1> HIDE DEF R
<1>4. PICK m \in M : \A y \in M : ~(<<y, m>> \in R)
  BY <1>2, <1>3, WFMin
<1>5. ASSUME NEW j \in H PROVE j <= n - m
  <2>1. n - j \in M
    <3>1. n - j \in Nat /\ n - (n - j) = j
      OBVIOUS
    <3> QED
      BY <3>1
  <2>2. ~(n - j < m)
    BY <1>1, <1>4, <2>1
  <2> QED
    BY <1>4, <2>1, <2>2
<1> QED
  BY <1>4, <1>5

\* ftpclient_disconnect, first half, whatever the array holds.
LEMMA UnlinkSized ==
  ASSUME NEW S, Sized(S), NEW s \in Fd,
         NEW T, T = Unlink(S, s)
  PROVE  Sized(T) /\ T.cl = S.cl /\ T.kernel = S.kernel
         /\ T.tree = [S.tree EXCEPT ![s] = None]
<1> DEFINE hits == {k \in 1..S.nfds : S.fds[k].fd = s}
           last == CHOOSE k \in hits : \A j \in hits : j <= k
           U == IF hits = {} THEN S ELSE pollfd_array_remove(S, last)
<1>1. S.nfds \in Nat /\ S.nfds <= Len(S.fds) /\ Len(S.fds) \in Nat
  BY DEF Sized, State
<1>2. Sized(U) /\ SameButFds(S, U)
  <2>1. CASE hits = {}
    BY <2>1 DEF SameButFds
  <2>2. CASE hits # {}
    <3>1. last \in hits
      BY <1>1, <2>2, LastHit
    <3>2. last \in 1..Len(S.fds) /\ S.nfds > 0
      BY <1>1, <3>1
    <3> HIDE DEF last
    <3> QED
      BY <2>2, <3>2, ArrayRemove
  <2> QED
    BY <2>1, <2>2
<1>3. T = [U EXCEPT !.tree[s] = None]
  BY DEF Unlink, avltree_remove
<1> HIDE DEF U
<1>4. U \in State /\ U.nfds <= Len(U.fds) /\ (U.nfds = 0 => U.fds = <<>>)
  BY <1>2 DEF Sized
<1>5. T.fds = U.fds /\ T.nfds = U.nfds /\ T.cl = U.cl /\ T.kernel = U.kernel
      /\ T.tree = [U.tree EXCEPT ![s] = None]
  BY <1>3, <1>4 DEF State
<1>6. T \in State
  BY <1>3, <1>4 DEF State
<1> QED
  BY <1>2, <1>4, <1>5, <1>6 DEF Sized, SameButFds

------------------------------------------------------------------------------
(* The poll array as the set PolledFds. *)

Distinct(S) == \A j, k \in 1..S.nfds : S.fds[j].fd = S.fds[k].fd => j = k

\* No live slot holds a POLLNVAL, and only connections a POLLHUP, that the loop
\* could still come across.
Quiet(S) == \A k \in 1..S.nfds :
              /\ S.fds[k].rev # "nval"
              /\ S.fds[k].rev = "hup" => S.kernel[S.fds[k].fd] = "conn"

Clean(S) == Sized(S) /\ Distinct(S) /\ Quiet(S)

\* A descriptor leaves array and tree at once.
LEMMA UnlinkClean ==
  ASSUME NEW S, Clean(S), NEW s \in Fd,
         NEW T, T = Unlink(S, s)
  PROVE  Clean(T) /\ PolledFds(T) = PolledFds(S) \ {s}
<1> DEFINE hits == {k \in 1..S.nfds : S.fds[k].fd = s}
           last == CHOOSE k \in hits : \A j \in hits : j <= k
           U == IF hits = {} THEN S ELSE pollfd_array_remove(S, last)
<1>1. Sized(S) /\ S.nfds \in Nat /\ S.nfds <= Len(S.fds) /\ Len(S.fds) \in Nat
  BY DEF Clean, Sized, State
<1>2. Sized(U) /\ SameButFds(S, U) /\ Distinct(U) /\ Quiet(U) /\ PolledFds(U) = PolledFds(S) \ {s}
  <2>1. CASE hits = {}
    BY <1>1, <2>1 DEF SameButFds, Clean, PolledFds
  <2>2. CASE hits # {}
    <3>1. last \in hits
      BY <1>1, <2>2, LastHit
    <3>2. last \in 1..S.nfds /\ S.fds[last].fd = s /\ U = pollfd_array_remove(S, last)
      BY <2>2, <3>1
    <3> HIDE DEF last, hits, U
    <3>3. /\ Sized(U) /\ SameButFds(S, U) /\ U.nfds = S.nfds - 1
          /\ \A j \in 1..U.nfds : U.fds[j] = IF j = last THEN S.fds[S.nfds] ELSE S.fds[j]
      BY <1>1, <3>2, ArrayRemove
    <3>4. Distinct(U)
      <4> SUFFICES ASSUME NEW j \in 1..U.nfds, NEW k \in 1..U.nfds,
                          U.fds[j].fd = U.fds[k].fd
                   PROVE  j = k
        BY DEF Distinct
      <4>1. /\ j \in 1..S.nfds /\ k \in 1..S.nfds /\ S.nfds \in 1..S.nfds
            /\ j # S.nfds /\ k # S.nfds
        BY <1>1, <3>2, <3>3
      <4>2. \A a, b \in 1..S.nfds : S.fds[a].fd = S.fds[b].fd => a = b
        BY DEF Distinct, Clean
      <4> QED
        BY <3>2, <3>3, <4>1, <4>2
    <3>5. Quiet(U)
      BY <1>1, <3>2, <3>3 DEF Quiet, Clean, SameButFds
    <3>6. PolledFds(U) = PolledFds(S) \ {s}
      <4>1. ASSUME NEW k \in 1..U.nfds
            PROVE  U.fds[k].fd \in PolledFds(S) /\ U.fds[k].fd # s
        BY <1>1, <3>2, <3>3 DEF Distinct, Clean, PolledFds
      <4>2. ASSUME NEW k \in 1..S.nfds, S.fds[k].fd # s
            PROVE  S.fds[k].fd \in PolledFds(U)
        <5>1. CASE k = S.nfds
          <6>1. last \in 1..U.nfds /\ U.fds[last] = S.fds[k]
            BY <1>1, <3>2, <3>3, <4>2, <5>1
          <6> QED
            BY <6>1 DEF PolledFds
        <5>2. CASE k # S.nfds
          <6>1. k \in 1..U.nfds /\ U.fds[k] = S.fds[k]
            BY <1>1, <3>2, <3>3, <4>2, <5>2
          <6> QED
            BY <6>1 DEF PolledFds
        <5> QED
          BY <5>1, <5>2
      <4> QED
        BY <4>1, <4>2 DEF PolledFds
    <3> QED
      BY <3>3, <3>4, <3>5, <3>6
  <2> QED
    BY <2>1, <2>2
<1>3. T = [U EXCEPT !.tree[s] = None]
  BY DEF Unlink, avltree_remove
<1> HIDE DEF U
<1>4. T.fds = U.fds /\ T.nfds = U.nfds /\ T.kernel = U.kernel
  BY <1>2, <1>3 DEF Sized, State
<1>5. Sized(T)
  BY <1>1, UnlinkSized
<1> QED
  BY <1>2, <1>4, <1>5 DEF Clean, Distinct, Quiet, PolledFds

\* A descriptor that is not polled becomes so, with a revents nobody wrote.
LEMMA WatchSized ==
  ASSUME NEW S, Sized(S), NEW s \in Fd, NEW c \in Client,
         NEW T, T = Watch(S, s, c)
  PROVE  Sized(T) /\ T.cl = S.cl /\ T.kernel = S.kernel
         /\ T.tree = [S.tree EXCEPT ![s] = IF S.tree[s] = None THEN c ELSE S.tree[s]]
<1> DEFINE U == pollfd_array_add(S, s)
<1>1. Sized(U) /\ SameButFds(S, U)
  BY ArrayAdd
<1>2. T = [U EXCEPT !.tree[s] = IF U.tree[s] = None THEN c ELSE U.tree[s]]
  BY DEF Watch, avltree_insert
<1> HIDE DEF U
<1>3. U \in State /\ U.nfds <= Len(U.fds) /\ (U.nfds = 0 => U.fds = <<>>)
  BY <1>1 DEF Sized
<1>4. T.fds = U.fds /\ T.nfds = U.nfds /\ T.cl = U.cl /\ T.kernel = U.kernel
      /\ T.tree = [U.tree EXCEPT ![s] = IF U.tree[s] = None THEN c ELSE U.tree[s]]
  BY <1>2, <1>3 DEF State
<1>5. T \in State
  BY <1>2, <1>3 DEF State
<1> QED
  BY <1>1, <1>3, <1>4, <1>5 DEF Sized, SameButFds

LEMMA WatchClean ==
  ASSUME NEW S, Clean(S), NEW s \in Fd, NEW c \in Client, s \notin PolledFds(S),
         NEW T, T = Watch(S, s, c)
  PROVE  Clean(T) /\ PolledFds(T) = PolledFds(S) \cup {s}
<1> DEFINE U == pollfd_array_add(S, s)
<1>1. Sized(S) /\ S.nfds \in Nat
  BY DEF Clean, Sized, State
<1>2. /\ Sized(U) /\ SameButFds(S, U) /\ U.nfds = S.nfds + 1
      /\ \A k \in 1..S.nfds : U.fds[k] = S.fds[k]
      /\ U.fds[S.nfds + 1] = [fd |-> s, rev |-> "junk"]
  BY <1>1, ArrayAdd
<1>3. T = [U EXCEPT !.tree[s] = IF U.tree[s] = None THEN c ELSE U.tree[s]]
  BY DEF Watch, avltree_insert
<1> HIDE DEF U
<1>4. T.fds = U.fds /\ T.nfds = U.nfds /\ T.kernel = S.kernel
  BY <1>2, <1>3 DEF Sized, State, SameButFds
<1>5. Sized(T)
  BY <1>1, WatchSized
<1>6. Distinct(T)
  BY <1>1, <1>2, <1>4 DEF Distinct, Clean, PolledFds
<1>7. Quiet(T)
  BY <1>1, <1>2, <1>4 DEF Quiet, Clean
<1>8. PolledFds(T) = PolledFds(S) \cup {s}
  BY <1>1, <1>2, <1>4 DEF PolledFds
<1> QED
  BY <1>5, <1>6, <1>7, <1>8 DEF Clean

\* What does not touch the array keeps it clean, if it leaves polled descriptors.
LEMMA SameArray ==
  ASSUME NEW S, Clean(S), NEW T \in State, T.fds = S.fds, T.nfds = S.nfds,
         \A s \in PolledFds(S) : T.kernel[s] = S.kernel[s]
  PROVE  Clean(T) /\ PolledFds(T) = PolledFds(S)
<1>1. Sized(T)
  BY DEF Clean, Sized
<1>2. PolledFds(T) = PolledFds(S) /\ Distinct(T)
  BY DEF Clean, Distinct, PolledFds
<1>3. Quiet(T)
  BY DEF Clean, Quiet, PolledFds
<1> QED
  BY <1>1, <1>2, <1>3 DEF Clean

------------------------------------------------------------------------------
(* What holds of srv whatever undefined behaviour has occurred: a client that  *)
(* is not allocated has no descriptors, and the tree leads to owners only.     *)

Blank(r) == r.ctl = None => r.data = None /\ r.pasv = None

Found(S) == \A s \in Fd, c \in Client : S.tree[s] = c => s \in Own(S, c)

Sound(S) == /\ Sized(S)
            /\ \A c \in Client : Blank(S.cl[c])
            /\ Found(S)

\* No key is added to the tree.
Shrinks(S, T) == \A s \in Fd : T.tree[s] = S.tree[s] \/ T.tree[s] = None

Puts(S, T, c, r) == T.cl = [S.cl EXCEPT ![c] = r]

\* Client c forgets at most one descriptor, which the tree forgets as well.
LEMMA SoundForget ==
  ASSUME NEW S, Sound(S), NEW T, Sized(T), Shrinks(S, T), NEW c \in Client, NEW r \in Record,
         T.cl = [S.cl EXCEPT ![c] = r], Blank(r),
         \A s \in Own(S, c) : s \in {r.ctl, r.data, r.pasv} \/ T.tree[s] = None
  PROVE  Sound(T)
<1>1. /\ S.cl \in [Client -> Record] /\ S.tree \in [Fd -> Client \cup {None}]
      /\ T.cl \in [Client -> Record] /\ T.tree \in [Fd -> Client \cup {None}]
  BY DEF Sound, Sized, State
<1>2. T.cl[c] = r /\ \A d \in Client : d # c => T.cl[d] = S.cl[d]
  BY <1>1
<1>3. Found(T)
  <2> SUFFICES ASSUME NEW s \in Fd, NEW d \in Client, T.tree[s] = d PROVE s \in Own(T, d)
    BY DEF Found
  <2>1. s # None /\ d # None
    BY ConstantsAssumption
  <2>2. S.tree[s] = d
    BY <2>1 DEF Shrinks
  <2>3. s \in Own(S, d)
    BY <2>2 DEF Sound, Found
  <2> QED
    BY <1>2, <2>1, <2>3 DEF Own
<1> QED
  BY <1>2, <1>3 DEF Sound

\* Only the poll array and the kernel change.
LEMMA SoundSame ==
  ASSUME NEW S, Sound(S), NEW T, Sized(T), T.cl = S.cl, Shrinks(S, T)
  PROVE  Sound(T)
<1>1. \A s \in Fd, c \in Client : T.tree[s] = c => S.tree[s] = c
  BY ConstantsAssumption DEF Shrinks
<1> QED
  BY <1>1 DEF Sound, Found, Own

------------------------------------------------------------------------------
(* Single assignments. *)

PutRecord(S, c, r) == [S EXCEPT !.cl[c] = r]

LEMMA SetRecord ==
  ASSUME NEW S, Sized(S), NEW c \in Client, NEW r \in Record,
         NEW T, T = PutRecord(S, c, r)
  PROVE  /\ Sized(T) /\ T.cl = [S.cl EXCEPT ![c] = r]
         /\ T.fds = S.fds /\ T.nfds = S.nfds /\ T.tree = S.tree /\ T.kernel = S.kernel
<1>1. S \in State
  BY DEF Sized
<1>2. /\ T.cl = [S.cl EXCEPT ![c] = r]
      /\ T.fds = S.fds /\ T.nfds = S.nfds /\ T.tree = S.tree /\ T.kernel = S.kernel
  BY <1>1 DEF State, PutRecord
<1>3. T \in State
  BY <1>1 DEF State, PutRecord
<1> QED
  BY <1>2, <1>3 DEF Sized

LEMMA OpenedEffect ==
  ASSUME NEW S, Sized(S), NEW s \in Fd, NEW k \in Kind,
         NEW T, T = Opened(S, s, k)
  PROVE  /\ Sized(T) /\ T.kernel = [S.kernel EXCEPT ![s] = k]
         /\ T.fds = S.fds /\ T.nfds = S.nfds /\ T.tree = S.tree /\ T.cl = S.cl
<1>1. S \in State
  BY DEF Sized
<1>2. /\ T.kernel = [S.kernel EXCEPT ![s] = k]
      /\ T.fds = S.fds /\ T.nfds = S.nfds /\ T.tree = S.tree /\ T.cl = S.cl
  BY <1>1 DEF State, Opened
<1>3. T \in State
  BY <1>1 DEF State, Opened
<1> QED
  BY <1>2, <1>3 DEF Sized

LEMMA ClosedEffect ==
  ASSUME NEW S, Sized(S), NEW s \in Fd,
         NEW T, T = Closed(S, s)
  PROVE  /\ Sized(T) /\ T.kernel = [S.kernel EXCEPT ![s] = "closed"]
         /\ T.fds = S.fds /\ T.nfds = S.nfds /\ T.tree = S.tree /\ T.cl = S.cl
<1>1. S \in State
  BY DEF Sized
<1>2. /\ T.kernel = [S.kernel EXCEPT ![s] = "closed"]
      /\ T.fds = S.fds /\ T.nfds = S.nfds /\ T.tree = S.tree /\ T.cl = S.cl
  BY <1>1 DEF State, Closed, Kind
<1>3. T \in State
  BY <1>1 DEF State, Closed, Kind
<1> QED
  BY <1>2, <1>3 DEF Sized

\* Unlinking, shutting down and closing a descriptor, or nothing.
LEMMA DropEffect ==
  ASSUME NEW S, Sized(S), NEW s \in Fd \cup {None},
         NEW T, T = Drop(S, s)
  PROVE  /\ Sized(T) /\ T.cl = S.cl
         /\ s = None => T = S
         /\ s # None => /\ T.tree = [S.tree EXCEPT ![s] = None]
                        /\ T.kernel = [S.kernel EXCEPT ![s] = "closed"]
         /\ Clean(S) => Clean(T) /\ PolledFds(T) = PolledFds(S) \ {s}
<1>1. CASE s = None
  <2>1. Clean(S) => s \notin PolledFds(S)
    <3>1. S.fds \in Seq(Slot) /\ S.nfds \in Nat /\ S.nfds <= Len(S.fds) /\ Len(S.fds) \in Nat
      BY DEF Sized, State
    <3>2. \A k \in 1..S.nfds : S.fds[k] \in Slot
      <4>1. \A k \in 1..S.nfds : k \in 1..Len(S.fds)
        BY <3>1
      <4> QED
        BY <3>1, <4>1, ElementOfSeq
    <3> QED
      BY <1>1, <3>2, ConstantsAssumption DEF PolledFds, Slot
  <2> QED
    BY <1>1, <2>1 DEF Drop
<1>2. CASE s # None
  <2> DEFINE U == Unlink(S, s)
  <2>1. s \in Fd
    BY <1>2
  <2>2. /\ Sized(U) /\ U.cl = S.cl /\ U.kernel = S.kernel
        /\ U.tree = [S.tree EXCEPT ![s] = None]
    BY <2>1, UnlinkSized
  <2>3. Clean(S) => Clean(U) /\ PolledFds(U) = PolledFds(S) \ {s}
    BY <2>1, UnlinkClean
  <2>4. T = Closed(U, s)
    BY <1>2 DEF Drop
  <2> HIDE DEF U
  <2>5. /\ Sized(T) /\ T.kernel = [U.kernel EXCEPT ![s] = "closed"]
        /\ T.fds = U.fds /\ T.nfds = U.nfds /\ T.tree = U.tree /\ T.cl = U.cl
    BY <2>1, <2>2, <2>4, ClosedEffect
  <2>6. ASSUME Clean(S) PROVE Clean(T) /\ PolledFds(T) = PolledFds(U)
    <3>1. T \in State /\ U.kernel \in [Fd -> Kind]
      BY <2>2, <2>5 DEF Sized, State
    <3>2. \A t \in PolledFds(U) : T.kernel[t] = U.kernel[t]
      <4>1. Clean(U) /\ s \notin PolledFds(U)
        BY <2>3, <2>6
      <4> QED
        BY <2>5, <3>1, <4>1
    <3> QED
      BY <2>3, <2>5, <2>6, <3>1, <3>2, SameArray
  <2> QED
    BY <1>2, <2>2, <2>3, <2>5, <2>6
<1> QED
  BY <1>1, <1>2

------------------------------------------------------------------------------
(* Array, tree, records and kernel agree, except that the descriptors of X are *)
(* no longer polled or found: ftpclient_disconnect makes X the control         *)
(* connection before it ends the client's transfer.                            *)

\* The descriptors whose events a client with record r must get.
Heard(r) == ({r.ctl, r.pasv} \cup (IF r.cb THEN {r.data} ELSE {})) \ {None}

Proper(r, kernel) ==
  /\ r.ctl = None => r.data = None /\ r.pasv = None
  /\ r.ctl # None => r.ctl \notin {r.data, r.pasv} /\ kernel[r.ctl] = "conn"
  /\ r.data # None => r.data # r.pasv /\ kernel[r.data] = "conn"
  /\ r.pasv # None => kernel[r.pasv] = "listen"
  /\ r.cb => r.data # None

Owns(S) ==
  /\ \A c \in Client : Listener \notin Own(S, c) /\ Proper(S.cl[c], S.kernel)
  /\ \A c, d \in Client, s \in Fd : s \in Own(S, c) /\ s \in Own(S, d) => c = d
  /\ S.kernel[Listener] = "listen"
  /\ \A s \in Fd : S.kernel[s] # "closed" => s = Listener \/ \E c \in Client : s \in Own(S, c)

Finds(S, X) == \A s \in Fd, c \in Client : S.tree[s] = c <=> s \in Heard(S.cl[c]) \ X

Linked(S, X) ==
  /\ Clean(S)
  /\ PolledFds(S) = Keys(S) \cup {Listener}
  /\ Finds(S, X)
  /\ Owns(S)

LEMMA OwnInFd ==
  ASSUME NEW S, Sized(S), NEW c \in Client
  PROVE  /\ Own(S, c) \subseteq Fd /\ S.cl[c] \in Record
         /\ S.cl \in [Client -> Record] /\ S.tree \in [Fd -> Client \cup {None}]
         /\ S.kernel \in [Fd -> Kind]
BY DEF Sized, State, Own, Record

\* Closing the descriptor s of client c, who forgets it, for any field of c.
LEMMA ForgetOne ==
  ASSUME NEW S, NEW X, Linked(S, X), NEW c \in Client, NEW r \in Record,
         NEW s \in Own(S, c),
         Proper(r, S.kernel),
         {r.ctl, r.data, r.pasv} \ {None} = Own(S, c) \ {s},
         Heard(r) = Heard(S.cl[c]) \ {s},
         NEW T, Clean(T), PolledFds(T) = PolledFds(S) \ {s},
         T.cl = [S.cl EXCEPT ![c] = r],
         T.tree = [S.tree EXCEPT ![s] = None],
         T.kernel = [S.kernel EXCEPT ![s] = "closed"]
  PROVE  Linked(T, X)
<1>1. Sized(S) /\ Finds(S, X) /\ Owns(S)
  BY DEF Linked, Clean
<1>2. /\ s \in Fd /\ S.cl \in [Client -> Record] /\ S.tree \in [Fd -> Client \cup {None}]
      /\ S.kernel \in [Fd -> Kind]
  BY <1>1, OwnInFd
<1>3. /\ Own(T, c) = Own(S, c) \ {s} /\ T.cl[c] = r
      /\ \A d \in Client : d # c => T.cl[d] = S.cl[d] /\ Own(T, d) = Own(S, d) /\ s \notin Own(S, d)
  BY <1>1, <1>2 DEF Own, Owns
<1>4. s # Listener
  BY <1>1 DEF Owns
<1>5. PolledFds(T) = Keys(T) \cup {Listener}
  BY <1>2, <1>4 DEF Linked, Keys
<1>6. Finds(T, X)
  <2> SUFFICES ASSUME NEW t \in Fd, NEW d \in Client
               PROVE  T.tree[t] = d <=> t \in Heard(T.cl[d]) \ X
    BY DEF Finds
  <2>1. S.tree[t] = d <=> t \in Heard(S.cl[d]) \ X
    BY <1>1 DEF Finds
  <2>2. d # c => s \notin Heard(S.cl[d])
    BY <1>3 DEF Heard, Own
  <2>3. d # None
    BY ConstantsAssumption
  <2> QED
    BY <1>2, <1>3, <2>1, <2>2, <2>3
<1>7. Owns(T)
  <2>1. ASSUME NEW d \in Client
        PROVE  Listener \notin Own(T, d) /\ Proper(T.cl[d], T.kernel)
    <3>1. Proper(T.cl[d], S.kernel) /\ Listener \notin Own(T, d)
      BY <1>1, <1>3 DEF Owns
    <3>2. s \notin {T.cl[d].ctl, T.cl[d].data, T.cl[d].pasv} \ {None}
      BY <1>3 DEF Own
    <3>3. T.cl[d] \in Record /\ s # None
      BY <1>2, <1>3, ConstantsAssumption
    <3>4. \A t \in Fd : t # s => T.kernel[t] = S.kernel[t]
      BY <1>2
    <3> QED
      BY <3>1, <3>2, <3>3, <3>4 DEF Proper, Record
  <2>2. \A d, e \in Client, t \in Fd : t \in Own(T, d) /\ t \in Own(T, e) => d = e
    BY <1>1, <1>3 DEF Owns
  <2>3. T.kernel[Listener] = "listen"
    BY <1>1, <1>2, <1>4, ConstantsAssumption DEF Owns
  <2>4. ASSUME NEW t \in Fd, T.kernel[t] # "closed", t # Listener
        PROVE  \E d \in Client : t \in Own(T, d)
    <3>1. t # s /\ S.kernel[t] # "closed"
      BY <1>2, <2>4
    <3>2. PICK d \in Client : t \in Own(S, d)
      BY <1>1, <2>4, <3>1 DEF Owns
    <3> QED
      BY <1>3, <3>1, <3>2
  <2> QED
    BY <2>1, <2>2, <2>3, <2>4 DEF Owns
<1> QED
  BY <1>5, <1>6, <1>7 DEF Linked

------------------------------------------------------------------------------
(* The operations of server/client.c. *)

LEMMA DropPasvEffect ==
  ASSUME NEW S, Sized(S), NEW c \in Client,
         NEW T, T = DropPasv(S, c)
  PROVE  /\ Sized(T)
         /\ T.cl = [S.cl EXCEPT ![c] = [S.cl[c] EXCEPT !.pasv = None]]
         /\ Shrinks(S, T) /\ (Sound(S) => Sound(T))
         /\ \A X : Linked(S, X) => Linked(T, X)
<1> DEFINE s == S.cl[c].pasv
           r == [S.cl[c] EXCEPT !.pasv = None]
           U == Drop(S, s)
<1>1. S.cl \in [Client -> Record] /\ S.cl[c] \in Record /\ s \in Fd \cup {None} /\ r \in Record
  BY OwnInFd DEF Record
<1>2. /\ Sized(U) /\ U.cl = S.cl
      /\ s = None => U = S
      /\ s # None => /\ U.tree = [S.tree EXCEPT ![s] = None]
                     /\ U.kernel = [S.kernel EXCEPT ![s] = "closed"]
      /\ Clean(S) => Clean(U) /\ PolledFds(U) = PolledFds(S) \ {s}
  <2> HIDE DEF s, r
  <2> QED
    BY <1>1, DropEffect
<1>3. T = PutRecord(U, c, r)
  <2>1. T = [U EXCEPT !.cl[c].pasv = None]
    BY DEF DropPasv
  <2> HIDE DEF U
  <2> QED
    BY <1>2, <2>1 DEF PutRecord
<1> HIDE DEF U
<1>4. /\ Sized(T) /\ T.cl = [U.cl EXCEPT ![c] = r]
      /\ T.fds = U.fds /\ T.nfds = U.nfds /\ T.tree = U.tree /\ T.kernel = U.kernel
  <2> HIDE DEF r
  <2> QED
    BY <1>1, <1>2, <1>3, SetRecord
<1>5. ASSUME NEW X, Linked(S, X) PROVE Linked(T, X)
  <2>1. CASE s = None
    <3>1. r = S.cl[c]
      BY <1>1, <2>1 DEF Record
    <3>2. T = S
      BY <1>1, <1>2, <1>3, <2>1, <3>1 DEF Sized, State, PutRecord
    <3> QED
      BY <1>5, <3>2
  <2>2. CASE s # None
    <3>1. Clean(T) /\ PolledFds(T) = PolledFds(S) \ {s}
      <4>1. Clean(U) /\ PolledFds(U) = PolledFds(S) \ {s}
        BY <1>2, <1>5 DEF Linked
      <4>2. T \in State
        BY <1>4 DEF Sized
      <4> QED
        BY <1>4, <4>1, <4>2, SameArray
    <3>2. Proper(S.cl[c], S.kernel)
      BY <1>5 DEF Linked, Owns
    <3>3. /\ s \in Own(S, c) /\ Proper(r, S.kernel)
          /\ {r.ctl, r.data, r.pasv} \ {None} = Own(S, c) \ {s}
          /\ Heard(r) = Heard(S.cl[c]) \ {s}
      BY <1>1, <2>2, <3>2 DEF Own, Proper, Heard, Record
    <3> HIDE DEF r, s
    <3> QED
      BY <1>1, <1>2, <1>4, <1>5, <2>2, <3>1, <3>3, ForgetOne
  <2> QED
    BY <2>1, <2>2
<1>6. Shrinks(S, T)
  <2>1. S.tree \in [Fd -> Client \cup {None}]
    BY OwnInFd
  <2> QED
    BY <1>2, <1>4, <2>1 DEF Shrinks
<1>7. ASSUME Sound(S) PROVE Sound(T)
  <2>1. Blank(r)
    BY <1>1, <1>7 DEF Sound, Blank, Record
  <2>2. \A t \in Own(S, c) : t \in {r.ctl, r.data, r.pasv} \/ T.tree[t] = None
    <3>1. \A t \in Own(S, c) : t \in {r.ctl, r.data, r.pasv} \/ (t = s /\ s # None)
      BY <1>1 DEF Own, Record
    <3>2. s # None => T.tree[s] = None
      <4>1. S.tree \in [Fd -> Client \cup {None}]
        BY OwnInFd
      <4> QED
        BY <1>1, <1>2, <1>4, <4>1
    <3> QED
      BY <3>1, <3>2
  <2>3. T.cl = [S.cl EXCEPT ![c] = r]
    BY <1>2, <1>4
  <2> HIDE DEF r, s
  <2> QED
    BY <1>1, <1>4, <1>6, <1>7, <2>1, <2>2, <2>3, SoundForget
<1> QED
  BY <1>2, <1>4, <1>5, <1>6, <1>7

\* The part of ftpclient_data_end before the passive listener.
DropData(S, c) ==
  [Drop(S, S.cl[c].data)
     EXCEPT !.cl[c] = [@ EXCEPT !.data = None, !.handle = FALSE, !.cb = FALSE]]

LEMMA DropDataEffect ==
  ASSUME NEW S, Sized(S), NEW c \in Client,
         NEW T, T = DropData(S, c)
  PROVE  /\ Sized(T)
         /\ T.cl = [S.cl EXCEPT ![c] =
                      [S.cl[c] EXCEPT !.data = None, !.handle = FALSE, !.cb = FALSE]]
         /\ Shrinks(S, T) /\ (Sound(S) => Sound(T))
         /\ \A X : Linked(S, X) => Linked(T, X)
<1> DEFINE s == S.cl[c].data
           r == [S.cl[c] EXCEPT !.data = None, !.handle = FALSE, !.cb = FALSE]
           U == Drop(S, s)
<1>1. S.cl \in [Client -> Record] /\ S.cl[c] \in Record /\ s \in Fd \cup {None} /\ r \in Record
  BY OwnInFd DEF Record
<1>2. /\ Sized(U) /\ U.cl = S.cl
      /\ s = None => U = S
      /\ s # None => /\ U.tree = [S.tree EXCEPT ![s] = None]
                     /\ U.kernel = [S.kernel EXCEPT ![s] = "closed"]
      /\ Clean(S) => Clean(U) /\ PolledFds(U) = PolledFds(S) \ {s}
  <2> HIDE DEF s, r
  <2> QED
    BY <1>1, DropEffect
<1>3. T = PutRecord(U, c, r)
  <2>1. T = [U EXCEPT !.cl[c] = [@ EXCEPT !.data = None, !.handle = FALSE, !.cb = FALSE]]
    BY DEF DropData
  <2> HIDE DEF U
  <2> QED
    BY <1>2, <2>1 DEF PutRecord
<1> HIDE DEF U
<1>4. /\ Sized(T) /\ T.cl = [U.cl EXCEPT ![c] = r]
      /\ T.fds = U.fds /\ T.nfds = U.nfds /\ T.tree = U.tree /\ T.kernel = U.kernel
  <2> HIDE DEF r
  <2> QED
    BY <1>1, <1>2, <1>3, SetRecord
<1>5. ASSUME NEW X, Linked(S, X) PROVE Linked(T, X)
  <2>0. Proper(S.cl[c], S.kernel)
    BY <1>5 DEF Linked, Owns
  <2>1. CASE s = None
    <3>1. /\ {r.ctl, r.data, r.pasv} \ {None} = Own(S, c)
          /\ Heard(r) = Heard(S.cl[c]) /\ Proper(r, S.kernel)
      <4>2. r.ctl = S.cl[c].ctl /\ r.data = None /\ r.pasv = S.cl[c].pasv /\ r.cb = FALSE
        BY <1>1 DEF Record
      <4>3. S.cl[c].data = None /\ ~S.cl[c].cb
        <5>1. S.cl[c].cb \in BOOLEAN /\ ~S.cl[c].cb
          BY <1>1, <2>0, <2>1 DEF Proper, Record
        <5> QED
          BY <2>1, <5>1
      <4>4. Proper(r, S.kernel)
        BY <2>0, <4>2, <4>3 DEF Proper
      <4> HIDE DEF r
      <4> QED
        BY <4>2, <4>3, <4>4 DEF Own, Heard
    <3>2. T.fds = S.fds /\ T.nfds = S.nfds /\ T.tree = S.tree /\ T.kernel = S.kernel
          /\ T.cl = [S.cl EXCEPT ![c] = r]
      BY <1>2, <1>4, <2>1
    <3> HIDE DEF r, s
    <3>3. /\ T.cl[c] = r /\ \A d \in Client : d # c => T.cl[d] = S.cl[d]
          /\ \A d \in Client : Own(T, d) = Own(S, d) /\ Heard(T.cl[d]) = Heard(S.cl[d])
                               /\ (Proper(S.cl[d], S.kernel) => Proper(T.cl[d], S.kernel))
      BY <1>1, <3>1, <3>2 DEF Own
    <3>4. Clean(T) /\ PolledFds(T) = PolledFds(S) /\ Keys(T) = Keys(S)
      <4>1. T \in State /\ Clean(S)
        BY <1>4, <1>5 DEF Sized, Linked
      <4> QED
        BY <3>2, <4>1, SameArray DEF Keys
    <3>5. Finds(T, X)
      BY <1>5, <3>2, <3>3 DEF Finds, Linked
    <3>6. Owns(T)
      BY <1>5, <3>2, <3>3 DEF Owns, Linked
    <3> QED
      BY <1>5, <3>4, <3>5, <3>6 DEF Linked
  <2>2. CASE s # None
    <3>1. Clean(T) /\ PolledFds(T) = PolledFds(S) \ {s}
      <4>1. Clean(U) /\ PolledFds(U) = PolledFds(S) \ {s}
        BY <1>2, <1>5 DEF Linked
      <4>2. T \in State
        BY <1>4 DEF Sized
      <4> QED
        BY <1>4, <4>1, <4>2, SameArray
    <3>3. /\ s \in Own(S, c) /\ Proper(r, S.kernel)
          /\ {r.ctl, r.data, r.pasv} \ {None} = Own(S, c) \ {s}
          /\ Heard(r) = Heard(S.cl[c]) \ {s}
      BY <1>1, <2>0, <2>2 DEF Own, Proper, Heard, Record
    <3> HIDE DEF r, s
    <3> QED
      BY <1>1, <1>2, <1>4, <1>5, <2>2, <3>1, <3>3, ForgetOne
  <2> QED
    BY <2>1, <2>2
<1>6. Shrinks(S, T)
  <2>1. S.tree \in [Fd -> Client \cup {None}]
    BY OwnInFd
  <2> QED
    BY <1>2, <1>4, <2>1 DEF Shrinks
<1>7. ASSUME Sound(S) PROVE Sound(T)
  <2>1. Blank(r)
    BY <1>1, <1>7 DEF Sound, Blank, Record
  <2>2. \A t \in Own(S, c) : t \in {r.ctl, r.data, r.pasv} \/ T.tree[t] = None
    <3>1. \A t \in Own(S, c) : t \in {r.ctl, r.data, r.pasv} \/ (t = s /\ s # None)
      BY <1>1 DEF Own, Record
    <3>2. s # None => T.tree[s] = None
      <4>1. S.tree \in [Fd -> Client \cup {None}]
        BY OwnInFd
      <4> QED
        BY <1>1, <1>2, <1>4, <4>1
    <3> QED
      BY <3>1, <3>2
  <2>3. T.cl = [S.cl EXCEPT ![c] = r]
    BY <1>2, <1>4
  <2> HIDE DEF r, s
  <2> QED
    BY <1>1, <1>4, <1>6, <1>7, <2>1, <2>2, <2>3, SoundForget
<1> QED
  BY <1>2, <1>4, <1>5, <1>6, <1>7

LEMMA DataEndEffect ==
  ASSUME NEW S, Sized(S), NEW c \in Client,
         NEW T, T = ftpclient_data_end(S, c)
  PROVE  /\ Sized(T)
         /\ T.cl[c].ctl = S.cl[c].ctl /\ T.cl[c].data = None /\ T.cl[c].pasv = None
         /\ ~T.cl[c].handle /\ ~T.cl[c].cb
         /\ \A d \in Client : d # c => T.cl[d] = S.cl[d]
         /\ Shrinks(S, T) /\ (Sound(S) => Sound(T))
<1> DEFINE U == DropData(S, c)
<1>1. T = DropPasv(U, c)
  BY DEF ftpclient_data_end, DropData
<1>2. /\ Sized(U)
      /\ U.cl = [S.cl EXCEPT ![c] =
                   [S.cl[c] EXCEPT !.data = None, !.handle = FALSE, !.cb = FALSE]]
      /\ Shrinks(S, U) /\ (Sound(S) => Sound(U))
  BY DropDataEffect
<1> HIDE DEF U
<1>3. /\ Sized(T)
      /\ T.cl = [U.cl EXCEPT ![c] = [U.cl[c] EXCEPT !.pasv = None]]
      /\ Shrinks(U, T) /\ (Sound(U) => Sound(T))
  <2>1. Sized(U)
    BY <1>2
  <2> QED
    BY <1>1, <2>1, DropPasvEffect
<1>4. S.cl \in [Client -> Record] /\ S.cl[c] \in Record /\ U.cl \in [Client -> Record]
      /\ U.cl[c] \in Record
  BY <1>2, OwnInFd
<1>5. /\ U.cl[c].ctl = S.cl[c].ctl /\ U.cl[c].data = None
      /\ ~U.cl[c].handle /\ ~U.cl[c].cb
      /\ \A d \in Client : d # c => U.cl[d] = S.cl[d]
  BY <1>2, <1>4 DEF Record
<1>6. /\ T.cl[c].ctl = U.cl[c].ctl /\ T.cl[c].data = U.cl[c].data /\ T.cl[c].pasv = None
      /\ (T.cl[c].handle <=> U.cl[c].handle) /\ (T.cl[c].cb <=> U.cl[c].cb)
      /\ \A d \in Client : d # c => T.cl[d] = U.cl[d]
  BY <1>3, <1>4 DEF Record
<1>7. Shrinks(S, T)
  BY <1>2, <1>3 DEF Shrinks
<1> QED
  BY <1>2, <1>3, <1>5, <1>6, <1>7

LEMMA DataEndLinked ==
  ASSUME NEW S, NEW X, Linked(S, X), NEW c \in Client,
         NEW T, T = ftpclient_data_end(S, c)
  PROVE  Linked(T, X)
<1> DEFINE U == DropData(S, c)
<1>1. T = DropPasv(U, c)
  BY DEF ftpclient_data_end, DropData
<1>2. Sized(S)
  BY DEF Linked, Clean
<1>3. Sized(U) /\ Linked(U, X)
  BY <1>2, DropDataEffect
<1> HIDE DEF U
<1> QED
  BY <1>1, <1>3, DropPasvEffect

\* The control connection is out of array and tree, not yet closed.
LEMMA UnlinkControl ==
  ASSUME NEW S, Linked(S, {}), NEW c \in Client, NEW s, s = S.cl[c].ctl, s # None,
         NEW U, U = Unlink(S, s)
  PROVE  Linked(U, {s})
<1>1. Clean(S) /\ Sized(S) /\ Finds(S, {}) /\ Owns(S)
  BY DEF Linked, Clean
<1>2. /\ s \in Fd /\ s \in Own(S, c)
      /\ S.cl \in [Client -> Record] /\ S.tree \in [Fd -> Client \cup {None}]
  BY <1>1, OwnInFd DEF Own
<1>3. /\ U.cl = S.cl /\ U.kernel = S.kernel /\ U.tree = [S.tree EXCEPT ![s] = None]
      /\ Clean(U) /\ PolledFds(U) = PolledFds(S) \ {s}
  BY <1>1, <1>2, UnlinkSized, UnlinkClean
<1>4. s # Listener
  BY <1>1, <1>2 DEF Owns
<1>5. PolledFds(U) = Keys(U) \cup {Listener}
  BY <1>2, <1>3, <1>4 DEF Linked, Keys
<1>6. Finds(U, {s})
  BY <1>1, <1>2, <1>3, ConstantsAssumption DEF Finds
<1>7. Owns(U)
  BY <1>1, <1>3 DEF Owns, Own
<1> QED
  BY <1>3, <1>5, <1>6, <1>7 DEF Linked

\* The client without a transfer is freed and its control connection closed.
LEMMA DestroyEffect ==
  ASSUME NEW S, Sized(S), NEW c \in Client, S.cl[c].ctl # None,
         NEW T, T = ftpclient_destroy(S, c)
  PROVE  /\ Sized(T) /\ T.cl = [S.cl EXCEPT ![c] = Freed]
         /\ Shrinks(S, T)
         /\ /\ Sound(S) /\ S.tree[S.cl[c].ctl] = None
            /\ S.cl[c].data = None /\ S.cl[c].pasv = None
            => Sound(T)
         /\ /\ Linked(S, {S.cl[c].ctl})
            /\ S.cl[c].data = None /\ S.cl[c].pasv = None /\ ~S.cl[c].cb
            => Linked(T, {})
<1> DEFINE s == S.cl[c].ctl
           U == Closed(S, s)
<1>1. s \in Fd /\ Freed \in Record /\ S.cl \in [Client -> Record]
      /\ S.tree \in [Fd -> Client \cup {None}] /\ S.kernel \in [Fd -> Kind]
  BY OwnInFd DEF Own, Freed, Record
<1>2. /\ Sized(U) /\ U.kernel = [S.kernel EXCEPT ![s] = "closed"]
      /\ U.fds = S.fds /\ U.nfds = S.nfds /\ U.tree = S.tree /\ U.cl = S.cl
  <2> HIDE DEF s
  <2> QED
    BY <1>1, ClosedEffect
<1>3. T = PutRecord(U, c, Freed)
  BY DEF ftpclient_destroy, PutRecord
<1> HIDE DEF U
<1>4. /\ Sized(T) /\ T.cl = [U.cl EXCEPT ![c] = Freed]
      /\ T.fds = U.fds /\ T.nfds = U.nfds /\ T.tree = U.tree /\ T.kernel = U.kernel
  BY <1>1, <1>2, <1>3, SetRecord
<1>5. ASSUME Linked(S, {s}), S.cl[c].data = None, S.cl[c].pasv = None, ~S.cl[c].cb
      PROVE  Linked(T, {})
  <2>1. Clean(S) /\ Finds(S, {s}) /\ Owns(S) /\ PolledFds(S) = Keys(S) \cup {Listener}
    BY <1>5 DEF Linked
  <2>2. S.tree[s] = None
    BY <1>1, <2>1 DEF Finds
  <2>3. s \in Own(S, c) /\ s # Listener
    BY <1>1, <2>1 DEF Own, Owns
  <2>4. s \notin PolledFds(S)
    BY <2>1, <2>2, <2>3 DEF Keys
  <2>5. Clean(T) /\ PolledFds(T) = PolledFds(S) \ {s}
    <3>1. T \in State /\ \A t \in PolledFds(S) : T.kernel[t] = S.kernel[t]
      BY <1>1, <1>2, <1>4, <2>1, <2>4, ConstantsAssumption DEF Sized, Keys
    <3>2. T.fds = S.fds /\ T.nfds = S.nfds
      BY <1>2, <1>4
    <3>3. Clean(T) /\ PolledFds(T) = PolledFds(S)
      BY <2>1, <3>1, <3>2, SameArray
    <3> QED
      BY <2>4, <3>3
  <2>6. T.tree = [S.tree EXCEPT ![s] = None]
    BY <1>1, <1>2, <1>4, <2>2
  <2>7. /\ Proper(Freed, S.kernel) /\ Heard(Freed) = Heard(S.cl[c]) \ {s}
        /\ {Freed.ctl, Freed.data, Freed.pasv} \ {None} = Own(S, c) \ {s}
    BY <1>5 DEF Proper, Heard, Freed, Own
  <2>8. Linked(T, {s})
    <3> DEFINE X == {s}
               r == Freed
    <3>1. /\ Linked(S, X) /\ r \in Record /\ s \in Own(S, c) /\ Proper(r, S.kernel)
          /\ {r.ctl, r.data, r.pasv} \ {None} = Own(S, c) \ {s}
          /\ Heard(r) = Heard(S.cl[c]) \ {s}
      BY <1>1, <1>5, <2>3, <2>7
    <3>2. T.cl = [S.cl EXCEPT ![c] = r] /\ T.kernel = [S.kernel EXCEPT ![s] = "closed"]
      BY <1>2, <1>4
    <3> HIDE DEF s, X, r
    <3>3. Linked(T, X)
      BY <2>5, <2>6, <3>1, <3>2, ForgetOne
    <3> QED
      BY <3>3 DEF X
  <2>9. \A d \in Client : s \notin Own(T, d)
    <3>1. Own(T, c) = {}
      BY <1>1, <1>2, <1>4 DEF Own, Freed
    <3>2. \A d \in Client : d # c => Own(T, d) = Own(S, d)
      BY <1>1, <1>2, <1>4 DEF Own
    <3> QED
      BY <1>1, <2>1, <2>3, <3>1, <3>2 DEF Owns
  <2> QED
    BY <2>8, <2>9 DEF Linked, Finds, Heard, Own
<1>6. Shrinks(S, T)
  BY <1>2, <1>4 DEF Shrinks
<1>7. ASSUME Sound(S), S.tree[s] = None, S.cl[c].data = None, S.cl[c].pasv = None
      PROVE  Sound(T)
  <2>1. Blank(Freed)
    BY DEF Blank, Freed
  <2>2. \A t \in Own(S, c) : T.tree[t] = None
    BY <1>2, <1>4, <1>7 DEF Own
  <2>3. T.cl = [S.cl EXCEPT ![c] = Freed]
    BY <1>2, <1>4
  <2> HIDE DEF s
  <2> QED
    BY <1>1, <1>4, <1>6, <1>7, <2>1, <2>2, <2>3, SoundForget
<1> QED
  BY <1>2, <1>4, <1>5, <1>6, <1>7

\* A client leaves the server; the others are as before.
LEMMA DisconnectEffect ==
  ASSUME NEW S, Sized(S), NEW c \in Client, S.cl[c].ctl # None,
         NEW T, T = ftpclient_disconnect(S, c, S.cl[c].ctl)
  PROVE  /\ Sized(T) /\ T.cl[c] = Freed
         /\ \A d \in Client : d # c => T.cl[d] = S.cl[d]
         /\ Sound(S) => Sound(T)
         /\ Linked(S, {}) => Linked(T, {})
<1> DEFINE s == S.cl[c].ctl
           U == Unlink(S, s)
           W == ftpclient_data_end(U, c)
<1>1. s \in Fd /\ S.cl \in [Client -> Record]
  BY OwnInFd DEF Own
<1>2. Sized(U) /\ U.cl = S.cl /\ U.tree = [S.tree EXCEPT ![s] = None]
  <2> HIDE DEF s
  <2> QED
    BY <1>1, UnlinkSized
<1>10. U.tree[s] = None /\ Shrinks(S, U)
  BY <1>1, <1>2, OwnInFd DEF Shrinks
<1>11. Sound(S) => Sound(U)
  BY <1>2, <1>10, SoundSame
<1>3. Linked(S, {}) => Linked(U, {s})
  BY UnlinkControl
<1>4. T = ftpclient_destroy(W, c)
  BY DEF ftpclient_disconnect
<1> HIDE DEF U
<1>5. /\ Sized(W)
      /\ W.cl[c].ctl = U.cl[c].ctl /\ W.cl[c].data = None /\ W.cl[c].pasv = None
      /\ ~W.cl[c].cb
      /\ \A d \in Client : d # c => W.cl[d] = U.cl[d]
      /\ Shrinks(U, W) /\ (Sound(U) => Sound(W))
  BY <1>2, DataEndEffect
<1>9. Linked(U, {s}) => Linked(W, {s})
  BY DataEndLinked
<1> HIDE DEF W
<1>6. W.cl[c].ctl = s /\ W.cl[c].ctl # None /\ W.tree[s] = None
  BY <1>1, <1>2, <1>5, <1>10 DEF Shrinks
<1>7. /\ Sized(T) /\ T.cl = [W.cl EXCEPT ![c] = Freed]
      /\ Sound(W) => Sound(T)
      /\ Linked(W, {s}) => Linked(T, {})
  <2> HIDE DEF s
  <2> QED
    BY <1>4, <1>5, <1>6, DestroyEffect
<1>8. W.cl \in [Client -> Record]
  BY <1>5, OwnInFd
<1> QED
  BY <1>2, <1>3, <1>5, <1>6, <1>7, <1>8, <1>9, <1>11

\* Whole records: a handle, a callback and a data connection come together.
Whole(r) == /\ r.handle <=> r.cb
            /\ r.data = None \/ r.pasv = None

Coherent(S) == Linked(S, {}) /\ \A c \in Client : Whole(S.cl[c])

LEMMA FreedWhole == Whole(Freed)
BY DEF Whole, Freed

LEMMA DisconnectCoherent ==
  ASSUME NEW S, Coherent(S), NEW c \in Client, S.cl[c].ctl # None,
         NEW T, T = ftpclient_disconnect(S, c, S.cl[c].ctl)
  PROVE  Coherent(T)
<1>1. Sized(S) /\ Linked(S, {})
  BY DEF Coherent, Linked, Clean
<1> QED
  BY <1>1, DisconnectEffect, FreedWhole DEF Coherent

LEMMA DataEndCoherent ==
  ASSUME NEW S, Linked(S, {}), NEW c \in Client,
         \A d \in Client : d # c => Whole(S.cl[d]),
         NEW T, T = ftpclient_data_end(S, c)
  PROVE  Coherent(T) /\ T.cl[c].ctl = S.cl[c].ctl
<1>1. Sized(S)
  BY DEF Linked, Clean
<1>2. /\ T.cl[c].ctl = S.cl[c].ctl /\ T.cl[c].data = None
      /\ ~T.cl[c].handle /\ ~T.cl[c].cb
      /\ \A d \in Client : d # c => T.cl[d] = S.cl[d]
  BY <1>1, DataEndEffect
<1>3. Linked(T, {})
  BY DataEndLinked
<1> QED
  BY <1>2, <1>3 DEF Coherent, Whole

\* Whatever becomes of the reply.
LEMMA SendEffect ==
  ASSUME NEW S, Sized(S), NEW c \in Client, S.cl[c].ctl # None, NEW sent \in BOOLEAN,
         NEW T, T = ftpclient_send_message(S, c, sent)
  PROVE  Sized(T) /\ (Sound(S) => Sound(T)) /\ (Coherent(S) => Coherent(T))
<1>1. CASE sent
  BY <1>1 DEF ftpclient_send_message
<1>2. CASE ~sent
  <2>1. T = ftpclient_disconnect(S, c, S.cl[c].ctl)
    BY <1>2 DEF ftpclient_send_message
  <2> QED
    BY <2>1, DisconnectEffect, DisconnectCoherent
<1> QED
  BY <1>1, <1>2

------------------------------------------------------------------------------
(* Operations that open descriptors. *)

Fields(r) == {r.ctl, r.data, r.pasv}
Held(r)   == Fields(r) \ {None}

LEMMA SoundGain ==
  ASSUME NEW S, Sound(S), NEW T, Sized(T), NEW c \in Client, NEW r \in Record,
         Puts(S, T, c, r), Blank(r),
         Own(S, c) \subseteq Fields(r),
         \A t \in Fd : \/ T.tree[t] = S.tree[t]
                       \/ T.tree[t] = c /\ t \in Fields(r)
  PROVE  Sound(T)
<1>1. /\ S.cl \in [Client -> Record] /\ S.tree \in [Fd -> Client \cup {None}]
      /\ T.cl \in [Client -> Record] /\ T.tree \in [Fd -> Client \cup {None}]
  BY DEF Sound, Sized, State
<1>2. T.cl[c] = r /\ \A d \in Client : d # c => T.cl[d] = S.cl[d]
  BY <1>1 DEF Puts
<1>3. Found(T)
  <2> SUFFICES ASSUME NEW s \in Fd, NEW d \in Client, T.tree[s] = d PROVE s \in Own(T, d)
    BY DEF Found
  <2>1. s # None /\ d # None
    BY ConstantsAssumption
  <2>2. CASE T.tree[s] = S.tree[s]
    <3>1. s \in Own(S, d)
      BY <2>2 DEF Sound, Found
    <3> QED
      BY <1>2, <2>1, <3>1 DEF Own, Fields
  <2>3. CASE T.tree[s] = c /\ s \in Fields(r)
    BY <1>2, <2>1, <2>3 DEF Own, Fields
  <2> QED
    BY <2>2, <2>3
<1> QED
  BY <1>2, <1>3 DEF Sound

\* Client c comes to own s, or to hear a descriptor it owns: W is {s} when s is
\* polled and found from now on.
LEMMA Gain ==
  ASSUME NEW S, Linked(S, {}), NEW c \in Client, NEW r \in Record, NEW s \in Fd,
         s # Listener, s \notin Heard(S.cl[c]),
         \A d \in Client : d # c => s \notin Own(S, d),
         NEW W \in SUBSET {s},
         Held(r) = Own(S, c) \cup {s},
         Heard(r) = Heard(S.cl[c]) \cup W,
         NEW T, Clean(T), PolledFds(T) = PolledFds(S) \cup W,
         Puts(S, T, c, r),
         \A t \in Fd : t # s => T.tree[t] = S.tree[t],
         T.tree[s] = IF s \in W THEN c ELSE None,
         \A t \in Fd : t # s => T.kernel[t] = S.kernel[t],
         Proper(r, T.kernel)
  PROVE  Linked(T, {})
<1>1. Sized(S) /\ Finds(S, {}) /\ Owns(S) /\ Sized(T)
  BY DEF Linked, Clean
<1>2. /\ S.cl \in [Client -> Record] /\ S.tree \in [Fd -> Client \cup {None}]
      /\ S.kernel \in [Fd -> Kind] /\ T.tree \in [Fd -> Client \cup {None}]
  BY <1>1, OwnInFd
<1>3. /\ Own(T, c) = Own(S, c) \cup {s} /\ T.cl[c] = r
      /\ \A d \in Client : d # c => T.cl[d] = S.cl[d] /\ Own(T, d) = Own(S, d)
  BY <1>2 DEF Own, Puts, Held, Fields
<1>4. c # None /\ s # None
  BY ConstantsAssumption
<1>5. PolledFds(T) = Keys(T) \cup {Listener}
  <2>1. S.tree[s] = None
    <3>1. \A d \in Client : s \notin Heard(S.cl[d])
      BY DEF Heard, Own
    <3> QED
      BY <1>1, <1>2, <3>1 DEF Finds
  <2>2. Keys(T) = Keys(S) \cup W
    BY <1>4, <2>1 DEF Keys
  <2> QED
    BY <2>2 DEF Linked
<1>6. Finds(T, {})
  <2> SUFFICES ASSUME NEW t \in Fd, NEW d \in Client
               PROVE  T.tree[t] = d <=> t \in Heard(T.cl[d])
    BY DEF Finds
  <2>1. S.tree[t] = d <=> t \in Heard(S.cl[d])
    BY <1>1 DEF Finds
  <2>2. d # c => s \notin Heard(S.cl[d])
    BY <1>4 DEF Heard, Own
  <2>3. d # None
    BY ConstantsAssumption
  <2> QED
    BY <1>3, <2>1, <2>2, <2>3
<1>7. Owns(T)
  <2>1. ASSUME NEW d \in Client
        PROVE  Listener \notin Own(T, d) /\ Proper(T.cl[d], T.kernel)
    <3>1. CASE d = c
      BY <1>1, <1>3, <3>1 DEF Owns
    <3>2. CASE d # c
      <4>1. Proper(S.cl[d], S.kernel) /\ Listener \notin Own(S, d) /\ T.cl[d] = S.cl[d]
            /\ s \notin {S.cl[d].ctl, S.cl[d].data, S.cl[d].pasv} /\ S.cl[d] \in Record
        BY <1>1, <1>2, <1>3, <1>4, <3>2 DEF Owns, Own
      <4> QED
        BY <1>3, <3>2, <4>1 DEF Proper, Record
    <3> QED
      BY <3>1, <3>2
  <2>2. \A d, e \in Client, t \in Fd : t \in Own(T, d) /\ t \in Own(T, e) => d = e
    BY <1>1, <1>3 DEF Owns
  <2>3. T.kernel[Listener] = "listen"
    BY <1>1, ConstantsAssumption DEF Owns
  <2>4. ASSUME NEW t \in Fd, T.kernel[t] # "closed", t # Listener
        PROVE  \E d \in Client : t \in Own(T, d)
    BY <1>1, <1>3, <2>4 DEF Owns
  <2> QED
    BY <2>1, <2>2, <2>3, <2>4 DEF Owns
<1> QED
  BY <1>5, <1>6, <1>7 DEF Linked

\* A descriptor number that is not in use is nobody's and not polled.
LEMMA Fresh ==
  ASSUME NEW S, Linked(S, {}), NEW s \in Unused(S)
  PROVE  /\ s \in Fd /\ s # Listener /\ s \notin PolledFds(S) /\ S.tree[s] = None
         /\ \A d \in Client : s \notin Own(S, d) /\ s \notin Heard(S.cl[d])
<1>1. Sized(S) /\ Finds(S, {}) /\ Owns(S) /\ PolledFds(S) = Keys(S) \cup {Listener}
  BY DEF Linked, Clean
<1>2. s \in Fd /\ S.kernel[s] = "closed" /\ s # Listener /\ s # None
  BY <1>1, ConstantsAssumption DEF Unused, Owns
<1>3. S.tree \in [Fd -> Client \cup {None}]
  BY <1>1 DEF Sized, State
<1>4. ASSUME NEW d \in Client PROVE s \notin Own(S, d)
  <2>1. Proper(S.cl[d], S.kernel)
    BY <1>1 DEF Owns
  <2> QED
    BY <1>2, <2>1 DEF Own, Proper
<1>5. \A d \in Client : s \notin Heard(S.cl[d])
  BY <1>4 DEF Heard, Own
<1>6. S.tree[s] = None
  BY <1>1, <1>2, <1>3, <1>5 DEF Finds
<1> QED
  BY <1>1, <1>2, <1>4, <1>5, <1>6 DEF Keys

\* accept or connect for the data connection of c.
LEMMA AcceptDataEffect ==
  ASSUME NEW S, Sized(S), NEW c \in Client, S.cl[c].ctl # None, S.cl[c].data = None,
         NEW T \in AcceptData(S, c)
  PROVE  /\ Sized(T) /\ (Sound(S) => Sound(T))
         /\ T.cl[c].ctl = S.cl[c].ctl /\ T.cl[c].pasv = S.cl[c].pasv
         /\ T.cl[c].cb = S.cl[c].cb /\ T.cl[c].handle = S.cl[c].handle
         /\ \A d \in Client : d # c => T.cl[d] = S.cl[d]
         /\ Linked(S, {}) => Linked(T, {})
<1>1. CASE T = S
  BY <1>1
<1>2. CASE T # S
  <2>1. PICK s \in Unused(S) : T = [Opened(S, s, "conn") EXCEPT !.cl[c].data = s]
    BY <1>2 DEF AcceptData
  <2> DEFINE r == [S.cl[c] EXCEPT !.data = s]
             U == Opened(S, s, "conn")
  <2>2. /\ s \in Fd /\ S.cl \in [Client -> Record] /\ S.cl[c] \in Record /\ r \in Record
        /\ S.kernel \in [Fd -> Kind] /\ S.kernel[s] = "closed" /\ s # None
    BY OwnInFd, ConstantsAssumption DEF Unused, Record
  <2>3. /\ Sized(U) /\ U.kernel = [S.kernel EXCEPT ![s] = "conn"]
        /\ U.fds = S.fds /\ U.nfds = S.nfds /\ U.tree = S.tree /\ U.cl = S.cl
    <3>1. "conn" \in Kind
      BY DEF Kind
    <3> QED
      BY <2>2, <3>1, OpenedEffect
  <2> HIDE DEF U
  <2>4. T = PutRecord(U, c, r)
    BY <2>1, <2>3 DEF U, PutRecord
  <2>5. /\ Sized(T) /\ T.cl = [U.cl EXCEPT ![c] = r]
        /\ T.fds = U.fds /\ T.nfds = U.nfds /\ T.tree = U.tree /\ T.kernel = U.kernel
    <3> HIDE DEF r
    <3> QED
      BY <2>2, <2>3, <2>4, SetRecord
  <2>6. /\ r.ctl = S.cl[c].ctl /\ r.pasv = S.cl[c].pasv /\ r.data = s
        /\ r.cb = S.cl[c].cb /\ r.handle = S.cl[c].handle
    BY <2>2 DEF Record
  <2>7. T.cl = [S.cl EXCEPT ![c] = r] /\ T.cl[c] = r /\ \A d \in Client : d # c => T.cl[d] = S.cl[d]
    BY <2>2, <2>3, <2>5
  <2> HIDE DEF r
  <2>8. ASSUME Sound(S) PROVE Sound(T)
    <3>1. Blank(r) /\ Own(S, c) \subseteq {r.ctl, r.data, r.pasv}
      BY <2>6 DEF Blank, Own
    <3> QED
      BY <2>2, <2>3, <2>5, <2>7, <2>8, <3>1, SoundGain DEF Puts, Held, Fields
  <2>9. ASSUME Linked(S, {}) PROVE Linked(T, {})
    <3>1. /\ s \in Fd /\ s # Listener /\ s \notin PolledFds(S) /\ S.tree[s] = None
          /\ \A d \in Client : s \notin Own(S, d) /\ s \notin Heard(S.cl[d])
      BY <2>9, Fresh
    <3>2. Clean(T) /\ PolledFds(T) = PolledFds(S)
      <4>1. Clean(S) /\ T \in State /\ T.fds = S.fds /\ T.nfds = S.nfds
        BY <2>3, <2>5, <2>9 DEF Linked, Sized
      <4>2. \A t \in PolledFds(S) : T.kernel[t] = S.kernel[t]
        BY <2>2, <2>3, <2>5, <3>1
      <4> QED
        BY <4>1, <4>2, SameArray
    <3>3. Proper(S.cl[c], S.kernel)
      BY <2>9 DEF Linked, Owns
    <3>4. ~r.cb /\ Heard(r) = Heard(S.cl[c]) \cup {}
      <4>1. S.cl[c].cb = FALSE
        BY <2>2, <3>3 DEF Proper, Record
      <4> QED
        BY <2>6, <4>1 DEF Heard
    <3>5. {r.ctl, r.data, r.pasv} \ {None} = Own(S, c) \cup {s}
      BY <2>2, <2>6 DEF Own
    <3>6. /\ T.kernel[s] = "conn" /\ T.tree[s] = None
          /\ \A t \in Fd : t # s => T.kernel[t] = S.kernel[t] /\ T.tree[t] = S.tree[t]
      BY <2>2, <2>3, <2>5, <3>1
    <3>7. Proper(r, T.kernel)
      <4>1. s \notin {S.cl[c].ctl, S.cl[c].pasv}
        BY <2>2, <3>1 DEF Own
      <4>2. S.cl[c].ctl \in Fd \cup {None} /\ S.cl[c].pasv \in Fd \cup {None}
        BY <2>2 DEF Record
      <4> QED
        BY <2>2, <2>6, <3>3, <3>4, <3>6, <4>1, <4>2 DEF Proper
    <3> DEFINE W == {}
    <3>8. /\ Heard(r) = Heard(S.cl[c]) \cup W /\ W \in SUBSET {s} /\ PolledFds(T) = PolledFds(S) \cup W
          /\ T.tree[s] = IF s \in W THEN c ELSE None
      BY <3>2, <3>4, <3>6
    <3> HIDE DEF W
    <3> QED
      BY <2>2, <2>7, <2>9, <3>1, <3>2, <3>5, <3>6, <3>7, <3>8, Gain DEF Puts, Held, Fields
  <2> QED
    BY <2>5, <2>6, <2>7, <2>8, <2>9
<1> QED
  BY <1>1, <1>2

\* The data connection of c is polled and gets its callback.
StartData(S, c) == [Watch(S, S.cl[c].data, c) EXCEPT !.cl[c].cb = TRUE]

LEMMA HearData ==
  ASSUME NEW S, Sized(S), NEW c \in Client, S.cl[c].ctl # None, S.cl[c].data # None,
         NEW T, T = StartData(S, c)
  PROVE  /\ Sized(T) /\ (Sound(S) => Sound(T))
         /\ T.cl[c] = [S.cl[c] EXCEPT !.cb = TRUE]
         /\ \A d \in Client : d # c => T.cl[d] = S.cl[d]
         /\ Linked(S, {}) /\ ~S.cl[c].cb => Linked(T, {})
<1> DEFINE s == S.cl[c].data
           r == [S.cl[c] EXCEPT !.cb = TRUE]
           U == Watch(S, s, c)
<1>1. /\ s \in Fd /\ S.cl \in [Client -> Record] /\ S.cl[c] \in Record /\ r \in Record
      /\ S.tree \in [Fd -> Client \cup {None}] /\ s # None /\ c # None
  <2>1. /\ S.cl \in [Client -> Record] /\ S.cl[c] \in Record /\ s \in Own(S, c)
        /\ Own(S, c) \subseteq Fd /\ S.tree \in [Fd -> Client \cup {None}]
    BY OwnInFd DEF Own
  <2>2. r \in Record
    BY <2>1 DEF Record
  <2> QED
    BY <2>1, <2>2, ConstantsAssumption
<1>2. /\ Sized(U) /\ U.cl = S.cl /\ U.kernel = S.kernel
      /\ U.tree = [S.tree EXCEPT ![s] = IF S.tree[s] = None THEN c ELSE S.tree[s]]
  <2> HIDE DEF s, r
  <2> QED
    BY <1>1, WatchSized
<1>3. T = PutRecord(U, c, r)
  <2>1. T = [U EXCEPT !.cl[c].cb = TRUE]
    BY DEF StartData
  <2> HIDE DEF U
  <2> QED
    BY <1>2, <2>1 DEF PutRecord
<1>4. r.ctl = S.cl[c].ctl /\ r.data = s /\ r.pasv = S.cl[c].pasv /\ r.cb
  BY <1>1 DEF Record
<1> HIDE DEF r
<1>9. Linked(S, {}) /\ s \notin PolledFds(S) => Clean(U) /\ PolledFds(U) = PolledFds(S) \cup {s}
  <2> HIDE DEF s
  <2> QED
    BY <1>1, WatchClean DEF Linked
<1> HIDE DEF U
<1>5. /\ Sized(T) /\ T.cl = [U.cl EXCEPT ![c] = r]
      /\ T.fds = U.fds /\ T.nfds = U.nfds /\ T.tree = U.tree /\ T.kernel = U.kernel
  BY <1>1, <1>2, <1>3, SetRecord
<1>6. T.cl = [S.cl EXCEPT ![c] = r] /\ T.cl[c] = r /\ \A d \in Client : d # c => T.cl[d] = S.cl[d]
  BY <1>1, <1>2, <1>5
<1>7. ASSUME Sound(S) PROVE Sound(T)
  <2>1. Blank(r) /\ Own(S, c) \subseteq {r.ctl, r.data, r.pasv}
    BY <1>4 DEF Blank, Own
  <2>2. \A t \in Fd : \/ T.tree[t] = S.tree[t]
                      \/ T.tree[t] = c /\ t \in {r.ctl, r.data, r.pasv}
    BY <1>1, <1>2, <1>4, <1>5
  <2> QED
    BY <1>1, <1>5, <1>6, <1>7, <2>1, <2>2, SoundGain DEF Puts, Held, Fields
<1>8. ASSUME Linked(S, {}), ~S.cl[c].cb PROVE Linked(T, {})
  <2>1. /\ Sized(S) /\ Finds(S, {}) /\ Owns(S) /\ PolledFds(S) = Keys(S) \cup {Listener}
        /\ Proper(S.cl[c], S.kernel)
    BY <1>8 DEF Linked, Clean, Owns
  <2>2. s \in Own(S, c) /\ s # Listener /\ \A d \in Client : d # c => s \notin Own(S, d)
    BY <1>1, <2>1 DEF Own, Owns
  <2>3. s \notin Heard(S.cl[c])
    BY <1>1, <1>8, <2>1 DEF Heard, Proper
  <2>4. S.tree[s] = None
    <3>1. \A d \in Client : s \notin Heard(S.cl[d])
      BY <2>2, <2>3 DEF Heard, Own
    <3> QED
      BY <1>1, <2>1, <3>1 DEF Finds
  <2>5. s \notin PolledFds(S)
    BY <2>1, <2>2, <2>4 DEF Keys
  <2>6. Clean(T) /\ PolledFds(T) = PolledFds(S) \cup {s}
    <3>1. Clean(U) /\ PolledFds(U) = PolledFds(S) \cup {s} /\ T \in State
      BY <1>5, <1>8, <1>9, <2>5 DEF Sized
    <3> QED
      BY <1>5, <3>1, SameArray
  <2>7. /\ T.tree[s] = c /\ \A t \in Fd : t # s => T.tree[t] = S.tree[t]
        /\ T.kernel = S.kernel
    BY <1>1, <1>2, <1>5, <2>4
  <2>8. {r.ctl, r.data, r.pasv} \ {None} = Own(S, c) \cup {s}
    BY <1>1, <1>4 DEF Own
  <2>9. Heard(r) = Heard(S.cl[c]) \cup {s}
    BY <1>1, <1>4, <1>8 DEF Heard
  <2>10. Proper(r, T.kernel)
    BY <1>1, <1>4, <2>1, <2>7 DEF Proper
  <2> DEFINE W == {s}
  <2>11. /\ Heard(r) = Heard(S.cl[c]) \cup W /\ W \in SUBSET {s} /\ PolledFds(T) = PolledFds(S) \cup W
         /\ T.tree[s] = IF s \in W THEN c ELSE None
         /\ \A t \in Fd : t # s => T.kernel[t] = S.kernel[t]
    BY <2>6, <2>7, <2>9
  <2> HIDE DEF W, s
  <2> QED
    BY <1>1, <1>6, <1>8, <2>2, <2>3, <2>6, <2>7, <2>8, <2>10, <2>11, Gain DEF Puts, Held, Fields
<1> QED
  BY <1>5, <1>6, <1>7, <1>8 DEF r

\* Every way ftpclient_data_start can end, for a client without a callback.
LEMMA DataStartEffect ==
  ASSUME NEW S, Sized(S), NEW c \in Client, S.cl[c].ctl # None,
         NEW out \in ftpclient_data_start(S, c)
  PROVE  /\ Sized(out[1]) /\ (Sound(S) => Sound(out[1]))
         /\ out[1].cl[c].ctl = S.cl[c].ctl
         /\ \A d \in Client : d # c => out[1].cl[d] = S.cl[d]
         /\ Linked(S, {}) /\ ~S.cl[c].cb => Linked(out[1], {})
         /\ out[2] => /\ out[1].cl[c].cb /\ (out[1].cl[c].handle <=> S.cl[c].handle)
                      /\ S.cl[c].data = None => out[1].cl[c].pasv = None
                      /\ S.cl[c].pasv = None => out[1].cl[c].pasv = None
<1> DEFINE connected == IF S.cl[c].data # None THEN {S}
                        ELSE IF S.cl[c].pasv = None THEN AcceptData(S, c)
                        ELSE {DropPasv(T, c) : T \in AcceptData(S, c)}
<1>1. PICK T \in connected :
        out = IF T.cl[c].data = None THEN <<T, FALSE>>
              ELSE <<[Watch(T, T.cl[c].data, c) EXCEPT !.cl[c].cb = TRUE], TRUE>>
  BY DEF ftpclient_data_start
<1>2. /\ Sized(T) /\ (Sound(S) => Sound(T))
      /\ T.cl[c].ctl = S.cl[c].ctl
      /\ (T.cl[c].handle <=> S.cl[c].handle) /\ (T.cl[c].cb <=> S.cl[c].cb)
      /\ \A d \in Client : d # c => T.cl[d] = S.cl[d]
      /\ Linked(S, {}) => Linked(T, {})
      /\ S.cl[c].data = None => T.cl[c].pasv = None
      /\ S.cl[c].pasv = None => T.cl[c].pasv = None
  <2>1. CASE S.cl[c].data # None
    BY <2>1
  <2>2. CASE S.cl[c].data = None /\ S.cl[c].pasv = None
    <3>1. T \in AcceptData(S, c)
      BY <2>2
    <3> HIDE DEF connected
    <3> QED
      BY <2>2, <3>1, AcceptDataEffect
  <2>3. CASE S.cl[c].data = None /\ S.cl[c].pasv # None
    <3>1. PICK U \in AcceptData(S, c) : T = DropPasv(U, c)
      BY <2>3
    <3> HIDE DEF connected
    <3>2. /\ Sized(U) /\ (Sound(S) => Sound(U))
          /\ U.cl[c].ctl = S.cl[c].ctl
          /\ U.cl[c].cb = S.cl[c].cb /\ U.cl[c].handle = S.cl[c].handle
          /\ \A d \in Client : d # c => U.cl[d] = S.cl[d]
          /\ Linked(S, {}) => Linked(U, {})
      BY <2>3, <3>1, AcceptDataEffect
    <3>3. /\ Sized(T) /\ T.cl = [U.cl EXCEPT ![c] = [U.cl[c] EXCEPT !.pasv = None]]
          /\ (Sound(U) => Sound(T))
      <4>1. Sized(U)
        BY <3>2
      <4> QED
        BY <3>1, <4>1, DropPasvEffect
    <3>4. Linked(U, {}) => Linked(T, {})
      <4>1. Sized(U)
        BY <3>2
      <4> QED
        BY <3>1, <4>1, DropPasvEffect
    <3>5. U.cl \in [Client -> Record] /\ U.cl[c] \in Record
      BY <3>2, OwnInFd
    <3>6. /\ T.cl[c].ctl = U.cl[c].ctl /\ T.cl[c].pasv = None
          /\ T.cl[c].cb = U.cl[c].cb /\ T.cl[c].handle = U.cl[c].handle
          /\ \A d \in Client : d # c => T.cl[d] = U.cl[d]
      BY <3>3, <3>5 DEF Record
    <3> QED
      BY <3>2, <3>3, <3>4, <3>6
  <2> QED
    BY <2>1, <2>2, <2>3
<1> HIDE DEF connected
<1>3. CASE T.cl[c].data = None
  BY <1>1, <1>2, <1>3
<1>4. CASE T.cl[c].data # None
  <2> DEFINE V == StartData(T, c)
  <2>1. out = <<V, TRUE>>
    BY <1>1, <1>4 DEF StartData
  <2>2. /\ Sized(V) /\ (Sound(T) => Sound(V))
        /\ V.cl[c] = [T.cl[c] EXCEPT !.cb = TRUE]
        /\ \A d \in Client : d # c => V.cl[d] = T.cl[d]
        /\ Linked(T, {}) /\ ~T.cl[c].cb => Linked(V, {})
    BY <1>2, <1>4, HearData
  <2> HIDE DEF V
  <2>3. T.cl[c] \in Record
    BY <1>2, OwnInFd
  <2>4. /\ V.cl[c].ctl = T.cl[c].ctl /\ V.cl[c].pasv = T.cl[c].pasv
        /\ V.cl[c].cb /\ V.cl[c].handle = T.cl[c].handle
    BY <2>2, <2>3 DEF Record
  <2>5. out[1] = V /\ out[2]
    BY <2>1
  <2> QED
    BY <1>2, <2>2, <2>4, <2>5
<1> QED
  BY <1>3, <1>4

\* A new descriptor of kind k is opened, put into record r of c, and polled.
OpenFor(S, c, s, k, r) == Watch([Opened(S, s, k) EXCEPT !.cl[c] = r], s, c)

LEMMA OpenForEffect ==
  ASSUME NEW S, Sized(S), NEW c \in Client, NEW s \in Unused(S), NEW k \in Kind,
         NEW r \in Record, s \in Fields(r),
         NEW T, T = OpenFor(S, c, s, k, r)
  PROVE  /\ Sized(T) /\ Puts(S, T, c, r)
         /\ Sound(S) /\ Blank(r) /\ Own(S, c) \subseteq Fields(r) => Sound(T)
         /\ /\ Linked(S, {})
            /\ Held(r) = Own(S, c) \cup {s}
            /\ Heard(r) = Heard(S.cl[c]) \cup {s}
            /\ Proper(r, [S.kernel EXCEPT ![s] = k])
            => Linked(T, {})
<1> DEFINE q == r
           U == Opened(S, s, k)
           V == [U EXCEPT !.cl[c] = q]
<1>1. /\ s \in Fd /\ S.cl \in [Client -> Record] /\ S.tree \in [Fd -> Client \cup {None}]
      /\ S.kernel \in [Fd -> Kind] /\ s # None /\ c # None
  BY OwnInFd, ConstantsAssumption DEF Unused
<1>2. /\ Sized(U) /\ U.kernel = [S.kernel EXCEPT ![s] = k]
      /\ U.fds = S.fds /\ U.nfds = S.nfds /\ U.tree = S.tree /\ U.cl = S.cl
  BY <1>1, OpenedEffect
<1>4. T = Watch(V, s, c)
  BY DEF OpenFor
<1> HIDE DEF U
<1>9. V = PutRecord(U, c, q)
  BY DEF PutRecord
<1>10. q \in Record /\ s \in Fields(q)
  OBVIOUS
<1> HIDE DEF V, q
<1>3. /\ Sized(V) /\ V.cl = [S.cl EXCEPT ![c] = q] /\ V.kernel = [S.kernel EXCEPT ![s] = k]
      /\ V.fds = S.fds /\ V.nfds = S.nfds /\ V.tree = S.tree
  <2>1. /\ Sized(V) /\ V.cl = [U.cl EXCEPT ![c] = q]
        /\ V.fds = U.fds /\ V.nfds = U.nfds /\ V.tree = U.tree /\ V.kernel = U.kernel
    <3>1. Sized(U)
      BY <1>2
    <3> QED
      BY <1>9, <1>10, <3>1, SetRecord
  <2> QED
    BY <1>2, <2>1
<1>5. /\ Sized(T) /\ T.cl = V.cl /\ T.kernel = V.kernel
      /\ T.tree = [V.tree EXCEPT ![s] = IF V.tree[s] = None THEN c ELSE V.tree[s]]
  BY <1>1, <1>3, <1>4, WatchSized
<1>6. Puts(S, T, c, q)
  BY <1>3, <1>5 DEF Puts
<1>7. ASSUME Sound(S), Blank(q), Own(S, c) \subseteq Fields(q)
      PROVE  Sound(T)
  <2>1. \A t \in Fd : \/ T.tree[t] = S.tree[t]
                      \/ T.tree[t] = c /\ t \in Fields(q)
    BY <1>1, <1>3, <1>5, <1>10 DEF Fields
  <2> QED
    <3>1. Sized(T) /\ Sound(S) /\ Blank(q) /\ q \in Record /\ Own(S, c) \subseteq Fields(q)
      BY <1>5, <1>7, <1>10
    <3> QED
      BY <1>6, <2>1, <3>1, SoundGain
<1>8. ASSUME Linked(S, {}),
             Held(q) = Own(S, c) \cup {s},
             Heard(q) = Heard(S.cl[c]) \cup {s},
             Proper(q, [S.kernel EXCEPT ![s] = k])
      PROVE  Linked(T, {})
  <2>1. /\ s \in Fd /\ s # Listener /\ s \notin PolledFds(S) /\ S.tree[s] = None
        /\ \A d \in Client : s \notin Own(S, d) /\ s \notin Heard(S.cl[d])
    BY <1>8, Fresh
  <2>2. Clean(V) /\ PolledFds(V) = PolledFds(S)
    <3>1. Clean(S) /\ V \in State /\ \A t \in PolledFds(S) : V.kernel[t] = S.kernel[t]
      BY <1>1, <1>3, <1>8, <2>1 DEF Linked, Sized
    <3> QED
      BY <1>3, <3>1, SameArray
  <2>3. Clean(T) /\ PolledFds(T) = PolledFds(S) \cup {s}
    BY <1>1, <1>4, <2>1, <2>2, WatchClean
  <2>4. /\ T.tree[s] = c /\ \A t \in Fd : t # s => T.tree[t] = S.tree[t]
        /\ T.kernel = [S.kernel EXCEPT ![s] = k]
        /\ \A t \in Fd : t # s => T.kernel[t] = S.kernel[t]
    BY <1>1, <1>3, <1>5, <2>1
  <2> DEFINE W == {s}
  <2>5. /\ Heard(q) = Heard(S.cl[c]) \cup W /\ W \in SUBSET {s} /\ PolledFds(T) = PolledFds(S) \cup W
        /\ T.tree[s] = IF s \in W THEN c ELSE None
        /\ Proper(q, T.kernel)
    BY <1>8, <2>3, <2>4
  <2> HIDE DEF W
  <2> QED
    <3>1. /\ Linked(S, {}) /\ q \in Record /\ Held(q) = Own(S, c) \cup {s}
          /\ \A t \in Fd : t # s => T.tree[t] = S.tree[t]
          /\ \A t \in Fd : t # s => T.kernel[t] = S.kernel[t]
          /\ s \notin Heard(S.cl[c]) /\ s # Listener /\ s \in Fd
          /\ \A d \in Client : d # c => s \notin Own(S, d)
          /\ Clean(T)
      BY <1>8, <1>10, <2>1, <2>3, <2>4
    <3> QED
      BY <1>6, <2>5, <3>1, Gain
<1> QED
  BY <1>5, <1>6, <1>7, <1>8 DEF q

\* The connection of a new client.
Admit(S, c, s) == OpenFor(S, c, s, "conn", [Freed EXCEPT !.ctl = s])

LEMMA AdmitEffect ==
  ASSUME NEW S, Sized(S), NEW c \in Client, S.cl[c].ctl = None, NEW s \in Unused(S),
         NEW T, T = Admit(S, c, s)
  PROVE  /\ Sized(T) /\ T.cl[c].ctl # None
         /\ (Sound(S) => Sound(T)) /\ (Coherent(S) => Coherent(T))
<1> DEFINE r == [Freed EXCEPT !.ctl = s]
           k == "conn"
<1>1. s \in Fd /\ s # None
  BY ConstantsAssumption DEF Unused
<1>2. /\ r \in Record /\ r.ctl = s /\ r.data = None /\ r.pasv = None /\ ~r.cb /\ ~r.handle
      /\ k \in Kind
  BY <1>1 DEF Freed, Record, Kind
<1>3. T = OpenFor(S, c, s, k, r)
  BY DEF Admit
<1> HIDE DEF r, k
<1>4. s \in Fields(r)
  BY <1>2 DEF Fields
<1>5. /\ Sized(T) /\ Puts(S, T, c, r)
      /\ Sound(S) /\ Blank(r) /\ Own(S, c) \subseteq Fields(r) => Sound(T)
      /\ /\ Linked(S, {})
         /\ Held(r) = Own(S, c) \cup {s}
         /\ Heard(r) = Heard(S.cl[c]) \cup {s}
         /\ Proper(r, [S.kernel EXCEPT ![s] = k])
         => Linked(T, {})
  BY <1>2, <1>3, <1>4, OpenForEffect
<1>6. S.cl \in [Client -> Record] /\ S.kernel \in [Fd -> Kind]
  BY OwnInFd
<1>7. T.cl[c] = r /\ \A d \in Client : d # c => T.cl[d] = S.cl[d]
  BY <1>5, <1>6 DEF Puts
<1>8. Blank(S.cl[c]) => Own(S, c) = {}
  BY DEF Blank, Own
<1>9. Sound(S) => Sound(T)
  BY <1>1, <1>2, <1>5, <1>8 DEF Sound, Blank
<1>10. ASSUME Coherent(S) PROVE Coherent(T)
  <2>1. Linked(S, {}) /\ Proper(S.cl[c], S.kernel)
    BY <1>10 DEF Coherent, Linked, Owns
  <2>2. Own(S, c) = {} /\ ~S.cl[c].cb
    <3>1. Own(S, c) = {}
      BY <2>1 DEF Proper, Own
    <3>2. ~S.cl[c].cb
      BY <2>1 DEF Proper
    <3> QED
      BY <3>1, <3>2
  <2>3. Heard(S.cl[c]) = {}
    BY <2>2 DEF Heard, Own
  <2>4. /\ Held(r) = Own(S, c) \cup {s}
        /\ Heard(r) = Heard(S.cl[c]) \cup {s}
    BY <1>1, <1>2, <2>2, <2>3 DEF Heard, Held, Fields
  <2>5. Proper(r, [S.kernel EXCEPT ![s] = k])
    BY <1>1, <1>2, <1>6 DEF Proper, k
  <2>6. Linked(T, {})
    BY <1>5, <2>1, <2>4, <2>5
  <2>7. Whole(r)
    BY <1>2 DEF Whole
  <2> QED
    BY <1>7, <1>10, <2>6, <2>7 DEF Coherent
<1> QED
  BY <1>1, <1>2, <1>5, <1>7, <1>9, <1>10

\* Every way ftpclient_data_pasv can end.
LEMMA DataPasvEffect ==
  ASSUME NEW S, Sized(S), NEW c \in Client, S.cl[c].ctl # None,
         NEW out \in ftpclient_data_pasv(S, c)
  PROVE  /\ Sized(out[1]) /\ (Sound(S) => Sound(out[1]))
         /\ out[1].cl[c].ctl = S.cl[c].ctl
         /\ Coherent(S) => Coherent(out[1])
<1>1. CASE S.cl[c].data # None
  BY <1>1 DEF ftpclient_data_pasv
<1>2. CASE S.cl[c].data = None
  <2> DEFINE U == DropPasv(S, c)
  <2>1. /\ Sized(U) /\ U.cl = [S.cl EXCEPT ![c] = [S.cl[c] EXCEPT !.pasv = None]]
        /\ (Sound(S) => Sound(U))
    BY DropPasvEffect
  <2>2. Linked(S, {}) => Linked(U, {})
    BY DropPasvEffect
  <2>3. \/ out = <<U, FALSE>>
        \/ \E s \in Unused(U) :
             out = <<Watch([Opened(U, s, "listen") EXCEPT !.cl[c].pasv = s], s, c), TRUE>>
    BY <1>2 DEF ftpclient_data_pasv
  <2> HIDE DEF U
  <2>4. S.cl \in [Client -> Record] /\ S.cl[c] \in Record
    BY OwnInFd
  <2>5. /\ U.cl[c].ctl = S.cl[c].ctl /\ U.cl[c].data = None /\ U.cl[c].pasv = None
        /\ (U.cl[c].handle <=> S.cl[c].handle) /\ (U.cl[c].cb <=> S.cl[c].cb)
        /\ \A d \in Client : d # c => U.cl[d] = S.cl[d]
    BY <1>2, <2>1, <2>4 DEF Record
  <2>6. Coherent(S) => Coherent(U)
    BY <2>2, <2>5 DEF Coherent, Whole
  <2>7. CASE out = <<U, FALSE>>
    BY <2>1, <2>5, <2>6, <2>7
  <2>8. ASSUME NEW s \in Unused(U),
               out = <<Watch([Opened(U, s, "listen") EXCEPT !.cl[c].pasv = s], s, c), TRUE>>
        PROVE  /\ Sized(out[1]) /\ (Sound(S) => Sound(out[1]))
               /\ out[1].cl[c].ctl = S.cl[c].ctl
               /\ Coherent(S) => Coherent(out[1])
    <3> DEFINE r == [U.cl[c] EXCEPT !.pasv = s]
               k == "listen"
               T == OpenFor(U, c, s, k, r)
    <3>1. s \in Fd /\ s # None /\ U.cl \in [Client -> Record] /\ U.cl[c] \in Record
          /\ U.kernel \in [Fd -> Kind]
      BY <2>1, OwnInFd, ConstantsAssumption DEF Unused
    <3>2. /\ r \in Record /\ r.ctl = U.cl[c].ctl /\ r.data = None /\ r.pasv = s
          /\ r.handle = U.cl[c].handle /\ r.cb = U.cl[c].cb
      BY <2>5, <3>1 DEF Record
    <3>3. out[1] = T
      <4>1. [Opened(U, s, k) EXCEPT !.cl[c].pasv = s] = [Opened(U, s, k) EXCEPT !.cl[c] = r]
        <5>1. Opened(U, s, k).cl = U.cl
          BY <2>1 DEF Opened, Sized, State
        <5> QED
          BY <5>1
      <4> QED
        BY <2>8, <4>1 DEF OpenFor
    <3>4. k \in Kind
      BY DEF Kind
    <3>10. T = OpenFor(U, c, s, k, r)
      OBVIOUS
    <3> HIDE DEF r, k, T
    <3>5. s \in Fields(r) /\ Sized(U) /\ r \in Record
      BY <2>1, <3>2 DEF Fields
    <3>6. /\ Sized(T) /\ Puts(U, T, c, r)
          /\ Sound(U) /\ Blank(r) /\ Own(U, c) \subseteq Fields(r) => Sound(T)
          /\ /\ Linked(U, {})
             /\ Held(r) = Own(U, c) \cup {s}
             /\ Heard(r) = Heard(U.cl[c]) \cup {s}
             /\ Proper(r, [U.kernel EXCEPT ![s] = k])
             => Linked(T, {})
      BY <3>4, <3>5, <3>10, OpenForEffect
    <3>7. T.cl[c] = r /\ \A d \in Client : d # c => T.cl[d] = U.cl[d]
      BY <3>1, <3>6 DEF Puts
    <3>8. Blank(r) /\ Own(U, c) \subseteq Fields(r)
      BY <2>5, <3>2 DEF Blank, Own, Fields
    <3>9. ASSUME Coherent(U) PROVE Coherent(T)
      <4>1. Linked(U, {}) /\ Owns(U) /\ Proper(U.cl[c], U.kernel) /\ Whole(U.cl[c])
        BY <3>9 DEF Coherent, Linked, Owns
      <4>2. s \notin Own(U, c)
        BY <4>1, Fresh
      <4>3. ~U.cl[c].cb
        BY <2>5, <4>1 DEF Proper
      <4>4. /\ Held(r) = Own(U, c) \cup {s}
            /\ Heard(r) = Heard(U.cl[c]) \cup {s}
        BY <2>5, <3>1, <3>2, <4>3 DEF Heard, Own, Held, Fields
      <4>5. Proper(r, [U.kernel EXCEPT ![s] = k])
        <5>1. U.cl[c].ctl # s /\ U.cl[c].ctl \in Fd /\ U.cl[c].ctl # None
          BY <2>5, <2>4, <3>1, <4>2 DEF Own, Record
        <5> QED
          BY <2>5, <3>1, <3>2, <4>1, <4>3, <5>1 DEF Proper, k
      <4>6. Whole(r)
        BY <2>5, <3>2, <4>1 DEF Whole
      <4> QED
        BY <3>6, <3>7, <3>9, <4>1, <4>4, <4>5, <4>6 DEF Coherent
    <3> QED
      BY <2>1, <2>5, <2>6, <3>2, <3>3, <3>6, <3>7, <3>8, <3>9
  <2> QED
    BY <2>3, <2>7, <2>8
<1> QED
  BY <1>1, <1>2

------------------------------------------------------------------------------
(* Writing revents. *)

\* Nothing but the values of revents, or slots behind nfds, is different.
LEMMA CoherentSame ==
  ASSUME NEW S, Coherent(S), NEW T, Clean(T), PolledFds(T) = PolledFds(S), SameButFds(S, T)
  PROVE  Coherent(T)
<1>1. Keys(T) = Keys(S) /\ Finds(T, {}) /\ Owns(T)
  BY DEF Coherent, Linked, SameButFds, Keys, Finds, Owns, Own
<1> QED
  BY <1>1 DEF Coherent, Linked, SameButFds

MarkAt(S, k) == [S EXCEPT !.fds[k].rev = "old"]

LEMMA MarkEffect ==
  ASSUME NEW S, Sized(S), NEW k \in 1..Len(S.fds),
         NEW T, T = MarkAt(S, k)
  PROVE  /\ Sized(T) /\ T.tree = S.tree /\ T.cl = S.cl /\ T.kernel = S.kernel
         /\ T.nfds = S.nfds /\ Len(T.fds) = Len(S.fds)
         /\ (Sound(S) => Sound(T)) /\ (Coherent(S) => Coherent(T))
<1> DEFINE x == [S.fds[k] EXCEPT !.rev = "old"]
           q == [S.fds EXCEPT ![k] = x]
           n == S.nfds
<1>1. S \in State /\ S.fds \in Seq(Slot) /\ S.nfds \in Nat /\ Len(S.fds) \in Nat /\ n <= Len(S.fds)
  BY DEF Sized, State
<1>2. S.fds[k] \in Slot
  BY <1>1, ElementOfSeq
<1>3. x \in Slot /\ x.fd = S.fds[k].fd /\ x.rev = "old"
  BY <1>2 DEF Slot, Revents
<1>4. T = [S EXCEPT !.fds = q, !.nfds = n]
  BY <1>1 DEF MarkAt, State
<1> HIDE DEF x
<1>5. /\ q \in Seq(Slot) /\ Len(q) = Len(S.fds)
      /\ \A j \in 1..Len(S.fds) : q[j] = IF j = k THEN x ELSE S.fds[j]
  BY <1>1, <1>3, ExceptSeq
<1> HIDE DEF q
<1>6. T \in State /\ T.fds = q /\ T.nfds = n /\ SameButFds(S, T)
  <2> HIDE DEF n
  <2>1. n \in Nat
    BY <1>1 DEF n
  <2> QED
    BY <1>1, <1>4, <1>5, <2>1, WithFds
<1>7. Sized(T)
  <2>1. S.nfds = 0 => q = <<>>
    <3>1. S.nfds = 0 => Len(S.fds) = 0
      BY <1>1, EmptySeq DEF Sized
    <3> QED
      BY <1>1, <1>5, <3>1, EmptySeq
  <2> QED
    BY <1>1, <1>5, <1>6, <2>1 DEF Sized
<1>8. \A j \in 1..n : T.fds[j].fd = S.fds[j].fd /\ (T.fds[j].rev = S.fds[j].rev \/ T.fds[j].rev = "old")
  BY <1>1, <1>3, <1>5, <1>6
<1>9. Sound(S) => Sound(T)
  <2>1. T.cl = S.cl /\ Shrinks(S, T)
    BY <1>6 DEF SameButFds, Shrinks
  <2> QED
    BY <1>7, <2>1, SoundSame
<1>10. ASSUME Coherent(S) PROVE Coherent(T)
  <2>1. Clean(S)
    BY <1>10 DEF Coherent, Linked
  <2>2. Distinct(T) /\ PolledFds(T) = PolledFds(S)
    BY <1>6, <1>8, <2>1 DEF Clean, Distinct, PolledFds
  <2>3. Quiet(T)
    BY <1>6, <1>8, <2>1 DEF Clean, Quiet, SameButFds
  <2>4. Clean(T)
    BY <1>7, <2>2, <2>3 DEF Clean
  <2> QED
    BY <1>6, <1>10, <2>2, <2>4, CoherentSame
<1> QED
  BY <1>5, <1>6, <1>7, <1>9, <1>10 DEF SameButFds

PutRevs(S, R) ==
  [S EXCEPT !.fds = [k \in 1..S.nfds |-> [S.fds[k] EXCEPT !.rev = R[k]]]]

LEMMA RevsEffect ==
  ASSUME NEW S, Sized(S), NEW R \in [1..S.nfds -> Revents],
         NEW T, T = PutRevs(S, R)
  PROVE  /\ Sized(T) /\ SameButFds(S, T) /\ T.nfds = S.nfds
         /\ (Sound(S) => Sound(T))
         /\ /\ Coherent(S)
            /\ \A k \in 1..S.nfds : /\ R[k] # "nval"
                                    /\ R[k] = "hup" => S.kernel[S.fds[k].fd] = "conn"
            => Coherent(T)
<1> DEFINE q == [k \in 1..S.nfds |-> [S.fds[k] EXCEPT !.rev = R[k]]]
           n == S.nfds
<1>1. S \in State /\ S.fds \in Seq(Slot) /\ S.nfds \in Nat /\ Len(S.fds) \in Nat /\ n <= Len(S.fds)
  BY DEF Sized, State
<1>2. \A k \in 1..n : S.fds[k] \in Slot
  <2>1. \A k \in 1..n : k \in 1..Len(S.fds)
    BY <1>1
  <2> QED
    BY <1>1, <2>1, ElementOfSeq
<1>3. \A k \in 1..n : q[k] \in Slot /\ q[k].fd = S.fds[k].fd /\ q[k].rev = R[k]
  BY <1>2 DEF Slot
<1>4. q \in Seq(Slot) /\ Len(q) = n
  <2>1. q \in [1..n -> Slot]
    BY <1>3
  <2> HIDE DEF q
  <2>2. q \in Seq(Slot)
    BY <1>1, <2>1, SeqDef
  <2>3. DOMAIN q = 1..n /\ DOMAIN q = 1..Len(q) /\ Len(q) \in Nat
    BY <2>1, <2>2, LenProperties
  <2> QED
    BY <1>1, <2>2, <2>3
<1>5. T = [S EXCEPT !.fds = q, !.nfds = n]
  BY <1>1 DEF PutRevs, State
<1> HIDE DEF q
<1>6. T \in State /\ T.fds = q /\ T.nfds = n /\ SameButFds(S, T)
  <2> HIDE DEF n
  <2>1. n \in Nat
    BY <1>1 DEF n
  <2>2. S \in State /\ q \in Seq(Slot)
    BY <1>1, <1>4
  <2> QED
    BY <1>5, <2>1, <2>2, WithFds
<1>7. Sized(T)
  <2>1. n = 0 => q = <<>>
    BY <1>4, EmptySeq
  <2> QED
    BY <1>1, <1>4, <1>6, <2>1 DEF Sized
<1>8. Sound(S) => Sound(T)
  <2>1. T.cl = S.cl /\ Shrinks(S, T)
    BY <1>6 DEF SameButFds, Shrinks
  <2> QED
    BY <1>7, <2>1, SoundSame
<1>9. ASSUME Coherent(S),
             \A k \in 1..n : /\ R[k] # "nval"
                             /\ R[k] = "hup" => S.kernel[S.fds[k].fd] = "conn"
      PROVE  Coherent(T)
  <2>1. Clean(S)
    BY <1>9 DEF Coherent, Linked
  <2>2. Distinct(T) /\ PolledFds(T) = PolledFds(S)
    BY <1>3, <1>6, <2>1 DEF Clean, Distinct, PolledFds
  <2>3. Quiet(T)
    BY <1>3, <1>6, <1>9 DEF Quiet, SameButFds
  <2>4. Clean(T)
    BY <1>7, <2>2, <2>3 DEF Clean
  <2> QED
    BY <1>6, <1>9, <2>2, <2>4, CoherentSame
<1> QED
  BY <1>6, <1>7, <1>8, <1>9

LEMMA SettledEffect ==
  ASSUME NEW S, Sized(S), NEW T, T = Settled(S)
  PROVE  /\ Sized(T) /\ SameButFds(S, T)
         /\ (Sound(S) => Sound(T)) /\ (Coherent(S) => Coherent(T))
<1> DEFINE R == [k \in 1..S.nfds |-> "none"]
<1>1. R \in [1..S.nfds -> Revents]
  BY DEF Revents, Polled
<1>2. \A k \in 1..S.nfds : R[k] = "none"
  OBVIOUS
<1>3. T = PutRevs(S, R)
  BY DEF Settled, PutRevs
<1> HIDE DEF R
<1> QED
  BY <1>1, <1>2, <1>3, RevsEffect

------------------------------------------------------------------------------
(* The inductive invariants. *)

PcValues    == {"created", "poll", "scan", "shutdown", "stopped", "destroyed", "crashed"}
FaultValues == {"none", "junk", "oob", "null", "uaf"}

\* Holds of every execution.
Basic == /\ Sound(srv)
         /\ pc \in PcValues /\ fault \in FaultValues
         /\ i \in Nat /\ p \in Nat /\ stop \in BOOLEAN

\* srv before ftpserv_run.
Unstarted(S) == /\ S.nfds = 0 /\ S.fds = <<>>
                /\ \A s \in Fd : S.tree[s] = None
                /\ \A c \in Client : S.cl[c] = Freed
                /\ \A s \in Fd : S.kernel[s] = IF s = Listener THEN "listen" ELSE "closed"

\* srv after ftpserv_destroy.
Released(S) == /\ \A s \in Fd : S.kernel[s] = "closed"
               /\ \A c \in Client : S.cl[c].ctl = None /\ ~S.cl[c].handle /\ ~S.cl[c].cb

\* Holds as long as no undefined behaviour has occurred.
Kept == fault = "none" =>
          /\ pc # "crashed"
          /\ pc = "created" => Unstarted(srv)
          /\ pc \in {"poll", "scan", "shutdown", "stopped"} => Coherent(srv)
          /\ pc = "stopped" => Keys(srv) = {}
          /\ pc = "destroyed" => Released(srv)

\* A turn of the inner loop: where it looks is inside the array.
LEMMA InArray ==
  ASSUME Basic, Scanning, i <= Len(srv.fds)
  PROVE  /\ i \in 1..Len(srv.fds) /\ Sock \in Fd /\ srv.fds[i].rev \in Revents
         /\ Sized(srv) /\ srv.nfds \in Nat
<1>1. Sized(srv) /\ i \in Nat /\ i > 0
  BY DEF Basic, Sound, Scanning
<1>2. srv.fds \in Seq(Slot) /\ Len(srv.fds) \in Nat /\ srv.nfds \in Nat
  BY <1>1 DEF Sized, State
<1>3. i \in 1..Len(srv.fds)
  BY <1>1, <1>2
<1>4. srv.fds[i] \in Slot
  BY <1>2, <1>3, ElementOfSeq
<1> QED
  BY <1>1, <1>2, <1>3, <1>4 DEF Sock, Slot

LEMMA MarkedEffect ==
  ASSUME Basic, Scanning, i <= Len(srv.fds)
  PROVE  /\ Sized(Marked) /\ Sound(Marked) /\ (Coherent(srv) => Coherent(Marked))
         /\ Marked.tree = srv.tree /\ Marked.cl = srv.cl /\ Marked.kernel = srv.kernel
         /\ Marked.nfds = srv.nfds /\ Len(Marked.fds) = Len(srv.fds)
<1>1. Marked = MarkAt(srv, i)
  BY DEF Marked, MarkAt
<1>2. i \in 1..Len(srv.fds) /\ Sized(srv) /\ Sound(srv)
  BY InArray DEF Basic
<1> QED
  BY <1>1, <1>2, MarkEffect

\* NoStaleLookup at the slot in hand: the client found owns the descriptor.
LEMMA OwnerFound ==
  ASSUME Basic, Scanning, i <= Len(srv.fds), Owner # None
  PROVE  /\ Owner \in Client /\ Sock \in Own(srv, Owner)
         /\ srv.cl[Owner].ctl # None /\ Marked.cl[Owner].ctl # None
<1>1. Sock \in Fd /\ Sound(srv) /\ Sized(srv)
  BY InArray DEF Basic
<1>2. srv.tree \in [Fd -> Client \cup {None}]
  BY <1>1 DEF Sized, State
<1>3. Owner \in Client
  BY <1>1, <1>2 DEF Owner
<1>4. Sock \in Own(srv, Owner)
  BY <1>1, <1>3 DEF Sound, Found, Owner
<1>5. srv.cl[Owner].ctl # None
  BY <1>1, <1>3, <1>4 DEF Sound, Blank, Own
<1> QED
  BY <1>3, <1>4, <1>5, MarkedEffect

\* An event that no undefined behaviour precedes is at a live slot and was
\* written by poll, or handled before in this pass.
LEMMA NotedNone ==
  ASSUME Basic, Scanning, i <= Len(srv.fds), Noted = "none"
  PROVE  /\ fault = "none" /\ i \in 1..srv.nfds /\ srv.fds[i].rev # "junk"
         /\ Sock \in PolledFds(srv)
<1>1. srv.nfds \in Nat /\ i \in Nat /\ i > 0
  BY InArray DEF Basic, Scanning
<1>2. fault = "none" /\ ~(i > srv.nfds) /\ srv.fds[i].rev # "junk"
  BY DEF Noted
<1>3. i \in 1..srv.nfds
  BY <1>1, <1>2
<1> QED
  BY <1>2, <1>3 DEF Sock, PolledFds

LEMMA NotedType ==
  ASSUME Basic
  PROVE  Noted \in FaultValues
BY DEF Basic, Noted, FaultValues

\* The descriptors in hand while everything is coherent.
LEMMA SockKnown ==
  ASSUME Basic, Scanning, i <= Len(srv.fds), Noted = "none", Coherent(srv)
  PROVE  /\ Sock = Listener \/ Owner # None
         /\ srv.fds[i].rev # "nval"
         /\ srv.fds[i].rev = "hup" => srv.kernel[Sock] = "conn"
<1>1. i \in 1..srv.nfds /\ Sock \in PolledFds(srv)
  BY NotedNone
<1>2. Quiet(srv) /\ PolledFds(srv) = Keys(srv) \cup {Listener}
  BY DEF Coherent, Linked, Clean
<1> QED
  BY <1>1, <1>2 DEF Quiet, Sock, Owner, Keys

------------------------------------------------------------------------------
(* One step of the server. *)

\* The end of a handler that may have given the transfer up before it replies.
LEMMA ReplyAfter ==
  ASSUME NEW S, Sound(S), NEW c \in Client, S.cl[c].ctl # None, NEW ok, NEW sent \in BOOLEAN,
         NEW T, T = ftpclient_send_message(IF ok THEN S ELSE ftpclient_data_end(S, c), c, sent)
  PROVE  /\ Sound(T)
         /\ ok /\ Coherent(S) => Coherent(T)
         /\ ~ok /\ Linked(S, {}) /\ (\A d \in Client : d # c => Whole(S.cl[d])) => Coherent(T)
<1>1. Sized(S)
  BY DEF Sound
<1>2. CASE ok
  <2>1. T = ftpclient_send_message(S, c, sent)
    BY <1>2
  <2> QED
    BY <1>1, <1>2, <2>1, SendEffect
<1>3. CASE ~ok
  <2> DEFINE U == ftpclient_data_end(S, c)
  <2>1. T = ftpclient_send_message(U, c, sent)
    BY <1>3
  <2>2. Sized(U) /\ Sound(U) /\ U.cl[c].ctl # None
    BY <1>1, DataEndEffect
  <2>3. Linked(S, {}) /\ (\A d \in Client : d # c => Whole(S.cl[d])) => Coherent(U)
    BY DataEndCoherent
  <2> HIDE DEF U
  <2>4. Sound(T) /\ (Coherent(U) => Coherent(T))
    BY <2>1, <2>2, SendEffect
  <2> QED
    BY <1>3, <2>3, <2>4
<1> QED
  BY <1>2, <1>3

LEMMA CoherentParts ==
  ASSUME NEW S, Coherent(S), NEW c \in Client
  PROVE  Linked(S, {}) /\ Whole(S.cl[c]) /\ (\A d \in Client : d # c => Whole(S.cl[d]))
BY DEF Coherent

\* The loop closes a descriptor it finds nobody for.
CloseAndRemove(S, s, k) == pollfd_array_remove(Closed(S, s), k)

LEMMA CloseAndRemoveSound ==
  ASSUME NEW S, Sound(S), NEW s \in Fd, NEW k \in 1..Len(S.fds),
         NEW T, T = CloseAndRemove(S, s, k)
  PROVE  Sound(T)
<1> DEFINE U == Closed(S, s)
<1>1. Sized(S)
  BY DEF Sound
<1>2. /\ Sized(U) /\ U.kernel = [S.kernel EXCEPT ![s] = "closed"]
      /\ U.fds = S.fds /\ U.nfds = S.nfds /\ U.tree = S.tree /\ U.cl = S.cl
  BY <1>1, ClosedEffect
<1>3. T = pollfd_array_remove(U, k)
  BY DEF CloseAndRemove
<1> HIDE DEF U
<1>4. Sound(U)
  <2>1. Shrinks(S, U)
    BY <1>2 DEF Shrinks
  <2> QED
    BY <1>2, <2>1, SoundSame
<1>5. k \in 1..Len(U.fds) /\ U.nfds > 0
  <2>1. U.fds \in Seq(Slot) /\ U.nfds \in Nat /\ Len(U.fds) \in Nat
    BY <1>2 DEF Sized, State
  <2>2. U.nfds = 0 => Len(U.fds) = 0
    BY <1>2, <2>1, EmptySeq DEF Sized
  <2> QED
    BY <1>2, <2>1, <2>2
<1>6. Sized(T) /\ SameButFds(U, T)
  BY <1>2, <1>3, <1>5, ArrayRemove
<1>7. T.cl = U.cl /\ Shrinks(U, T)
  BY <1>6 DEF SameButFds, Shrinks
<1> QED
  BY <1>4, <1>6, <1>7, SoundSame

LEMMA DropSound ==
  ASSUME NEW S, Sound(S), NEW s \in Fd,
         NEW T, T = Drop(S, s)
  PROVE  Sound(T)
<1>1. Sized(S) /\ s # None
  BY ConstantsAssumption DEF Sound
<1>2. /\ Sized(T) /\ T.cl = S.cl
      /\ s = None => T = S
      /\ s # None => /\ T.tree = [S.tree EXCEPT ![s] = None]
                     /\ T.kernel = [S.kernel EXCEPT ![s] = "closed"]
      /\ Clean(S) => Clean(T) /\ PolledFds(T) = PolledFds(S) \ {s}
  BY <1>1, DropEffect
<1>3. S.tree \in [Fd -> Client \cup {None}]
  BY <1>1 DEF Sized, State
<1>4. Shrinks(S, T)
  BY <1>2, <1>3 DEF Shrinks
<1> QED
  BY <1>2, <1>4, SoundSame

\* What a turn of the inner loop leaves, T, is as good as what it found.
Good(T) == Sound(T) /\ (Noted = "none" /\ Coherent(srv) => Coherent(T))

LEMMA InvalidSocketGood ==
  ASSUME Basic, Scanning, i <= Len(srv.fds), "nval" \in Read(srv.fds[i].rev),
         NEW T, T = pollfd_array_remove(Marked, i)
  PROVE  Good(T)
<1>1. /\ Sound(Marked) /\ Sized(Marked) /\ i \in 1..Len(Marked.fds)
  BY MarkedEffect, InArray
<1>2. Marked.nfds > 0
  <2>1. Marked.fds \in Seq(Slot) /\ Marked.nfds \in Nat /\ Len(Marked.fds) \in Nat
    BY <1>1 DEF Sized, State
  <2>2. Marked.nfds = 0 => Len(Marked.fds) = 0
    BY <1>1, <2>1, EmptySeq DEF Sized
  <2> QED
    BY <1>1, <2>1, <2>2
<1>3. Sized(T) /\ SameButFds(Marked, T)
  BY <1>1, <1>2, ArrayRemove
<1>4. Sound(T)
  <2>1. T.cl = Marked.cl /\ Shrinks(Marked, T)
    BY <1>3 DEF SameButFds, Shrinks
  <2> QED
    BY <1>1, <1>3, <2>1, SoundSame
<1>5. ~(Noted = "none" /\ Coherent(srv))
  <2> SUFFICES ASSUME Noted = "none", Coherent(srv) PROVE FALSE
    OBVIOUS
  <2>1. srv.fds[i].rev # "nval" /\ srv.fds[i].rev # "junk"
    BY SockKnown, NotedNone
  <2> QED
    BY <2>1 DEF Read
<1> QED
  BY <1>4, <1>5 DEF Good

LEMMA OrphanGood ==
  ASSUME Basic, Scanning, i <= Len(srv.fds), Sock # Listener, Owner = None,
         NEW T, T = pollfd_array_remove(Closed(Marked, Sock), i)
  PROVE  Good(T)
<1>1. Sound(Marked) /\ i \in 1..Len(Marked.fds) /\ Sock \in Fd
  BY MarkedEffect, InArray
<1>2. T = CloseAndRemove(Marked, Sock, i)
  BY DEF CloseAndRemove
<1>3. Sound(T)
  BY <1>1, <1>2, CloseAndRemoveSound
<1>4. ~(Noted = "none" /\ Coherent(srv))
  BY SockKnown
<1> QED
  BY <1>3, <1>4 DEF Good

LEMMA AcceptGood ==
  ASSUME Basic, Scanning, i <= Len(srv.fds),
         NEW s \in Unused(srv), NEW c \in Client, ~Alive(srv, c), NEW sent \in BOOLEAN,
         NEW T, T = ftpclient_send_message(Admit(Marked, c, s), c, sent)
  PROVE  Good(T)
<1> DEFINE U == Admit(Marked, c, s)
<1>1. /\ Sized(Marked) /\ Sound(Marked) /\ (Coherent(srv) => Coherent(Marked))
      /\ Marked.cl[c].ctl = None /\ s \in Unused(Marked)
  <2>1. /\ Sized(Marked) /\ Sound(Marked) /\ (Coherent(srv) => Coherent(Marked))
        /\ Marked.cl = srv.cl /\ Marked.kernel = srv.kernel
    BY MarkedEffect
  <2>2. srv.cl[c].ctl = None
    BY DEF Alive
  <2>3. s \in Unused(Marked)
    BY <2>1 DEF Unused
  <2> QED
    BY <2>1, <2>2, <2>3
<1>2. Sized(U) /\ U.cl[c].ctl # None /\ Sound(U) /\ (Coherent(Marked) => Coherent(U))
  BY <1>1, AdmitEffect
<1> HIDE DEF U
<1>3. Sound(T) /\ (Coherent(U) => Coherent(T))
  BY <1>2, SendEffect DEF U
<1> QED
  BY <1>1, <1>2, <1>3 DEF Good

LEMMA HangUpGood ==
  ASSUME Basic, Scanning, i <= Len(srv.fds), "hup" \in Read(srv.fds[i].rev), Owner # None,
         NEW T, T = IF Sock = srv.cl[Owner].data THEN ftpclient_data_end(Marked, Owner)
                    ELSE ftpclient_disconnect(Marked, Owner, Sock)
  PROVE  Good(T)
<1>1. /\ Sized(Marked) /\ Sound(Marked) /\ (Coherent(srv) => Coherent(Marked))
      /\ Marked.cl = srv.cl
  BY MarkedEffect
<1>2. /\ Owner \in Client /\ Sock \in Own(srv, Owner)
      /\ srv.cl[Owner].ctl # None /\ Marked.cl[Owner].ctl # None /\ Sock \in Fd
  BY OwnerFound, InArray
<1>3. CASE Sock = srv.cl[Owner].data
  <2>1. T = ftpclient_data_end(Marked, Owner)
    BY <1>3
  <2>2. Sound(T)
    BY <1>1, <1>2, <2>1, DataEndEffect
  <2>3. Coherent(Marked) => Coherent(T)
    BY <1>2, <2>1, DataEndCoherent, CoherentParts
  <2> QED
    BY <1>1, <2>2, <2>3 DEF Good
<1>4. CASE Sock # srv.cl[Owner].data /\ Sock = srv.cl[Owner].ctl
  <2>1. T = ftpclient_disconnect(Marked, Owner, Marked.cl[Owner].ctl)
    BY <1>1, <1>4
  <2>2. Sound(T) /\ (Coherent(Marked) => Coherent(T))
    BY <1>1, <1>2, <2>1, DisconnectEffect, DisconnectCoherent
  <2> QED
    BY <1>1, <2>2 DEF Good
<1>5. CASE Sock # srv.cl[Owner].data /\ Sock # srv.cl[Owner].ctl
  <2>1. T = Drop(Marked, Sock)
    BY <1>1, <1>5 DEF ftpclient_disconnect
  <2>3. Sound(T)
    BY <1>1, <1>2, <2>1, DropSound
  <2>4. ~(Noted = "none" /\ Coherent(srv))
    <3> SUFFICES ASSUME Noted = "none", Coherent(srv) PROVE FALSE
      OBVIOUS
    <3>1. srv.fds[i].rev = "hup"
      BY NotedNone DEF Read
    <3>2. srv.kernel[Sock] = "conn"
      BY <3>1, SockKnown
    <3>3. Proper(srv.cl[Owner], srv.kernel) /\ Sock = srv.cl[Owner].pasv /\ Sock # None
      BY <1>2, <1>5 DEF Coherent, Linked, Owns, Own
    <3> QED
      BY <3>2, <3>3 DEF Proper
  <2> QED
    BY <2>3, <2>4 DEF Good
<1> QED
  BY <1>3, <1>4, <1>5

(* ftpclient_event: a client that is found by the tree, about to be handled. *)

InHand == /\ Sound(Marked) /\ (Coherent(srv) => Coherent(Marked))
          /\ Owner \in Client /\ Marked.cl[Owner].ctl # None /\ Marked.cl = srv.cl

LEMMA EventFound ==
  ASSUME Basic, Scanning, i <= Len(srv.fds), Owner # None
  PROVE  InHand
BY MarkedEffect, OwnerFound DEF InHand

\* No reply, or one that may be lost, after nothing or after ftpclient_data_end.
LEMMA ReplyGood ==
  ASSUME InHand, NEW sent \in BOOLEAN, NEW T,
         \/ T = Marked
         \/ T = ftpclient_send_message(Marked, Owner, sent)
         \/ T = ftpclient_data_end(Marked, Owner)
         \/ T = ftpclient_send_message(ftpclient_data_end(Marked, Owner), Owner, sent)
  PROVE  Good(T)
<1> DEFINE S == Marked
           c == Owner
<1>1. /\ Sound(S) /\ (Coherent(srv) => Coherent(S)) /\ c \in Client /\ S.cl[c].ctl # None
      /\ Sized(S)
  BY DEF InHand, Sound
<1>2. \/ T = S
      \/ T = ftpclient_send_message(S, c, sent)
      \/ T = ftpclient_data_end(S, c)
      \/ T = ftpclient_send_message(ftpclient_data_end(S, c), c, sent)
  OBVIOUS
<1> HIDE DEF S, c
<1>3. CASE T = S
  BY <1>1, <1>3 DEF Good
<1>4. CASE T = ftpclient_send_message(S, c, sent)
  <2>1. Sized(T) /\ (Sound(S) => Sound(T)) /\ (Coherent(S) => Coherent(T))
    BY <1>1, <1>4, SendEffect
  <2> QED
    BY <1>1, <2>1 DEF Good
<1>5. CASE T = ftpclient_data_end(S, c)
  <2>1. Sound(T)
    BY <1>1, <1>5, DataEndEffect
  <2>2. Coherent(S) => Coherent(T)
    BY <1>1, <1>5, DataEndCoherent, CoherentParts
  <2> QED
    BY <1>1, <2>1, <2>2 DEF Good
<1>6. CASE T = ftpclient_send_message(ftpclient_data_end(S, c), c, sent)
  <2> DEFINE ok == FALSE
  <2>1. T = ftpclient_send_message(IF ok THEN S ELSE ftpclient_data_end(S, c), c, sent)
    BY <1>6
  <2>2. ~ok
    OBVIOUS
  <2> HIDE DEF ok
  <2>3. /\ Sound(T)
        /\ ok /\ Coherent(S) => Coherent(T)
        /\ ~ok /\ Linked(S, {}) /\ (\A d \in Client : d # c => Whole(S.cl[d])) => Coherent(T)
    BY <1>1, <2>1, ReplyAfter
  <2> QED
    BY <1>1, <2>2, <2>3, CoherentParts DEF Good
<1> QED
  BY <1>2, <1>3, <1>4, <1>5, <1>6

\* The client closes its control connection or asks to.
LEMMA LeaveGood ==
  ASSUME InHand, Sock = srv.cl[Owner].ctl,
         NEW T, T = ftpclient_disconnect(Marked, Owner, Sock)
  PROVE  Good(T)
<1> DEFINE S == Marked
           c == Owner
<1>1. /\ Sound(S) /\ (Coherent(srv) => Coherent(S)) /\ c \in Client /\ S.cl[c].ctl # None
      /\ Sized(S)
  BY DEF InHand, Sound
<1>2. T = ftpclient_disconnect(S, c, S.cl[c].ctl)
  BY DEF InHand
<1> HIDE DEF S, c
<1>3. /\ Sized(T) /\ T.cl[c] = Freed
      /\ \A d \in Client : d # c => T.cl[d] = S.cl[d]
      /\ Sound(S) => Sound(T)
      /\ Linked(S, {}) => Linked(T, {})
  BY <1>1, <1>2, DisconnectEffect
<1>4. Coherent(S) => Coherent(T)
  BY <1>1, <1>2, DisconnectCoherent
<1> QED
  BY <1>1, <1>3, <1>4 DEF Good

LEMMA PasvEventGood ==
  ASSUME InHand,
         NEW U \in IF srv.cl[Owner].data = None THEN AcceptData(Marked, Owner) ELSE {Marked},
         NEW T, T = DropPasv(U, Owner)
  PROVE  Good(T)
<1> DEFINE S == Marked
           c == Owner
<1>1. /\ Sound(S) /\ (Coherent(srv) => Coherent(S)) /\ c \in Client /\ S.cl[c].ctl # None
      /\ Sized(S)
  BY DEF InHand, Sound
<1>2. /\ T = DropPasv(U, c)
      /\ \/ S.cl[c].data = None /\ U \in AcceptData(S, c)
         \/ U = S
  BY DEF InHand
<1> HIDE DEF S, c
<1>3. /\ Sized(U) /\ Sound(U)
      /\ U.cl[c].cb = S.cl[c].cb /\ U.cl[c].handle = S.cl[c].handle
      /\ \A d \in Client : d # c => U.cl[d] = S.cl[d]
      /\ Linked(S, {}) => Linked(U, {})
  <2>1. CASE U = S
    BY <1>1, <2>1
  <2>2. CASE S.cl[c].data = None /\ U \in AcceptData(S, c)
    <3>1. /\ Sized(U) /\ (Sound(S) => Sound(U))
          /\ U.cl[c].ctl = S.cl[c].ctl /\ U.cl[c].pasv = S.cl[c].pasv
          /\ U.cl[c].cb = S.cl[c].cb /\ U.cl[c].handle = S.cl[c].handle
          /\ \A d \in Client : d # c => U.cl[d] = S.cl[d]
          /\ Linked(S, {}) => Linked(U, {})
      BY <1>1, <2>2, AcceptDataEffect
    <3> QED
      BY <1>1, <3>1
  <2> QED
    BY <1>2, <2>1, <2>2
<1>4. /\ Sized(T) /\ T.cl = [U.cl EXCEPT ![c] = [U.cl[c] EXCEPT !.pasv = None]]
      /\ Shrinks(U, T) /\ (Sound(U) => Sound(T))
      /\ \A X : Linked(U, X) => Linked(T, X)
  <2>1. Sized(U)
    BY <1>3
  <2> QED
    BY <1>1, <1>2, <2>1, DropPasvEffect
<1>5. ASSUME Coherent(S) PROVE Coherent(T)
  <2>1. Linked(T, {})
    BY <1>3, <1>4, <1>5 DEF Coherent
  <2>2. U.cl \in [Client -> Record] /\ U.cl[c] \in Record
    BY <1>1, <1>3, OwnInFd
  <2>3. /\ T.cl[c].pasv = None /\ T.cl[c].cb = U.cl[c].cb /\ T.cl[c].handle = U.cl[c].handle
        /\ \A d \in Client : d # c => T.cl[d] = U.cl[d]
    BY <1>1, <1>4, <2>2 DEF Record
  <2> QED
    BY <1>3, <1>5, <2>1, <2>3 DEF Coherent, Whole
<1> QED
  BY <1>1, <1>3, <1>4, <1>5 DEF Good

LEMMA PasvGood ==
  ASSUME InHand, NEW out \in ftpclient_data_pasv(Marked, Owner), NEW sent \in BOOLEAN,
         NEW T, T = ftpclient_send_message(
                      IF out[2] THEN out[1] ELSE ftpclient_data_end(out[1], Owner), Owner, sent)
  PROVE  Good(T)
<1> DEFINE S == Marked
           c == Owner
           U == out[1]
           ok == out[2]
<1>1. /\ Sound(S) /\ (Coherent(srv) => Coherent(S)) /\ c \in Client /\ S.cl[c].ctl # None
      /\ Sized(S) /\ out \in ftpclient_data_pasv(S, c)
  BY DEF InHand, Sound
<1>2. T = ftpclient_send_message(IF ok THEN U ELSE ftpclient_data_end(U, c), c, sent)
  OBVIOUS
<1>3. /\ Sized(U) /\ (Sound(S) => Sound(U)) /\ U.cl[c].ctl = S.cl[c].ctl
      /\ Coherent(S) => Coherent(U)
  <2> HIDE DEF S, c, ok
  <2> QED
    BY <1>1, DataPasvEffect
<1> HIDE DEF S, c, U, ok
<1>4. Sound(U) /\ U.cl[c].ctl # None
  BY <1>1, <1>3
<1>5. /\ Sound(T)
      /\ ok /\ Coherent(U) => Coherent(T)
      /\ ~ok /\ Linked(U, {}) /\ (\A d \in Client : d # c => Whole(U.cl[d])) => Coherent(T)
  BY <1>1, <1>2, <1>4, ReplyAfter
<1> QED
  BY <1>1, <1>3, <1>5, CoherentParts DEF Good

\* The file or directory of client c is open.
OpenHandle(S, c) == [S EXCEPT !.cl[c].handle = TRUE]

LEMMA OpenHandleEffect ==
  ASSUME NEW S, Sound(S), NEW c \in Client, NEW T, T = OpenHandle(S, c)
  PROVE  /\ Sized(T) /\ Sound(T) /\ T.cl[c] = [S.cl[c] EXCEPT !.handle = TRUE]
         /\ \A d \in Client : d # c => T.cl[d] = S.cl[d]
         /\ Linked(S, {}) => Linked(T, {})
<1> DEFINE r == [S.cl[c] EXCEPT !.handle = TRUE]
<1>1. Sized(S) /\ S.cl \in [Client -> Record] /\ S.cl[c] \in Record
  BY OwnInFd DEF Sound
<1>2. /\ r \in Record /\ r.ctl = S.cl[c].ctl /\ r.data = S.cl[c].data
      /\ r.pasv = S.cl[c].pasv /\ r.cb = S.cl[c].cb
  BY <1>1 DEF Record
<1>3. T = PutRecord(S, c, r)
  BY DEF OpenHandle, PutRecord
<1>4. T.cl[c] = r => T.cl[c] = [S.cl[c] EXCEPT !.handle = TRUE]
  OBVIOUS
<1> HIDE DEF r
<1>5. /\ Sized(T) /\ T.cl = [S.cl EXCEPT ![c] = r]
      /\ T.fds = S.fds /\ T.nfds = S.nfds /\ T.tree = S.tree /\ T.kernel = S.kernel
  BY <1>1, <1>2, <1>3, SetRecord
<1>6. T.cl[c] = r /\ \A d \in Client : d # c => T.cl[d] = S.cl[d]
  BY <1>1, <1>5
<1>7. \A d \in Client : /\ Own(T, d) = Own(S, d) /\ Heard(T.cl[d]) = Heard(S.cl[d])
                        /\ Blank(S.cl[d]) => Blank(T.cl[d])
                        /\ Proper(S.cl[d], S.kernel) => Proper(T.cl[d], S.kernel)
  BY <1>2, <1>6 DEF Own, Heard, Blank, Proper
<1>8. Sound(T)
  BY <1>5, <1>7 DEF Sound, Found
<1>9. ASSUME Linked(S, {}) PROVE Linked(T, {})
  <2>1. Clean(T) /\ PolledFds(T) = PolledFds(S)
    <3>1. Clean(S) /\ T \in State
      BY <1>5, <1>9 DEF Linked, Sized
    <3> QED
      BY <1>5, <3>1, SameArray
  <2>2. Finds(T, {})
    BY <1>5, <1>7, <1>9 DEF Linked, Finds
  <2>3. Owns(T)
    BY <1>5, <1>7, <1>9 DEF Linked, Owns
  <2>4. Keys(T) = Keys(S)
    BY <1>5 DEF Keys
  <2> QED
    BY <1>9, <2>1, <2>2, <2>3, <2>4 DEF Linked
<1> QED
  BY <1>4, <1>5, <1>6, <1>8, <1>9

LEMMA TransferGood ==
  ASSUME InHand, ~srv.cl[Owner].handle,
         NEW out \in ftpclient_data_start(OpenHandle(Marked, Owner), Owner), NEW sent \in BOOLEAN,
         NEW T, T = ftpclient_send_message(
                      IF out[2] THEN out[1] ELSE ftpclient_data_end(out[1], Owner), Owner, sent)
  PROVE  Good(T)
<1> DEFINE S == Marked
           c == Owner
           H == OpenHandle(S, c)
           U == out[1]
           ok == out[2]
<1>1. /\ Sound(S) /\ (Coherent(srv) => Coherent(S)) /\ c \in Client /\ S.cl[c].ctl # None
      /\ Sized(S) /\ ~S.cl[c].handle
  BY DEF InHand, Sound
<1>2. /\ T = ftpclient_send_message(IF ok THEN U ELSE ftpclient_data_end(U, c), c, sent)
      /\ out \in ftpclient_data_start(H, c)
  OBVIOUS
<1> HIDE DEF S, c, ok
<1>3. /\ Sized(H) /\ Sound(H) /\ H.cl[c] = [S.cl[c] EXCEPT !.handle = TRUE]
      /\ \A d \in Client : d # c => H.cl[d] = S.cl[d]
      /\ Linked(S, {}) => Linked(H, {})
  BY <1>1, OpenHandleEffect
<1> HIDE DEF H
<1>4. S.cl[c] \in Record
  BY <1>1, OwnInFd
<1>5. /\ H.cl[c].handle /\ H.cl[c].cb = S.cl[c].cb /\ H.cl[c].ctl # None
      /\ H.cl[c].data = S.cl[c].data /\ H.cl[c].pasv = S.cl[c].pasv
  BY <1>1, <1>3, <1>4 DEF Record
<1>6. /\ Sized(U) /\ (Sound(H) => Sound(U))
      /\ U.cl[c].ctl = H.cl[c].ctl
      /\ \A d \in Client : d # c => U.cl[d] = H.cl[d]
      /\ Linked(H, {}) /\ ~H.cl[c].cb => Linked(U, {})
      /\ ok => /\ U.cl[c].cb /\ (U.cl[c].handle <=> H.cl[c].handle)
               /\ H.cl[c].data = None => U.cl[c].pasv = None
               /\ H.cl[c].pasv = None => U.cl[c].pasv = None
  BY <1>1, <1>2, <1>3, <1>5, DataStartEffect DEF ok
<1> HIDE DEF U
<1>7. Sound(U) /\ U.cl[c].ctl # None
  BY <1>3, <1>5, <1>6
<1>8. /\ Sound(T)
      /\ ok /\ Coherent(U) => Coherent(T)
      /\ ~ok /\ Linked(U, {}) /\ (\A d \in Client : d # c => Whole(U.cl[d])) => Coherent(T)
  BY <1>1, <1>2, <1>7, ReplyAfter
<1>9. ASSUME Coherent(S) PROVE Coherent(T)
  <2>1. Linked(S, {}) /\ Whole(S.cl[c]) /\ (\A d \in Client : d # c => Whole(S.cl[d]))
    BY <1>1, <1>9, CoherentParts
  <2>2. Linked(U, {}) /\ (\A d \in Client : d # c => Whole(U.cl[d]))
    BY <1>1, <1>3, <1>5, <1>6, <2>1 DEF Whole
  <2>3. ok => Coherent(U)
    <3>1. ok => Whole(U.cl[c])
      BY <1>5, <1>6, <2>1 DEF Whole
    <3> QED
      BY <2>2, <3>1 DEF Coherent
  <2> QED
    BY <1>8, <2>2, <2>3
<1> QED
  BY <1>1, <1>8, <1>9 DEF Good

------------------------------------------------------------------------------
(* One turn of the inner loop, whichever handler it calls. *)

Turn == /\ Sound(srv')
        /\ i' \in Nat /\ p' \in Nat /\ stop' \in BOOLEAN /\ fault' \in FaultValues
        /\ pc' \in {"scan", "crashed"}
        /\ fault' = "none" => /\ fault = "none" /\ pc' = "scan"
                              /\ Coherent(srv) => Coherent(srv')

LEMMA TurnBecomes ==
  ASSUME Basic, NEW r, Visit(r), NEW T, Good(T),
         srv' = T, fault' = Noted, pc' = pc, stop' \in BOOLEAN
  PROVE  Turn
<1>1. /\ pc = "scan" /\ i \in Nat /\ p \in Nat /\ i > 0 /\ p > 0
      /\ i' = i - 1 /\ p' = p - 1
  BY DEF Basic, Visit, Scanning
<1>2. i' \in Nat /\ p' \in Nat
  BY <1>1
<1>3. Noted \in FaultValues
  BY NotedType
<1>4. Noted = "none" => fault = "none"
  BY DEF Noted
<1> QED
  BY <1>1, <1>2, <1>3, <1>4 DEF Turn, Good

LEMMA TurnUseAfterFree ==
  ASSUME Basic, NEW r, Visit(r), UseAfterFree
  PROVE  Turn
<1>1. /\ i \in Nat /\ p \in Nat /\ i > 0 /\ p > 0 /\ i' = i - 1 /\ p' = p - 1
  BY DEF Basic, Visit, Scanning
<1>2. i' \in Nat /\ p' \in Nat
  BY <1>1
<1>3. Noted \in FaultValues
  BY NotedType
<1>4. srv' = srv /\ stop' = stop /\ pc' = "crashed" /\ fault' # "none" /\ fault' \in FaultValues
  BY <1>3 DEF UseAfterFree, FaultValues
<1> QED
  BY <1>2, <1>4 DEF Turn, Basic

LEMMA SendingsBoolean == Sendings \subseteq BOOLEAN
BY ConstantsAssumption DEF Sendings

LEMMA EventFacts ==
  ASSUME Basic, Event
  PROVE  InHand /\ Scanning /\ i <= Len(srv.fds) /\ Visit("ready")
<1>1. Scanning /\ i <= Len(srv.fds) /\ Visit("ready") /\ Owner # None
  BY DEF Event, Visit
<1> QED
  BY <1>1, EventFound

LEMMA HandlerTurn ==
  ASSUME Basic, Handler
  PROVE  Turn
<1>1. CASE Unseen
  <2>1. /\ i \in Nat /\ i > 0 /\ i' = i - 1 /\ pc = "scan"
        /\ srv' = srv /\ pc' = pc /\ p' = p /\ stop' = stop /\ fault' = fault
    BY <1>1 DEF Unseen, Basic, Scanning
  <2>2. i' \in Nat
    BY <2>1
  <2> QED
    BY <2>1, <2>2 DEF Turn, Basic
<1>2. CASE NullArray
  <2>1. /\ i \in Nat /\ i > 0 /\ i' = i - 1 /\ pc = "scan"
        /\ srv' = srv /\ p' = p /\ stop' = stop
        /\ \/ pc' = pc /\ fault' = fault
           \/ pc' = "crashed" /\ fault' = IF fault = "none" THEN "null" ELSE fault
    BY <1>2 DEF NullArray, Basic, Scanning
  <2>2. i' \in Nat
    BY <2>1
  <2> QED
    BY <2>1, <2>2 DEF Turn, Basic, FaultValues
<1>3. CASE InvalidSocket
  <2>1. Visit("nval") /\ Becomes(pollfd_array_remove(Marked, i))
    BY <1>3 DEF InvalidSocket
  <2>2. Good(pollfd_array_remove(Marked, i))
    BY <2>1, InvalidSocketGood DEF Visit
  <2> QED
    BY <2>1, <2>2, TurnBecomes DEF Becomes, Basic
<1>4. CASE Accept
  <2>1. PICK r \in {"ready", "hup"} : Visit(r)
    BY <1>4 DEF Accept
  <2>2. Scanning /\ i <= Len(srv.fds)
    BY <2>1 DEF Visit
  <2>3. CASE Becomes(Marked)
    <3>1. Good(Marked)
      BY <2>2, MarkedEffect DEF Good
    <3> QED
      BY <2>1, <2>3, <3>1, TurnBecomes DEF Becomes, Basic
  <2>4. ASSUME NEW s \in Unused(srv), NEW c \in Client, NEW sent \in Sendings, ~Alive(srv, c),
               Becomes(ftpclient_send_message(Admit(Marked, c, s), c, sent))
        PROVE  Turn
    <3>1. Good(ftpclient_send_message(Admit(Marked, c, s), c, sent))
      BY <2>2, <2>4, AcceptGood, SendingsBoolean
    <3> QED
      BY <2>1, <2>4, <3>1, TurnBecomes DEF Becomes, Basic
  <2> QED
    BY <1>4, <2>3, <2>4 DEF Accept, Admit, OpenFor
<1>5. CASE Orphan
  <2>1. PICK r \in {"ready", "hup"} : Visit(r)
    BY <1>5 DEF Orphan
  <2>2. Scanning /\ i <= Len(srv.fds) /\ Sock # Listener /\ Owner = None
        /\ Becomes(pollfd_array_remove(Closed(Marked, Sock), i))
    BY <1>5, <2>1 DEF Visit, Orphan
  <2>3. Good(pollfd_array_remove(Closed(Marked, Sock), i))
    BY <2>2, OrphanGood
  <2> QED
    BY <2>1, <2>2, <2>3, TurnBecomes DEF Becomes, Basic
<1>6. CASE HangUp
  <2> DEFINE T == IF Sock = srv.cl[Owner].data THEN ftpclient_data_end(Marked, Owner)
                  ELSE ftpclient_disconnect(Marked, Owner, Sock)
  <2>1. Visit("hup") /\ Owner # None /\ Becomes(T)
    BY <1>6 DEF HangUp
  <2>2. Good(T)
    BY <2>1, HangUpGood DEF Visit
  <2> HIDE DEF T
  <2> QED
    BY <2>1, <2>2, TurnBecomes DEF Becomes, Basic
<1>7. CASE DataEvent
  <2>1. InHand /\ Visit("ready")
    BY <1>7, EventFacts DEF DataEvent
  <2>2. PICK sent \in BOOLEAN :
          \/ Becomes(Marked)
          \/ Becomes(ftpclient_send_message(ftpclient_data_end(Marked, Owner), Owner, sent))
          \/ Becomes(ftpclient_data_end(Marked, Owner))
    BY <1>7, SendingsBoolean DEF DataEvent
  <2>3. /\ Good(Marked) /\ Good(ftpclient_data_end(Marked, Owner))
        /\ Good(ftpclient_send_message(ftpclient_data_end(Marked, Owner), Owner, sent))
    BY <2>1, ReplyGood
  <2> QED
    BY <2>1, <2>2, <2>3, TurnBecomes DEF Becomes, Basic
<1>8. CASE PasvEvent
  <2>1. InHand /\ Visit("ready")
    BY <1>8, EventFacts DEF PasvEvent
  <2>2. PICK U \in IF srv.cl[Owner].data = None THEN AcceptData(Marked, Owner) ELSE {Marked} :
          Becomes(DropPasv(U, Owner))
    BY <1>8 DEF PasvEvent
  <2>3. Good(DropPasv(U, Owner))
    BY <2>1, PasvEventGood
  <2> QED
    BY <2>1, <2>2, <2>3, TurnBecomes DEF Becomes, Basic
<1>9. CASE ShortLine
  <2>1. InHand /\ Visit("ready") /\ Sock = srv.cl[Owner].ctl
        /\ Becomes(ftpclient_disconnect(Marked, Owner, Sock))
    BY <1>9, EventFacts DEF ShortLine, ControlEvent
  <2>2. Good(ftpclient_disconnect(Marked, Owner, Sock))
    BY <2>1, LeaveGood
  <2> QED
    BY <2>1, <2>2, TurnBecomes DEF Becomes, Basic
<1>10. CASE Reply
  <2>1. InHand /\ Visit("ready")
    BY <1>10, EventFacts DEF Reply, ControlEvent
  <2>2. PICK sent \in BOOLEAN : Becomes(ftpclient_send_message(Marked, Owner, sent))
    BY <1>10, SendingsBoolean DEF Reply
  <2>3. Good(ftpclient_send_message(Marked, Owner, sent))
    BY <2>1, ReplyGood
  <2> QED
    BY <2>1, <2>2, <2>3, TurnBecomes DEF Becomes, Basic
<1>11. CASE ReplyLost
  BY <1>11, EventFacts, TurnUseAfterFree DEF ReplyLost, ControlEvent
<1>12. CASE ssftpCmdQuit
  <2>1. InHand /\ Visit("ready") /\ Sock = srv.cl[Owner].ctl
    BY <1>12, EventFacts DEF ssftpCmdQuit, ControlEvent
  <2>2. CASE Becomes(ftpclient_disconnect(Marked, Owner, Sock))
    <3>1. Good(ftpclient_disconnect(Marked, Owner, Sock))
      BY <2>1, LeaveGood
    <3> QED
      BY <2>1, <2>2, <3>1, TurnBecomes DEF Becomes, Basic
  <2>3. CASE UseAfterFree
    BY <2>1, <2>3, TurnUseAfterFree
  <2> QED
    BY <1>12, <2>2, <2>3 DEF ssftpCmdQuit
<1>13. CASE ssftpCmdAbor
  <2>1. InHand /\ Visit("ready")
    BY <1>13, EventFacts DEF ssftpCmdAbor, ControlEvent
  <2>2. PICK sent \in BOOLEAN :
          Becomes(ftpclient_send_message(ftpclient_data_end(Marked, Owner), Owner, sent))
    BY <1>13, SendingsBoolean DEF ssftpCmdAbor
  <2>3. Good(ftpclient_send_message(ftpclient_data_end(Marked, Owner), Owner, sent))
    BY <2>1, ReplyGood
  <2> QED
    BY <2>1, <2>2, <2>3, TurnBecomes DEF Becomes, Basic
<1>14. CASE ssftpCmdPasv
  <2>1. InHand /\ Visit("ready")
    BY <1>14, EventFacts DEF ssftpCmdPasv, ControlEvent
  <2>2. PICK out \in ftpclient_data_pasv(Marked, Owner), sent \in BOOLEAN :
          Becomes(ftpclient_send_message(
            IF out[2] THEN out[1] ELSE ftpclient_data_end(out[1], Owner), Owner, sent))
    BY <1>14, SendingsBoolean DEF ssftpCmdPasv
  <2>3. Good(ftpclient_send_message(
          IF out[2] THEN out[1] ELSE ftpclient_data_end(out[1], Owner), Owner, sent))
    BY <2>1, PasvGood
  <2> QED
    BY <2>1, <2>2, <2>3, TurnBecomes DEF Becomes, Basic
<1>15. CASE Transfer
  <2>1. InHand /\ Visit("ready") /\ ~srv.cl[Owner].handle
    BY <1>15, EventFacts DEF Transfer, ControlEvent
  <2>2. PICK out \in ftpclient_data_start(OpenHandle(Marked, Owner), Owner), sent \in BOOLEAN :
          Becomes(ftpclient_send_message(
            IF out[2] THEN out[1] ELSE ftpclient_data_end(out[1], Owner), Owner, sent))
    BY <1>15, SendingsBoolean DEF Transfer, OpenHandle
  <2>3. Good(ftpclient_send_message(
          IF out[2] THEN out[1] ELSE ftpclient_data_end(out[1], Owner), Owner, sent))
    BY <2>1, TransferGood
  <2> QED
    BY <2>1, <2>2, <2>3, TurnBecomes DEF Becomes, Basic
<1>16. CASE ssftpCmdStop
  <2>1. InHand /\ Visit("ready")
    BY <1>16, EventFacts DEF ssftpCmdStop, ControlEvent
  <2>2. srv' = Marked /\ fault' = Noted /\ pc' = pc /\ stop' \in BOOLEAN
    BY <1>16 DEF ssftpCmdStop
  <2>3. Good(Marked)
    BY <2>1, ReplyGood
  <2> QED
    BY <2>1, <2>2, <2>3, TurnBecomes
<1> QED
  BY <1>1, <1>2, <1>3, <1>4, <1>5, <1>6, <1>7, <1>8, <1>9, <1>10, <1>11, <1>12, <1>13,
     <1>14, <1>15, <1>16 DEF Handler

------------------------------------------------------------------------------
(* The steps outside the inner loop. *)

LEMMA InitBasic ==
  ASSUME Init PROVE Basic /\ Unstarted(srv) /\ fault = "none" /\ pc = "created"
<1>1. /\ srv.fds = <<>> /\ srv.nfds = 0 /\ srv.tree = [s \in Fd |-> None]
      /\ srv.cl = [c \in Client |-> Freed]
      /\ srv.kernel = [s \in Fd |-> IF s = Listener THEN "listen" ELSE "closed"]
  BY DEF Init
<1>2. Freed \in Record /\ <<>> \in Seq(Slot)
  BY EmptySeq DEF Freed, Record
<1>3. srv \in State
  BY <1>2 DEF Init, State, Kind
<1>4. Sized(srv)
  BY <1>1, <1>3, EmptySeq DEF Sized
<1>5. Found(srv)
  BY <1>1, ConstantsAssumption DEF Found
<1>6. \A c \in Client : Blank(srv.cl[c])
  BY <1>1 DEF Blank, Freed
<1>7. Unstarted(srv)
  BY <1>1 DEF Unstarted
<1> QED
  BY <1>4, <1>5, <1>6, <1>7 DEF Init, Basic, Sound, PcValues, FaultValues

\* The listener alone is polled.
LEMMA RunEffect ==
  ASSUME Basic, NEW T, T = Settled(pollfd_array_add(srv, Listener))
  PROVE  Sound(T) /\ (Unstarted(srv) => Coherent(T) /\ Keys(T) = {})
<1> DEFINE U == pollfd_array_add(srv, Listener)
<1>1. Sized(srv) /\ Sound(srv) /\ Listener \in Fd
  BY ConstantsAssumption DEF Basic, Sound
<1>2. /\ Sized(U) /\ SameButFds(srv, U)
      /\ U.nfds = srv.nfds + 1
      /\ \A k \in 1..srv.nfds : U.fds[k] = srv.fds[k]
      /\ U.fds[srv.nfds + 1] = [fd |-> Listener, rev |-> "junk"]
  BY <1>1, ArrayAdd
<1>3. T = Settled(U)
  OBVIOUS
<1> HIDE DEF U
<1>4. Sound(U)
  <2>1. U.cl = srv.cl /\ Shrinks(srv, U)
    BY <1>2 DEF SameButFds, Shrinks
  <2> QED
    BY <1>1, <1>2, <2>1, SoundSame
<1>5. /\ Sized(T) /\ SameButFds(U, T)
      /\ (Sound(U) => Sound(T)) /\ (Coherent(U) => Coherent(T))
  BY <1>2, <1>3, SettledEffect
<1>6. ASSUME Unstarted(srv) PROVE Coherent(U) /\ Keys(U) = {}
  <2>1. /\ U.nfds = 1 /\ U.fds[1] = [fd |-> Listener, rev |-> "junk"]
        /\ \A s \in Fd : U.tree[s] = None
        /\ \A c \in Client : U.cl[c] = Freed
        /\ \A s \in Fd : U.kernel[s] = IF s = Listener THEN "listen" ELSE "closed"
    BY <1>2, <1>6 DEF Unstarted, SameButFds
  <2>2. Clean(U)
    BY <1>2, <2>1 DEF Clean, Distinct, Quiet
  <2>3. Keys(U) = {}
    BY <2>1 DEF Keys
  <2>4. PolledFds(U) = {Listener}
    BY <2>1 DEF PolledFds
  <2>5. \A c \in Client : Own(U, c) = {} /\ Heard(U.cl[c]) = {} /\ Whole(U.cl[c])
                          /\ Proper(U.cl[c], U.kernel)
    BY <2>1 DEF Own, Heard, Whole, Proper, Freed
  <2>6. Finds(U, {})
    BY <2>1, <2>5, ConstantsAssumption DEF Finds
  <2>7. Owns(U)
    BY <1>1, <2>1, <2>5 DEF Owns
  <2> QED
    BY <2>2, <2>3, <2>4, <2>5, <2>6, <2>7 DEF Coherent, Linked
<1>7. Keys(T) = Keys(U)
  BY <1>5 DEF Keys, SameButFds
<1> QED
  BY <1>4, <1>5, <1>6, <1>7

LEMMA DestroyedEffect ==
  ASSUME Basic,
         NEW T, T = [Closed(srv, Listener) EXCEPT !.fds = <<>>, !.nfds = 0,
                                                  !.tree = [s \in Fd |-> None]]
  PROVE  Sound(T) /\ (Coherent(srv) /\ Keys(srv) = {} => Released(T))
<1> DEFINE U == Closed(srv, Listener)
<1>1. Sized(srv) /\ Sound(srv) /\ Listener \in Fd /\ srv.kernel \in [Fd -> Kind]
  BY ConstantsAssumption DEF Basic, Sound, Sized, State
<1>2. /\ Sized(U) /\ U.kernel = [srv.kernel EXCEPT ![Listener] = "closed"]
      /\ U.fds = srv.fds /\ U.nfds = srv.nfds /\ U.tree = srv.tree /\ U.cl = srv.cl
  BY <1>1, ClosedEffect
<1>3. T = [U EXCEPT !.fds = <<>>, !.nfds = 0, !.tree = [s \in Fd |-> None]]
  OBVIOUS
<1> HIDE DEF U
<1>4. U \in State
  BY <1>2 DEF Sized
<1>5. /\ T.fds = <<>> /\ T.nfds = 0 /\ T.tree = [s \in Fd |-> None]
      /\ T.cl = srv.cl /\ T.kernel = U.kernel
  BY <1>2, <1>3, <1>4 DEF State
<1>6. T \in State
  <2>1. <<>> \in Seq(Slot) /\ 0 \in Nat /\ [s \in Fd |-> None] \in [Fd -> Client \cup {None}]
    BY EmptySeq
  <2> QED
    BY <1>3, <1>4, <2>1 DEF State
<1>7. Sized(T)
  BY <1>5, <1>6, EmptySeq DEF Sized
<1>8. Sound(T)
  <2>1. Shrinks(srv, T)
    BY <1>5 DEF Shrinks
  <2> QED
    BY <1>1, <1>5, <1>7, <2>1, SoundSame
<1>9. ASSUME Coherent(srv), Keys(srv) = {} PROVE Released(T)
  <2>1. Finds(srv, {}) /\ Owns(srv) /\ srv.cl \in [Client -> Record]
    BY <1>1, <1>9, OwnInFd DEF Coherent, Linked, Sized, State
  <2>2. ASSUME NEW c \in Client
        PROVE  srv.cl[c].ctl = None /\ Own(srv, c) = {} /\ ~srv.cl[c].cb /\ ~srv.cl[c].handle
    <3>1. Proper(srv.cl[c], srv.kernel) /\ Whole(srv.cl[c]) /\ srv.cl[c] \in Record
      BY <1>9, <2>1 DEF Coherent, Owns
    <3>2. srv.cl[c].ctl = None
      <4> SUFFICES ASSUME srv.cl[c].ctl # None PROVE FALSE
        OBVIOUS
      <4> DEFINE s == srv.cl[c].ctl
      <4>1. s \in Fd /\ s \in Heard(srv.cl[c])
        BY <3>1 DEF Record, Heard
      <4>2. srv.tree[s] = c
        BY <2>1, <4>1 DEF Finds
      <4>3. s \in Keys(srv)
        BY <4>1, <4>2, ConstantsAssumption DEF Keys
      <4> QED
        BY <1>9, <4>3
    <3>3. srv.cl[c].data = None /\ srv.cl[c].pasv = None /\ ~srv.cl[c].cb
      BY <3>1, <3>2 DEF Proper
    <3> QED
      BY <3>1, <3>2, <3>3 DEF Own, Whole
  <2>3. \A s \in Fd : T.kernel[s] = "closed"
    BY <1>1, <1>2, <1>5, <2>1, <2>2 DEF Owns
  <2> QED
    BY <1>5, <2>2, <2>3 DEF Released
<1> QED
  BY <1>8, <1>9

\* poll reports POLLNVAL for no descriptor of a coherent server.
LEMMA PollEffect ==
  ASSUME Basic, NEW R \in [1..srv.nfds -> Polled],
         \A k \in 1..srv.nfds : R[k] \in Reported(srv, srv.fds[k].fd),
         NEW T, T = PutRevs(srv, R)
  PROVE  Sound(T) /\ (~ListenHup /\ Coherent(srv) => Coherent(T))
<1>1. Sized(srv) /\ Sound(srv) /\ R \in [1..srv.nfds -> Revents]
  BY DEF Basic, Sound, Revents
<1>2. /\ Sized(T) /\ SameButFds(srv, T) /\ T.nfds = srv.nfds
      /\ (Sound(srv) => Sound(T))
      /\ /\ Coherent(srv)
         /\ \A k \in 1..srv.nfds : /\ R[k] # "nval"
                                   /\ R[k] = "hup" => srv.kernel[srv.fds[k].fd] = "conn"
         => Coherent(T)
  BY <1>1, RevsEffect
<1>3. ASSUME ~ListenHup, Coherent(srv), NEW k \in 1..srv.nfds
      PROVE  R[k] # "nval" /\ (R[k] = "hup" => srv.kernel[srv.fds[k].fd] = "conn")
  <2> DEFINE s == srv.fds[k].fd
  <2>1. s \in PolledFds(srv)
    BY DEF PolledFds
  <2>2. /\ Finds(srv, {}) /\ Owns(srv) /\ s \in Keys(srv) \cup {Listener}
        /\ srv.tree \in [Fd -> Client \cup {None}] /\ srv.kernel \in [Fd -> Kind]
    BY <1>1, <1>3, <2>1 DEF Coherent, Linked, Sized, State
  <2>3. s \in Fd /\ srv.kernel[s] \in {"conn", "listen"}
    <3>1. CASE s = Listener
      BY <2>2, <3>1, ConstantsAssumption DEF Owns
    <3>2. CASE s \in Keys(srv)
      <4>1. PICK c \in Client : srv.tree[s] = c
        BY <2>2, <3>2 DEF Keys
      <4>2. s \in Fd /\ s \in Heard(srv.cl[c])
        BY <2>2, <3>2, <4>1 DEF Keys, Finds
      <4>3. Proper(srv.cl[c], srv.kernel)
        BY <2>2 DEF Owns
      <4> QED
        BY <4>2, <4>3 DEF Heard, Proper
    <3> QED
      BY <2>2, <3>1, <3>2
  <2>4. R[k] \in Reported(srv, s)
    OBVIOUS
  <2> HIDE DEF s
  <2>5. R[k] # "nval" /\ (R[k] = "hup" => srv.kernel[s] = "conn")
    BY <1>3, <2>3, <2>4 DEF Reported
  <2> QED
    BY <2>5 DEF s
<1> QED
  BY <1>1, <1>2, <1>3

LEMMA BroadcastEffect ==
  ASSUME Basic, NEW s \in Keys(srv), Alive(srv, srv.tree[s]),
         NEW T, T = ftpclient_disconnect(srv, srv.tree[s], srv.cl[srv.tree[s]].ctl)
  PROVE  Sound(T) /\ (Coherent(srv) => Coherent(T))
<1> DEFINE c == srv.tree[s]
<1>1. Sized(srv) /\ Sound(srv) /\ srv.tree \in [Fd -> Client \cup {None}]
  BY DEF Basic, Sound, Sized, State
<1>2. c \in Client /\ srv.cl[c].ctl # None
  BY <1>1 DEF Keys, Alive
<1>3. T = ftpclient_disconnect(srv, c, srv.cl[c].ctl)
  OBVIOUS
<1> HIDE DEF c
<1>4. /\ Sized(T) /\ T.cl[c] = Freed
      /\ \A d \in Client : d # c => T.cl[d] = srv.cl[d]
      /\ Sound(srv) => Sound(T)
      /\ Linked(srv, {}) => Linked(T, {})
  BY <1>1, <1>2, <1>3, DisconnectEffect
<1>5. Coherent(srv) => Coherent(T)
  BY <1>2, <1>3, DisconnectCoherent
<1> QED
  BY <1>1, <1>4, <1>5

------------------------------------------------------------------------------
(* Every step, for the two invariants at once. *)

\* What a step preserves: the second invariant where no hangup is reported on a
\* listening socket.
Preserved == Basic' /\ (~ListenHup /\ Kept => Kept')

LEMMA StepPreserves ==
  ASSUME Basic, [Next]_vars
  PROVE  Preserved
<1>1. CASE Run
  <2>1. /\ srv' = Settled(pollfd_array_add(srv, Listener)) /\ pc = "created"
        /\ pc' \in {"poll", "stopped"} /\ stop' = FALSE /\ i' = i /\ p' = p /\ fault' = fault
    BY <1>1 DEF Run
  <2>2. Sound(srv') /\ (Unstarted(srv) => Coherent(srv') /\ Keys(srv') = {})
    BY <2>1, RunEffect
  <2> QED
    BY <2>1, <2>2 DEF Preserved, Basic, Kept, PcValues
<1>2. CASE Destroy
  <2>1. /\ pc = "stopped" /\ pc' = "destroyed"
        /\ i' = i /\ p' = p /\ fault' = fault /\ stop' = stop
    BY <1>2 DEF Destroy
  <2>2. Sound(srv') /\ (Coherent(srv) /\ Keys(srv) = {} => Released(srv'))
    BY <1>2, DestroyedEffect DEF Destroy
  <2> QED
    BY <2>1, <2>2 DEF Preserved, Basic, Kept, PcValues
<1>3. CASE Poll
  <2>1. PICK R \in [1..srv.nfds -> Polled] :
          /\ \A k \in 1..srv.nfds : R[k] \in Reported(srv, srv.fds[k].fd)
          /\ srv' = PutRevs(srv, R)
          /\ p' = Cardinality({k \in 1..srv.nfds : R[k] # "none"})
    BY <1>3 DEF Poll, PutRevs
  <2>2. Sound(srv') /\ (~ListenHup /\ Coherent(srv) => Coherent(srv'))
    BY <2>1, PollEffect
  <2>3. pc = "poll" /\ pc' = "scan" /\ i' = srv.nfds /\ stop' = stop /\ fault' = fault
    BY <1>3 DEF Poll
  <2>4. srv.nfds \in Nat
    BY DEF Basic, Sound, Sized, State
  <2>5. p' \in Nat
    <3> DEFINE H == {k \in 1..srv.nfds : R[k] # "none"}
    <3>1. IsFiniteSet(1..srv.nfds) /\ H \in SUBSET (1..srv.nfds)
      BY <2>4, FS_Interval
    <3> HIDE DEF H
    <3>2. Cardinality(H) \in Nat
      BY <3>1, FS_Subset, FS_CardinalityType
    <3> QED
      BY <2>1, <3>2 DEF H
  <2> QED
    BY <2>2, <2>3, <2>4, <2>5 DEF Preserved, Basic, Kept, PcValues
<1>4. CASE LeaveLoop
  BY <1>4 DEF LeaveLoop, Preserved, Basic, Kept, PcValues
<1>5. CASE EndScan
  <2>1. /\ pc = "scan" /\ pc' = "poll" /\ i' = 0 /\ p' = 0 /\ stop' = stop /\ fault' = fault
        /\ srv' = Settled(srv)
    BY <1>5 DEF EndScan
  <2>2. Sound(srv') /\ (Coherent(srv) => Coherent(srv'))
    <3>1. Sized(srv) /\ Sound(srv)
      BY DEF Basic, Sound
    <3>2. /\ Sized(srv') /\ SameButFds(srv, srv')
          /\ (Sound(srv) => Sound(srv')) /\ (Coherent(srv) => Coherent(srv'))
      BY <2>1, <3>1, SettledEffect
    <3> QED
      BY <3>1, <3>2
  <2> QED
    BY <2>1, <2>2 DEF Preserved, Basic, Kept, PcValues
<1>6. CASE Handler
  <2>1. Turn
    BY <1>6, HandlerTurn
  <2>2. pc = "scan"
    BY <1>6 DEF Handler, Unseen, NullArray, InvalidSocket, Accept, Orphan, HangUp, DataEvent,
       PasvEvent, ShortLine, Reply, ReplyLost, ssftpCmdQuit, ssftpCmdAbor, ssftpCmdPasv,
       Transfer, ssftpCmdStop, ControlEvent, Event, Visit, Scanning
  <2> QED
    BY <2>1, <2>2 DEF Turn, Preserved, Basic, Kept, PcValues
<1>7. CASE Broadcast
  <2>1. PICK s \in Keys(srv), sent \in Sendings :
          IF sent /\ Alive(srv, srv.tree[s])
          THEN /\ srv' = ftpclient_disconnect(srv, srv.tree[s], srv.cl[srv.tree[s]].ctl)
               /\ pc' = pc /\ fault' = fault
          ELSE /\ pc' = "crashed" /\ fault' = IF fault = "none" THEN "uaf" ELSE fault
               /\ srv' = srv
    BY <1>7 DEF Broadcast
  <2>2. pc = "shutdown" /\ i' = i /\ p' = p /\ stop' = stop
    BY <1>7 DEF Broadcast
  <2>3. CASE sent /\ Alive(srv, srv.tree[s])
    <3>1. Sound(srv') /\ (Coherent(srv) => Coherent(srv'))
      BY <2>1, <2>3, BroadcastEffect
    <3> QED
      BY <2>1, <2>2, <2>3, <3>1 DEF Preserved, Basic, Kept
  <2>4. CASE ~(sent /\ Alive(srv, srv.tree[s]))
    BY <2>1, <2>2, <2>4 DEF Preserved, Basic, Kept, PcValues, FaultValues
  <2> QED
    BY <2>3, <2>4
<1>8. CASE Stopped
  BY <1>8 DEF Stopped, Preserved, Basic, Kept, PcValues
<1>9. CASE Stop
  BY <1>9 DEF Stop, Preserved, Basic, Kept
<1>10. CASE Ended \/ UNCHANGED vars
  BY <1>10 DEF Ended, vars, Preserved, Basic, Kept
<1> QED
  BY <1>1, <1>2, <1>3, <1>4, <1>5, <1>6, <1>7, <1>8, <1>9, <1>10 DEF Next, Server

------------------------------------------------------------------------------
(* The theorems. *)

LEMMA BasicAlways == Spec => []Basic
<1>1. Init => Basic
  BY InitBasic
<1>2. Basic /\ [Next]_vars => Basic'
  BY StepPreserves DEF Preserved
<1> QED
  BY <1>1, <1>2, PTL DEF Spec

\* The state of ftpserv_run keeps its types and the array its length, also after
\* the loop has used a slot behind nfds or an uninitialised revents.
THEOREM TypeCorrect == Spec => []TypeOK
<1>1. Basic => TypeOK
  BY DEF Basic, Sound, Sized, State, TypeOK, PcValues, FaultValues
<1> QED
  BY <1>1, BasicAlways, PTL

\* server->clients never leads to a client that was freed or has let go of the
\* descriptor, whatever the walk over server->fds has done before.
THEOREM LookupsNeverStale == Spec => []NoStaleLookup
<1>1. Basic => NoStaleLookup
  <2> SUFFICES ASSUME Basic, NEW s \in Keys(srv)
               PROVE  Alive(srv, srv.tree[s]) /\ s \in Own(srv, srv.tree[s])
    BY DEF NoStaleLookup
  <2>1. /\ s \in Fd /\ srv.tree[s] # None /\ srv.tree \in [Fd -> Client \cup {None}]
        /\ Found(srv) /\ \A c \in Client : Blank(srv.cl[c])
    BY DEF Basic, Sound, Sized, State, Keys
  <2>2. s \in Own(srv, srv.tree[s]) /\ srv.tree[s] \in Client
    BY <2>1 DEF Found
  <2> QED
    BY <2>1, <2>2 DEF Alive, Own, Blank
<1> QED
  BY <1>1, BasicAlways, PTL

LEMMA KeptAlways ==
  ASSUME ~ListenHup
  PROVE  Spec => []Kept
<1>1. Init => Kept
  BY InitBasic DEF Kept
<1>2. Basic /\ Kept /\ [Next]_vars => Kept'
  BY StepPreserves DEF Preserved
<1> QED
  BY <1>1, <1>2, BasicAlways, PTL DEF Spec

LEMMA KeptRunning ==
  ASSUME Kept, fault = "none", pc \in {"poll", "scan", "shutdown", "stopped"}
  PROVE  PollsTheTree(srv) /\ TreeFindsOwners(srv) /\ EveryFdOwnedOnce(srv) /\ HandleHasTransfer(srv)
<1>1. Coherent(srv)
  BY DEF Kept
<1>2. /\ Clean(srv) /\ Finds(srv, {}) /\ Owns(srv) /\ PolledFds(srv) = Keys(srv) \cup {Listener}
      /\ \A c \in Client : Proper(srv.cl[c], srv.kernel) /\ Whole(srv.cl[c])
      /\ srv.cl \in [Client -> Record] /\ srv.tree \in [Fd -> Client \cup {None}]
  BY <1>1 DEF Coherent, Linked, Clean, Owns, Sized, State
<1>3. PollsTheTree(srv)
  BY <1>2 DEF PollsTheTree, Clean, Distinct
<1>4. TreeFindsOwners(srv)
  <2>1. ASSUME NEW s \in Keys(srv)
        PROVE  Alive(srv, srv.tree[s]) /\ s \in Own(srv, srv.tree[s])
    <3>1. s \in Fd /\ srv.tree[s] \in Client /\ s \in Heard(srv.cl[srv.tree[s]])
      BY <1>2 DEF Keys, Finds
    <3> QED
      BY <1>2, <3>1 DEF Heard, Alive, Own, Proper
  <2>2. ASSUME NEW c \in Client, Alive(srv, c)
        PROVE  /\ srv.tree[srv.cl[c].ctl] = c
               /\ srv.cl[c].pasv # None => srv.tree[srv.cl[c].pasv] = c
               /\ srv.cl[c].data # None =>
                    srv.tree[srv.cl[c].data] = IF srv.cl[c].handle THEN c ELSE None
    <3>1. srv.cl[c] \in Record /\ Proper(srv.cl[c], srv.kernel) /\ Whole(srv.cl[c])
      BY <1>2
    <3>2. \A s \in Fd : s \in Heard(srv.cl[c]) => srv.tree[s] = c
      BY <1>2 DEF Finds
    <3>3. srv.cl[c].ctl \in Heard(srv.cl[c]) /\ srv.cl[c].ctl \in Fd
      BY <2>2, <3>1 DEF Alive, Heard, Record
    <3>4. srv.cl[c].pasv # None => srv.cl[c].pasv \in Heard(srv.cl[c]) /\ srv.cl[c].pasv \in Fd
      BY <3>1 DEF Heard, Record
    <3>5. ASSUME srv.cl[c].data # None
          PROVE  srv.tree[srv.cl[c].data] = IF srv.cl[c].handle THEN c ELSE None
      <4> DEFINE s == srv.cl[c].data
      <4>1. s \in Fd
        BY <3>1, <3>5 DEF Record
      <4>2. CASE srv.cl[c].cb
        <5>1. s \in Heard(srv.cl[c])
          BY <3>5, <4>2 DEF Heard
        <5> QED
          BY <3>1, <3>2, <4>1, <4>2, <5>1 DEF Whole
      <4>3. CASE ~srv.cl[c].cb
        <5>1. s \in Own(srv, c) /\ s \notin Heard(srv.cl[c])
          BY <3>1, <3>5, <4>3 DEF Own, Heard, Proper
        <5>2. \A d \in Client : s \notin Heard(srv.cl[d])
          BY <1>2, <4>1, <5>1 DEF Owns, Own, Heard
        <5>3. srv.tree[s] = None
          BY <1>2, <4>1, <5>2 DEF Finds
        <5> QED
          BY <3>1, <4>3, <5>3 DEF Whole
      <4> QED
        BY <4>2, <4>3
    <3> QED
      BY <3>2, <3>3, <3>4, <3>5
  <2> QED
    BY <2>1, <2>2 DEF TreeFindsOwners
<1>5. EveryFdOwnedOnce(srv)
  <2>1. \A s \in Fd, c \in Client : s \in Own(srv, c) => srv.kernel[s] # "closed"
    <3> SUFFICES ASSUME NEW s \in Fd, NEW c \in Client, s \in Own(srv, c)
                 PROVE  srv.kernel[s] # "closed"
      OBVIOUS
    <3>1. Proper(srv.cl[c], srv.kernel)
      BY <1>2
    <3> QED
      BY <3>1 DEF Own, Proper
  <2>2. \A s \in Fd : srv.kernel[s] # "closed" <=> s = Listener \/ \E c \in Client : s \in Own(srv, c)
    BY <1>2, <2>1 DEF Owns
  <2>3. \A c \in Client : Listener \notin Own(srv, c)
    BY <1>2 DEF Owns
  <2>4. \A c, d \in Client : c # d => Own(srv, c) \cap Own(srv, d) = {}
    <3>1. \A c \in Client : Own(srv, c) \subseteq Fd
      BY <1>2 DEF Own, Record
    <3> QED
      BY <1>2, <3>1 DEF Owns
  <2>5. \A c \in Client :
          /\ srv.cl[c].ctl \notin {srv.cl[c].data, srv.cl[c].pasv} \ {None}
          /\ srv.cl[c].data = None \/ srv.cl[c].pasv = None
    BY <1>2 DEF Proper, Whole
  <2> QED
    BY <2>2, <2>3, <2>4, <2>5 DEF EveryFdOwnedOnce
<1>6. HandleHasTransfer(srv)
  BY <1>2 DEF HandleHasTransfer, Whole, Proper
<1> QED
  BY <1>3, <1>4, <1>5, <1>6

\* Where poll reports no hang-up on a listening socket: as long as the loop has read
\* no slot it must not, the poll array and the lookup tree name the same descriptors.
THEOREM PollAgrees ==
  ASSUME ~ListenHup
  PROVE  Spec => []PollMatchesTree
<1>1. Kept => PollMatchesTree
  BY KeptRunning DEF PollMatchesTree, Running
<1>2. Spec => []Kept
  BY KeptAlways
<1> QED
  BY <1>1, <1>2, PTL

\* Likewise each descriptor of the tree leads to the client that has it, and a
\* client's descriptors lead to it.
THEOREM TreeAgrees ==
  ASSUME ~ListenHup
  PROVE  Spec => []TreeMatchesClients
<1>1. Kept => TreeMatchesClients
  BY KeptRunning DEF TreeMatchesClients, Running
<1>2. Spec => []Kept
  BY KeptAlways
<1> QED
  BY <1>1, <1>2, PTL

\* Likewise a descriptor that is open is the listener's or one client's own.
THEOREM NothingLeaks ==
  ASSUME ~ListenHup
  PROVE  Spec => []NoDescriptorLeak
<1>1. Kept => NoDescriptorLeak
  BY KeptRunning DEF NoDescriptorLeak, Running
<1>2. Spec => []Kept
  BY KeptAlways
<1> QED
  BY <1>1, <1>2, PTL

\* No client keeps an open file that no data connection will ever finish.
THEOREM TransfersHaveConnections ==
  ASSUME ~ListenHup
  PROVE  Spec => []TransfersComplete
<1>1. Basic /\ Kept => TransfersComplete
  <2> SUFFICES ASSUME Basic, Kept, fault = "none" PROVE HandleHasTransfer(srv)
    BY DEF TransfersComplete
  <2>1. CASE pc \in {"poll", "scan", "shutdown", "stopped"}
    BY <2>1, KeptRunning
  <2>2. CASE pc = "created"
    BY <2>2 DEF Kept, Unstarted, HandleHasTransfer, Freed
  <2>3. CASE pc = "destroyed"
    BY <2>3 DEF Kept, Released, HandleHasTransfer
  <2> QED
    BY <2>1, <2>2, <2>3 DEF Basic, PcValues, Kept
<1>2. Spec => []Kept
  BY KeptAlways
<1> QED
  BY <1>1, <1>2, BasicAlways, PTL

\* ftpserv_run and ftpserv_destroy give back every descriptor and every client.
THEOREM EverythingReleased ==
  ASSUME ~ListenHup
  PROVE  Spec => []ResourcesFreed
<1>1. Kept => ResourcesFreed
  BY DEF Kept, ResourcesFreed, Released, Alive
<1>2. Spec => []Kept
  BY KeptAlways
<1> QED
  BY <1>1, <1>2, PTL

------------------------------------------------------------------------------
(* The walk over the array, for one client and sends that succeed: array_remove *)
(* moves the last slot into the one it removes, so what is below slot i must    *)
(* stay where it is.                                                            *)

LoneClient == ~ListenHup /\ ~SendFails /\ \A c, d \in Client : c = d

\* The first n slots of T are those of S.
Below(S, T, n) == n <= T.nfds /\ \A k \in 1..n : T.fds[k] = S.fds[k]

\* None of the first n slots polls a descriptor of F.
Spared(S, n, F) == n <= S.nfds /\ \A k \in 1..n : S.fds[k].fd \notin F

\* The listener is polled first, and then the control connection.
InOrder(S) ==
  /\ S.nfds >= 1 /\ S.fds[1].fd = Listener
  /\ \A c \in Client : Alive(S, c) => S.nfds >= 2 /\ S.fds[2].fd = S.cl[c].ctl

Walk ==
  /\ fault = "none"
  /\ Running => InOrder(srv)
  /\ pc = "scan" => i <= srv.nfds /\ \A k \in 1..i : srv.fds[k].rev \in Polled

(* What the operations leave in the low slots. *)

LEMMA SlotsIn ==
  ASSUME NEW S, Sized(S)
  PROVE  /\ S.nfds \in Nat /\ Len(S.fds) \in Nat /\ S.nfds <= Len(S.fds)
         /\ S.fds \in Seq(Slot)
         /\ \A k \in 1..S.nfds : S.fds[k] \in Slot /\ S.fds[k].fd \in Fd
<1>1. /\ S.nfds \in Nat /\ Len(S.fds) \in Nat /\ S.nfds <= Len(S.fds) /\ S.fds \in Seq(Slot)
  BY DEF Sized, State
<1>2. \A k \in 1..S.nfds : S.fds[k] \in Slot
  BY <1>1, ElementOfSeq
<1> QED
  BY <1>1, <1>2 DEF Slot

LEMMA UnlinkBelow ==
  ASSUME NEW S, Sized(S), NEW s \in Fd, NEW n \in Nat, Spared(S, n, {s}),
         NEW T, T = Unlink(S, s)
  PROVE  Below(S, T, n)
<1> DEFINE hits == {k \in 1..S.nfds : S.fds[k].fd = s}
           last == CHOOSE k \in hits : \A j \in hits : j <= k
           U == IF hits = {} THEN S ELSE pollfd_array_remove(S, last)
<1>1. S.nfds \in Nat /\ S.nfds <= Len(S.fds) /\ Len(S.fds) \in Nat
  BY SlotsIn
<1>2. Sized(U) /\ Below(S, U, n)
  <2>1. CASE hits = {}
    BY <2>1 DEF Below, Spared
  <2>2. CASE hits # {}
    <3>1. last \in hits
      BY <1>1, <2>2, LastHit
    <3>2. last \in 1..S.nfds /\ S.fds[last].fd = s /\ U = pollfd_array_remove(S, last)
      BY <2>2, <3>1
    <3> HIDE DEF last, hits, U
    <3>3. /\ Sized(U) /\ U.nfds = S.nfds - 1
          /\ \A j \in 1..U.nfds : U.fds[j] = IF j = last THEN S.fds[S.nfds] ELSE S.fds[j]
      BY <1>1, <3>2, ArrayRemove
    <3>4. n < last
      BY <3>2 DEF Spared
    <3> QED
      BY <1>1, <3>2, <3>3, <3>4 DEF Below
  <2> QED
    BY <2>1, <2>2
<1>3. T = [U EXCEPT !.tree[s] = None]
  BY DEF Unlink, avltree_remove
<1> HIDE DEF U
<1>4. T.fds = U.fds /\ T.nfds = U.nfds
  BY <1>2, <1>3 DEF Sized, State
<1> QED
  BY <1>2, <1>4 DEF Below

LEMMA DropSized ==
  ASSUME NEW S, Sized(S), NEW s \in Fd \cup {None}, NEW T, T = Drop(S, s)
  PROVE  Sized(T) /\ T.cl = S.cl
BY DropEffect

LEMMA DropBelow ==
  ASSUME NEW S, Sized(S), NEW s \in Fd \cup {None}, NEW n \in Nat, Spared(S, n, {s} \ {None}),
         NEW T, T = Drop(S, s)
  PROVE  Below(S, T, n)
<1>1. CASE s = None
  BY <1>1 DEF Drop, Below, Spared
<1>2. CASE s # None
  <2> DEFINE U == Unlink(S, s)
  <2>1. s \in Fd /\ Spared(S, n, {s})
    BY <1>2 DEF Spared
  <2>2. Sized(U) /\ Below(S, U, n)
    BY <2>1, UnlinkSized, UnlinkBelow
  <2>3. T = Closed(U, s)
    BY <1>2 DEF Drop
  <2> HIDE DEF U
  <2>4. T.fds = U.fds /\ T.nfds = U.nfds
    BY <2>2, <2>3 DEF Closed, Sized, State
  <2> QED
    BY <2>2, <2>4 DEF Below
<1> QED
  BY <1>1, <1>2

LEMMA WatchBelow ==
  ASSUME NEW S, Sized(S), NEW s \in Fd, NEW c \in Client,
         NEW T, T = Watch(S, s, c)
  PROVE  /\ Sized(T) /\ T.cl = S.cl
         /\ T.nfds = S.nfds + 1 /\ T.fds[S.nfds + 1].fd = s
         /\ \A n \in 0..S.nfds : Below(S, T, n)
<1> DEFINE U == pollfd_array_add(S, s)
<1>1. /\ Sized(U) /\ SameButFds(S, U) /\ U.nfds = S.nfds + 1
      /\ \A k \in 1..S.nfds : U.fds[k] = S.fds[k]
      /\ U.fds[S.nfds + 1] = [fd |-> s, rev |-> "junk"]
  BY ArrayAdd
<1>2. T = [U EXCEPT !.tree[s] = IF U.tree[s] = None THEN c ELSE U.tree[s]]
  BY DEF Watch, avltree_insert
<1> HIDE DEF U
<1>3. T.fds = U.fds /\ T.nfds = U.nfds /\ T.cl = S.cl
  BY <1>1, <1>2 DEF Sized, State, SameButFds
<1>4. S.nfds \in Nat
  BY SlotsIn
<1>5. Sized(T)
  BY WatchSized
<1> QED
  BY <1>1, <1>3, <1>4, <1>5 DEF Below

LEMMA DropPasvBelow ==
  ASSUME NEW S, Sized(S), NEW c \in Client, NEW n \in Nat,
         Spared(S, n, {S.cl[c].pasv} \ {None}),
         NEW T, T = DropPasv(S, c)
  PROVE  Below(S, T, n)
<1> DEFINE s == S.cl[c].pasv
           U == Drop(S, s)
<1>1. s \in Fd \cup {None}
  BY OwnInFd DEF Record
<1>2. Sized(U) /\ Below(S, U, n)
  <2> HIDE DEF s
  <2>1. Spared(S, n, {s} \ {None})
    BY DEF s
  <2> QED
    BY <1>1, <2>1, DropEffect, DropBelow
<1>3. T = [U EXCEPT !.cl[c].pasv = None]
  BY DEF DropPasv
<1> HIDE DEF U
<1>4. T.fds = U.fds /\ T.nfds = U.nfds
  BY <1>2, <1>3 DEF Sized, State
<1> QED
  BY <1>2, <1>4 DEF Below

LEMMA DropDataBelow ==
  ASSUME NEW S, Sized(S), NEW c \in Client, NEW n \in Nat,
         Spared(S, n, {S.cl[c].data} \ {None}),
         NEW T, T = DropData(S, c)
  PROVE  Below(S, T, n)
<1> DEFINE s == S.cl[c].data
           U == Drop(S, s)
<1>1. s \in Fd \cup {None}
  BY OwnInFd DEF Record
<1>2. Sized(U) /\ Below(S, U, n)
  <2> HIDE DEF s
  <2>1. Spared(S, n, {s} \ {None})
    BY DEF s
  <2> QED
    BY <1>1, <2>1, DropEffect, DropBelow
<1>3. T.fds = U.fds /\ T.nfds = U.nfds
  <2>1. T = [U EXCEPT !.cl[c] = [@ EXCEPT !.data = None, !.handle = FALSE, !.cb = FALSE]]
    BY DEF DropData
  <2> HIDE DEF U
  <2> QED
    BY <1>2, <2>1 DEF Sized, State
<1> QED
  BY <1>2, <1>3 DEF Below

LEMMA BelowTwice ==
  ASSUME NEW S, NEW T, NEW U, NEW n, Below(S, T, n), Below(T, U, n)
  PROVE  Below(S, U, n)
BY DEF Below

LEMMA BelowSpared ==
  ASSUME NEW S, NEW T, NEW n, NEW F, Below(S, T, n), Spared(S, n, F)
  PROVE  Spared(T, n, F)
BY DEF Below, Spared

LEMMA DataEndBelow ==
  ASSUME NEW S, Sized(S), NEW c \in Client, NEW n \in Nat,
         Spared(S, n, {S.cl[c].data, S.cl[c].pasv} \ {None}),
         NEW T, T = ftpclient_data_end(S, c)
  PROVE  Below(S, T, n)
<1> DEFINE U == DropData(S, c)
<1>1. Sized(U) /\ Below(S, U, n)
  <2>1. Spared(S, n, {S.cl[c].data} \ {None})
    BY DEF Spared
  <2> QED
    BY <2>1, DropDataEffect, DropDataBelow
<1>2. U.cl[c].pasv = S.cl[c].pasv
  <2>1. U.cl = [S.cl EXCEPT ![c] = [S.cl[c] EXCEPT !.data = None, !.handle = FALSE, !.cb = FALSE]]
    BY DropDataEffect
  <2>2. S.cl \in [Client -> Record] /\ S.cl[c] \in Record
    BY OwnInFd
  <2> QED
    BY <2>1, <2>2 DEF Record
<1>3. T = DropPasv(U, c)
  BY DEF ftpclient_data_end, DropData
<1> HIDE DEF U
<1>4. Spared(U, n, {U.cl[c].pasv} \ {None})
  BY <1>1, <1>2 DEF Spared, Below
<1>5. Below(U, T, n)
  BY <1>1, <1>3, <1>4, DropPasvBelow
<1> QED
  BY <1>1, <1>5, BelowTwice

LEMMA SameBelow ==
  ASSUME NEW S, NEW T, T.fds = S.fds, T.nfds = S.nfds, NEW n, n <= S.nfds
  PROVE  Below(S, T, n)
BY DEF Below

LEMMA DisconnectBelow ==
  ASSUME NEW S, Sized(S), NEW c \in Client, S.cl[c].ctl # None, NEW n \in Nat,
         Spared(S, n, Own(S, c)),
         NEW T, T = ftpclient_disconnect(S, c, S.cl[c].ctl)
  PROVE  Below(S, T, n)
<1> DEFINE s == S.cl[c].ctl
           U == Unlink(S, s)
           W == ftpclient_data_end(U, c)
<1>1. s \in Fd /\ s \in Own(S, c)
  BY OwnInFd DEF Own
<1>2. Sized(U) /\ U.cl = S.cl /\ Below(S, U, n)
  <2>1. Spared(S, n, {s})
    BY <1>1 DEF Spared
  <2> HIDE DEF s
  <2> QED
    BY <1>1, <2>1, UnlinkSized, UnlinkBelow
<1>3. T = ftpclient_destroy(W, c)
  BY DEF ftpclient_disconnect
<1> HIDE DEF U
<1>4. Sized(W) /\ Below(U, W, n)
  <2>1. Spared(U, n, {U.cl[c].data, U.cl[c].pasv} \ {None})
    BY <1>2 DEF Spared, Below, Own
  <2> QED
    BY <1>2, <2>1, DataEndEffect, DataEndBelow
<1> HIDE DEF W
<1>5. T.fds = W.fds /\ T.nfds = W.nfds
  BY <1>3, <1>4 DEF ftpclient_destroy, Closed, Sized, State
<1> QED
  BY <1>2, <1>4, <1>5 DEF Below

LEMMA AcceptDataBelow ==
  ASSUME NEW S, Sized(S), NEW c \in Client, NEW T \in AcceptData(S, c)
  PROVE  T.fds = S.fds /\ T.nfds = S.nfds
BY DEF AcceptData, Opened, Sized, State

LEMMA DataStartBelow ==
  ASSUME NEW S, Sized(S), NEW c \in Client, S.cl[c].ctl # None, NEW n \in Nat,
         Spared(S, n, {S.cl[c].pasv} \ {None}),
         NEW out \in ftpclient_data_start(S, c)
  PROVE  Below(S, out[1], n)
<1> DEFINE connected == IF S.cl[c].data # None THEN {S}
                        ELSE IF S.cl[c].pasv = None THEN AcceptData(S, c)
                        ELSE {DropPasv(T, c) : T \in AcceptData(S, c)}
<1>1. PICK T \in connected :
        out = IF T.cl[c].data = None THEN <<T, FALSE>>
              ELSE <<[Watch(T, T.cl[c].data, c) EXCEPT !.cl[c].cb = TRUE], TRUE>>
  BY DEF ftpclient_data_start
<1>2. Sized(T) /\ Below(S, T, n)
  <2>1. CASE S.cl[c].data # None
    BY <2>1 DEF Below, Spared
  <2>2. CASE S.cl[c].data = None /\ S.cl[c].pasv = None
    <3>1. T \in AcceptData(S, c)
      BY <2>2
    <3> HIDE DEF connected
    <3>2. Sized(T)
      BY <2>2, <3>1, AcceptDataEffect
    <3>3. T.fds = S.fds /\ T.nfds = S.nfds
      BY <3>1, AcceptDataBelow
    <3> QED
      BY <3>2, <3>3 DEF Below, Spared
  <2>3. CASE S.cl[c].data = None /\ S.cl[c].pasv # None
    <3>1. PICK U \in AcceptData(S, c) : T = DropPasv(U, c)
      BY <2>3
    <3> HIDE DEF connected
    <3>2. Sized(U) /\ U.cl[c].pasv = S.cl[c].pasv
      BY <2>3, <3>1, AcceptDataEffect
    <3>3. U.fds = S.fds /\ U.nfds = S.nfds
      BY <3>1, AcceptDataBelow
    <3>4. Below(S, U, n) /\ Spared(U, n, {U.cl[c].pasv} \ {None})
      BY <3>2, <3>3 DEF Below, Spared
    <3>5. Sized(T)
      BY <3>1, <3>2, DropPasvEffect
    <3>6. Below(U, T, n)
      BY <3>1, <3>2, <3>4, DropPasvBelow
    <3> QED
      BY <3>4, <3>5, <3>6, BelowTwice
  <2> QED
    BY <2>1, <2>2, <2>3
<1> HIDE DEF connected
<1>3. CASE T.cl[c].data = None
  BY <1>1, <1>2, <1>3
<1>4. CASE T.cl[c].data # None
  <2> DEFINE s == T.cl[c].data
             U == Watch(T, s, c)
             V == [U EXCEPT !.cl[c].cb = TRUE]
  <2>1. out[1] = V
    BY <1>1, <1>4
  <2>2. s \in Fd
    BY <1>2, <1>4, OwnInFd DEF Own
  <2>3. T.nfds \in Nat
    BY <1>2, SlotsIn
  <2> HIDE DEF s
  <2>4. Sized(U) /\ Below(T, U, n)
    <3>1. n \in 0..T.nfds
      BY <1>2, <2>3 DEF Below
    <3> QED
      BY <1>2, <2>2, <3>1, WatchSized, WatchBelow
  <2> HIDE DEF U
  <2>5. V.fds = U.fds /\ V.nfds = U.nfds
    BY <2>4 DEF Sized, State
  <2> QED
    BY <1>2, <2>1, <2>4, <2>5 DEF Below
<1> QED
  BY <1>3, <1>4

LEMMA DataPasvBelow ==
  ASSUME NEW S, Sized(S), NEW c \in Client, NEW n \in Nat,
         Spared(S, n, {S.cl[c].pasv} \ {None}),
         NEW out \in ftpclient_data_pasv(S, c)
  PROVE  Below(S, out[1], n)
<1>1. CASE S.cl[c].data # None
  BY <1>1 DEF ftpclient_data_pasv, Below, Spared
<1>2. CASE S.cl[c].data = None
  <2> DEFINE U == DropPasv(S, c)
  <2>1. Sized(U) /\ Below(S, U, n)
    BY DropPasvEffect, DropPasvBelow
  <2>2. \/ out = <<U, FALSE>>
        \/ \E s \in Unused(U) :
             out = <<Watch([Opened(U, s, "listen") EXCEPT !.cl[c].pasv = s], s, c), TRUE>>
    BY <1>2 DEF ftpclient_data_pasv
  <2> HIDE DEF U
  <2>3. CASE out = <<U, FALSE>>
    BY <2>1, <2>3
  <2>4. ASSUME NEW s \in Unused(U),
               out = <<Watch([Opened(U, s, "listen") EXCEPT !.cl[c].pasv = s], s, c), TRUE>>
        PROVE  Below(S, out[1], n)
    <3> DEFINE V == [Opened(U, s, "listen") EXCEPT !.cl[c].pasv = s]
    <3>1. s \in Fd /\ U.cl \in [Client -> Record] /\ U.cl[c] \in Record
      BY <2>1, OwnInFd DEF Unused
    <3>2. Sized(V) /\ V.fds = U.fds /\ V.nfds = U.nfds
      BY <2>1, <3>1 DEF Opened, Sized, State, Record, Kind
    <3>3. out[1] = Watch(V, s, c)
      BY <2>4
    <3> HIDE DEF V
    <3>4. n \in 0..V.nfds /\ Below(S, V, n)
      <4>1. U.nfds \in Nat
        BY <2>1, SlotsIn
      <4> QED
        BY <2>1, <3>2, <4>1 DEF Below
    <3>5. Below(V, out[1], n)
      BY <3>1, <3>2, <3>3, <3>4, WatchBelow
    <3> QED
      BY <3>4, <3>5, BelowTwice
  <2> QED
    BY <2>2, <2>3, <2>4
<1> QED
  BY <1>1, <1>2

(* What they leave of the order. *)

LEMMA SlotsOfClient ==
  ASSUME NEW S, Linked(S, {}), InOrder(S), NEW c \in Client, Alive(S, c)
  PROVE  /\ Sized(S) /\ S.nfds \in Nat /\ S.nfds >= 2
         /\ Spared(S, 1, Own(S, c))
         /\ Spared(S, 2, {S.cl[c].data, S.cl[c].pasv} \ {None})
<1>1. Sized(S) /\ Listener \notin Own(S, c) /\ Proper(S.cl[c], S.kernel)
  BY DEF Linked, Clean, Owns
<1>2. S.nfds \in Nat /\ S.nfds >= 2 /\ S.fds[1].fd = Listener /\ S.fds[2].fd = S.cl[c].ctl
  BY <1>1, SlotsIn DEF InOrder
<1>3. S.cl[c].ctl # None /\ S.cl[c].ctl \notin {S.cl[c].data, S.cl[c].pasv}
  BY <1>1 DEF Alive, Proper
<1>4. \A k \in 1..1 : k = 1
  OBVIOUS
<1>5. \A k \in 1..2 : k = 1 \/ k = 2
  OBVIOUS
<1> QED
  BY <1>1, <1>2, <1>3, <1>4, <1>5 DEF Spared, Own

LEMMA OrderKept ==
  ASSUME NEW S, InOrder(S), NEW T, Below(S, T, 1), NEW c \in Client, \A d \in Client : d = c,
         Alive(T, c) => Alive(S, c) /\ T.cl[c].ctl = S.cl[c].ctl /\ Below(S, T, 2)
  PROVE  InOrder(T)
<1>1. T.nfds >= 1 /\ T.fds[1].fd = Listener
  BY DEF InOrder, Below
<1>2. Alive(T, c) => T.nfds >= 2 /\ T.fds[2].fd = T.cl[c].ctl
  BY DEF InOrder, Below
<1> QED
  BY <1>1, <1>2 DEF InOrder

\* ftpclient_data_end leaves listener and control connection where they are.
LEMMA EndInOrder ==
  ASSUME NEW S, Linked(S, {}), InOrder(S), NEW c \in Client, Alive(S, c),
         \A d \in Client : d = c,
         NEW T, T = ftpclient_data_end(S, c)
  PROVE  InOrder(T) /\ Below(S, T, 2) /\ Below(S, T, 1)
<1>1. Sized(S) /\ S.nfds \in Nat /\ Spared(S, 2, {S.cl[c].data, S.cl[c].pasv} \ {None})
  BY SlotsOfClient
<1>2. Below(S, T, 2)
  BY <1>1, DataEndBelow
<1>3. Sized(T) /\ T.cl[c].ctl = S.cl[c].ctl
  BY <1>1, DataEndEffect
<1>4. Below(S, T, 1)
  <2>1. T.nfds \in Nat
    BY <1>3, SlotsIn
  <2> QED
    BY <1>2, <2>1 DEF Below
<1> QED
  BY <1>2, <1>3, <1>4, OrderKept

\* ftpclient_disconnect leaves the listener.
LEMMA DisconnectInOrder ==
  ASSUME NEW S, Linked(S, {}), InOrder(S), NEW c \in Client, Alive(S, c),
         \A d \in Client : d = c,
         NEW T, T = ftpclient_disconnect(S, c, S.cl[c].ctl)
  PROVE  InOrder(T) /\ Below(S, T, 1)
<1>1. Sized(S) /\ Spared(S, 1, Own(S, c)) /\ S.cl[c].ctl # None
  BY SlotsOfClient DEF Alive
<1>2. Below(S, T, 1)
  BY <1>1, DisconnectBelow
<1>3. ~Alive(T, c)
  BY <1>1, DisconnectEffect DEF Alive, Freed
<1> QED
  BY <1>2, <1>3, OrderKept

LEMMA PasvInOrder ==
  ASSUME NEW S, Coherent(S), InOrder(S), NEW c \in Client, Alive(S, c),
         \A d \in Client : d = c,
         NEW out \in ftpclient_data_pasv(S, c)
  PROVE  /\ InOrder(out[1]) /\ Below(S, out[1], 1)
         /\ Linked(out[1], {}) /\ Alive(out[1], c)
<1>1. /\ Sized(S) /\ S.nfds >= 2 /\ S.cl[c].ctl # None /\ S.nfds \in Nat
      /\ Spared(S, 2, {S.cl[c].pasv} \ {None})
  BY SlotsOfClient DEF Coherent, Alive, Spared
<1>2. Below(S, out[1], 2)
  BY <1>1, DataPasvBelow
<1>3. Sized(out[1]) /\ out[1].cl[c].ctl = S.cl[c].ctl /\ Coherent(out[1])
  BY <1>1, DataPasvEffect
<1>4. Below(S, out[1], 1)
  <2>1. out[1].nfds \in Nat
    BY <1>3, SlotsIn
  <2> QED
    BY <1>2, <2>1 DEF Below
<1> HIDE DEF ftpclient_data_pasv
<1> QED
  BY <1>2, <1>3, <1>4, OrderKept DEF Coherent, Alive

LEMMA StartInOrder ==
  ASSUME NEW S, Linked(S, {}), InOrder(S), NEW c \in Client, Alive(S, c), ~S.cl[c].cb,
         \A d \in Client : d = c,
         NEW out \in ftpclient_data_start(S, c)
  PROVE  /\ InOrder(out[1]) /\ Below(S, out[1], 1)
         /\ Linked(out[1], {}) /\ Alive(out[1], c)
<1>1. /\ Sized(S) /\ S.nfds >= 2 /\ S.cl[c].ctl # None /\ S.nfds \in Nat
      /\ Spared(S, 2, {S.cl[c].pasv} \ {None})
  BY SlotsOfClient DEF Alive, Spared
<1>2. Below(S, out[1], 2)
  BY <1>1, DataStartBelow
<1>3. Sized(out[1]) /\ out[1].cl[c].ctl = S.cl[c].ctl /\ Linked(out[1], {})
  BY <1>1, DataStartEffect
<1>4. Below(S, out[1], 1)
  <2>1. out[1].nfds \in Nat
    BY <1>3, SlotsIn
  <2> QED
    BY <1>2, <2>1 DEF Below
<1> QED
  BY <1>2, <1>3, <1>4, OrderKept DEF Alive

LEMMA SendsSucceed ==
  ASSUME LoneClient, NEW sent \in Sendings, NEW S, NEW c
  PROVE  sent /\ ftpclient_send_message(S, c, sent) = S
BY DEF LoneClient, Sendings, ftpclient_send_message

------------------------------------------------------------------------------
(* One turn of the loop. *)

\* What a handler must leave: the order, and the slots that are still to be visited.
Keeps(T) == InOrder(T) /\ Below(srv, T, i - 1)

Stepped == (\E T : srv' = T /\ Keeps(T)) /\ fault' = Noted /\ pc' = pc

\* A slot of an event in hand, in an array that is in order.
AtSlot ==
  /\ LoneClient /\ Basic /\ Coherent(srv) /\ InOrder(srv)
  /\ Scanning /\ i \in 1..srv.nfds /\ srv.fds[i].rev \in Polled
  /\ Noted = "none" /\ \A r \in Read(srv.fds[i].rev) : r = srv.fds[i].rev

LEMMA WalkAtSlot ==
  ASSUME LoneClient, Basic, Kept, Walk, Scanning
  PROVE  AtSlot /\ i <= Len(srv.fds)
<1>1. pc = "scan" /\ fault = "none" /\ i \in Nat /\ i > 0 /\ p > 0 /\ Running
  BY DEF Scanning, Walk, Basic, Running
<1>2. Coherent(srv) /\ InOrder(srv) /\ Sized(srv)
  BY <1>1 DEF Kept, Walk, Basic, Sound
<1>3. i \in 1..srv.nfds /\ i <= Len(srv.fds) /\ ~(i > srv.nfds)
  BY <1>1, <1>2, SlotsIn DEF Walk
<1>4. srv.fds[i].rev \in Polled
  BY <1>1, <1>3 DEF Walk
<1>5. srv.fds[i].rev # "junk" /\ srv.fds[i].rev # "old"
  BY <1>4 DEF Polled
<1>6. Noted = "none"
  BY <1>1, <1>3, <1>5 DEF Noted
<1>7. \A r \in Read(srv.fds[i].rev) : r = srv.fds[i].rev
  BY <1>5 DEF Read
<1> QED
  BY <1>1, <1>2, <1>3, <1>4, <1>6, <1>7 DEF AtSlot

LEMMA MarkedInOrder ==
  ASSUME AtSlot
  PROVE  /\ Sized(Marked) /\ Coherent(Marked) /\ InOrder(Marked) /\ Keeps(Marked)
         /\ Marked.cl = srv.cl /\ Marked.nfds = srv.nfds
         /\ \A k \in 1..srv.nfds : Marked.fds[k].fd = srv.fds[k].fd
<1>1. Sized(srv) /\ i \in 1..srv.nfds /\ i <= Len(srv.fds)
  BY SlotsIn DEF AtSlot, Basic, Sound
<1>2. /\ Sized(Marked) /\ Coherent(Marked)
      /\ Marked.cl = srv.cl /\ Marked.nfds = srv.nfds
  BY <1>1, MarkedEffect DEF AtSlot
<1>3. /\ srv.nfds \in Nat /\ srv.nfds <= Len(srv.fds) /\ Len(srv.fds) \in Nat
      /\ srv.fds \in Seq(Slot) /\ \A k \in 1..srv.nfds : srv.fds[k] \in Slot
  BY <1>1, SlotsIn
<1>4. Marked.fds = [srv.fds EXCEPT ![i] = [srv.fds[i] EXCEPT !.rev = "old"]]
  BY <1>1 DEF Marked, Sized, State
<1>5. DOMAIN srv.fds = 1..Len(srv.fds)
  BY <1>3
<1>6. \A k \in 1..srv.nfds : Marked.fds[k] = IF k = i THEN [srv.fds[k] EXCEPT !.rev = "old"]
                                             ELSE srv.fds[k]
  BY <1>3, <1>4, <1>5
<1>7. \A k \in 1..srv.nfds : Marked.fds[k].fd = srv.fds[k].fd
  BY <1>3, <1>6 DEF Slot
<1>8. InOrder(Marked)
  <2>1. 1 \in 1..srv.nfds /\ (srv.nfds >= 2 => 2 \in 1..srv.nfds)
    BY <1>1, <1>3
  <2> QED
    BY <1>2, <1>7, <2>1 DEF AtSlot, InOrder, Alive
<1>9. Below(srv, Marked, i - 1)
  <2>1. i - 1 <= srv.nfds /\ \A k \in 1..(i - 1) : k \in 1..srv.nfds /\ k # i
    BY <1>1, <1>3
  <2> QED
    BY <1>2, <1>6, <2>1 DEF Below
<1> QED
  BY <1>2, <1>7, <1>8, <1>9 DEF Keeps

\* A command is handled in the second slot,
LEMMA ControlSlot ==
  ASSUME AtSlot, Owner # None, Sock = srv.cl[Owner].ctl
  PROVE  i = 2 /\ Owner \in Client /\ Alive(srv, Owner)
<1>1. Sized(srv) /\ i \in 1..srv.nfds /\ i <= Len(srv.fds) /\ Distinct(srv) /\ srv.nfds \in Nat
  BY SlotsIn DEF AtSlot, Basic, Sound, Coherent, Linked, Clean
<1>2. Owner \in Client /\ Alive(srv, Owner)
  BY <1>1, OwnerFound DEF AtSlot, Alive
<1>3. srv.nfds >= 2 /\ srv.fds[2].fd = srv.fds[i].fd
  BY <1>2 DEF AtSlot, InOrder, Sock
<1>4. 2 \in 1..srv.nfds
  BY <1>1, <1>3
<1>5. i = 2
  BY <1>1, <1>3, <1>4 DEF Distinct
<1> QED
  BY <1>2, <1>5

\* and everything else a client has, above it.
LEMMA OtherSlot ==
  ASSUME AtSlot, Owner # None, Sock # Listener, Sock # srv.cl[Owner].ctl
  PROVE  /\ i >= 3 /\ Owner \in Client /\ Alive(srv, Owner)
         /\ Sock \in {srv.cl[Owner].data, srv.cl[Owner].pasv} \ {None}
         /\ Spared(Marked, i - 1, {Sock})
<1>1. Sized(srv) /\ i \in 1..srv.nfds /\ i <= Len(srv.fds) /\ Distinct(srv) /\ srv.nfds \in Nat
  BY SlotsIn DEF AtSlot, Basic, Sound, Coherent, Linked, Clean
<1>2. Owner \in Client /\ Alive(srv, Owner) /\ Sock \in Own(srv, Owner)
  BY <1>1, OwnerFound DEF AtSlot, Alive
<1>3. srv.fds[1].fd = Listener /\ srv.fds[2].fd = srv.cl[Owner].ctl
  BY <1>2 DEF AtSlot, InOrder
<1>4. i # 1 /\ i # 2
  BY <1>3 DEF Sock
<1>5. \A k \in 1..(i - 1) : k \in 1..srv.nfds /\ k # i
  BY <1>1
<1>6. \A k \in 1..(i - 1) : srv.fds[k].fd # Sock
  BY <1>1, <1>5 DEF Distinct, Sock
<1>7. Marked.nfds = srv.nfds /\ \A k \in 1..srv.nfds : Marked.fds[k].fd = srv.fds[k].fd
  BY MarkedInOrder
<1>8. Spared(Marked, i - 1, {Sock})
  BY <1>1, <1>5, <1>6, <1>7 DEF Spared
<1> QED
  BY <1>1, <1>2, <1>4, <1>8 DEF Own

LEMMA ControlKeeps ==
  ASSUME AtSlot, Owner # None, Sock = srv.cl[Owner].ctl,
         NEW T, InOrder(T), Below(Marked, T, 1)
  PROVE  Keeps(T)
<1>1. i = 2
  BY ControlSlot
<1>2. Below(srv, Marked, 1)
  BY <1>1, MarkedInOrder DEF Keeps
<1>3. Below(srv, T, 1)
  BY <1>2, BelowTwice
<1> QED
  BY <1>1, <1>3 DEF Keeps

LEMMA OtherKeeps ==
  ASSUME AtSlot, Owner # None, Sock # Listener, Sock # srv.cl[Owner].ctl,
         NEW T, Sized(T), T.cl[Owner].ctl = Marked.cl[Owner].ctl, Below(Marked, T, i - 1)
  PROVE  Keeps(T)
<1>1. i >= 3 /\ Owner \in Client /\ Alive(srv, Owner) /\ i \in Nat
  BY OtherSlot DEF AtSlot, Basic
<1>2. InOrder(Marked) /\ Below(srv, Marked, i - 1) /\ Marked.cl = srv.cl
  BY MarkedInOrder DEF Keeps
<1>3. Below(srv, T, i - 1)
  BY <1>2, BelowTwice
<1>4. T.nfds \in Nat
  BY SlotsIn
<1>5. Below(Marked, T, 1) /\ Below(Marked, T, 2)
  BY <1>1, <1>4 DEF Below
<1>6. \A d \in Client : d = Owner
  BY <1>1 DEF AtSlot, LoneClient
<1>7. Alive(T, Owner) => Alive(Marked, Owner) /\ T.cl[Owner].ctl = Marked.cl[Owner].ctl
  BY DEF Alive
<1>8. InOrder(T)
  <2> DEFINE c == Owner
             S == Marked
  <2>1. /\ InOrder(S) /\ Below(S, T, 1) /\ c \in Client /\ \A d \in Client : d = c
        /\ Alive(T, c) => Alive(S, c) /\ T.cl[c].ctl = S.cl[c].ctl /\ Below(S, T, 2)
    BY <1>1, <1>2, <1>5, <1>6, <1>7
  <2> HIDE DEF c, S
  <2> QED
    BY <2>1, OrderKept
<1> QED
  BY <1>3, <1>8 DEF Keeps

\* A transfer ends on the data connection,
LEMMA DataEndKeeps ==
  ASSUME AtSlot, Owner # None, Sock # Listener, Sock = srv.cl[Owner].data,
         NEW T, T = ftpclient_data_end(Marked, Owner)
  PROVE  Keeps(T)
<1>1. /\ Sized(Marked) /\ Coherent(Marked) /\ Marked.cl = srv.cl
      /\ i - 1 \in Nat
  BY MarkedInOrder DEF AtSlot
<1>2. Owner \in Client /\ Sock \in Own(srv, Owner)
  BY OwnerFound, SlotsIn DEF AtSlot, Basic, Sound
<1>3. Whole(srv.cl[Owner]) /\ Proper(srv.cl[Owner], srv.kernel)
  BY <1>2 DEF AtSlot, Coherent, Linked, Owns
<1>4. Sock # srv.cl[Owner].ctl /\ srv.cl[Owner].pasv = None /\ Sock # None
  BY <1>2, <1>3 DEF Whole, Proper, Own
<1>5. Spared(Marked, i - 1, {Marked.cl[Owner].data, Marked.cl[Owner].pasv} \ {None})
  BY <1>1, <1>4, OtherSlot DEF Spared
<1> DEFINE c == Owner
           S == Marked
           n == i - 1
<1>6. /\ Sized(S) /\ c \in Client /\ n \in Nat /\ T = ftpclient_data_end(S, c)
      /\ Spared(S, n, {S.cl[c].data, S.cl[c].pasv} \ {None})
  BY <1>1, <1>2, <1>5
<1> HIDE DEF c, S, n
<1>7. Sized(T) /\ T.cl[c].ctl = S.cl[c].ctl /\ Below(S, T, n)
  BY <1>6, DataEndEffect, DataEndBelow
<1> QED
  BY <1>4, <1>7, OtherKeeps DEF c, S, n

\* or on a passive listener that hangs up,
LEMMA DropKeeps ==
  ASSUME AtSlot, Owner # None, Sock # Listener, Sock # srv.cl[Owner].ctl,
         NEW T, T = Drop(Marked, Sock)
  PROVE  Keeps(T)
<1>1. Sized(Marked) /\ i - 1 \in Nat
  BY MarkedInOrder DEF AtSlot
<1>2. Owner \in Client /\ Spared(Marked, i - 1, {Sock}) /\ Sock \in Fd
  <2>1. Sock \in Own(srv, Owner) /\ Own(srv, Owner) \subseteq Fd
    BY OwnerFound, SlotsIn, OwnInFd DEF AtSlot, Basic, Sound
  <2> QED
    BY <2>1, OtherSlot
<1> DEFINE S == Marked
           s == Sock
           n == i - 1
<1>3. /\ Sized(S) /\ s \in Fd \cup {None} /\ n \in Nat /\ T = Drop(S, s)
      /\ Spared(S, n, {s} \ {None})
  BY <1>1, <1>2 DEF Spared
<1> HIDE DEF S, s, n
<1>4. Sized(T) /\ T.cl = S.cl
  BY <1>3, DropSized
<1>5. Below(S, T, n)
  BY <1>3, DropBelow
<1> QED
  BY <1>4, <1>5, OtherKeeps DEF S, n

\* or when a passive listener has accepted.
LEMMA PasvEventKeeps ==
  ASSUME AtSlot, Owner # None, Sock # Listener, Sock = srv.cl[Owner].pasv,
         Sock \notin {srv.cl[Owner].data, srv.cl[Owner].ctl},
         NEW U \in IF srv.cl[Owner].data = None THEN AcceptData(Marked, Owner) ELSE {Marked},
         NEW T, T = DropPasv(U, Owner)
  PROVE  Keeps(T)
<1>1. Sized(Marked) /\ i - 1 \in Nat /\ Marked.cl = srv.cl
  BY MarkedInOrder DEF AtSlot
<1>2. Owner \in Client /\ Spared(Marked, i - 1, {Sock}) /\ srv.cl[Owner].ctl # None
  BY OtherSlot DEF Alive
<1> DEFINE S == Marked
           c == Owner
           n == i - 1
<1>3. /\ Sized(S) /\ c \in Client /\ S.cl[c].ctl # None /\ n \in Nat
      /\ U \in IF S.cl[c].data = None THEN AcceptData(S, c) ELSE {S}
      /\ T = DropPasv(U, c) /\ Spared(S, n, {S.cl[c].pasv} \ {None})
  BY <1>1, <1>2 DEF Spared
<1> HIDE DEF S, c, n
<1>4. /\ Sized(U) /\ U.cl[c].ctl = S.cl[c].ctl /\ U.cl[c].pasv = S.cl[c].pasv
      /\ U.fds = S.fds /\ U.nfds = S.nfds
  <2>1. CASE S.cl[c].data = None
    BY <1>3, <2>1, AcceptDataEffect, AcceptDataBelow
  <2>2. CASE S.cl[c].data # None
    BY <1>3, <2>2
  <2> QED
    BY <2>1, <2>2
<1>5. Below(S, U, n) /\ Spared(U, n, {U.cl[c].pasv} \ {None})
  BY <1>3, <1>4 DEF Below, Spared
<1>6. Below(U, T, n)
  BY <1>3, <1>4, <1>5, DropPasvBelow
<1>7. Sized(T) /\ T.cl[c].ctl = U.cl[c].ctl
  <2>1. Sized(T) /\ T.cl = [U.cl EXCEPT ![c] = [U.cl[c] EXCEPT !.pasv = None]]
    BY <1>3, <1>4, DropPasvEffect
  <2>2. U.cl \in [Client -> Record] /\ U.cl[c] \in Record
    BY <1>3, <1>4, OwnInFd
  <2> QED
    BY <1>3, <2>1, <2>2 DEF Record
<1>8. Below(S, T, n)
  BY <1>5, <1>6, BelowTwice
<1> QED
  BY <1>4, <1>7, <1>8, OtherKeeps DEF S, c, n

LEMMA HangUpKeeps ==
  ASSUME AtSlot, HangUp
  PROVE  Stepped
<1> DEFINE T == IF Sock = srv.cl[Owner].data THEN ftpclient_data_end(Marked, Owner)
                ELSE ftpclient_disconnect(Marked, Owner, Sock)
<1>1. Becomes(T) /\ Sock # Listener /\ Owner # None
  BY DEF HangUp
<1>2. Keeps(T)
  <2>1. CASE Sock = srv.cl[Owner].data
    BY <1>1, <2>1, DataEndKeeps
  <2>2. CASE Sock # srv.cl[Owner].data /\ Sock = srv.cl[Owner].ctl
    <3>1. /\ Coherent(Marked) /\ InOrder(Marked) /\ Marked.cl = srv.cl
          /\ Owner \in Client /\ Alive(srv, Owner) /\ \A d \in Client : d = Owner
      BY <1>1, <2>2, MarkedInOrder, ControlSlot DEF AtSlot, LoneClient
    <3>2. T = ftpclient_disconnect(Marked, Owner, Marked.cl[Owner].ctl)
      BY <2>2, <3>1
    <3> HIDE DEF T
    <3>3. InOrder(T) /\ Below(Marked, T, 1)
      BY <3>1, <3>2, DisconnectInOrder DEF Coherent, Alive
    <3> QED
      BY <1>1, <2>2, <3>3, ControlKeeps
  <2>3. CASE Sock # srv.cl[Owner].data /\ Sock # srv.cl[Owner].ctl
    <3>1. T = Drop(Marked, Sock)
      BY <2>3, MarkedInOrder DEF ftpclient_disconnect
    <3> HIDE DEF T
    <3> QED
      BY <1>1, <2>3, <3>1, DropKeeps
  <2> QED
    BY <2>1, <2>2, <2>3
<1> QED
  BY <1>1, <1>2 DEF Becomes, Stepped

LEMMA DataEventKeeps ==
  ASSUME AtSlot, DataEvent
  PROVE  Stepped
<1> DEFINE U == ftpclient_data_end(Marked, Owner)
<1>1. Sock # Listener /\ Owner # None /\ Sock = srv.cl[Owner].data
  BY DEF DataEvent, Event
<1>2. Keeps(U) /\ Keeps(Marked)
  BY <1>1, DataEndKeeps, MarkedInOrder
<1>3. \A sent \in Sendings : ftpclient_send_message(U, Owner, sent) = U
  BY SendsSucceed DEF AtSlot
<1>4. Becomes(Marked) \/ Becomes(U)
  BY <1>3 DEF DataEvent
<1> QED
  BY <1>2, <1>4 DEF Becomes, Stepped

\* A new client is alone, and its connection comes behind the listener.
LEMMA AcceptKeeps ==
  ASSUME AtSlot, Accept
  PROVE  Stepped
<1>1. CASE Becomes(Marked)
  BY <1>1, MarkedInOrder DEF Becomes, Stepped
<1>2. ASSUME NEW s \in Unused(srv), NEW c \in Client, NEW sent \in Sendings, ~Alive(srv, c),
             Becomes(ftpclient_send_message(Admit(Marked, c, s), c, sent))
      PROVE  Stepped
  <2> DEFINE r == [Freed EXCEPT !.ctl = s]
             U == [Opened(Marked, s, "conn") EXCEPT !.cl[c] = r]
             T == Watch(U, s, c)
  <2>1. Becomes(T)
    BY <1>2, SendsSucceed DEF AtSlot, Admit, OpenFor
  <2>2. /\ Sized(Marked) /\ Below(srv, Marked, i - 1) /\ InOrder(Marked)
        /\ Marked.nfds = srv.nfds /\ i - 1 \in 0..srv.nfds /\ srv.nfds \in Nat
    BY MarkedInOrder, SlotsIn DEF Keeps, AtSlot
  <2>3. s \in Fd /\ r \in Record /\ r.ctl = s
    BY DEF Unused, Freed, Record
  <2>4. Sized(U) /\ U.fds = Marked.fds /\ U.nfds = Marked.nfds /\ U.cl = [Marked.cl EXCEPT ![c] = r]
    <3> HIDE DEF r
    <3> QED
      BY <2>2, <2>3 DEF Opened, Sized, State, Kind
  <2>5. U.cl[c].ctl = s
    BY <2>2, <2>3, <2>4 DEF Sized, State
  <2> HIDE DEF r, U
  <2>6. srv.nfds = 1
    <3>1. Clean(srv) /\ PolledFds(srv) = Keys(srv) \cup {Listener} /\ Finds(srv, {})
          /\ Proper(srv.cl[c], srv.kernel) /\ srv.tree \in [Fd -> Client \cup {None}]
          /\ srv.nfds >= 1 /\ srv.fds[1].fd = Listener
      BY DEF AtSlot, Coherent, Linked, Owns, InOrder, Clean, Sized, State
    <3>2. Heard(srv.cl[c]) = {}
      BY <1>2, <3>1 DEF Alive, Heard, Proper
    <3>3. Keys(srv) = {}
      <4>1. \A d \in Client : d = c
        BY DEF AtSlot, LoneClient
      <4> QED
        BY <3>1, <3>2, <4>1 DEF Keys, Finds
    <3>4. ASSUME srv.nfds >= 2 PROVE FALSE
      <4>1. 1 \in 1..srv.nfds /\ 2 \in 1..srv.nfds
        BY <2>2, <3>4
      <4>2. srv.fds[2].fd \in PolledFds(srv)
        BY <4>1 DEF PolledFds
      <4>3. srv.fds[2].fd = srv.fds[1].fd
        BY <3>1, <3>3, <4>2
      <4> QED
        BY <3>1, <4>1, <4>3 DEF Clean, Distinct
    <3> QED
      BY <2>2, <3>1, <3>4
  <2>7. /\ T.nfds = 2 /\ T.fds[2].fd = s /\ Below(U, T, 1) /\ Below(U, T, i - 1)
        /\ Sized(T) /\ T.cl = U.cl
    <3>1. U.nfds = 1 /\ 1 \in 0..U.nfds /\ i - 1 \in 0..U.nfds /\ U.nfds + 1 = 2
      BY <2>2, <2>4, <2>6
    <3>3. T = Watch(U, s, c)
      OBVIOUS
    <3> HIDE DEF T
    <3>2. /\ Sized(T) /\ T.cl = U.cl
          /\ T.nfds = U.nfds + 1 /\ T.fds[U.nfds + 1].fd = s
          /\ \A n \in 0..U.nfds : Below(U, T, n)
      BY <2>3, <2>4, <3>3, WatchBelow
    <3> QED
      BY <3>1, <3>2
  <2> HIDE DEF T
  <2>8. InOrder(T)
    <3>1. T.fds[1].fd = Listener
      BY <2>2, <2>4, <2>7 DEF Below, InOrder
    <3>2. \A d \in Client : d = c
      BY DEF AtSlot, LoneClient
    <3> QED
      BY <2>5, <2>7, <3>1, <3>2 DEF InOrder
  <2>9. Below(srv, T, i - 1)
    BY <2>2, <2>4, <2>7 DEF Below
  <2> QED
    BY <2>1, <2>8, <2>9 DEF Keeps, Becomes, Stepped
<1> QED
  BY <1>1, <1>2 DEF Accept, Admit, OpenFor

LEMMA PasvKeeps ==
  ASSUME AtSlot, PasvEvent
  PROVE  Stepped
<1>1. /\ Owner # None /\ Sock # Listener /\ Sock = srv.cl[Owner].pasv
      /\ Sock \notin {srv.cl[Owner].data, srv.cl[Owner].ctl}
  BY DEF PasvEvent, Event
<1>2. PICK U \in IF srv.cl[Owner].data = None THEN AcceptData(Marked, Owner) ELSE {Marked} :
        Becomes(DropPasv(U, Owner))
  BY DEF PasvEvent
<1>3. Keeps(DropPasv(U, Owner))
  BY <1>1, <1>2, PasvEventKeeps
<1> QED
  BY <1>2, <1>3 DEF Becomes, Stepped

(* Commands: Marked is the server they find. *)

LEMMA CommandFinds ==
  ASSUME AtSlot, ControlEvent
  PROVE  /\ Owner # None /\ Sock = srv.cl[Owner].ctl /\ Owner \in Client
         /\ Coherent(Marked) /\ Linked(Marked, {}) /\ InOrder(Marked) /\ Alive(Marked, Owner)
         /\ Marked.cl = srv.cl /\ \A d \in Client : d = Owner
<1>1. Owner # None /\ Sock = srv.cl[Owner].ctl
  BY DEF ControlEvent, Event
<1>2. Owner \in Client /\ Alive(srv, Owner)
  BY <1>1, ControlSlot
<1>3. Coherent(Marked) /\ InOrder(Marked) /\ Marked.cl = srv.cl
  BY MarkedInOrder
<1> QED
  BY <1>1, <1>2, <1>3 DEF AtSlot, LoneClient, Alive, Coherent

LEMMA LeaveKeeps ==
  ASSUME AtSlot, ControlEvent
  PROVE  Keeps(ftpclient_disconnect(Marked, Owner, Sock))
<1> DEFINE S == Marked
           c == Owner
           T == ftpclient_disconnect(S, c, S.cl[c].ctl)
<1>1. Owner # None /\ Sock = srv.cl[Owner].ctl /\ T = ftpclient_disconnect(Marked, Owner, Sock)
  BY CommandFinds
<1>2. /\ Linked(S, {}) /\ InOrder(S) /\ c \in Client /\ Alive(S, c) /\ \A d \in Client : d = c
      /\ T = ftpclient_disconnect(S, c, S.cl[c].ctl)
  BY CommandFinds
<1> HIDE DEF S, c, T
<1>3. InOrder(T) /\ Below(S, T, 1)
  BY <1>2, DisconnectInOrder
<1>4. Keeps(T)
  BY <1>1, <1>3, ControlKeeps DEF S
<1> QED
  BY <1>1, <1>4

LEMMA AborKeeps ==
  ASSUME AtSlot, ControlEvent
  PROVE  Keeps(ftpclient_data_end(Marked, Owner))
<1> DEFINE S == Marked
           c == Owner
           T == ftpclient_data_end(S, c)
<1>1. /\ Linked(S, {}) /\ InOrder(S) /\ c \in Client /\ Alive(S, c) /\ \A d \in Client : d = c
      /\ Owner # None /\ Sock = srv.cl[Owner].ctl
      /\ T = ftpclient_data_end(S, c) /\ T = ftpclient_data_end(Marked, Owner)
  BY CommandFinds
<1> HIDE DEF S, c, T
<1>2. InOrder(T) /\ Below(S, T, 1)
  BY <1>1, EndInOrder
<1>3. Keeps(T)
  BY <1>1, <1>2, ControlKeeps DEF S
<1> QED
  BY <1>1, <1>3

\* What PASV and the transfers do after they have succeeded or failed.
LEMMA OutcomeKeeps ==
  ASSUME AtSlot, ControlEvent,
         NEW V, Linked(V, {}), InOrder(V), Below(Marked, V, 1), Alive(V, Owner),
         NEW ok, NEW T, T = IF ok THEN V ELSE ftpclient_data_end(V, Owner)
  PROVE  Keeps(T)
<1>1. Owner # None /\ Sock = srv.cl[Owner].ctl /\ Owner \in Client /\ \A d \in Client : d = Owner
  BY CommandFinds
<1>2. CASE ok
  BY <1>1, <1>2, ControlKeeps
<1>3. CASE ~ok
  <2> DEFINE c == Owner
  <2>1. /\ c \in Client /\ Alive(V, c) /\ \A d \in Client : d = c
        /\ T = ftpclient_data_end(V, c)
    BY <1>1, <1>3
  <2> HIDE DEF c
  <2>2. InOrder(T) /\ Below(V, T, 1)
    BY <2>1, EndInOrder
  <2>3. Below(Marked, T, 1)
    BY <2>2, BelowTwice
  <2> QED
    BY <1>1, <2>2, <2>3, ControlKeeps
<1> QED
  BY <1>2, <1>3

LEMMA CmdPasvKeeps ==
  ASSUME AtSlot, ssftpCmdPasv
  PROVE  Stepped
<1>1. ControlEvent
  BY DEF ssftpCmdPasv
<1>2. PICK out \in ftpclient_data_pasv(Marked, Owner), sent \in Sendings :
        Becomes(ftpclient_send_message(
          IF out[2] THEN out[1] ELSE ftpclient_data_end(out[1], Owner), Owner, sent))
  BY DEF ssftpCmdPasv
<1> DEFINE T == IF out[2] THEN out[1] ELSE ftpclient_data_end(out[1], Owner)
           S == Marked
           c == Owner
<1>3. Becomes(T)
  <2> HIDE DEF T
  <2>1. \A U : ftpclient_send_message(U, Owner, sent) = U
    BY SendsSucceed DEF AtSlot
  <2>2. Becomes(ftpclient_send_message(T, Owner, sent))
    BY <1>2 DEF T
  <2>3. ftpclient_send_message(T, Owner, sent) = T
    BY <2>1
  <2> QED
    BY <2>2, <2>3
<1>4. /\ Coherent(S) /\ InOrder(S) /\ c \in Client /\ Alive(S, c) /\ \A d \in Client : d = c
      /\ out \in ftpclient_data_pasv(S, c)
  BY <1>1, <1>2, CommandFinds
<1> HIDE DEF S, c
<1>5. /\ InOrder(out[1]) /\ Below(S, out[1], 1)
      /\ Linked(out[1], {}) /\ Alive(out[1], c)
  BY <1>4, PasvInOrder
<1>6. Keeps(T)
  BY <1>1, <1>5, OutcomeKeeps DEF S, c
<1> QED
  BY <1>3, <1>6 DEF Becomes, Stepped

LEMMA TransferKeeps ==
  ASSUME AtSlot, Transfer
  PROVE  Stepped
<1>1. ControlEvent /\ ~srv.cl[Owner].handle
  BY DEF Transfer
<1> DEFINE S == OpenHandle(Marked, Owner)
           c == Owner
<1>2. PICK out \in ftpclient_data_start(S, c), sent \in Sendings :
        Becomes(ftpclient_send_message(
          IF out[2] THEN out[1] ELSE ftpclient_data_end(out[1], Owner), Owner, sent))
  BY DEF Transfer, OpenHandle
<1> DEFINE T == IF out[2] THEN out[1] ELSE ftpclient_data_end(out[1], Owner)
<1>3. Becomes(T)
  <2> HIDE DEF T
  <2>1. \A U : ftpclient_send_message(U, Owner, sent) = U
    BY SendsSucceed DEF AtSlot
  <2>2. Becomes(ftpclient_send_message(T, Owner, sent))
    BY <1>2 DEF T
  <2>3. ftpclient_send_message(T, Owner, sent) = T
    BY <2>1
  <2> QED
    BY <2>2, <2>3
<1>4. /\ c \in Client /\ Coherent(Marked) /\ Linked(Marked, {}) /\ InOrder(Marked)
      /\ Alive(Marked, c) /\ Marked.cl = srv.cl /\ \A d \in Client : d = c
  BY <1>1, CommandFinds
<1>5. ~Marked.cl[c].cb /\ Sound(Marked) /\ Sized(Marked) /\ Marked.nfds \in Nat
      /\ Marked.nfds >= 2
  <2>1. Sound(Marked)
    BY <1>1, EventFacts DEF AtSlot, ControlEvent, InHand
  <2>2. Whole(Marked.cl[c])
    BY <1>4 DEF Coherent
  <2> QED
    BY <1>1, <1>4, <2>1, <2>2, SlotsOfClient DEF Whole, Sound
<1>6. /\ S.fds = Marked.fds /\ S.nfds = Marked.nfds
      /\ S.cl[c] = [Marked.cl[c] EXCEPT !.handle = TRUE] /\ Linked(S, {})
  <2>1. S.fds = Marked.fds /\ S.nfds = Marked.nfds
    BY <1>5 DEF OpenHandle, Sized, State
  <2> HIDE DEF c
  <2>2. S = OpenHandle(Marked, c)
    BY DEF c
  <2> HIDE DEF S
  <2>3. S.cl[c] = [Marked.cl[c] EXCEPT !.handle = TRUE] /\ Linked(S, {})
    BY <1>4, <1>5, <2>2, OpenHandleEffect
  <2> QED
    BY <2>1, <2>3
<1> HIDE DEF S, c
<1>7. S.cl[c].ctl = Marked.cl[c].ctl /\ ~S.cl[c].cb
  <2>1. Marked.cl[c] \in Record
    BY <1>4, <1>5, OwnInFd
  <2> QED
    BY <1>5, <1>6, <2>1 DEF Record
<1>8. Below(Marked, S, 1) /\ Below(Marked, S, 2) /\ Alive(S, c)
  BY <1>4, <1>5, <1>6, <1>7 DEF Below, Alive
<1>9. InOrder(S)
  <2> DEFINE R == Marked
  <2>1. /\ InOrder(R) /\ Below(R, S, 1) /\ c \in Client /\ \A d \in Client : d = c
        /\ Alive(R, c) /\ S.cl[c].ctl = R.cl[c].ctl /\ Below(R, S, 2)
    BY <1>4, <1>7, <1>8
  <2> HIDE DEF R
  <2> QED
    BY <2>1, OrderKept
<1>10. /\ InOrder(out[1]) /\ Below(S, out[1], 1)
       /\ Linked(out[1], {}) /\ Alive(out[1], c)
  BY <1>2, <1>4, <1>6, <1>7, <1>8, <1>9, StartInOrder
<1>11. Below(Marked, out[1], 1)
  BY <1>8, <1>10, BelowTwice
<1>12. Keeps(T)
  BY <1>1, <1>10, <1>11, OutcomeKeeps DEF c
<1> QED
  BY <1>3, <1>12 DEF Becomes, Stepped

\* Every branch of the walk keeps its order, and none of those for slots that cannot
\* be met is taken.
LEMMA HandlerKeeps ==
  ASSUME AtSlot, i <= Len(srv.fds), Handler
  PROVE  /\ i' = i - 1
         /\ Stepped \/ UNCHANGED <<srv, pc, stop, fault>>
<1>1. Visit("ready") \/ Visit("hup") => i' = i - 1
  BY DEF Visit
<1>2. Event => i' = i - 1
  BY <1>1 DEF Event
<1>3. ControlEvent => i' = i - 1
  BY <1>2 DEF ControlEvent
<1>4. \A sent \in Sendings : \A S, c : ftpclient_send_message(S, c, sent) = S
  BY SendsSucceed DEF AtSlot
<1>5. ~SendFails
  BY DEF AtSlot, LoneClient
<1>6. CASE Unseen
  BY <1>6 DEF Unseen
<1>7. CASE NullArray
  <2>1. srv.nfds \in Nat /\ Len(srv.fds) \in Nat /\ i \in Nat
    BY SlotsIn DEF AtSlot, Basic, Sound
  <2> QED
    BY <1>7, <2>1 DEF NullArray
<1>8. CASE InvalidSocket
  BY <1>8, SockKnown DEF InvalidSocket, Visit, AtSlot
<1>9. CASE Orphan
  BY <1>9, SockKnown DEF Orphan, AtSlot
<1>10. CASE Accept
  BY <1>1, <1>10, AcceptKeeps DEF Accept
<1>11. CASE HangUp
  BY <1>1, <1>11, HangUpKeeps DEF HangUp
<1>12. CASE DataEvent
  BY <1>2, <1>12, DataEventKeeps DEF DataEvent
<1>13. CASE PasvEvent
  BY <1>2, <1>13, PasvKeeps DEF PasvEvent
<1>14. CASE ShortLine
  BY <1>3, <1>14, LeaveKeeps DEF ShortLine, Becomes, Stepped
<1>15. CASE Reply
  <2>1. ControlEvent /\ Becomes(Marked)
    <3>1. PICK sent \in Sendings : Becomes(ftpclient_send_message(Marked, Owner, sent))
      BY <1>15 DEF Reply
    <3> QED
      BY <1>4, <1>15, <3>1 DEF Reply, Becomes
  <2> QED
    BY <1>3, <2>1, MarkedInOrder DEF Becomes, Stepped
<1>16. CASE ReplyLost
  BY <1>5, <1>16 DEF ReplyLost
<1>17. CASE ssftpCmdQuit
  BY <1>3, <1>5, <1>17, LeaveKeeps DEF ssftpCmdQuit, Becomes, Stepped
<1>18. CASE ssftpCmdAbor
  <2>1. ControlEvent /\ Becomes(ftpclient_data_end(Marked, Owner))
    <3>1. PICK sent \in Sendings :
            Becomes(ftpclient_send_message(ftpclient_data_end(Marked, Owner), Owner, sent))
      BY <1>18 DEF ssftpCmdAbor
    <3> QED
      BY <1>4, <1>18, <3>1 DEF ssftpCmdAbor, Becomes
  <2> QED
    BY <1>3, <2>1, AborKeeps DEF Becomes, Stepped
<1>19. CASE ssftpCmdPasv
  BY <1>3, <1>19, CmdPasvKeeps DEF ssftpCmdPasv
<1>20. CASE Transfer
  BY <1>3, <1>20, TransferKeeps DEF Transfer
<1>21. CASE ssftpCmdStop
  <2>1. ControlEvent /\ srv' = Marked /\ fault' = Noted /\ pc' = pc
    BY <1>21 DEF ssftpCmdStop
  <2> QED
    BY <1>3, <2>1, MarkedInOrder DEF Stepped
<1> QED
  BY <1>6, <1>7, <1>8, <1>9, <1>10, <1>11, <1>12, <1>13, <1>14, <1>15, <1>16, <1>17, <1>18, <1>19,
     <1>20, <1>21 DEF Handler

LEMMA HandlerWalks ==
  ASSUME LoneClient, Basic, Kept, Walk, Handler
  PROVE  Walk'
<1>1. Scanning
  BY DEF Handler, Unseen, NullArray, InvalidSocket, Accept, Orphan, HangUp, DataEvent,
     PasvEvent, ShortLine, Reply, ReplyLost, ssftpCmdQuit, ssftpCmdAbor, ssftpCmdPasv,
     Transfer, ssftpCmdStop, ControlEvent, Event, Visit
<1>2. AtSlot /\ i <= Len(srv.fds)
  BY <1>1, WalkAtSlot
<1>3. /\ pc = "scan" /\ i \in 1..srv.nfds /\ i \in Nat /\ srv.nfds \in Nat
      /\ InOrder(srv) /\ Noted = "none" /\ fault = "none"
      /\ \A k \in 1..i : srv.fds[k].rev \in Polled
  BY <1>1, <1>2, SlotsIn DEF AtSlot, Walk, Scanning, Basic, Sound
<1>6. i' = i - 1
  BY <1>2, HandlerKeeps
<1>4. CASE UNCHANGED <<srv, pc, stop, fault>>
  <2>1. i - 1 <= srv.nfds /\ \A k \in 1..(i - 1) : k \in 1..i
    BY <1>3
  <2> QED
    BY <1>3, <1>4, <1>6, <2>1 DEF Walk, InOrder, Alive
<1>5. CASE Stepped
  <2>1. PICK T : srv' = T /\ Keeps(T)
    BY <1>5 DEF Stepped
  <2>2. i - 1 <= T.nfds /\ \A k \in 1..(i - 1) : k \in 1..i /\ T.fds[k] = srv.fds[k]
    BY <1>3, <2>1 DEF Keeps, Below
  <2>3. InOrder(T)
    BY <2>1 DEF Keeps
  <2> QED
    BY <1>3, <1>5, <1>6, <2>1, <2>2, <2>3 DEF Walk, InOrder, Alive, Stepped
<1> QED
  BY <1>2, <1>4, <1>5, HandlerKeeps

(* The steps outside the inner loop. *)

LEMMA SameOrder ==
  ASSUME NEW S, InOrder(S), NEW T, T.nfds = S.nfds, T.cl = S.cl,
         \A k \in 1..S.nfds : T.fds[k].fd = S.fds[k].fd, S.nfds \in Nat
  PROVE  InOrder(T)
<1>1. 1 \in 1..S.nfds /\ (S.nfds >= 2 => 2 \in 1..S.nfds)
  BY DEF InOrder
<1> QED
  BY <1>1 DEF InOrder, Alive

LEMMA WalkStep ==
  ASSUME LoneClient, Basic, Kept, Walk, [Next]_vars
  PROVE  Walk'
<1>1. /\ Sized(srv) /\ srv.nfds \in Nat /\ fault = "none" /\ srv.fds \in Seq(Slot)
      /\ \A k \in 1..srv.nfds : srv.fds[k] \in Slot
  BY SlotsIn DEF Basic, Sound, Walk
<1>2. CASE Run
  <2> DEFINE U == pollfd_array_add(srv, Listener)
  <2>1. /\ srv' = Settled(U) /\ fault' = "none" /\ pc' # "scan" /\ Unstarted(srv)
    BY <1>1, <1>2 DEF Run, Kept
  <2>2. Sized(U) /\ SameButFds(srv, U) /\ U.nfds = 1 /\ U.fds[1] = [fd |-> Listener, rev |-> "junk"]
    BY <1>1, <2>1, ArrayAdd, ConstantsAssumption DEF Unstarted
  <2> HIDE DEF U
  <2>3. srv'.nfds = 1 /\ srv'.fds[1].fd = Listener /\ srv'.cl = srv.cl
    BY <2>1, <2>2 DEF Settled, Sized, State, SameButFds
  <2>4. \A c \in Client : srv.cl[c].ctl = None
    BY <2>1 DEF Unstarted, Freed
  <2> QED
    BY <2>1, <2>3, <2>4 DEF Walk, InOrder, Alive
<1>3. CASE Poll
  <2>1. PICK R \in [1..srv.nfds -> Polled] :
          srv' = [srv EXCEPT !.fds = [k \in 1..srv.nfds |-> [srv.fds[k] EXCEPT !.rev = R[k]]]]
    BY <1>3 DEF Poll
  <2>2. pc = "poll" /\ pc' = "scan" /\ i' = srv.nfds /\ fault' = fault
    BY <1>3 DEF Poll
  <2>3. /\ srv'.nfds = srv.nfds /\ srv'.cl = srv.cl
        /\ \A k \in 1..srv.nfds : srv'.fds[k] = [srv.fds[k] EXCEPT !.rev = R[k]]
    BY <1>1, <2>1 DEF Sized, State
  <2>4. \A k \in 1..srv.nfds : srv'.fds[k].fd = srv.fds[k].fd /\ srv'.fds[k].rev \in Polled
    BY <1>1, <2>3 DEF Slot
  <2>5. InOrder(srv)
    BY <2>2 DEF Walk, Running
  <2>6. InOrder(srv')
    BY <1>1, <2>3, <2>4, <2>5, SameOrder
  <2> QED
    BY <1>1, <2>2, <2>3, <2>4, <2>6 DEF Walk, InOrder, Alive
<1>4. CASE EndScan
  <2>1. pc = "scan" /\ pc' = "poll" /\ srv' = Settled(srv) /\ fault' = fault
    BY <1>4 DEF EndScan
  <2>2. /\ srv'.nfds = srv.nfds /\ srv'.cl = srv.cl
        /\ \A k \in 1..srv.nfds : srv'.fds[k] = [srv.fds[k] EXCEPT !.rev = "none"]
    BY <1>1, <2>1 DEF Settled, Sized, State
  <2>3. \A k \in 1..srv.nfds : srv'.fds[k].fd = srv.fds[k].fd
    BY <1>1, <2>2 DEF Slot
  <2>4. InOrder(srv)
    BY <2>1 DEF Walk, Running
  <2>5. InOrder(srv')
    BY <1>1, <2>2, <2>3, <2>4, SameOrder
  <2> QED
    BY <1>1, <2>1, <2>5 DEF Walk, InOrder, Alive
<1>5. CASE Handler
  BY <1>5, HandlerWalks
<1>6. CASE Broadcast
  <2>1. PICK s \in Keys(srv), sent \in Sendings :
          IF sent /\ Alive(srv, srv.tree[s])
          THEN /\ srv' = ftpclient_disconnect(srv, srv.tree[s], srv.cl[srv.tree[s]].ctl)
               /\ pc' = pc /\ fault' = fault
          ELSE /\ pc' = "crashed" /\ fault' = IF fault = "none" THEN "uaf" ELSE fault
               /\ srv' = srv
    BY <1>6 DEF Broadcast
  <2>2. pc = "shutdown" /\ Coherent(srv) /\ InOrder(srv)
    BY <1>1, <1>6 DEF Broadcast, Kept, Walk, Running
  <2> DEFINE c == srv.tree[s]
             S == srv
  <2>3. c \in Client /\ Alive(srv, c)
    <3>1. srv.tree \in [Fd -> Client \cup {None}] /\ s \in Fd /\ c # None
      BY <1>1 DEF Sized, State, Keys
    <3>2. c \in Client
      BY <3>1
    <3>3. s \in Own(srv, c) /\ Blank(srv.cl[c])
      BY <3>1, <3>2 DEF Basic, Sound, Found
    <3> QED
      BY <3>2, <3>3 DEF Own, Blank, Alive
  <2>4. sent
    BY SendsSucceed
  <2>5. srv' = ftpclient_disconnect(S, c, S.cl[c].ctl) /\ pc' = pc /\ fault' = fault
    BY <2>1, <2>3, <2>4
  <2>6. Linked(S, {}) /\ InOrder(S) /\ c \in Client /\ Alive(S, c) /\ \A d \in Client : d = c
    BY <2>2, <2>3 DEF Coherent, LoneClient
  <2> HIDE DEF c, S
  <2>7. InOrder(ftpclient_disconnect(S, c, S.cl[c].ctl))
    BY <2>6, DisconnectInOrder
  <2> QED
    BY <1>1, <2>2, <2>5, <2>7 DEF Walk, InOrder, Alive
<1>7. CASE Destroy
  BY <1>1, <1>7 DEF Destroy, Walk, Running
<1>8. CASE LeaveLoop \/ Stopped
  BY <1>8 DEF LeaveLoop, Stopped, Walk, Running, InOrder, Alive
<1>9. CASE Stop \/ Ended \/ UNCHANGED vars
  BY <1>9 DEF Stop, Ended, vars, Walk, Running, InOrder, Alive
<1> QED
  BY <1>2, <1>3, <1>4, <1>5, <1>6, <1>7, <1>8, <1>9 DEF Next, Server

LEMMA WalkAlways ==
  ASSUME LoneClient
  PROVE  Spec => [](Basic /\ Kept /\ Walk)
<1>1. Init => Walk
  BY DEF Init, Walk, Running
<1>2. Basic /\ Kept /\ Walk /\ [Next]_vars => Walk'
  BY WalkStep
<1>3. Spec => []Kept
  BY KeptAlways DEF LoneClient
<1> QED
  BY <1>1, <1>2, <1>3, BasicAlways, PTL DEF Spec

\* With one client and sends that succeed ftpserv_run reads no slot behind nfds and
\* none that nobody wrote, and uses no client it has freed.
THEOREM WalkFaultless ==
  ASSUME LoneClient
  PROVE  Spec => []NoFault
<1>1. Basic /\ Kept /\ Walk => NoFault
  BY DEF Walk, NoFault
<1> QED
  BY <1>1, WalkAlways, PTL

\* Under the same assumptions the walk of ftpserv_run over server->fds handles what
\* poll has just reported, and nothing it has handled before, whatever slots the
\* handlers add and remove.
THEOREM WalkHandlesNews ==
  ASSUME LoneClient
  PROVE  Spec => NewEventsOnly
<1>1. Basic /\ Kept /\ Walk => (Scanning /\ p' < p => srv.fds[i].rev # "old")
  <2> SUFFICES ASSUME Basic, Kept, Walk, Scanning
               PROVE  srv.fds[i].rev # "old"
    OBVIOUS
  <2>1. srv.fds[i].rev \in Polled
    BY WalkAtSlot DEF AtSlot
  <2> QED
    BY <2>1 DEF Polled
<1> QED
  BY <1>1, WalkAlways, PTL DEF NewEventsOnly

------------------------------------------------------------------------------
(* EventLoop implements Connections, and an event of one client leaves the *)
(* others alone: for any number of clients and descriptors, as long as no  *)
(* undefined behaviour has occurred.                                       *)

\* What Connections sees of a client record.
View(r) == [here      |-> r.ctl # None,  listening |-> r.pasv # None,
            connected |-> r.data # None, busy      |-> r.handle]

Gone    == Abstract!Gone
Idle    == Abstract!Idle
Waiting == Abstract!Waiting
Ready   == Abstract!Ready
Busy    == Abstract!Busy

\* The ways one client may change.
Moves(v, w) ==
  \/ w = v
  \/ v = Gone /\ w = Idle
  \/ v.here /\ w \in {Gone, Idle}
  \/ v \in {Idle, Waiting} /\ w = Waiting
  \/ v = Waiting /\ w = Ready
  \/ v \in {Idle, Waiting, Ready} /\ w = Busy

Others(S, T, c) == \A d \in Client : d # c => T.cl[d] = S.cl[d]

\* The records Connections writes with EXCEPT.  The provers set a field of a
\* record to x more easily than to TRUE.
LEMMA Values ==
  /\ Gone    = [here |-> FALSE, listening |-> FALSE, connected |-> FALSE, busy |-> FALSE]
  /\ Idle    = [here |-> TRUE, listening |-> FALSE, connected |-> FALSE, busy |-> FALSE]
  /\ Waiting = [here |-> TRUE, listening |-> TRUE, connected |-> FALSE, busy |-> FALSE]
  /\ Ready   = [here |-> TRUE, listening |-> FALSE, connected |-> TRUE, busy |-> FALSE]
  /\ Busy    = [here |-> TRUE, listening |-> FALSE, connected |-> TRUE, busy |-> TRUE]
<1> DEFINE x == TRUE
           y == FALSE
           Having(h, l, d, b) == [here |-> h, listening |-> l, connected |-> d, busy |-> b]
<1>1. /\ Gone = Having(y, y, y, y)
      /\ Idle = [Gone EXCEPT !.here = x]
      /\ Waiting = [Idle EXCEPT !.listening = x]
      /\ Ready = [Idle EXCEPT !.connected = x]
      /\ Busy = [Ready EXCEPT !.busy = x]
  BY DEF Gone, Idle, Waiting, Ready, Busy, Abstract!Gone, Abstract!Idle, Abstract!Waiting,
         Abstract!Ready, Abstract!Busy
<1> HIDE DEF x, y
<1>2. /\ [Having(y, y, y, y) EXCEPT !.here = x] = Having(x, y, y, y)
      /\ [Having(x, y, y, y) EXCEPT !.listening = x] = Having(x, x, y, y)
      /\ [Having(x, y, y, y) EXCEPT !.connected = x] = Having(x, y, x, y)
      /\ [Having(x, y, x, y) EXCEPT !.busy = x] = Having(x, y, x, x)
  OBVIOUS
<1> HIDE DEF Having
<1>3. /\ Gone = Having(y, y, y, y) /\ Idle = Having(x, y, y, y) /\ Waiting = Having(x, x, y, y)
      /\ Ready = Having(x, y, x, y) /\ Busy = Having(x, y, x, x)
  BY <1>1, <1>2
<1> QED
  BY <1>3 DEF x, y, Having

LEMMA FreedIsGone == View(Freed) = Gone
BY Values DEF View, Freed

\* A client that is there stands in one of four places.
LEMMA Places ==
  ASSUME NEW S, Coherent(S), NEW c \in Client
  PROVE  /\ S.cl[c].ctl = None => View(S.cl[c]) = Gone
         /\ S.cl[c].ctl # None => View(S.cl[c]) \in {Idle, Waiting, Ready, Busy}
         /\ S.cl[c].ctl # None /\ S.cl[c].data = None => View(S.cl[c]) \in {Idle, Waiting}
         /\ S.cl[c].ctl # None /\ ~S.cl[c].handle => View(S.cl[c]) \in {Idle, Waiting, Ready}
<1> DEFINE r == S.cl[c]
<1>1. Proper(r, S.kernel) /\ Whole(r) /\ r \in Record
  BY OwnInFd DEF Coherent, Linked, Owns, Clean
<1> HIDE DEF r
<1>2. /\ r.ctl = None => r.data = None /\ r.pasv = None
      /\ r.cb => r.data # None
      /\ r.handle <=> r.cb
      /\ r.data = None \/ r.pasv = None
      /\ r.handle \in BOOLEAN
  BY <1>1 DEF Proper, Whole, Record
<1>3. r.ctl = None => View(r) = Gone
  BY <1>2, Values DEF View
<1>4. r.ctl # None /\ r.data = None => View(r) \in {Idle, Waiting}
  BY <1>2, Values DEF View
<1>5. r.ctl # None /\ r.data # None /\ ~r.handle => View(r) = Ready
  BY <1>2, Values DEF View
<1>6. r.ctl # None /\ r.data # None /\ r.handle => View(r) = Busy
  BY <1>2, Values DEF View
<1> QED
  BY <1>2, <1>3, <1>4, <1>5, <1>6 DEF r

------------------------------------------------------------------------------
(* What the operators of server/client.c do to a client. *)

LEMMA EndView ==
  ASSUME NEW S, Sized(S), NEW c \in Client, S.cl[c].ctl # None,
         NEW T, T = ftpclient_data_end(S, c)
  PROVE  Sized(T) /\ T.cl[c].ctl # None /\ View(T.cl[c]) = Idle /\ Others(S, T, c)
<1>1. /\ Sized(T)
      /\ T.cl[c].ctl = S.cl[c].ctl /\ T.cl[c].data = None /\ T.cl[c].pasv = None
      /\ ~T.cl[c].handle
      /\ \A d \in Client : d # c => T.cl[d] = S.cl[d]
  BY DataEndEffect
<1>2. T.cl[c].handle = FALSE
  BY <1>1, OwnInFd DEF Record
<1> QED
  BY <1>1, <1>2, Values DEF View, Others

LEMMA LeaveView ==
  ASSUME NEW S, Sized(S), NEW c \in Client, S.cl[c].ctl # None,
         NEW T, T = ftpclient_disconnect(S, c, S.cl[c].ctl)
  PROVE  View(T.cl[c]) = Gone /\ Others(S, T, c)
<1>1. T.cl[c] = Freed /\ \A d \in Client : d # c => T.cl[d] = S.cl[d]
  BY DisconnectEffect
<1> QED
  BY <1>1, FreedIsGone DEF Others

\* A reply that cannot be sent takes the client with it.
LEMMA SendView ==
  ASSUME NEW S, Sized(S), NEW c \in Client, S.cl[c].ctl # None, NEW sent \in BOOLEAN,
         NEW T, T = ftpclient_send_message(S, c, sent)
  PROVE  View(T.cl[c]) \in {View(S.cl[c]), Gone} /\ Others(S, T, c)
<1>1. CASE sent
  BY <1>1 DEF ftpclient_send_message, Others
<1>2. CASE ~sent
  BY <1>2, LeaveView DEF ftpclient_send_message
<1> QED
  BY <1>1, <1>2

LEMMA ReplyView ==
  ASSUME NEW S, Sized(S), NEW c \in Client, S.cl[c].ctl # None, NEW ok, NEW sent \in BOOLEAN,
         NEW T, T = ftpclient_send_message(IF ok THEN S ELSE ftpclient_data_end(S, c), c, sent)
  PROVE  /\ ok => View(T.cl[c]) \in {View(S.cl[c]), Gone}
         /\ ~ok => View(T.cl[c]) \in {Idle, Gone}
         /\ Others(S, T, c)
<1>1. CASE ok
  <2>1. T = ftpclient_send_message(S, c, sent)
    BY <1>1
  <2> QED
    BY <1>1, <2>1, SendView
<1>2. CASE ~ok
  <2> DEFINE U == ftpclient_data_end(S, c)
  <2>1. Sized(U) /\ U.cl[c].ctl # None /\ View(U.cl[c]) = Idle /\ Others(S, U, c)
    BY EndView
  <2>2. T = ftpclient_send_message(U, c, sent)
    BY <1>2
  <2> HIDE DEF U
  <2>3. View(T.cl[c]) \in {View(U.cl[c]), Gone} /\ Others(U, T, c)
    BY <2>1, <2>2, SendView
  <2> QED
    BY <1>2, <2>1, <2>3 DEF Others
<1> QED
  BY <1>1, <1>2

LEMMA AdmitView ==
  ASSUME NEW S, Sized(S), NEW c \in Client, NEW s \in Unused(S),
         NEW T, T = Admit(S, c, s)
  PROVE  Sized(T) /\ T.cl[c].ctl # None /\ View(T.cl[c]) = Idle /\ Others(S, T, c)
<1> DEFINE r == [Freed EXCEPT !.ctl = s]
           k == "conn"
<1>1. s \in Fd /\ s # None /\ k \in Kind /\ S.cl \in [Client -> Record]
  BY OwnInFd, ConstantsAssumption DEF Unused, Kind
<1>2. /\ r \in Record /\ r.ctl = s /\ r.data = None /\ r.pasv = None /\ r.handle = FALSE
      /\ s \in Fields(r)
  BY <1>1 DEF Freed, Record, Fields
<1>3. T = OpenFor(S, c, s, k, r)
  BY DEF Admit
<1> HIDE DEF r, k
<1>4. Sized(T) /\ Puts(S, T, c, r)
  BY <1>1, <1>2, <1>3, OpenForEffect
<1>5. T.cl[c] = r /\ Others(S, T, c)
  BY <1>1, <1>4 DEF Puts, Others
<1> QED
  BY <1>1, <1>2, <1>4, <1>5, Values DEF View

\* PASV: a listener takes the place of a listener and of nothing else.
LEMMA PasvView ==
  ASSUME NEW S, Coherent(S), NEW c \in Client, S.cl[c].ctl # None,
         NEW out \in ftpclient_data_pasv(S, c)
  PROVE  /\ Sized(out[1]) /\ out[1].cl[c].ctl # None /\ Others(S, out[1], c)
         /\ out[2] => View(S.cl[c]) \in {Idle, Waiting} /\ View(out[1].cl[c]) = Waiting
<1>0. Sized(S)
  BY DEF Coherent, Linked, Clean
<1>1. Sized(out[1]) /\ out[1].cl[c].ctl # None
  BY <1>0, DataPasvEffect
<1>2. CASE S.cl[c].data # None
  <2>1. out = <<S, FALSE>>
    BY <1>2 DEF ftpclient_data_pasv
  <2>2. out[1] = S /\ ~out[2]
    BY <2>1
  <2> QED
    BY <1>1, <2>2 DEF Others
<1>3. CASE S.cl[c].data = None
  <2> DEFINE U == DropPasv(S, c)
  <2>2. \/ out = <<U, FALSE>>
        \/ \E s \in Unused(U) :
             out = <<Watch([Opened(U, s, "listen") EXCEPT !.cl[c].pasv = s], s, c), TRUE>>
    BY <1>3 DEF ftpclient_data_pasv
  <2>8. U = DropPasv(S, c)
    OBVIOUS
  <2> HIDE DEF U
  <2>1. Sized(U) /\ U.cl = [S.cl EXCEPT ![c] = [S.cl[c] EXCEPT !.pasv = None]]
    BY <1>0, <2>8, DropPasvEffect
  <2>3. S.cl \in [Client -> Record] /\ S.cl[c] \in Record
    BY <1>0, OwnInFd
  <2>4. /\ U.cl[c].ctl = S.cl[c].ctl /\ U.cl[c].data = None /\ U.cl[c].pasv = None
        /\ U.cl[c].handle = S.cl[c].handle /\ U.cl[c] \in Record /\ Others(S, U, c)
    BY <1>3, <2>1, <2>3 DEF Record, Others
  <2>5. S.cl[c].handle = FALSE /\ View(S.cl[c]) \in {Idle, Waiting}
    <3>1. Proper(S.cl[c], S.kernel) /\ Whole(S.cl[c])
      BY DEF Coherent, Linked, Owns
    <3> QED
      BY <1>3, <2>3, <3>1, Places DEF Proper, Whole, Record
  <2>6. CASE out = <<U, FALSE>>
    BY <1>1, <2>4, <2>6
  <2>7. ASSUME NEW s \in Unused(U),
               out = <<Watch([Opened(U, s, "listen") EXCEPT !.cl[c].pasv = s], s, c), TRUE>>
        PROVE  Others(S, out[1], c) /\ View(out[1].cl[c]) = Waiting
    <3> DEFINE r == [U.cl[c] EXCEPT !.pasv = s]
               k == "listen"
               X == OpenFor(U, c, s, k, r)
    <3>1. s \in Fd /\ s # None /\ k \in Kind
      BY ConstantsAssumption DEF Unused, Kind
    <3>2. /\ r \in Record /\ r.ctl = S.cl[c].ctl /\ r.data = None /\ r.pasv = s
          /\ r.handle = FALSE
      BY <2>4, <2>5, <3>1 DEF Record
    <3>3. out[1] = X
      <4>1. [Opened(U, s, k) EXCEPT !.cl[c].pasv = s] = [Opened(U, s, k) EXCEPT !.cl[c] = r]
        <5>1. Opened(U, s, k).cl = U.cl
          BY <2>1 DEF Opened, Sized, State
        <5> QED
          BY <5>1
      <4> QED
        BY <2>7, <4>1 DEF OpenFor
    <3>4. X = OpenFor(U, c, s, k, r)
      OBVIOUS
    <3> HIDE DEF r, k, X
    <3>5. s \in Fields(r)
      BY <3>2 DEF Fields
    <3>6. Puts(U, X, c, r)
      BY <2>1, <3>1, <3>2, <3>4, <3>5, OpenForEffect
    <3>7. U.cl \in [Client -> Record]
      BY <2>1, OwnInFd
    <3>8. X.cl[c] = r /\ \A d \in Client : d # c => X.cl[d] = U.cl[d]
      BY <3>6, <3>7 DEF Puts
    <3> QED
      BY <2>4, <3>1, <3>2, <3>3, <3>8, Values DEF View, Others
  <2> QED
    BY <1>1, <2>2, <2>5, <2>6, <2>7
<1> QED
  BY <1>2, <1>3

\* A transfer that begins has its connection and no listener left.
LEMMA StartView ==
  ASSUME NEW S, Coherent(S), Sound(S), NEW c \in Client, S.cl[c].ctl # None, ~S.cl[c].handle,
         NEW out \in ftpclient_data_start(OpenHandle(S, c), c)
  PROVE  /\ Sized(out[1]) /\ out[1].cl[c].ctl # None /\ Others(S, out[1], c)
         /\ out[2] => View(S.cl[c]) \in {Idle, Waiting, Ready} /\ View(out[1].cl[c]) = Busy
<1> DEFINE H == OpenHandle(S, c)
           U == out[1]
           ok == out[2]
<1>1. Linked(S, {}) /\ Sized(S) /\ Whole(S.cl[c]) /\ S.cl[c] \in Record
  BY OwnInFd DEF Coherent, Linked, Clean
<1>2. /\ Sized(H) /\ Sound(H) /\ H.cl[c] = [S.cl[c] EXCEPT !.handle = TRUE]
      /\ \A d \in Client : d # c => H.cl[d] = S.cl[d]
      /\ Linked(H, {})
  BY <1>1, OpenHandleEffect
<1>3. out \in ftpclient_data_start(H, c)
  OBVIOUS
<1> HIDE DEF H, U, ok
<1>4. /\ H.cl[c].handle /\ H.cl[c].cb = S.cl[c].cb /\ H.cl[c].ctl # None
      /\ H.cl[c].data = S.cl[c].data /\ H.cl[c].pasv = S.cl[c].pasv
  BY <1>1, <1>2 DEF Record
<1>5. /\ Sized(U)
      /\ U.cl[c].ctl = H.cl[c].ctl
      /\ \A d \in Client : d # c => U.cl[d] = H.cl[d]
      /\ Linked(H, {}) /\ ~H.cl[c].cb => Linked(U, {})
      /\ ok => /\ U.cl[c].cb /\ (U.cl[c].handle <=> H.cl[c].handle)
               /\ H.cl[c].data = None => U.cl[c].pasv = None
               /\ H.cl[c].pasv = None => U.cl[c].pasv = None
  BY <1>2, <1>3, <1>4, DataStartEffect DEF U, ok
<1>6. Linked(U, {}) /\ Proper(U.cl[c], U.kernel) /\ U.cl[c] \in Record
  <2>1. ~H.cl[c].cb
    BY <1>1, <1>4 DEF Whole
  <2>2. Linked(U, {})
    BY <1>2, <1>5, <2>1
  <2> QED
    BY <1>5, <2>2, OwnInFd DEF Linked, Owns
<1>7. Sized(U) /\ U.cl[c].ctl # None /\ Others(S, U, c)
  BY <1>2, <1>4, <1>5 DEF Others
<1>8. ok => View(U.cl[c]) = Busy
  <2>1. ok => /\ U.cl[c].handle = TRUE /\ U.cl[c].pasv = None /\ U.cl[c].data # None
    BY <1>1, <1>4, <1>5, <1>6 DEF Whole, Proper, Record
  <2> QED
    BY <1>7, <2>1, Values DEF View
<1> QED
  BY <1>7, <1>8, Places DEF U, ok

\* The peer that comes early, or a listener that is closed in vain.
LEMMA MeetView ==
  ASSUME NEW S, Coherent(S), NEW c \in Client, S.cl[c].ctl # None, S.cl[c].pasv # None,
         NEW U \in IF S.cl[c].data = None THEN AcceptData(S, c) ELSE {S},
         NEW T, T = DropPasv(U, c)
  PROVE  View(S.cl[c]) = Waiting /\ View(T.cl[c]) \in {Idle, Ready} /\ Others(S, T, c)
<1>1. /\ Sized(S) /\ S.cl[c] \in Record /\ Whole(S.cl[c]) /\ Proper(S.cl[c], S.kernel)
  BY OwnInFd DEF Coherent, Linked, Clean, Owns
<1>2. S.cl[c].data = None /\ S.cl[c].handle = FALSE
  BY <1>1 DEF Whole, Proper, Record
<1>3. U \in AcceptData(S, c)
  BY <1>2
<1>4. /\ Sized(U) /\ U.cl[c].ctl = S.cl[c].ctl /\ U.cl[c].handle = S.cl[c].handle
      /\ \A d \in Client : d # c => U.cl[d] = S.cl[d]
  BY <1>1, <1>2, <1>3, AcceptDataEffect
<1>5. T.cl = [U.cl EXCEPT ![c] = [U.cl[c] EXCEPT !.pasv = None]]
  BY <1>4, DropPasvEffect
<1>6. U.cl \in [Client -> Record] /\ U.cl[c] \in Record
  BY <1>4, OwnInFd
<1>7. /\ T.cl[c].ctl = S.cl[c].ctl /\ T.cl[c].pasv = None /\ T.cl[c].handle = FALSE
      /\ T.cl[c].data = U.cl[c].data /\ \A d \in Client : d # c => T.cl[d] = S.cl[d]
  BY <1>2, <1>4, <1>5, <1>6 DEF Record
<1>8. View(T.cl[c]) \in {Idle, Ready}
  BY <1>7, Values DEF View
<1>9. View(S.cl[c]) = Waiting
  BY <1>2, Values DEF View
<1> QED
  BY <1>7, <1>8, <1>9 DEF Others

------------------------------------------------------------------------------
(* One turn of the inner loop. *)

\* What Connections allows of client c between S and T.
Steps(S, T, c) == Others(S, T, c) /\ Moves(View(S.cl[c]), View(T.cl[c]))

\* At most the client in hand, or one that was not there, is changed.
OneAtMost(T) == \/ T.cl = srv.cl
                \/ \E c \in Client : (c = Owner \/ ~Alive(srv, c)) /\ Steps(srv, T, c)

LEMMA BackSteps ==
  ASSUME NEW S, NEW T, NEW c \in Client, S.cl[c].ctl # None, Others(S, T, c),
         View(T.cl[c]) \in {View(S.cl[c]), Idle, Gone}
  PROVE  Steps(S, T, c)
<1>1. View(S.cl[c]).here
  BY DEF View
<1> QED
  BY <1>1 DEF Steps, Moves

\* PASV, LIST, NLST, RETR, STOR and APPE: what has begun, or else all is given up,
\* and the reply.
LEMMA CommandSteps ==
  ASSUME NEW S, NEW c \in Client, S.cl[c].ctl # None,
         NEW U, Sized(U), U.cl[c].ctl # None, Others(S, U, c), NEW ok,
         ok => \/ View(S.cl[c]) \in {Idle, Waiting} /\ View(U.cl[c]) = Waiting
               \/ View(S.cl[c]) \in {Idle, Waiting, Ready} /\ View(U.cl[c]) = Busy,
         NEW sent \in BOOLEAN,
         NEW T, T = ftpclient_send_message(IF ok THEN U ELSE ftpclient_data_end(U, c), c, sent)
  PROVE  Steps(S, T, c)
<1>1. /\ ok => View(T.cl[c]) \in {View(U.cl[c]), Gone}
      /\ ~ok => View(T.cl[c]) \in {Idle, Gone}
      /\ Others(U, T, c)
  BY ReplyView
<1>2. Others(S, T, c)
  BY <1>1 DEF Others
<1>3. CASE View(T.cl[c]) \in {Idle, Gone}
  BY <1>2, <1>3, BackSteps
<1>4. CASE ok /\ View(T.cl[c]) = View(U.cl[c])
  BY <1>2, <1>4 DEF Steps, Moves
<1> QED
  BY <1>1, <1>3, <1>4

LEMMA AcceptSteps ==
  ASSUME NEW S, Sized(S), NEW c \in Client, View(S.cl[c]) = Gone, NEW s \in Unused(S),
         NEW sent \in BOOLEAN, NEW T, T = ftpclient_send_message(Admit(S, c, s), c, sent)
  PROVE  Steps(S, T, c)
<1> DEFINE U == Admit(S, c, s)
<1>1. Sized(U) /\ U.cl[c].ctl # None /\ View(U.cl[c]) = Idle /\ Others(S, U, c)
  BY AdmitView
<1>2. T = ftpclient_send_message(U, c, sent)
  OBVIOUS
<1> HIDE DEF U
<1>3. View(T.cl[c]) \in {View(U.cl[c]), Gone} /\ Others(U, T, c)
  BY <1>1, <1>2, SendView
<1> QED
  BY <1>1, <1>3 DEF Steps, Moves, Others

\* The client in hand, before the handler.
LEMMA HandFacts ==
  ASSUME InHand, Coherent(srv), NEW T, Steps(Marked, T, Owner)
  PROVE  OneAtMost(T)
BY DEF InHand, Steps, Others, OneAtMost

LEMMA HandParts ==
  ASSUME InHand, Coherent(srv)
  PROVE  Coherent(Marked) /\ Sound(Marked) /\ Sized(Marked) /\ Owner \in Client
         /\ Marked.cl[Owner].ctl # None /\ Marked.cl = srv.cl
BY DEF InHand, Sound

LEMMA HangUpSteps ==
  ASSUME Basic, Coherent(srv), HangUp, Noted = "none"
  PROVE  OneAtMost(srv')
<1>1. /\ Scanning /\ i <= Len(srv.fds) /\ "hup" \in Read(srv.fds[i].rev) /\ Owner # None
      /\ srv' = IF Sock = srv.cl[Owner].data THEN ftpclient_data_end(Marked, Owner)
                ELSE ftpclient_disconnect(Marked, Owner, Sock)
  BY DEF HangUp, Visit, Becomes
<1>2. InHand
  BY <1>1, EventFound
<1>3. /\ Coherent(Marked) /\ Sized(Marked) /\ Owner \in Client
      /\ Marked.cl[Owner].ctl # None /\ Marked.cl = srv.cl
  BY <1>2, HandParts
<1>4. Sock = srv.cl[Owner].data \/ Sock = srv.cl[Owner].ctl
  <2>1. srv.fds[i].rev # "junk"
    BY <1>1, NotedNone
  <2>2. srv.fds[i].rev = "hup"
    BY <1>1, <2>1 DEF Read
  <2>3. srv.kernel[Sock] = "conn"
    BY <1>1, <2>2, SockKnown
  <2>4. Sock \in Own(srv, Owner)
    BY <1>1, OwnerFound
  <2>5. Proper(srv.cl[Owner], srv.kernel)
    BY <1>3 DEF Coherent, Linked, Owns
  <2> QED
    BY <2>3, <2>4, <2>5 DEF Own, Proper
<1>5. CASE Sock = srv.cl[Owner].data
  <2>1. srv' = ftpclient_data_end(Marked, Owner)
    BY <1>1, <1>5
  <2>2. View(srv'.cl[Owner]) = Idle /\ Others(Marked, srv', Owner)
    BY <1>3, <2>1, EndView
  <2>3. Steps(Marked, srv', Owner)
    BY <1>3, <2>2, BackSteps
  <2> QED
    BY <1>2, <2>3, HandFacts
<1>6. CASE Sock # srv.cl[Owner].data
  <2>1. srv' = ftpclient_disconnect(Marked, Owner, Marked.cl[Owner].ctl)
    BY <1>1, <1>3, <1>4, <1>6
  <2>2. View(srv'.cl[Owner]) = Gone /\ Others(Marked, srv', Owner)
    BY <1>3, <2>1, LeaveView
  <2>3. Steps(Marked, srv', Owner)
    BY <1>3, <2>2, BackSteps
  <2> QED
    BY <1>2, <2>3, HandFacts
<1> QED
  BY <1>5, <1>6

LEMMA PasvEventSteps ==
  ASSUME Coherent(srv), InHand, Sock # None, PasvEvent
  PROVE  OneAtMost(srv')
<1>1. PICK U \in IF srv.cl[Owner].data = None THEN AcceptData(Marked, Owner) ELSE {Marked} :
        srv' = DropPasv(U, Owner)
  BY DEF PasvEvent, Becomes
<1>2. /\ Coherent(Marked) /\ Sized(Marked) /\ Owner \in Client
      /\ Marked.cl[Owner].ctl # None /\ Marked.cl = srv.cl
  BY HandParts
<1>3. Marked.cl[Owner].pasv # None
  BY <1>2 DEF PasvEvent
<1>4. U \in IF Marked.cl[Owner].data = None THEN AcceptData(Marked, Owner) ELSE {Marked}
  BY <1>2
<1>5. /\ View(Marked.cl[Owner]) = Waiting /\ View(srv'.cl[Owner]) \in {Idle, Ready}
      /\ Others(Marked, srv', Owner)
  BY <1>1, <1>2, <1>3, <1>4, MeetView
<1>6. Steps(Marked, srv', Owner)
  <2>1. CASE View(srv'.cl[Owner]) = Idle
    BY <1>2, <1>5, <2>1, BackSteps
  <2>2. CASE View(srv'.cl[Owner]) = Ready
    BY <1>5, <2>2 DEF Steps, Moves
  <2> QED
    BY <1>5, <2>1, <2>2
<1> QED
  BY <1>6, HandFacts

LEMMA PasvSteps ==
  ASSUME Coherent(srv), InHand, ssftpCmdPasv
  PROVE  OneAtMost(srv')
<1>1. PICK out \in ftpclient_data_pasv(Marked, Owner), sent \in BOOLEAN :
        srv' = ftpclient_send_message(
                 IF out[2] THEN out[1] ELSE ftpclient_data_end(out[1], Owner), Owner, sent)
  BY SendingsBoolean DEF ssftpCmdPasv, Becomes
<1>2. Coherent(Marked) /\ Owner \in Client /\ Marked.cl[Owner].ctl # None
  BY HandParts
<1> DEFINE U == out[1]
           ok == out[2]
<1>3. srv' = ftpclient_send_message(IF ok THEN U ELSE ftpclient_data_end(U, Owner), Owner, sent)
  BY <1>1
<1>4. /\ Sized(U) /\ U.cl[Owner].ctl # None /\ Others(Marked, U, Owner)
      /\ ok => View(Marked.cl[Owner]) \in {Idle, Waiting} /\ View(U.cl[Owner]) = Waiting
  BY <1>2, PasvView
<1> HIDE DEF U, ok
<1>5. Steps(Marked, srv', Owner)
  BY <1>2, <1>3, <1>4, CommandSteps
<1> QED
  BY <1>5, HandFacts

LEMMA TransferSteps ==
  ASSUME Coherent(srv), InHand, Transfer
  PROVE  OneAtMost(srv')
<1>1. PICK out \in ftpclient_data_start(OpenHandle(Marked, Owner), Owner), sent \in BOOLEAN :
        srv' = ftpclient_send_message(
                 IF out[2] THEN out[1] ELSE ftpclient_data_end(out[1], Owner), Owner, sent)
  BY SendingsBoolean DEF Transfer, OpenHandle, Becomes
<1>2. /\ Coherent(Marked) /\ Sound(Marked) /\ Owner \in Client /\ Marked.cl[Owner].ctl # None
      /\ ~Marked.cl[Owner].handle
  BY HandParts DEF Transfer
<1> DEFINE U == out[1]
           ok == out[2]
<1>3. srv' = ftpclient_send_message(IF ok THEN U ELSE ftpclient_data_end(U, Owner), Owner, sent)
  BY <1>1
<1>4. /\ Sized(U) /\ U.cl[Owner].ctl # None /\ Others(Marked, U, Owner)
      /\ ok => View(Marked.cl[Owner]) \in {Idle, Waiting, Ready} /\ View(U.cl[Owner]) = Busy
  BY <1>2, StartView
<1> HIDE DEF U, ok
<1>5. Steps(Marked, srv', Owner)
  BY <1>2, <1>3, <1>4, CommandSteps
<1> QED
  BY <1>5, HandFacts

\* A command without a connection to open: a reply, the end of the transfer, or
\* the end of the client.
LEMMA PlainSteps ==
  ASSUME Coherent(srv), InHand, NEW sent \in BOOLEAN,
         \/ srv' = Marked
         \/ srv' = ftpclient_send_message(Marked, Owner, sent)
         \/ srv' = ftpclient_data_end(Marked, Owner)
         \/ srv' = ftpclient_send_message(ftpclient_data_end(Marked, Owner), Owner, sent)
         \/ srv' = ftpclient_disconnect(Marked, Owner, Sock) /\ Sock = srv.cl[Owner].ctl
  PROVE  OneAtMost(srv')
<1>1. /\ Sized(Marked) /\ Owner \in Client /\ Marked.cl[Owner].ctl # None /\ Marked.cl = srv.cl
  BY HandParts
<1>2. CASE srv' = Marked
  BY <1>1, <1>2 DEF OneAtMost
<1>3. CASE srv' = ftpclient_send_message(Marked, Owner, sent)
  <2>1. View(srv'.cl[Owner]) \in {View(Marked.cl[Owner]), Gone} /\ Others(Marked, srv', Owner)
    BY <1>1, <1>3, SendView
  <2> QED
    BY <1>1, <2>1, BackSteps, HandFacts
<1>4. CASE srv' = ftpclient_data_end(Marked, Owner)
  <2>1. View(srv'.cl[Owner]) = Idle /\ Others(Marked, srv', Owner)
    BY <1>1, <1>4, EndView
  <2> QED
    BY <1>1, <2>1, BackSteps, HandFacts
<1>5. CASE srv' = ftpclient_send_message(ftpclient_data_end(Marked, Owner), Owner, sent)
  <2>1. srv' = ftpclient_send_message(IF FALSE THEN Marked ELSE ftpclient_data_end(Marked, Owner),
                                      Owner, sent)
    BY <1>5
  <2>2. View(srv'.cl[Owner]) \in {Idle, Gone} /\ Others(Marked, srv', Owner)
    BY <1>1, <2>1, ReplyView
  <2> QED
    BY <1>1, <2>2, BackSteps, HandFacts
<1>6. CASE srv' = ftpclient_disconnect(Marked, Owner, Sock) /\ Sock = srv.cl[Owner].ctl
  <2>1. View(srv'.cl[Owner]) = Gone /\ Others(Marked, srv', Owner)
    BY <1>1, <1>6, LeaveView
  <2> QED
    BY <1>1, <2>1, BackSteps, HandFacts
<1> QED
  BY <1>2, <1>3, <1>4, <1>5, <1>6

\* A handler that meets no undefined behaviour changes one client at most, in
\* a way Connections allows.
LEMMA HandlerServes ==
  ASSUME Basic, Kept, Handler, fault' = "none"
  PROVE  OneAtMost(srv') /\ pc = "scan" /\ pc' = "scan" /\ Coherent(srv) /\ Coherent(srv')
<1>1. pc = "scan"
  BY DEF Handler, Unseen, NullArray, InvalidSocket, Accept, Orphan, HangUp, DataEvent,
     PasvEvent, ShortLine, Reply, ReplyLost, ssftpCmdQuit, ssftpCmdAbor, ssftpCmdPasv,
     Transfer, ssftpCmdStop, ControlEvent, Event, Visit, Scanning
<1>2. /\ fault = "none" /\ pc' = "scan"
      /\ Coherent(srv) => Coherent(srv')
  BY HandlerTurn DEF Turn
<1>3. Coherent(srv)
  BY <1>1, <1>2 DEF Kept
<1> SUFFICES OneAtMost(srv')
  BY <1>1, <1>2, <1>3
<1>4. ~UseAfterFree
  BY DEF UseAfterFree
<1>5. ASSUME Event PROVE InHand /\ Scanning /\ i <= Len(srv.fds)
  BY <1>5, EventFacts
<1>6. CASE Unseen \/ NullArray
  BY <1>6 DEF Unseen, NullArray, OneAtMost
<1>7. CASE InvalidSocket
  <2>1. /\ Scanning /\ i <= Len(srv.fds) /\ "nval" \in Read(srv.fds[i].rev) /\ Noted = "none"
    BY <1>7 DEF InvalidSocket, Visit, Becomes
  <2>2. srv.fds[i].rev # "nval" /\ srv.fds[i].rev # "junk"
    BY <1>3, <2>1, SockKnown, NotedNone
  <2> QED
    BY <2>1, <2>2 DEF Read
<1>8. CASE Accept
  <2>1. Scanning /\ i <= Len(srv.fds)
    BY <1>8 DEF Accept, Visit
  <2>2. /\ Sized(Marked) /\ Marked.cl = srv.cl /\ Marked.kernel = srv.kernel /\ Coherent(Marked)
    BY <1>3, <2>1, MarkedEffect
  <2>3. CASE Becomes(Marked)
    BY <2>2, <2>3 DEF Becomes, OneAtMost
  <2>4. ASSUME NEW s \in Unused(srv), NEW c \in Client, NEW sent \in Sendings, ~Alive(srv, c),
               Becomes(ftpclient_send_message(Admit(Marked, c, s), c, sent))
        PROVE  OneAtMost(srv')
    <3>1. s \in Unused(Marked) /\ View(Marked.cl[c]) = Gone /\ sent \in BOOLEAN
      BY <2>2, <2>4, Places, SendingsBoolean DEF Unused, Alive
    <3>2. srv' = ftpclient_send_message(Admit(Marked, c, s), c, sent)
      BY <2>4 DEF Becomes
    <3>3. Steps(Marked, srv', c)
      BY <2>2, <3>1, <3>2, AcceptSteps
    <3>4. Steps(srv, srv', c)
      BY <2>2, <3>3 DEF Steps, Others
    <3> QED
      BY <2>4, <3>4 DEF OneAtMost
  <2> QED
    BY <1>8, <2>3, <2>4 DEF Accept, Admit, OpenFor
<1>9. CASE Orphan
  <2>1. Scanning /\ i <= Len(srv.fds) /\ Sock # Listener /\ Owner = None /\ Noted = "none"
    BY <1>9 DEF Orphan, Visit, Becomes
  <2> QED
    BY <1>3, <2>1, SockKnown
<1>10. CASE HangUp
  <2>1. Noted = "none"
    BY <1>10 DEF HangUp, Becomes
  <2> QED
    BY <1>3, <1>10, <2>1, HangUpSteps
<1>11. CASE DataEvent
  <2>1. InHand
    BY <1>5, <1>11 DEF DataEvent
  <2>2. PICK sent \in BOOLEAN :
          \/ srv' = Marked
          \/ srv' = ftpclient_send_message(ftpclient_data_end(Marked, Owner), Owner, sent)
          \/ srv' = ftpclient_data_end(Marked, Owner)
    BY <1>11, SendingsBoolean DEF DataEvent, Becomes
  <2> QED
    BY <1>3, <2>1, <2>2, PlainSteps
<1>12. CASE PasvEvent
  <2>1. InHand /\ Scanning /\ i <= Len(srv.fds)
    BY <1>5, <1>12 DEF PasvEvent
  <2>2. Sock # None
    BY <2>1, InArray, ConstantsAssumption
  <2> QED
    BY <1>3, <1>12, <2>1, <2>2, PasvEventSteps
<1>13. CASE Reply
  <2>1. InHand
    BY <1>5, <1>13 DEF Reply, ControlEvent
  <2>2. PICK sent \in BOOLEAN : srv' = ftpclient_send_message(Marked, Owner, sent)
    BY <1>13, SendingsBoolean DEF Reply, Becomes
  <2> QED
    BY <1>3, <2>1, <2>2, PlainSteps
<1>14. CASE ReplyLost
  BY <1>4, <1>14 DEF ReplyLost
<1>15. CASE ShortLine \/ ssftpCmdQuit
  <2>1. InHand /\ Sock = srv.cl[Owner].ctl
    BY <1>5, <1>15 DEF ShortLine, ssftpCmdQuit, ControlEvent
  <2>2. srv' = ftpclient_disconnect(Marked, Owner, Sock)
    BY <1>4, <1>15 DEF ShortLine, ssftpCmdQuit, Becomes
  <2> QED
    BY <1>3, <2>1, <2>2, PlainSteps
<1>16. CASE ssftpCmdAbor
  <2>1. InHand
    BY <1>5, <1>16 DEF ssftpCmdAbor, ControlEvent
  <2>2. PICK sent \in BOOLEAN :
          srv' = ftpclient_send_message(ftpclient_data_end(Marked, Owner), Owner, sent)
    BY <1>16, SendingsBoolean DEF ssftpCmdAbor, Becomes
  <2> QED
    BY <1>3, <2>1, <2>2, PlainSteps
<1>17. CASE ssftpCmdPasv
  <2>1. InHand
    BY <1>5, <1>17 DEF ssftpCmdPasv, ControlEvent
  <2> QED
    BY <1>3, <1>17, <2>1, PasvSteps
<1>18. CASE Transfer
  <2>1. InHand
    BY <1>5, <1>18 DEF Transfer, ControlEvent
  <2> QED
    BY <1>3, <1>18, <2>1, TransferSteps
<1>19. CASE ssftpCmdStop
  <2>1. InHand /\ srv' = Marked
    BY <1>5, <1>19 DEF ssftpCmdStop, ControlEvent
  <2> QED
    BY <1>3, <2>1, PlainSteps
<1> QED
  BY <1>6, <1>7, <1>8, <1>9, <1>10, <1>11, <1>12, <1>13, <1>14, <1>15, <1>16, <1>17, <1>18,
     <1>19 DEF Handler

------------------------------------------------------------------------------
(* An event of one client leaves the others alone. *)

\* A client whose record is the same is known, polled and found as before.
LEMMA SameElsewhere ==
  ASSUME NEW S, Coherent(S), NEW T, Coherent(T), NEW d \in Client, T.cl[d] = S.cl[d],
         NEW s \in Own(S, d)
  PROVE  /\ T.kernel[s] = S.kernel[s]
         /\ T.tree[s] = S.tree[s]
         /\ s \in PolledFds(T) <=> s \in PolledFds(S)
<1>1. /\ Own(S, d) \subseteq Fd /\ S.tree \in [Fd -> Client \cup {None}]
      /\ T.tree \in [Fd -> Client \cup {None}] /\ Owns(S) /\ Owns(T)
      /\ Finds(S, {}) /\ Finds(T, {})
      /\ PolledFds(S) = Keys(S) \cup {Listener} /\ PolledFds(T) = Keys(T) \cup {Listener}
  <2>1. Sized(S) /\ Sized(T) /\ Linked(S, {}) /\ Linked(T, {})
    BY DEF Coherent, Linked, Clean
  <2> QED
    BY <2>1, OwnInFd DEF Linked
<1>2. s \in Fd /\ s # None /\ s \in Own(T, d)
  BY <1>1 DEF Own
<1>3. Proper(S.cl[d], S.kernel) /\ Proper(S.cl[d], T.kernel)
  BY <1>1 DEF Owns
<1>4. T.kernel[s] = S.kernel[s]
  BY <1>3 DEF Own, Proper
<1>5. ASSUME NEW U, U \in {S, T}, U.tree[s] # None PROVE U.tree[s] = d /\ s \in Heard(S.cl[d])
  <2>1. U.tree[s] \in Client
    BY <1>1, <1>2, <1>5
  <2>2. s \in Heard(U.cl[U.tree[s]])
    BY <1>1, <1>2, <1>5, <2>1 DEF Finds
  <2>3. s \in Own(U, U.tree[s]) /\ s \in Own(U, d)
    BY <1>2, <1>5, <2>2 DEF Heard, Own
  <2>4. U.tree[s] = d
    BY <1>1, <1>2, <1>5, <2>1, <2>3 DEF Owns
  <2> QED
    BY <1>5, <2>2, <2>4
<1>6. s \in Heard(S.cl[d]) => S.tree[s] = d /\ T.tree[s] = d
  BY <1>1, <1>2 DEF Finds
<1>7. T.tree[s] = S.tree[s]
  BY <1>5, <1>6
<1>8. s \in PolledFds(T) <=> s \in PolledFds(S)
  BY <1>1, <1>2, <1>7 DEF Keys
<1> QED
  BY <1>4, <1>7, <1>8

\* Handling an event of one client leaves the records, descriptors, tree entries
\* and polling of all others as they are, until undefined behaviour occurs.
THEOREM EachAlone ==
  ASSUME ~ListenHup
  PROVE  Spec => ClientsIsolated
<1> DEFINE Alone == Scanning /\ i <= Len(srv.fds) /\ fault' = "none" =>
             \A d \in Client : Alive(srv, d) /\ d # Owner =>
               /\ srv'.cl[d] = srv.cl[d]
               /\ \A s \in Own(srv, d) : /\ srv'.kernel[s] = srv.kernel[s]
                                         /\ srv'.tree[s] = srv.tree[s]
                                         /\ s \in PolledFds(srv') <=> s \in PolledFds(srv)
<1>1. Basic /\ Kept /\ [Next]_vars => [Alone]_vars
  <2> SUFFICES ASSUME Basic, Kept, [Next]_vars, Scanning, i <= Len(srv.fds), fault' = "none"
               PROVE  \A d \in Client : Alive(srv, d) /\ d # Owner =>
                        /\ srv'.cl[d] = srv.cl[d]
                        /\ \A s \in Own(srv, d) : /\ srv'.kernel[s] = srv.kernel[s]
                                                  /\ srv'.tree[s] = srv.tree[s]
                                                  /\ s \in PolledFds(srv') <=> s \in PolledFds(srv)
    OBVIOUS
  <2>1. Handler \/ srv' = srv
    BY DEF Next, Server, Run, Destroy, Poll, LeaveLoop, EndScan, Broadcast, Stopped, Stop, Ended,
           vars, Scanning
  <2>2. CASE srv' = srv
    BY <2>2
  <2>3. CASE Handler
    <3>1. OneAtMost(srv') /\ Coherent(srv) /\ Coherent(srv')
      BY <2>3, HandlerServes
    <3>2. ASSUME NEW d \in Client, Alive(srv, d), d # Owner PROVE srv'.cl[d] = srv.cl[d]
      BY <3>1, <3>2 DEF OneAtMost, Steps, Others
    <3> QED
      BY <3>1, <3>2, SameElsewhere
  <2> QED
    BY <2>1, <2>2, <2>3
<1>2. Spec => [][Alone]_vars
  BY <1>1, BasicAlways, KeptAlways, PTL DEF Spec
<1> QED
  BY <1>2 DEF ClientsIsolated

------------------------------------------------------------------------------
(* EventLoop implements Connections. *)

\* The refinement mapping of Connections' session.
Sessions == [c \in Client |-> SessionOf(c)]

LEMMA SessionsAre ==
  /\ fault = "none" => Sessions = [c \in Client |-> View(srv.cl[c])]
  /\ fault # "none" => Sessions = [c \in Client |-> Gone]
  /\ fault' = "none" => Sessions' = [c \in Client |-> View(srv'.cl[c])]
  /\ fault' # "none" => Sessions' = [c \in Client |-> Gone]
<1>1. /\ fault = "none" => Sessions = [c \in Client |-> View(srv.cl[c])]
      /\ fault' = "none" => Sessions' = [c \in Client |-> View(srv'.cl[c])]
  BY DEF Sessions, SessionOf, View, Alive
<1>2. /\ fault # "none" => Sessions = [c \in Client |-> Gone]
      /\ fault' # "none" => Sessions' = [c \in Client |-> Gone]
  BY Values DEF Sessions, SessionOf
<1> QED
  BY <1>1, <1>2

\* The loop goes on serving, and one client moves.
LEMMA MoveServes ==
  ASSUME fault = "none", fault' = "none", PhaseOf = "serving", PhaseOf' = "serving",
         OneAtMost(srv')
  PROVE  [Abstract!Next]_(Abstract!vars)
<1>1. /\ Sessions = [c \in Client |-> View(srv.cl[c])]
      /\ Sessions' = [c \in Client |-> View(srv'.cl[c])]
  BY SessionsAre
<1>2. CASE srv'.cl = srv.cl
  <2>1. Sessions' = Sessions
    BY <1>1, <1>2
  <2> QED
    BY <2>1 DEF Abstract!vars, Sessions
<1>3. ASSUME NEW c \in Client, Steps(srv, srv', c)
      PROVE  [Abstract!Next]_(Abstract!vars)
  <2> DEFINE v == View(srv.cl[c])
             w == View(srv'.cl[c])
  <2>1. Sessions[c] = v /\ Sessions' = [Sessions EXCEPT ![c] = w]
    BY <1>1, <1>3 DEF Steps, Others
  <2>2. Moves(v, w)
    BY <1>3 DEF Steps
  <2> HIDE DEF v, w
  <2>3. CASE w = v
    <3>1. Sessions' = Sessions
      BY <1>1, <2>1, <2>3
    <3> QED
      BY <3>1 DEF Abstract!vars, Sessions
  <2>4. CASE v = Gone /\ w = Idle
    <3>1. Abstract!Connect(c)
      BY <2>1, <2>4 DEF Abstract!Connect, Abstract!Becomes, Sessions, Gone, Idle
    <3> QED
      BY <3>1 DEF Abstract!Next
  <2>5. CASE v.here /\ w = Gone
    <3>1. Abstract!Leave(c)
      BY <2>1, <2>5 DEF Abstract!Leave, Abstract!Becomes, Sessions, Gone
    <3> QED
      BY <3>1 DEF Abstract!Next
  <2>6. CASE v.here /\ w = Idle
    <3>1. Abstract!End(c)
      BY <2>1, <2>6 DEF Abstract!End, Abstract!Becomes, Sessions, Idle
    <3> QED
      BY <3>1 DEF Abstract!Next
  <2>7. CASE v \in {Idle, Waiting} /\ w = Waiting
    <3>1. Abstract!Listen(c)
      BY <2>1, <2>7 DEF Abstract!Listen, Abstract!Becomes, Sessions, Idle, Waiting
    <3> QED
      BY <3>1 DEF Abstract!Next
  <2>8. CASE v = Waiting /\ w = Ready
    <3>1. Abstract!Meet(c)
      BY <2>1, <2>8 DEF Abstract!Meet, Abstract!Becomes, Sessions, Waiting, Ready
    <3> QED
      BY <3>1 DEF Abstract!Next
  <2>9. CASE v \in {Idle, Waiting, Ready} /\ w = Busy
    <3>1. Abstract!Begin(c)
      BY <2>1, <2>9 DEF Abstract!Begin, Abstract!Becomes, Sessions, Idle, Waiting, Ready, Busy
    <3> QED
      BY <3>1 DEF Abstract!Next
  <2> QED
    BY <2>2, <2>3, <2>4, <2>5, <2>6, <2>7, <2>8, <2>9 DEF Moves
<1> QED
  BY <1>2, <1>3 DEF OneAtMost

\* A step of the server that changes no client.
LEMMA SameSessions ==
  ASSUME fault' = fault, srv'.cl = srv.cl
  PROVE  Sessions' = Sessions
BY SessionsAre

\* The array alone is written.
LEMMA ArrayOnly ==
  ASSUME Basic
  PROVE  /\ Settled(srv).cl = srv.cl
         /\ \A s : Settled(pollfd_array_add(srv, s)).cl = srv.cl
         /\ \A R : PutRevs(srv, R).cl = srv.cl
<1>1. srv \in State
  BY DEF Basic, Sound, Sized
<1> QED
  BY <1>1 DEF State, Settled, pollfd_array_add, PutRevs

\* Keys is empty only when nobody is left.
LEMMA NobodyLeft ==
  ASSUME Coherent(srv), Keys(srv) = {}, fault = "none"
  PROVE  Sessions = [c \in Client |-> Gone]
<1>1. ASSUME NEW c \in Client PROVE View(srv.cl[c]) = Gone
  <2>1. Sized(srv) /\ Finds(srv, {}) /\ srv.cl[c] \in Record
    BY OwnInFd DEF Coherent, Linked, Clean
  <2>2. srv.cl[c].ctl = None
    <3> SUFFICES ASSUME srv.cl[c].ctl # None PROVE FALSE
      OBVIOUS
    <3>1. srv.cl[c].ctl \in Fd
      BY <2>1 DEF Record
    <3>2. srv.tree[srv.cl[c].ctl] = c
      BY <2>1, <3>1 DEF Finds, Heard
    <3> QED
      BY <3>1, <3>2, ConstantsAssumption DEF Keys
  <2> QED
    BY <2>2, Places
<1> QED
  BY <1>1, SessionsAre

LEMMA NextServes ==
  ASSUME Basic, Kept, Kept', [Next]_vars
  PROVE  [Abstract!Next]_(Abstract!vars)
<1>1. pc \in PcValues /\ (fault' = "none" => fault = "none") /\ (fault = "none" => pc # "crashed")
  <2>1. CASE Handler
    BY <2>1, HandlerTurn DEF Turn, Basic, Kept
  <2>2. CASE ~Handler
    BY <2>2 DEF Basic, Kept, Next, Server, Run, Destroy, Poll, LeaveLoop, EndScan, Broadcast,
                Stopped, Stop, Ended, vars
  <2> QED
    BY <2>1, <2>2
<1>2. CASE fault # "none"
  <2>1. PhaseOf = "broken" /\ PhaseOf' = "broken"
    BY <1>1, <1>2 DEF PhaseOf
  <2>2. Sessions' = Sessions
    BY <1>1, <1>2, SessionsAre
  <2> QED
    BY <2>1, <2>2 DEF Abstract!vars, Sessions
<1>3. CASE fault = "none" /\ fault' # "none"
  <2>1. PhaseOf # "broken" /\ PhaseOf' = "broken"
    BY <1>1, <1>3 DEF PhaseOf, PcValues
  <2>2. Sessions' = [c \in Client |-> Gone]
    BY <1>3, SessionsAre
  <2>3. Abstract!Break
    BY <2>1, <2>2 DEF Abstract!Break, Abstract!Nobody, Sessions, Gone
  <2> QED
    BY <2>3 DEF Abstract!Next
<1>4. CASE fault = "none" /\ fault' = "none"
  <2>1. CASE Run
    <3>1. pc = "created" /\ pc' \in {"poll", "stopped"} /\ srv'.cl = srv.cl
      BY <2>1, ArrayOnly DEF Run
    <3>2. PhaseOf = "created" /\ PhaseOf' \in {"serving", "stopped"}
      BY <1>4, <3>1 DEF PhaseOf
    <3>3. Sessions' = Sessions
      BY <1>4, <3>1, SameSessions
    <3>4. Abstract!Start
      BY <3>2, <3>3 DEF Abstract!Start, Abstract!Moves, Sessions
    <3> QED
      BY <3>4 DEF Abstract!Next
  <2>2. CASE Destroy
    <3>1. pc = "stopped" /\ pc' = "destroyed" /\ srv'.cl = srv.cl
      BY <2>2 DEF Destroy, Closed, Basic, Sound, Sized, State
    <3>2. PhaseOf = "stopped" /\ PhaseOf' = "destroyed"
      BY <1>4, <3>1 DEF PhaseOf
    <3>3. Sessions' = Sessions
      BY <1>4, <3>1, SameSessions
    <3>4. Abstract!Destroy
      BY <3>2, <3>3 DEF Abstract!Destroy, Abstract!Moves, Sessions
    <3> QED
      BY <3>4 DEF Abstract!Next
  <2>3. CASE Poll \/ EndScan
    <3>1. pc \in {"poll", "scan"} /\ pc' \in {"poll", "scan"} /\ srv'.cl = srv.cl
      BY <2>3, ArrayOnly DEF Poll, EndScan, PutRevs
    <3>2. PhaseOf = "serving" /\ PhaseOf' = "serving"
      BY <1>4, <3>1 DEF PhaseOf
    <3>3. Sessions' = Sessions
      BY <1>4, <3>1, SameSessions
    <3> QED
      BY <3>2, <3>3 DEF Abstract!vars, Sessions
  <2>4. CASE LeaveLoop
    <3>1. pc = "poll" /\ pc' = "shutdown" /\ srv'.cl = srv.cl
      BY <2>4 DEF LeaveLoop
    <3>2. PhaseOf = "serving" /\ PhaseOf' = "closing"
      BY <1>4, <3>1 DEF PhaseOf
    <3>3. Sessions' = Sessions
      BY <1>4, <3>1, SameSessions
    <3>4. Abstract!Close
      BY <3>2, <3>3 DEF Abstract!Close, Abstract!Moves, Sessions
    <3> QED
      BY <3>4 DEF Abstract!Next
  <2>5. CASE Handler
    <3>1. OneAtMost(srv') /\ pc = "scan" /\ pc' = "scan"
      BY <1>4, <2>5, HandlerServes
    <3>2. PhaseOf = "serving" /\ PhaseOf' = "serving"
      BY <1>4, <3>1 DEF PhaseOf
    <3> QED
      BY <1>4, <3>1, <3>2, MoveServes
  <2>6. CASE Broadcast
    <3>1. PICK s \in Keys(srv) :
            /\ Alive(srv, srv.tree[s]) /\ pc = "shutdown" /\ pc' = "shutdown"
            /\ srv' = ftpclient_disconnect(srv, srv.tree[s], srv.cl[srv.tree[s]].ctl)
      BY <1>4, <2>6 DEF Broadcast
    <3> DEFINE c == srv.tree[s]
    <3>2. Sized(srv) /\ c \in Client /\ srv.cl[c].ctl # None
      BY <3>1 DEF Basic, Sound, Sized, State, Keys, Alive
    <3>3. srv' = ftpclient_disconnect(srv, c, srv.cl[c].ctl)
      BY <3>1
    <3> HIDE DEF c
    <3>4. View(srv'.cl[c]) = Gone /\ Others(srv, srv', c) /\ View(srv.cl[c]).here
      BY <3>2, <3>3, LeaveView DEF View
    <3>5. /\ Sessions = [d \in Client |-> View(srv.cl[d])]
          /\ Sessions' = [d \in Client |-> View(srv'.cl[d])]
      BY <1>4, SessionsAre
    <3>6. Sessions[c].here /\ Sessions' = [Sessions EXCEPT ![c] = Gone]
      BY <3>2, <3>4, <3>5 DEF Others
    <3>7. PhaseOf = "closing" /\ PhaseOf' = "closing"
      BY <1>4, <3>1 DEF PhaseOf
    <3>8. Abstract!Leave(c)
      BY <3>6, <3>7 DEF Abstract!Leave, Abstract!Becomes, Sessions, Gone
    <3> QED
      BY <3>2, <3>8 DEF Abstract!Next
  <2>7. CASE Stopped
    <3>1. pc = "shutdown" /\ pc' = "stopped" /\ srv'.cl = srv.cl /\ Keys(srv) = {}
      BY <2>7 DEF Stopped
    <3>2. PhaseOf = "closing" /\ PhaseOf' = "stopped"
      BY <1>4, <3>1 DEF PhaseOf
    <3>3. Sessions' = Sessions
      BY <1>4, <3>1, SameSessions
    <3>4. Sessions = [d \in Client |-> Gone]
      BY <1>4, <3>1, NobodyLeft DEF Kept
    <3>5. Abstract!Stop
      BY <3>2, <3>3, <3>4 DEF Abstract!Stop, Abstract!Moves, Abstract!Nobody, Sessions, Gone
    <3> QED
      BY <3>5 DEF Abstract!Next
  <2>8. CASE Stop \/ Ended \/ UNCHANGED vars
    <3>1. pc' = pc /\ srv' = srv
      BY <2>8 DEF Stop, Ended, vars
    <3>2. PhaseOf' = PhaseOf
      BY <1>4, <3>1 DEF PhaseOf
    <3>3. Sessions' = Sessions
      BY <1>4, <3>1, SameSessions
    <3> QED
      BY <3>2, <3>3 DEF Abstract!vars, Sessions
  <2> QED
    BY <2>1, <2>2, <2>3, <2>4, <2>5, <2>6, <2>7, <2>8 DEF Next, Server
<1> QED
  BY <1>1, <1>2, <1>3, <1>4

LEMMA InitServes ==
  ASSUME Init
  PROVE  Abstract!Init
<1>1. fault = "none" /\ pc = "created" /\ srv.cl = [c \in Client |-> Freed]
  BY DEF Init
<1>2. PhaseOf = "created"
  BY <1>1 DEF PhaseOf
<1>3. Sessions = [c \in Client |-> Gone]
  BY <1>1, SessionsAre, FreedIsGone
<1> QED
  BY <1>2, <1>3 DEF Abstract!Init, Abstract!Nobody, Sessions, Gone

\* Without undefined behaviour the poll loop, its descriptors, array and tree are
\* the server Connections describes: every handler is one of its steps, or none.
THEOREM ConnectionsServed ==
  ASSUME ~ListenHup
  PROVE  Spec => ServesConnections
<1>1. Init => Abstract!Init
  BY InitServes
<1>2. Basic /\ Kept /\ Kept' /\ [Next]_vars => [Abstract!Next]_(Abstract!vars)
  BY NextServes
<1> QED
  BY <1>1, <1>2, BasicAlways, KeptAlways, PTL DEF Spec, ServesConnections, Abstract!Spec
==============================================================================
