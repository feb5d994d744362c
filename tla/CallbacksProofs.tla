--------------------------- MODULE CallbacksProofs ---------------------------
(***************************************************************************)
(* An application that unregisters nothing it registered: whatever it      *)
(* registers, and whenever, and whatever clients go within its callbacks,  *)
(* each event reaches each callback that was registered when it began,     *)
(* once, and no slot is used that was not written.                         *)
(***************************************************************************)
EXTENDS Callbacks, TLAPS

\* The arrays hold callbacks and nothing else.
Sound ==
  /\ memory \in [Event -> Seq(Callback)]
  /\ count = [e \in Event |-> Len(memory[e])]
  /\ walks \in Seq(Walk)
  /\ fault = FALSE

\* What is still to be called is where it was, below what came since; what was
\* called is the beginning of what was due.
Going(w) ==
  /\ w.n + Len(w.called) = Len(w.due)
  /\ Len(w.due) <= Len(memory[w.on])
  /\ \A k \in 1..w.n : memory[w.on][k] = w.due[Len(w.due) - k + 1]
  /\ \A k \in 1..Len(w.called) : w.called[k] = w.due[k]

IInv == Sound /\ \A d \in 1..Len(walks) : Going(walks[d])

------------------------------------------------------------------------------
LEMMA ArrayAddAppends ==
  ASSUME NEW a \in Seq(Callback), NEW f \in Callback
  PROVE  /\ array_add(a, Len(a), f) \in Seq(Callback)
         /\ Len(array_add(a, Len(a), f)) = Len(a) + 1
         /\ \A k \in 1..Len(a) : array_add(a, Len(a), f)[k] = a[k]
<1> DEFINE b == array_add(a, Len(a), f)
<1>1. Len(a) \in Nat /\ \A k \in 1..Len(a) : a[k] \in Callback
  OBVIOUS
<1>2. b = [k \in 1..Len(a) + 1 |-> IF k = Len(a) + 1 THEN f ELSE a[k]]
  BY <1>1 DEF array_add
<1>3. \A k \in 1..Len(a) + 1 : (IF k = Len(a) + 1 THEN f ELSE a[k]) \in Callback
  BY <1>1
<1>4. b \in [1..Len(a) + 1 -> Callback]
  BY <1>2, <1>3
<1> HIDE DEF b
<1>5. b \in Seq(Callback) /\ Len(b) = Len(a) + 1
  BY <1>1, <1>4
<1>6. \A k \in 1..Len(a) : b[k] = a[k]
  BY <1>1, <1>2
<1> QED
  BY <1>5, <1>6 DEF b

LEMMA InitSound == Init => IInv
BY DEF Init, IInv, Sound, Event

\* Every slot there is holds a callback.
LEMMA AllWritten ==
  ASSUME Sound, NEW e \in Event
  PROVE  /\ memory[e] \in Seq(Callback) /\ count[e] = Len(memory[e]) /\ Len(memory[e]) \in Nat
         /\ \A k \in 1..count[e] : Written(e, k)
BY CallbacksAssumption DEF Sound, Written

\* The innermost walk is one of them, and those around it are a sequence too.
LEMMA TopIsWalk ==
  ASSUME walks \in Seq(Walk), walks # <<>>
  PROVE  /\ Len(walks) \in 1..Len(walks) /\ Last(walks) = walks[Len(walks)]
         /\ Last(walks) \in Walk
         /\ Front(walks) \in Seq(Walk) /\ Len(Front(walks)) = Len(walks) - 1
         /\ \A d \in 1..Len(walks) - 1 : Front(walks)[d] = walks[d]
<1>1. Len(walks) \in Nat /\ Len(walks) > 0
  OBVIOUS
<1>2. Last(walks) = walks[Len(walks)] /\ Last(walks) \in Walk
  BY <1>1 DEF Last
<1>3. Front(walks) = SubSeq(walks, 1, Len(walks) - 1)
  BY DEF Front
<1>4. \A d \in 1..Len(walks) - 1 : walks[d] \in Walk
  BY <1>1
<1>5. Front(walks) = [d \in 1..Len(walks) - 1 |-> walks[d]]
  BY <1>1, <1>3
<1>6. Front(walks) \in Seq(Walk) /\ Len(Front(walks)) = Len(walks) - 1
  BY <1>1, <1>4, <1>5
<1> QED
  BY <1>1, <1>2, <1>5, <1>6

------------------------------------------------------------------------------
LEMMA RaiseKeeps ==
  ASSUME IInv, NEW e \in Event, Raise(e)
  PROVE  IInv'
<1> DEFINE a == memory[e]  w == Begun(e, count[e])
<1>1. /\ a \in Seq(Callback) /\ Len(a) \in Nat /\ count[e] = Len(a)
      /\ \A k \in 1..Len(a) : a[k] \in Callback
  BY AllWritten DEF IInv
<1>2. \A k \in 1..Len(a) : (Len(a) - k) + 1 \in 1..Len(a) /\ (Len(a) - ((Len(a) - k) + 1)) + 1 = k
  BY <1>1
<1>3. w.due = [k \in 1..Len(a) |-> a[(Len(a) - k) + 1]]
  <2>1. w.due = [k \in 1..Len(a) |-> IF (Len(a) - k) + 1 <= Len(a)
                                     THEN a[(Len(a) - k) + 1] ELSE Junk]
    BY <1>1 DEF Begun
  <2> QED
    BY <1>1, <1>2, <2>1
<1>4. w.due \in Seq(Callback \cup {Junk}) /\ Len(w.due) = Len(a)
  <2>1. \A k \in 1..Len(a) : a[(Len(a) - k) + 1] \in Callback \cup {Junk}
    BY <1>1, <1>2
  <2>2. w.due \in [1..Len(a) -> Callback \cup {Junk}]
    BY <1>3, <2>1
  <2> QED
    BY <1>1, <2>2
<1>5. w.on = e /\ w.n = Len(a) /\ w.called = <<>>
  BY <1>1 DEF Begun
<1>6. w = [on |-> w.on, n |-> w.n, called |-> w.called, due |-> w.due]
  BY DEF Begun
<1>7. w \in Walk
  <2> HIDE DEF w
  <2>1. w.called \in Seq(Callback)
    BY <1>5
  <2> QED
    BY <1>1, <1>4, <1>5, <1>6, <2>1 DEF Walk
<1>8. walks' = Append(walks, w) /\ UNCHANGED <<memory, count, fault>>
  BY DEF Raise
<1> HIDE DEF w
<1>9. Going(w)
  <2>1. \A k \in 1..Len(a) : w.due[(Len(a) - k) + 1] = a[k]
    BY <1>2, <1>3
  <2> QED
    BY <1>1, <1>4, <1>5, <2>1 DEF Going
<1>10. walks \in Seq(Walk) /\ walks' \in Seq(Walk) /\ Len(walks') = Len(walks) + 1
  BY <1>7, <1>8 DEF IInv, Sound
<1>11. Sound'
  BY <1>8, <1>10 DEF IInv, Sound
<1>12. \A d \in 1..Len(walks') : Going(walks'[d])
  <2> TAKE d \in 1..Len(walks')
  <2>1. CASE d = Len(walks) + 1
    BY <1>8, <1>9, <1>10, <2>1
  <2>2. CASE d # Len(walks) + 1
    <3>1. d \in 1..Len(walks) /\ walks'[d] = walks[d]
      BY <1>8, <1>10, <2>2
    <3> QED
      BY <3>1 DEF IInv
  <2> QED
    BY <2>1, <2>2
<1>13. \A x : Going(x)' <=> Going(x)
  BY <1>8 DEF Going
<1> QED
  BY <1>10, <1>11, <1>12, <1>8 DEF IInv, Going

LEMMA CallNextKeeps ==
  ASSUME IInv, CallNext
  PROVE  IInv'
<1> DEFINE w == Last(walks)  a == memory[w.on]  f == a[w.n]
           v == [w EXCEPT !.n = @ - 1, !.called = Append(@, f)]
<1>1. /\ walks \in Seq(Walk) /\ walks # <<>> /\ w.n > 0
      /\ w \in Walk /\ w = walks[Len(walks)] /\ Going(w)
  BY TopIsWalk DEF IInv, Sound, CallNext
<1>2. /\ w.on \in Event /\ w.n \in Nat /\ w.due \in Seq(Callback \cup {Junk})
      /\ w.called \in Seq(Callback)
  BY <1>1 DEF Walk
<1>3. /\ a \in Seq(Callback) /\ Len(a) \in Nat /\ count[w.on] = Len(a)
      /\ \A k \in 1..Len(a) : Written(w.on, k)
  BY <1>2, AllWritten DEF IInv
<1>4. /\ Len(w.due) \in Nat /\ Len(w.called) \in Nat
      /\ w.n + Len(w.called) = Len(w.due) /\ Len(w.due) <= Len(a)
      /\ \A k \in 1..w.n : a[k] = w.due[Len(w.due) - k + 1]
      /\ \A k \in 1..Len(w.called) : w.called[k] = w.due[k]
  BY <1>1, <1>2 DEF Going
<1>5. w.n \in 1..Len(a) /\ w.n \in 1..w.n
  BY <1>1, <1>2, <1>3, <1>4
<1>6. f \in Callback /\ Written(w.on, w.n)
  BY <1>3, <1>5
<1>7. walks' = Append(Front(walks), v) /\ UNCHANGED <<memory, count, fault>>
  BY <1>6 DEF CallNext
<1>8. /\ v.on = w.on /\ v.n = w.n - 1 /\ v.due = w.due /\ v.called = Append(w.called, f)
      /\ v \in Walk
  <2>1. Append(w.called, f) \in Seq(Callback) /\ w.n - 1 \in Nat
    BY <1>1, <1>2, <1>6
  <2> QED
    BY <1>1, <2>1 DEF Walk
<1> HIDE DEF v
<1>9. Going(v)
  <2>1. /\ Len(v.called) = Len(w.called) + 1
        /\ \A k \in 1..Len(w.called) : v.called[k] = w.called[k]
        /\ v.called[Len(w.called) + 1] = f
    BY <1>2, <1>6, <1>8
  <2>2. f = w.due[Len(w.called) + 1]
    <3>1. \A x, y, z \in Nat : x + y = z => z - x + 1 = y + 1
      OBVIOUS
    <3>2. Len(w.due) - w.n + 1 = Len(w.called) + 1
      BY <1>2, <1>4, <3>1
    <3>3. f = w.due[Len(w.due) - w.n + 1]
      BY <1>4, <1>5
    <3> QED
      BY <3>2, <3>3
  <2>3. \A k \in 1..Len(v.called) : v.called[k] = v.due[k]
    <3> TAKE k \in 1..Len(v.called)
    <3>1. CASE k = Len(w.called) + 1
      BY <1>8, <2>1, <2>2, <3>1
    <3>2. CASE k # Len(w.called) + 1
      <4>1. k \in 1..Len(w.called)
        BY <1>4, <2>1, <3>2
      <4> QED
        BY <1>4, <1>8, <2>1, <4>1
    <3> QED
      BY <3>1, <3>2
  <2>4. \A k \in 1..v.n : a[k] = v.due[Len(v.due) - k + 1]
    <3>1. \A k \in 1..w.n - 1 : k \in 1..w.n
      BY <1>2
    <3> QED
      BY <1>4, <1>8, <3>1
  <2>5. v.n + Len(v.called) = Len(v.due)
    <3>1. \A x, y, z \in Nat : x > 0 /\ x + y = z => (x - 1) + (y + 1) = z
      OBVIOUS
    <3>2. (w.n - 1) + (Len(w.called) + 1) = Len(w.due)
      <4> HIDE DEF w
      <4> QED
        BY <1>1, <1>2, <1>4, <3>1
    <3>3. v.n = w.n - 1 /\ Len(v.called) = Len(w.called) + 1 /\ Len(v.due) = Len(w.due)
      BY <1>8, <2>1
    <3> QED
      BY <3>2, <3>3
  <2> QED
    BY <1>4, <1>8, <2>3, <2>4, <2>5 DEF Going
<1>10. /\ Front(walks) \in Seq(Walk) /\ Len(Front(walks)) = Len(walks) - 1
       /\ \A d \in 1..Len(walks) - 1 : Front(walks)[d] = walks[d]
       /\ Len(walks) \in Nat /\ Len(walks) > 0
  BY <1>1, TopIsWalk
<1>11. walks' \in Seq(Walk) /\ Len(walks') = Len(walks)
  BY <1>7, <1>8, <1>10
<1>12. Sound'
  BY <1>7, <1>11 DEF IInv, Sound
<1>13. \A d \in 1..Len(walks') : Going(walks'[d])
  <2> TAKE d \in 1..Len(walks')
  <2>1. CASE d = Len(walks)
    BY <1>7, <1>8, <1>9, <1>10, <2>1
  <2>2. CASE d # Len(walks)
    <3>1. d \in 1..Len(walks) - 1 /\ d \in 1..Len(walks)
      BY <1>10, <1>11, <2>2
    <3>2. walks'[d] = walks[d]
      BY <1>7, <1>8, <1>10, <3>1
    <3> QED
      BY <3>1, <3>2 DEF IInv
  <2> QED
    BY <2>1, <2>2
<1> QED
  BY <1>7, <1>12, <1>13 DEF IInv, Going

LEMMA RegisterKeeps ==
  ASSUME IInv, NEW e \in Event, NEW f \in Callback, Register(e, f)
  PROVE  IInv'
<1> DEFINE a == memory[e]  b == array_add(a, Len(a), f)
<1>1. memory \in [Event -> Seq(Callback)] /\ a \in Seq(Callback) /\ count[e] = Len(a)
  BY DEF IInv, Sound
<1>2. /\ b \in Seq(Callback) /\ Len(b) = Len(a) + 1
      /\ \A k \in 1..Len(a) : b[k] = a[k]
  BY <1>1, ArrayAddAppends
<1>3. memory' = [memory EXCEPT ![e] = b] /\ count' = [count EXCEPT ![e] = @ + 1]
  BY <1>1 DEF Register
<1>4. UNCHANGED <<walks, fault>>
  BY DEF Register
<1> HIDE DEF b
<1>5. memory' \in [Event -> Seq(Callback)]
  BY <1>1, <1>2, <1>3
<1>6. count' = [x \in Event |-> Len(memory'[x])]
  <2>1. count = [x \in Event |-> Len(memory[x])]
    BY DEF IInv, Sound
  <2>2. \A x \in Event : count'[x] = Len(memory'[x])
    BY <1>1, <1>2, <1>3, <2>1
  <2> QED
    BY <1>3, <2>1, <2>2
<1>7. Sound'
  BY <1>4, <1>5, <1>6 DEF IInv, Sound
<1>8. ASSUME NEW w \in Walk, Going(w)
      PROVE  Going(w)'
  <2>1. /\ w.on \in Event /\ w.n \in Nat /\ Len(w.due) \in Nat /\ Len(w.called) \in Nat
        /\ Len(memory[w.on]) \in Nat
    BY <1>1, <1>8 DEF Walk
  <2>2. /\ Len(memory'[w.on]) \in Nat /\ Len(memory[w.on]) <= Len(memory'[w.on])
        /\ \A k \in 1..Len(memory[w.on]) : memory'[w.on][k] = memory[w.on][k]
    BY <1>1, <1>2, <1>3, <2>1
  <2>3. \A k \in 1..w.n : k \in 1..Len(memory[w.on])
    BY <1>8, <2>1 DEF Going
  <2> QED
    BY <1>8, <2>1, <2>2, <2>3 DEF Going
<1>9. \A d \in 1..Len(walks) : walks[d] \in Walk /\ Going(walks[d])
  BY DEF IInv, Sound
<1>10. \A d \in 1..Len(walks) : Going(walks[d])'
  BY <1>4, <1>8, <1>9 DEF Going
<1> QED
  BY <1>4, <1>7, <1>10 DEF IInv

\* What is not registered is not found, and nothing changes.
LEMMA UnregisterKeeps ==
  ASSUME IInv, Unregisters = FALSE, NEW e \in Event, NEW f \in Callback, Unregister(e, f)
  PROVE  UNCHANGED vars
<1>1. \A k \in 1..count[e] : Written(e, k)
  BY AllWritten DEF IInv
<1> QED
  BY <1>1 DEF Unregister, vars

LEMMA DoneKeeps ==
  ASSUME IInv, Done
  PROVE  IInv' /\ Last(walks).called = Last(walks).due
<1> DEFINE w == Last(walks)
<1>1. walks \in Seq(Walk) /\ walks # <<>> /\ w.n = 0 /\ w \in Walk /\ Going(w)
  BY TopIsWalk DEF IInv, Sound, Done
<1>2. w.called = w.due
  <2>1. w.called \in Seq(Callback) /\ w.due \in Seq(Callback \cup {Junk})
    BY <1>1 DEF Walk
  <2>2. Len(w.called) = Len(w.due) /\ \A k \in 1..Len(w.called) : w.called[k] = w.due[k]
    BY <1>1, <2>1 DEF Going
  <2> HIDE DEF w
  <2> QED
    BY <2>1, <2>2
<1>3. walks' = Front(walks) /\ UNCHANGED <<memory, count, fault>>
  BY DEF Done
<1>4. /\ walks' \in Seq(Walk) /\ Len(walks') = Len(walks) - 1 /\ Len(walks) \in Nat
      /\ \A d \in 1..Len(walks) - 1 : walks'[d] = walks[d]
  BY <1>1, <1>3, TopIsWalk
<1>5. \A d \in 1..Len(walks') : Going(walks'[d])
  <2>1. \A d \in 1..Len(walks') : d \in 1..Len(walks) - 1 /\ d \in 1..Len(walks)
    BY <1>4
  <2> QED
    BY <1>4, <2>1 DEF IInv
<1>6. Sound'
  BY <1>3, <1>4 DEF IInv, Sound
<1> QED
  BY <1>2, <1>3, <1>5, <1>6 DEF IInv, Going

LEMMA NextKeeps ==
  ASSUME Unregisters = FALSE, IInv, [Next]_vars
  PROVE  IInv' /\ ~fault' /\ (Done => Last(walks).called = Last(walks).due)
<1>1. CASE UNCHANGED vars
  BY <1>1, DoneKeeps DEF IInv, Sound, Going, vars
<1>2. CASE Next
  <2>1. IInv'
    BY <1>1, <1>2, RaiseKeeps, CallNextKeeps, RegisterKeeps, UnregisterKeeps, DoneKeeps
    DEF Next
  <2> QED
    BY <2>1, DoneKeeps DEF IInv, Sound
<1> QED
  BY <1>1, <1>2

------------------------------------------------------------------------------
\* For any number of callbacks, registered at any time, and clients that go within them:
\* an event reaches each callback that was there when it began, once, the latest first,
\* and no slot is used that was not written.
THEOREM CallbacksComplete ==
  ASSUME Unregisters = FALSE
  PROVE  Spec => EachCalledOnce
<1>1. IInv /\ [Next]_vars =>
        IInv' /\ [~fault' /\ (Done => Last(walks).called = Last(walks).due)]_vars
  BY NextKeeps
<1> QED
  BY <1>1, InitSound, PTL DEF Spec, EachCalledOnce

==============================================================================
