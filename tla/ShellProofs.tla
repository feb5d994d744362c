----------------------------- MODULE ShellProofs -----------------------------
(***************************************************************************)
(* Theorems about ControlLine, for any tree, verbs and lines: a client     *)
(* that asks for plain paths and waits for its replies has the shell of    *)
(* module Shell.                                                           *)
(***************************************************************************)
EXTENDS ControlLine, SequenceTheorems, WellFoundedInduction, TLAPS

------------------------------------------------------------------------------
(* Paths, step by step *)

LEMMA NaturalInduction ==
  ASSUME NEW S, 0 \in S, \A n \in Nat : n \in S => n + 1 \in S
  PROVE  \A n \in Nat : n \in S
<1> DEFINE R == OpToRel(<, Nat)
           M == {n \in Nat : n \notin S}
<1>1. \A x, y \in Nat : x < y => <<x, y>> \in R
  BY DEF OpToRel
<1>2. IsWellFoundedOn(R, Nat)
  BY NatLessThanWellFounded
<1>3. M \subseteq Nat
  OBVIOUS
<1> HIDE DEF R
<1>4. ASSUME M # {} PROVE FALSE
  <2> HIDE DEF M
  <2>1. PICK m \in M : \A y \in M : ~(<<y, m>> \in R)
    BY <1>2, <1>3, <1>4, WFMin
  <2> USE DEF M
  <2>2. m # 0 /\ m \in Nat
    OBVIOUS
  <2>3. m - 1 \in Nat /\ m - 1 < m /\ (m - 1) + 1 = m
    BY <2>2
  <2>4. m - 1 \notin M
    BY <1>1, <2>1, <2>2, <2>3
  <2> QED
    BY <2>2, <2>3, <2>4
<1> QED
  BY <1>4

\* The places on the way, after each of the first n steps of a path.
Trail(f, d, path, n) ==
  f = [k \in 0..n |-> IF k = 0 THEN d ELSE Enter(f[k - 1], path[k])]

LEMMA TrailExists ==
  ASSUME NEW d, NEW path
  PROVE  \A n \in Nat : \E f : Trail(f, d, path, n)
<1> DEFINE S == {n \in Nat : \E f : Trail(f, d, path, n)}
<1>1. 0 \in S
  <2>1. Trail([k \in 0..0 |-> d], d, path, 0)
    BY DEF Trail
  <2> QED
    BY <2>1
<1>2. ASSUME NEW n \in Nat, n \in S PROVE n + 1 \in S
  <2>1. PICK f : Trail(f, d, path, n)
    BY <1>2
  <2> DEFINE g == [k \in 0..(n + 1) |-> IF k = n + 1 THEN Enter(f[n], path[n + 1]) ELSE f[k]]
  <2>2. ASSUME NEW k \in 0..(n + 1)
        PROVE  g[k] = IF k = 0 THEN d ELSE Enter(g[k - 1], path[k])
    <3>1. CASE k = n + 1
      BY <3>1
    <3>2. CASE k # n + 1 /\ k # 0
      <4>1. f[k] = Enter(f[k - 1], path[k])
        BY <2>1, <3>2 DEF Trail
      <4>2. k - 1 \in 0..(n + 1) /\ k - 1 # n + 1 /\ g[k - 1] = f[k - 1] /\ g[k] = f[k]
        BY <3>2
      <4> QED
        BY <3>2, <4>1, <4>2
    <3>3. CASE k = 0
      BY <2>1, <3>3 DEF Trail
    <3> QED
      BY <3>1, <3>2, <3>3
  <2>3. Trail(g, d, path, n + 1)
    BY <2>2 DEF Trail
  <2> QED
    BY <2>3
<1> HIDE DEF S
<1>3. \A n \in Nat : n \in S
  BY <1>1, <1>2, NaturalInduction
<1> QED
  BY <1>3 DEF S

\* Paths with the same first steps lead the same way so far.
LEMMA TrailsAgree ==
  ASSUME NEW d, NEW p, NEW q, NEW n \in Nat, NEW m \in Nat, n <= m,
         NEW f, NEW g, Trail(f, d, p, n), Trail(g, d, q, m),
         \A k \in 1..n : p[k] = q[k]
  PROVE  \A k \in 0..n : f[k] = g[k]
<1> DEFINE S == {k \in Nat : k <= n => f[k] = g[k]}
<1>1. 0 \in S
  BY DEF Trail
<1>2. ASSUME NEW k \in Nat, k \in S PROVE k + 1 \in S
  <2> SUFFICES ASSUME k + 1 <= n PROVE f[k + 1] = g[k + 1]
    OBVIOUS
  <2>1. k + 1 \in 0..n /\ k + 1 \in 0..m /\ k + 1 # 0 /\ k + 1 \in 1..n /\ (k + 1) - 1 = k
    OBVIOUS
  <2>2. f[k + 1] = Enter(f[k], p[k + 1]) /\ g[k + 1] = Enter(g[k], q[k + 1])
    BY <2>1 DEF Trail
  <2>3. f[k] = g[k]
    BY <1>2
  <2> QED
    BY <2>1, <2>2, <2>3
<1> HIDE DEF S
<1>3. \A k \in Nat : k \in S
  BY <1>1, <1>2, NaturalInduction
<1> QED
  BY <1>3 DEF S

\* Walked is where a trail ends.
LEMMA WalkedIsTrail ==
  ASSUME NEW d, NEW X, NEW path \in Seq(X)
  PROVE  \E f : Trail(f, d, path, Len(path)) /\ Walked(d, path) = f[Len(path)]
<1> DEFINE at[k \in 0..Len(path)] == IF k = 0 THEN d ELSE Enter(at[k - 1], path[k])
<1>1. \E f : f = [k \in 0..Len(path) |-> IF k = 0 THEN d ELSE Enter(f[k - 1], path[k])]
  <2>1. \E f : Trail(f, d, path, Len(path))
    <3>1. Len(path) \in Nat
      OBVIOUS
    <3> HIDE DEF at
    <3> QED
      BY <3>1, TrailExists
  <2> QED
    BY <2>1 DEF Trail
<1>2. at = [k \in 0..Len(path) |-> IF k = 0 THEN d ELSE Enter(at[k - 1], path[k])]
  BY <1>1
<1>3. Walked(d, path) = at[Len(path)]
  BY DEF Walked
<1> HIDE DEF at
<1> QED
  BY <1>2, <1>3 DEF Trail

LEMMA WalkedNowhere ==
  ASSUME NEW d
  PROVE  Walked(d, <<>>) = d
<1>1. <<>> \in Seq({d}) /\ Len(<<>>) = 0
  OBVIOUS
<1>2. PICK f : Trail(f, d, <<>>, 0) /\ Walked(d, <<>>) = f[0]
  BY <1>1, WalkedIsTrail
<1> QED
  BY <1>2 DEF Trail

\* One more step.
LEMMA WalkedOn ==
  ASSUME NEW d, NEW X, NEW path \in Seq(X), NEW t \in X
  PROVE  Walked(d, Append(path, t)) = Enter(Walked(d, path), t)
<1> DEFINE q == Append(path, t)
           n == Len(path)
<1>1. q \in Seq(X) /\ Len(q) = n + 1 /\ n \in Nat /\ q[n + 1] = t /\ \A k \in 1..n : q[k] = path[k]
  OBVIOUS
<1>2. PICK f : Trail(f, d, path, n) /\ Walked(d, path) = f[n]
  BY WalkedIsTrail
<1> HIDE DEF q
<1>3. PICK g : Trail(g, d, q, n + 1) /\ Walked(d, q) = g[n + 1]
  BY <1>1, WalkedIsTrail
<1>4. f[n] = g[n]
  <2>1. \A k \in 0..n : f[k] = g[k]
    <3>1. n + 1 \in Nat /\ n <= n + 1 /\ \A k \in 1..n : path[k] = q[k]
      BY <1>1
    <3> HIDE DEF n
    <3> QED
      BY <1>1, <1>2, <1>3, <3>1, TrailsAgree
  <2> QED
    BY <1>1, <2>1
<1>5. g[n + 1] = Enter(g[n], q[n + 1])
  <2>1. n + 1 \in 0..(n + 1) /\ n + 1 # 0 /\ (n + 1) - 1 = n
    BY <1>1
  <2> QED
    BY <1>3, <2>1 DEF Trail
<1> QED
  BY <1>1, <1>2, <1>3, <1>4, <1>5 DEF q

LEMMA FirstSteps ==
  ASSUME NEW X, NEW q \in Seq(X), NEW n \in 0..Len(q)
  PROVE  /\ SubSeq(q, 1, n) \in Seq(X) /\ Len(SubSeq(q, 1, n)) = n
         /\ \A k \in 1..n : SubSeq(q, 1, n)[k] = q[k]
<1>1. n \in Int /\ 1 \in Int /\ \A k \in 1..n : q[k] \in X
  OBVIOUS
<1>2. /\ SubSeq(q, 1, n) \in Seq(X)
      /\ Len(SubSeq(q, 1, n)) = IF 1 <= n THEN n - 1 + 1 ELSE 0
      /\ \A k \in 1..(n - 1 + 1) : SubSeq(q, 1, n)[k] = q[1 + k - 1]
  BY <1>1, SubSeqProperties
<1> QED
  BY <1>1, <1>2

LEMMA LastStep ==
  ASSUME NEW X, NEW q \in Seq(X), q # <<>>
  PROVE  \E r \in Seq(X), t \in X :
           q = Append(r, t) /\ Len(q) = Len(r) + 1 /\ r = SubSeq(q, 1, Len(q) - 1) /\ t = q[Len(q)]
<1> DEFINE r == SubSeq(q, 1, Len(q) - 1)
<1>1. Len(q) \in Nat /\ Len(q) >= 1 /\ q[Len(q)] \in X
  OBVIOUS
<1>2. r \in Seq(X) /\ Len(r) = Len(q) - 1 /\ \A k \in 1..Len(r) : r[k] = q[k]
  <2>1. Len(q) - 1 \in 0..Len(q)
    BY <1>1
  <2> QED
    BY <2>1, FirstSteps
<1>3. q = Append(r, q[Len(q)])
  <2> DEFINE a == Append(r, q[Len(q)])
  <2>1. a \in Seq(X) /\ Len(a) = Len(q) /\ \A k \in 1..Len(q) : a[k] = q[k]
    BY <1>1, <1>2
  <2> HIDE DEF a
  <2>2. a = q
    BY <2>1, SeqEqual
  <2> QED
    BY <2>2 DEF a
<1>4. Len(q) = Len(r) + 1
  BY <1>1, <1>2
<1> HIDE DEF r
<1>5. q = Append(r, q[Len(q)]) /\ Len(q) = Len(r) + 1 /\ r = SubSeq(q, 1, Len(q) - 1)
  BY <1>3, <1>4 DEF r
<1> QED
  BY <1>1, <1>2, <1>5

\* One path after another.
LEMMA WalkedFurther ==
  ASSUME NEW d, NEW X, NEW p \in Seq(X)
  PROVE  \A q \in Seq(X) : Walked(d, p \o q) = Walked(Walked(d, p), q)
<1> DEFINE S == {n \in Nat : \A q \in Seq(X) : Len(q) = n => Walked(d, p \o q) = Walked(Walked(d, p), q)}
<1>1. 0 \in S
  <2> SUFFICES ASSUME NEW q \in Seq(X), Len(q) = 0 PROVE Walked(d, p \o q) = Walked(Walked(d, p), q)
    OBVIOUS
  <2>1. q = <<>> /\ p \o q = p
    OBVIOUS
  <2> QED
    BY <2>1, WalkedNowhere
<1>2. ASSUME NEW n \in Nat, n \in S PROVE n + 1 \in S
  <2> SUFFICES ASSUME NEW q \in Seq(X), Len(q) = n + 1
               PROVE  Walked(d, p \o q) = Walked(Walked(d, p), q)
    OBVIOUS
  <2>1. PICK r \in Seq(X), t \in X : q = Append(r, t) /\ Len(q) = Len(r) + 1
    <3>1. q # <<>>
      OBVIOUS
    <3> QED
      BY <3>1, LastStep
  <2>2. Len(r) = n /\ Walked(d, p \o r) = Walked(Walked(d, p), r)
    BY <1>2, <2>1
  <2>3. p \o q = Append(p \o r, t) /\ p \o r \in Seq(X)
    BY <2>1
  <2>4. Walked(d, Append(p \o r, t)) = Enter(Walked(d, p \o r), t)
    <3> DEFINE a == p \o r
    <3>1. a \in Seq(X)
      BY <2>3
    <3> HIDE DEF a
    <3>2. Walked(d, Append(a, t)) = Enter(Walked(d, a), t)
      BY <3>1, WalkedOn
    <3> QED
      BY <3>2 DEF a
  <2>5. Walked(Walked(d, p), Append(r, t)) = Enter(Walked(Walked(d, p), r), t)
    BY WalkedOn
  <2> QED
    BY <2>1, <2>2, <2>3, <2>4, <2>5
<1> HIDE DEF S
<1>3. \A n \in Nat : n \in S
  BY <1>1, <1>2, NaturalInduction
<1> QED
  BY <1>3 DEF S

------------------------------------------------------------------------------
(* Paths that do not go up: X is what they are made of *)

LEMMA PlaceOn ==
  ASSUME NEW X, DotDot \notin X, NEW path \in Seq(X), NEW t \in X
  PROVE  Place(Append(path, t)) = IF t = Slash THEN Place(path) ELSE Append(Place(path), t)
<1>1. Walked(<<>>, Append(path, t)) = Enter(Walked(<<>>, path), t)
  BY WalkedOn
<1> QED
  BY <1>1 DEF Place, Enter

LEMMA PlaceIsPath ==
  ASSUME NEW X, DotDot \notin X
  PROVE  \A path \in Seq(X) : Place(path) \in Seq(X)
<1> DEFINE S == {n \in Nat : \A path \in Seq(X) : Len(path) = n => Place(path) \in Seq(X)}
<1>1. 0 \in S
  <2>1. Place(<<>>) = <<>>
    BY WalkedNowhere DEF Place
  <2> QED
    BY <2>1
<1>2. ASSUME NEW n \in Nat, n \in S PROVE n + 1 \in S
  <2> SUFFICES ASSUME NEW path \in Seq(X), Len(path) = n + 1 PROVE Place(path) \in Seq(X)
    OBVIOUS
  <2>1. PICK r \in Seq(X), t \in X : path = Append(r, t) /\ Len(path) = Len(r) + 1
    <3>1. path # <<>>
      OBVIOUS
    <3> QED
      BY <3>1, LastStep
  <2>2. Place(r) \in Seq(X)
    BY <1>2, <2>1
  <2>3. Place(path) = IF t = Slash THEN Place(r) ELSE Append(Place(r), t)
    BY <2>1, PlaceOn
  <2> QED
    BY <2>2, <2>3
<1> HIDE DEF S
<1>3. \A n \in Nat : n \in S
  BY <1>1, <1>2, NaturalInduction
<1> QED
  BY <1>3 DEF S

LEMMA FrontOfAppend ==
  ASSUME NEW X, NEW d \in Seq(X), NEW t \in X
  PROVE  Front(Append(d, t)) = d /\ Append(d, t) # <<>>
<1> DEFINE a == Append(d, t)
<1>1. a \in Seq(X) /\ Len(a) = Len(d) + 1 /\ \A k \in 1..Len(d) : a[k] = d[k]
  OBVIOUS
<1> HIDE DEF a
<1>2. SubSeq(a, 1, Len(a) - 1) = d
  <2>1. SubSeq(a, 1, Len(a) - 1) \in Seq(X) /\ Len(SubSeq(a, 1, Len(a) - 1)) = Len(d)
        /\ \A k \in 1..Len(d) : SubSeq(a, 1, Len(a) - 1)[k] = d[k]
    BY <1>1
  <2> QED
    BY <2>1, SeqEqual
<1>3. a # <<>>
  BY <1>1
<1> QED
  BY <1>2, <1>3 DEF Front, a

\* As the tree is closed, stat finds each directory on the way if it finds the last.
LEMMA EndDecides ==
  ASSUME NEW X, DotDot \notin X, NEW path \in Seq(X), path # <<>>
  PROVE  IsDirectory(path) <=> Place(path) \in Tree
<1> DEFINE n == Len(path)
           S == {m \in Nat : m < n => Place(SubSeq(path, 1, n - m)) \in Tree}
<1>1. n \in Nat /\ n >= 1 /\ SubSeq(path, 1, n) = path /\ DOMAIN path = 1..n /\ n = Len(path)
  BY SubSeqFull
<1> HIDE DEF n
<1>2. ASSUME IsDirectory(path) PROVE Place(path) \in Tree
  <2>1. n \in DOMAIN path
    BY <1>1
  <2>2. Place(SubSeq(path, 1, n)) = Place(path)
    BY <1>1
  <2> QED
    BY <1>2, <2>1, <2>2 DEF IsDirectory
<1>3. ASSUME Place(path) \in Tree PROVE IsDirectory(path)
  <2>1. 0 \in S
    <3>1. n - 0 = n
      BY <1>1
    <3>2. Place(SubSeq(path, 1, n)) = Place(path)
      BY <1>1
    <3> QED
      BY <1>3, <3>1, <3>2
  <2>2. ASSUME NEW m \in Nat, m \in S PROVE m + 1 \in S
    <3> SUFFICES ASSUME m + 1 < n PROVE Place(SubSeq(path, 1, n - (m + 1))) \in Tree
      OBVIOUS
    <3> DEFINE k == n - m
               q == SubSeq(path, 1, k)
    <3>1. k \in 2..n /\ n - (m + 1) = k - 1
      BY <1>1
    <3>2. q \in Seq(X) /\ Len(q) = k /\ q # <<>> /\ Place(q) \in Tree
      <4>1. k \in 0..n /\ m < n
        BY <1>1, <3>1
      <4>2. q \in Seq(X) /\ Len(q) = k
        BY <1>1, <4>1, FirstSteps
      <4>3. Place(SubSeq(path, 1, n - m)) \in Tree
        BY <2>2, <4>1
      <4> QED
        BY <3>1, <4>2, <4>3, EmptySeq
    <3>3. \A j \in 1..k : q[j] = path[j]
      <4>1. k \in 0..n
        BY <1>1, <3>1
      <4> QED
        BY <1>1, <4>1, FirstSteps
    <3>4. SubSeq(q, 1, k - 1) = SubSeq(path, 1, k - 1)
      <4> DEFINE a == SubSeq(q, 1, k - 1)
                 b == SubSeq(path, 1, k - 1)
      <4>1. a \in Seq(X) /\ b \in Seq(X) /\ Len(a) = k - 1 /\ Len(b) = k - 1
            /\ \A j \in 1..(k - 1) : a[j] = b[j]
        <5> HIDE DEF q, k
        <5>1. k - 1 \in 0..Len(q) /\ k - 1 \in 0..n /\ \A j \in 1..(k - 1) : j \in 1..k
          BY <1>1, <3>1, <3>2
        <5>2. a \in Seq(X) /\ Len(a) = k - 1 /\ \A j \in 1..(k - 1) : a[j] = q[j]
          BY <3>2, <5>1, FirstSteps
        <5>3. b \in Seq(X) /\ Len(b) = k - 1 /\ \A j \in 1..(k - 1) : b[j] = path[j]
          BY <1>1, <5>1, FirstSteps
        <5> QED
          BY <3>3, <5>1, <5>2, <5>3
      <4> HIDE DEF a, b
      <4>2. a = b
        BY <4>1, SeqEqual
      <4> QED
        BY <4>2 DEF a, b
    <3> HIDE DEF q
    <3>5. PICK r \in Seq(X), t \in X : q = Append(r, t) /\ r = SubSeq(q, 1, Len(q) - 1)
      BY <3>2, LastStep
    <3>6. Place(q) = IF t = Slash THEN Place(r) ELSE Append(Place(r), t)
      BY <3>5, PlaceOn
    <3>7. Place(r) \in Seq(X)
      BY PlaceIsPath
    <3>8. Place(r) \in Tree
      <4>1. CASE t = Slash
        BY <3>2, <3>6, <4>1
      <4>2. CASE t # Slash
        <5>1. Front(Append(Place(r), t)) = Place(r) /\ Append(Place(r), t) # <<>>
          BY <3>7, FrontOfAppend
        <5> QED
          BY <3>2, <3>6, <4>2, <5>1, TreeAssumption
      <4> QED
        BY <4>1, <4>2
    <3> QED
      BY <3>1, <3>2, <3>4, <3>5, <3>8
  <2> HIDE DEF S
  <2>3. \A m \in Nat : m \in S
    BY <2>1, <2>2, NaturalInduction
  <2>4. ASSUME NEW k \in 1..n PROVE Place(SubSeq(path, 1, k)) \in Tree
    <3>1. n - k \in Nat /\ n - k < n /\ n - (n - k) = k
      BY <1>1
    <3>2. n - k \in S
      BY <2>3, <3>1
    <3> QED
      BY <3>1, <3>2 DEF S
  <2> QED
    BY <1>1, <2>4 DEF IsDirectory
<1> QED
  BY <1>2, <1>3

------------------------------------------------------------------------------
(* What client->cwd looks like: names and slashes take turns after the root, and *)
(* two slashes come together only where a path from the root was put together.    *)

Standing(X, p) ==
  /\ p \in Seq(X) /\ p # <<>> /\ p[1] = Slash
  /\ \A k \in 1..(Len(p) - 1) : p[k] # Slash => p[k + 1] = Slash
  /\ \A k \in 2..(Len(p) - 1) : p[k] = Slash => p[k + 1] # Slash
  /\ Len(p) > 1 => p[Len(p)] # Slash

LEMMA GetPathPlace ==
  ASSUME NEW X, DotDot \notin X, Slash \in X,
         NEW p \in Seq(X), NEW args \in Seq(X)
  PROVE  /\ string_getpath(p, args) \in Seq(X)
         /\ Place(string_getpath(p, args)) = Meant(Place(p), args)
<1>1. CASE args # <<>> /\ args[1] = Slash
  BY <1>1 DEF string_getpath, Meant
<1>2. CASE ~(args # <<>> /\ args[1] = Slash)
  <2> DEFINE q == Append(p, Slash)
  <2>1. q \in Seq(X) /\ p \o <<Slash>> = q
    OBVIOUS
  <2>2. Place(q) = Place(p)
    BY PlaceOn
  <2> HIDE DEF q
  <2>3. Walked(<<>>, q \o args) = Walked(Walked(<<>>, q), args)
    BY <2>1, WalkedFurther
  <2>4. q \o args \in Seq(X)
    BY <2>1
  <2>5. string_getpath(p, args) = q \o args
    BY <1>2, <2>1 DEF string_getpath
  <2>6. Meant(Place(p), args) = Walked(Place(p), args)
    BY <1>2 DEF Meant
  <2> QED
    BY <2>2, <2>3, <2>4, <2>5, <2>6 DEF Place
<1> QED
  BY <1>1, <1>2

LEMMA PlainIsStanding ==
  ASSUME NEW X, NEW args \in Seq(X), Plain(args), args[1] = Slash
  PROVE  Standing(X, args)
<1>1. \A k \in 1..(Len(args) - 1) : args[k] = Slash <=> args[k + 1] # Slash
  BY DEF Plain
<1>2. Len(args) > 1 => args[Len(args)] # Slash
  <2>1. Len(<<Slash>>) = 1
    OBVIOUS
  <2> QED
    BY <2>1 DEF Plain
<1>3. args # <<>> /\ \A k \in 2..(Len(args) - 1) : k \in 1..(Len(args) - 1)
  BY DEF Plain
<1> QED
  BY <1>1, <1>2, <1>3 DEF Standing

LEMMA GetPathStanding ==
  ASSUME NEW X, Slash \in X, NEW p, Standing(X, p), NEW args \in Seq(X), Plain(args)
  PROVE  Standing(X, string_getpath(p, args))
<1>1. args # <<>> /\ Len(args) \in Nat /\ Len(args) >= 1
  BY DEF Plain
<1>2. CASE args[1] = Slash
  BY <1>1, <1>2, PlainIsStanding DEF string_getpath
<1>3. CASE args[1] # Slash
  <2> DEFINE m == Len(p)
             n == Len(args)
             q == string_getpath(p, args)
  <2>1. /\ q \in Seq(X) /\ Len(q) = m + 1 + n /\ m \in Nat /\ n \in Nat /\ m >= 1 /\ n >= 1
        /\ \A k \in 1..m : q[k] = p[k]
        /\ q[m + 1] = Slash
        /\ \A k \in 1..n : q[m + 1 + k] = args[k]
    <3>1. q = p \o <<Slash>> \o args
      BY <1>3 DEF string_getpath
    <3>2. p \in Seq(X) /\ m \in Nat /\ m >= 1
      BY DEF Standing
    <3>3. p \o <<Slash>> \in Seq(X) /\ Len(p \o <<Slash>>) = m + 1
          /\ (p \o <<Slash>>)[m + 1] = Slash /\ \A k \in 1..m : (p \o <<Slash>>)[k] = p[k]
      BY <3>2
    <3> DEFINE h == p \o <<Slash>>
    <3> HIDE DEF h
    <3>4. h \in Seq(X) /\ Len(h) = m + 1 /\ h[m + 1] = Slash /\ (\A k \in 1..m : h[k] = p[k])
          /\ q = h \o args
      BY <3>1, <3>3 DEF h
    <3> HIDE DEF q, m, n
    <3>5. /\ h \o args \in Seq(X) /\ Len(h \o args) = Len(h) + Len(args)
          /\ \A k \in 1..(Len(h) + Len(args)) :
               (h \o args)[k] = IF k <= Len(h) THEN h[k] ELSE args[k - Len(h)]
      BY <3>4, ConcatProperties
    <3>6. q \in Seq(X) /\ Len(q) = m + 1 + n
          /\ \A k \in 1..(m + 1 + n) : q[k] = IF k <= m + 1 THEN h[k] ELSE args[k - (m + 1)]
      BY <3>4, <3>5 DEF n
    <3>7. n \in Nat /\ n >= 1
      BY <1>1 DEF n
    <3>8. ASSUME NEW k \in 1..n PROVE q[m + 1 + k] = args[k]
      <4>1. m + 1 + k \in 1..(m + 1 + n) /\ ~(m + 1 + k <= m + 1) /\ (m + 1 + k) - (m + 1) = k
        BY <3>2, <3>7
      <4> QED
        BY <3>6, <4>1
    <3>9. ASSUME NEW k \in 1..(m + 1) PROVE q[k] = h[k]
      BY <3>2, <3>6, <3>7
    <3> QED
      BY <3>2, <3>4, <3>6, <3>7, <3>8, <3>9
  <2>2. /\ p[1] = Slash
        /\ \A k \in 1..(m - 1) : p[k] # Slash => p[k + 1] = Slash
        /\ \A k \in 2..(m - 1) : p[k] = Slash => p[k + 1] # Slash
        /\ m > 1 => p[m] # Slash
    BY DEF Standing
  <2>3. /\ \A k \in 1..(n - 1) : args[k] = Slash <=> args[k + 1] # Slash
        /\ args[n] # Slash
    <3>1. <<Slash>>[1] = Slash
      OBVIOUS
    <3> QED
      BY <1>3, <3>1 DEF Plain
  <2> HIDE DEF m, n, q
  <2>4. ASSUME NEW k \in 1..(m + n) PROVE q[k] # Slash => q[k + 1] = Slash
    <3>1. CASE k < m
      <4>1. k \in 1..m /\ k + 1 \in 1..m /\ k \in 1..(m - 1)
        BY <2>1, <3>1
      <4> QED
        BY <2>1, <2>2, <4>1
    <3>2. CASE k = m
      BY <2>1, <3>2
    <3>3. CASE k = m + 1
      BY <2>1, <3>3
    <3>4. CASE k > m + 1
      <4>1. PICK j \in 1..(n - 1) : k = m + 1 + j
        <5>1. k - (m + 1) \in 1..(n - 1) /\ k = m + 1 + (k - (m + 1))
          BY <2>1, <3>4
        <5> QED
          BY <5>1
      <4>2. q[k] = args[j] /\ q[k + 1] = args[j + 1]
        <5>1. j \in 1..n /\ j + 1 \in 1..n /\ m + 1 + (j + 1) = k + 1
          BY <2>1, <4>1
        <5> QED
          BY <2>1, <4>1, <5>1
      <4> QED
        BY <2>3, <4>2
    <3> QED
      BY <2>1, <3>1, <3>2, <3>3, <3>4
  <2>5. ASSUME NEW k \in 2..(m + n) PROVE q[k] = Slash => q[k + 1] # Slash
    <3>1. CASE k < m
      <4>1. k \in 1..m /\ k + 1 \in 1..m /\ k \in 2..(m - 1)
        BY <2>1, <3>1
      <4> QED
        BY <2>1, <2>2, <4>1
    <3>2. CASE k = m
      BY <2>1, <2>2, <3>2
    <3>3. CASE k = m + 1
      <4>1. 1 \in 1..n /\ m + 1 + 1 = k + 1
        BY <2>1, <3>3
      <4> QED
        BY <1>3, <2>1, <4>1
    <3>4. CASE k > m + 1
      <4>1. PICK j \in 1..(n - 1) : k = m + 1 + j
        <5>1. k - (m + 1) \in 1..(n - 1) /\ k = m + 1 + (k - (m + 1))
          BY <2>1, <3>4
        <5> QED
          BY <5>1
      <4>2. q[k] = args[j] /\ q[k + 1] = args[j + 1]
        <5>1. j \in 1..n /\ j + 1 \in 1..n /\ m + 1 + (j + 1) = k + 1
          BY <2>1, <4>1
        <5> QED
          BY <2>1, <4>1, <5>1
      <4> QED
        BY <2>3, <4>2
    <3> QED
      BY <2>1, <3>1, <3>2, <3>3, <3>4
  <2>6. q[1] = Slash /\ q # <<>>
    BY <2>1, <2>2
  <2>7. q[Len(q)] # Slash
    <3>1. n \in 1..n
      BY <2>1
    <3> QED
      BY <2>1, <2>3, <3>1
  <2>8. Len(q) - 1 = m + n
    BY <2>1
  <2>9. Standing(X, q)
    BY <2>1, <2>4, <2>5, <2>6, <2>7, <2>8 DEF Standing
  <2> QED
    BY <2>9 DEF q
<1> QED
  BY <1>2, <1>3

LEMMA CutLastPlace ==
  ASSUME NEW X, DotDot \notin X, Slash \in X, NEW p, Standing(X, p)
  PROVE  Standing(X, CutLast(p)) /\ Place(CutLast(p)) = Parent(Place(p))
<1> DEFINE n == Len(p)
           IsLast(k) == k \in DOMAIN p /\ p[k] = Slash /\ Slash \notin Range(SubSeq(p, k + 1, Len(p)))
           last == CHOOSE k \in DOMAIN p :
                     p[k] = Slash /\ Slash \notin Range(SubSeq(p, k + 1, Len(p)))
<1>1. p \in Seq(X) /\ n \in Nat /\ n >= 1 /\ DOMAIN p = 1..n /\ p[1] = Slash
      /\ n = Len(p)
  BY LenProperties DEF Standing
<1> HIDE DEF n
<1>2. CutLast(p) = SubSeq(p, 1, IF last = 1 THEN 1 ELSE last - 1)
  BY DEF CutLast
<1>3. CASE n = 1
  <2>1. p = <<Slash>>
    BY <1>1, <1>3
  <2>2. DOMAIN p = {1}
    BY <1>1, <1>3
  <2>3. Slash \notin Range(SubSeq(p, 2, 1))
    <3>1. SubSeq(p, 2, 1) = <<>>
      BY <1>1
    <3> QED
      BY <3>1 DEF Range
  <2>4. last = 1
    BY <1>1, <1>3, <2>2, <2>3
  <2> HIDE DEF last
  <2>5. CutLast(p) = p
    BY <1>1, <1>2, <1>3, <2>4, SubSeqFull
  <2>6. Place(p) = <<>>
    <3>1. <<Slash>> = Append(<<>>, Slash) /\ <<>> \in Seq(X)
      OBVIOUS
    <3>2. Place(Append(<<>>, Slash)) = Place(<<>>)
      BY <3>1, PlaceOn
    <3> QED
      BY <2>1, <3>1, <3>2, WalkedNowhere DEF Place
  <2> QED
    BY <2>5, <2>6 DEF Parent
<1>4. CASE n > 1
  <2>1. p[n] # Slash /\ p[n - 1] = Slash /\ n - 1 \in 1..n
    <3>1. n - 1 \in 1..(n - 1) /\ (n - 1) + 1 = n
      BY <1>1, <1>4
    <3> QED
      BY <1>1, <1>4, <3>1 DEF Standing
  <2>2. ASSUME NEW k \in 1..n
        PROVE  /\ k < n => Range(SubSeq(p, k + 1, n)) = {p[j] : j \in (k + 1)..n}
               /\ k = n => SubSeq(p, k + 1, n) = <<>>
    <3>1. \A j \in (k + 1)..n : p[j] \in X /\ j \in 1..n
      BY <1>1
    <3> DEFINE u == SubSeq(p, k + 1, n)
    <3>2. /\ u \in Seq(X)
          /\ Len(u) = IF k + 1 <= n THEN n - (k + 1) + 1 ELSE 0
          /\ \A j \in 1..(n - (k + 1) + 1) : u[j] = p[k + 1 + j - 1]
      BY <1>1, <3>1, SubSeqProperties
    <3> HIDE DEF u
    <3>3. Range(u) = {u[j] : j \in 1..Len(u)}
      BY <3>2, RangeEquality
    <3>4. Len(u) = n - k
      <4>1. k \in Nat /\ k <= n
        BY <1>1
      <4>2. (IF k + 1 <= n THEN n - (k + 1) + 1 ELSE 0) = n - k
        <5>1. n \in Nat
          BY <1>1
        <5> QED
          BY <4>1, <5>1
      <4> QED
        BY <3>2, <4>2
    <3>5. ASSUME NEW j \in 1..(n - k) PROVE u[j] = p[k + j]
      <4>1. k \in Nat /\ k <= n /\ n - (k + 1) + 1 = n - k /\ k + 1 + j - 1 = k + j
        BY <1>1
      <4> QED
        BY <3>2, <4>1
    <3>6. ASSUME k < n PROVE Range(u) = {p[j] : j \in (k + 1)..n}
      <4>1. \A j \in (k + 1)..n : j - k \in 1..(n - k) /\ k + (j - k) = j
        BY <1>1
      <4>2. \A j \in 1..(n - k) : k + j \in (k + 1)..n
        BY <1>1
      <4> QED
        BY <3>3, <3>4, <3>5, <4>1, <4>2
    <3>7. ASSUME k = n PROVE u = <<>>
      <4>1. Len(u) = 0
        BY <1>1, <3>4, <3>7
      <4> QED
        BY <3>2, <4>1
    <3> QED
      BY <3>6, <3>7 DEF u
  <2>3. IsLast(n - 1)
    <3>1. Range(SubSeq(p, n, n)) = {p[j] : j \in n..n}
      <4>1. n - 1 < n /\ (n - 1) + 1 = n
        BY <1>1
      <4> QED
        BY <2>1, <2>2, <4>1
    <3>2. (n - 1) + 1 = n /\ \A j \in n..n : j = n
      BY <1>1
    <3> QED
      BY <1>1, <2>1, <3>1, <3>2
  <2>4. ASSUME NEW k, IsLast(k) PROVE k = n - 1
    <3>1. k \in 1..n /\ k # n
      BY <1>1, <2>1, <2>4
    <3>2. k < n - 1 => FALSE
      <4> SUFFICES ASSUME k < n - 1 PROVE FALSE
        OBVIOUS
      <4>1. n - 1 \in (k + 1)..n /\ k < n
        <5>1. n \in Nat
          BY <1>1
        <5> QED
          BY <3>1, <5>1
      <4>2. Range(SubSeq(p, k + 1, n)) = {p[j] : j \in (k + 1)..n}
        BY <2>2, <3>1, <4>1
      <4>3. Slash \in Range(SubSeq(p, k + 1, n))
        BY <2>1, <4>1, <4>2
      <4> QED
        BY <1>1, <2>4, <4>3
    <3>3. n \in Nat
      BY <1>1
    <3> QED
      BY <3>1, <3>2, <3>3
  <2>5. last = n - 1
    BY <2>3, <2>4
  <2> HIDE DEF last, IsLast
  <2>6. PICK h \in Seq(X), t \in X : p = Append(h, t) /\ n = Len(h) + 1 /\ h = SubSeq(p, 1, n - 1)
                                     /\ t = p[n]
    BY <1>1, <1>4, LastStep DEF Standing
  <2>7. h # <<>> /\ Len(h) = n - 1
    BY <1>1, <1>4, <2>6
  <2>8. PICK r \in Seq(X), s \in X : h = Append(r, s) /\ Len(h) = Len(r) + 1
                                     /\ r = SubSeq(h, 1, Len(h) - 1) /\ s = h[Len(h)]
    BY <2>7, LastStep
  <2>9. s = Slash
    <3>1. n - 1 \in 0..Len(p) /\ n - 1 \in 1..(n - 1)
      BY <1>1, <1>4
    <3>2. \A k \in 1..(n - 1) : SubSeq(p, 1, n - 1)[k] = p[k]
      BY <1>1, <3>1, FirstSteps
    <3> QED
      BY <2>1, <2>6, <2>7, <2>8, <3>1, <3>2
  <2>10. Place(h) = Place(r) /\ Place(p) = Append(Place(r), t) /\ Place(r) \in Seq(X)
    <3>1. Place(h) = Place(r)
      BY <2>8, <2>9, PlaceOn
    <3>2. Place(p) = Append(Place(h), t)
      BY <1>1, <2>1, <2>6, PlaceOn
    <3> QED
      BY <3>1, <3>2, PlaceIsPath
  <2>11. Parent(Place(p)) = Place(r)
    BY <2>10, FrontOfAppend DEF Parent
  <2>12. CASE n = 2
    <3>1. CutLast(p) = SubSeq(p, 1, 1)
      BY <1>2, <2>5, <2>12
    <3>2. CutLast(p) = h
      <4>1. n - 1 = 1
        BY <2>12
      <4> QED
        BY <2>6, <3>1, <4>1
    <3>3. h = <<Slash>>
      <4>1. n - 1 = 1
        BY <2>12
      <4>2. Len(r) = 0
        BY <2>7, <2>8, <4>1
      <4>3. r = <<>>
        BY <4>2
      <4>4. Append(<<>>, Slash) = <<Slash>>
        OBVIOUS
      <4> QED
        BY <2>8, <2>9, <4>3, <4>4
    <3>4. Standing(X, <<Slash>>)
      BY DEF Standing
    <3> QED
      BY <2>10, <2>11, <3>2, <3>3, <3>4
  <2>13. CASE n > 2
    <3>1. CutLast(p) = SubSeq(p, 1, n - 2)
      <4>1. last # 1 /\ last - 1 = n - 2
        <5>1. n \in Nat
          BY <1>1
        <5> QED
          BY <2>5, <2>13, <5>1
      <4> QED
        BY <1>2, <4>1
    <3> DEFINE q == SubSeq(p, 1, n - 2)
    <3>2. q \in Seq(X) /\ Len(q) = n - 2 /\ \A k \in 1..(n - 2) : q[k] = p[k]
      <4>1. n - 2 \in 0..Len(p)
        BY <1>1, <2>13
      <4> QED
        BY <1>1, <4>1, FirstSteps
    <3> HIDE DEF q
    <3>3. q = r
      <4>1. Len(r) = n - 2 /\ n - 2 \in Nat /\ \A k \in 1..(n - 2) : k \in 1..(n - 1)
        <5>1. n \in Nat
          BY <1>1
        <5>2. Len(r) + 1 = n - 1 /\ Len(r) \in Nat
          BY <2>7, <2>8
        <5> QED
          BY <2>13, <5>1, <5>2
      <4>2. ASSUME NEW k \in 1..(n - 2) PROVE r[k] = p[k]
        <5>1. r[k] = Append(r, s)[k]
          BY <4>1
        <5>2. h[k] = p[k]
          BY <2>6, <4>1, <1>1, FirstSteps
        <5> QED
          BY <2>8, <5>1, <5>2
      <4> QED
        BY <3>2, <4>1, <4>2, SeqEqual
    <3>4. Standing(X, q)
      <4>1. /\ \A k \in 1..(n - 1) : p[k] # Slash => p[k + 1] = Slash
            /\ \A k \in 2..(n - 1) : p[k] = Slash => p[k + 1] # Slash
        BY <1>1 DEF Standing
      <4>2. q[1] = Slash /\ q # <<>>
        BY <1>1, <2>13, <3>2
      <4>3. ASSUME NEW k \in 1..(Len(q) - 1)
            PROVE  (q[k] # Slash => q[k + 1] = Slash) /\ (k >= 2 /\ q[k] = Slash => q[k + 1] # Slash)
        <5>1. k \in 1..(n - 2) /\ k + 1 \in 1..(n - 2) /\ k \in 1..(n - 1) /\ (k >= 2 => k \in 2..(n - 1))
          BY <1>1, <2>13, <3>2
        <5> QED
          BY <3>2, <4>1, <5>1
      <4>4. Len(q) > 1 => q[Len(q)] # Slash
        <5> SUFFICES ASSUME Len(q) > 1 PROVE q[Len(q)] # Slash
          OBVIOUS
        <5>1. n - 2 \in 2..(n - 1) /\ n - 2 \in 1..(n - 2) /\ (n - 2) + 1 = n - 1
          BY <1>1, <3>2
        <5> QED
          BY <2>1, <3>2, <4>1, <5>1
      <4>5. \A k \in 2..(Len(q) - 1) : k \in 1..(Len(q) - 1) /\ k >= 2
        BY <3>2
      <4> QED
        BY <3>2, <4>2, <4>3, <4>4, <4>5 DEF Standing
    <3> QED
      BY <2>11, <3>1, <3>3, <3>4 DEF q
  <2> QED
    <3>1. n = 2 \/ n > 2
      <4>1. n \in Nat
        BY <1>1
      <4> QED
        BY <1>4, <4>1
    <3> QED
      BY <2>12, <2>13, <3>1
<1>5. n = 1 \/ n > 1
  <2>1. n \in Nat /\ n >= 1
    BY <1>1
  <2> QED
    BY <2>1
<1> QED
  BY <1>3, <1>4, <1>5

------------------------------------------------------------------------------
(* Lines *)

LEMMA ParseAlone ==
  ASSUME NEW v, v # Space
  PROVE  string_parsecmd(<<v>>) = [name |-> <<v>>, args |-> None]
<1>1. Range(<<v>>) = {v}
  BY DEF Range
<1> QED
  BY <1>1 DEF string_parsecmd

LEMMA ParseArguments ==
  ASSUME NEW X, NEW v \in X, v # Space, Space \in X, NEW x \in Seq(X)
  PROVE  string_parsecmd(<<v, Space>> \o x) = [name |-> <<v>>, args |-> x]
<1> DEFINE src == <<v, Space>> \o x
           gap == CHOOSE k \in DOMAIN src : src[k] = Space /\ Space \notin Range(SubSeq(src, 1, k - 1))
<1>1. <<v, Space>> \in Seq(X) /\ Len(<<v, Space>>) = 2 /\ <<v, Space>>[1] = v /\ <<v, Space>>[2] = Space
  OBVIOUS
<1>2. /\ src \in Seq(X) /\ Len(src) = 2 + Len(x) /\ DOMAIN src = 1..(2 + Len(x)) /\ Len(x) \in Nat
      /\ src[1] = v /\ src[2] = Space /\ \A k \in 1..Len(x) : src[k + 2] = x[k]
  <2> DEFINE h == <<v, Space>>
  <2>1. h \in Seq(X) /\ Len(h) = 2 /\ h[1] = v /\ h[2] = Space /\ Len(x) \in Nat
    BY <1>1
  <2> HIDE DEF h
  <2> DEFINE u == h \o x
  <2>2. /\ u \in Seq(X) /\ Len(u) = Len(h) + Len(x)
        /\ \A k \in 1..(Len(h) + Len(x)) : u[k] = IF k <= Len(h) THEN h[k] ELSE x[k - Len(h)]
    BY <2>1, ConcatProperties
  <2> HIDE DEF u
  <2>3. /\ u \in Seq(X) /\ Len(u) = 2 + Len(x)
        /\ \A k \in 1..(2 + Len(x)) : u[k] = IF k <= 2 THEN h[k] ELSE x[k - 2]
    BY <2>1, <2>2
  <2>4. ASSUME NEW k \in 1..Len(x) PROVE u[k + 2] = x[k]
    <3>1. k + 2 \in 1..(2 + Len(x)) /\ ~(k + 2 <= 2) /\ (k + 2) - 2 = k
      BY <2>1
    <3> QED
      BY <2>3, <3>1
  <2>5. u[1] = v /\ u[2] = Space
    BY <2>1, <2>3
  <2>6. DOMAIN u = 1..(2 + Len(x))
    BY <2>3
  <2> QED
    BY <2>1, <2>3, <2>4, <2>5, <2>6 DEF u, h
<1> HIDE DEF src
<1>3. gap = 2
  <2>1. Space \notin Range(SubSeq(src, 1, 1))
    <3>1. 1 \in 0..Len(src)
      BY <1>2
    <3>2. SubSeq(src, 1, 1) \in Seq(X) /\ Len(SubSeq(src, 1, 1)) = 1 /\ SubSeq(src, 1, 1)[1] = v
      BY <1>2, <3>1, FirstSteps
    <3> DEFINE u == SubSeq(src, 1, 1)
    <3> HIDE DEF u
    <3>3. Range(u) = {u[k] : k \in 1..1}
      BY <3>2, RangeEquality DEF u
    <3> QED
      BY <3>2, <3>3 DEF u
  <2>2. 2 \in DOMAIN src /\ src[2] = Space /\ 2 - 1 = 1
    BY <1>2
  <2>3. ASSUME NEW k \in DOMAIN src, src[k] = Space, Space \notin Range(SubSeq(src, 1, k - 1))
        PROVE  k = 2
    <3>1. k \in 1..(2 + Len(x)) /\ k # 1
      BY <1>2, <2>3
    <3>2. ASSUME k > 2 PROVE FALSE
      <4>1. k - 1 \in 0..Len(src) /\ 2 \in 1..(k - 1)
        BY <1>2, <3>1, <3>2
      <4> DEFINE u == SubSeq(src, 1, k - 1)
      <4>2. u \in Seq(X) /\ Len(u) = k - 1 /\ u[2] = src[2]
        BY <1>2, <4>1, FirstSteps
      <4> HIDE DEF u
      <4>3. Space \in Range(u)
        BY <1>2, <4>1, <4>2, RangeEquality
      <4> QED
        BY <2>3, <4>3 DEF u
    <3> QED
      BY <1>2, <3>1, <3>2
  <2> QED
    BY <2>1, <2>2, <2>3
<1>4. Space \in Range(src)
  <2>1. 2 \in 1..Len(src)
    BY <1>2
  <2> QED
    BY <1>2, <2>1, RangeEquality
<1>5. SubSeq(src, 1, 1) = <<v>>
  <2>1. 1 \in 0..Len(src)
    BY <1>2
  <2> DEFINE u == SubSeq(src, 1, 1)
  <2>2. u \in Seq(X) /\ Len(u) = 1 /\ u[1] = v
    BY <1>2, <2>1, FirstSteps
  <2> HIDE DEF u
  <2>3. u = <<v>>
    BY <2>2
  <2> QED
    BY <2>3 DEF u
<1>6. SubSeq(src, 3, Len(src)) = x
  <2> DEFINE u == SubSeq(src, 3, Len(src))
  <2>1. Len(src) \in Int /\ 3 \in Int /\ \A k \in 3..Len(src) : src[k] \in X
    BY <1>2
  <2>2. /\ u \in Seq(X) /\ Len(u) = IF 3 <= Len(src) THEN Len(src) - 3 + 1 ELSE 0
        /\ \A k \in 1..(Len(src) - 3 + 1) : u[k] = src[3 + k - 1]
    BY <2>1, SubSeqProperties
  <2> HIDE DEF u
  <2>3. Len(u) = Len(x)
    BY <1>2, <2>2
  <2>4. ASSUME NEW k \in 1..Len(x) PROVE u[k] = x[k]
    <3>1. k \in 1..(Len(src) - 3 + 1) /\ 3 + k - 1 = k + 2
      BY <1>2
    <3> QED
      BY <1>2, <2>2, <3>1
  <2>5. u = x
    BY <2>2, <2>3, <2>4, SeqEqual
  <2> QED
    BY <2>5 DEF u
<1> HIDE DEF gap
<1>7. gap - 1 = 1 /\ gap + 1 = 3
  BY <1>3
<1>8. string_parsecmd(src) = [name |-> SubSeq(src, 1, gap - 1), args |-> SubSeq(src, gap + 1, Len(src))]
  BY <1>4 DEF string_parsecmd, gap
<1> QED
  BY <1>5, <1>6, <1>7, <1>8 DEF src

LEMMA UpperVerb ==
  ASSUME NEW Char, Ordinary(Char), NEW w \in Verb, NEW v \in Spelled(w)
  PROVE  string_toupper(<<v>>) = <<w>>
<1> DEFINE c == IF \E u \in Verb : v = Lower[u] THEN CHOOSE u \in Verb : v = Lower[u] ELSE v
<1>1. c = w
  <2>1. CASE v = w
    BY <2>1, ControlAssumption
  <2>2. CASE v = Lower[w]
    BY <2>2 DEF Ordinary
  <2>3. w # None
    BY DEF Ordinary
  <2> QED
    BY <2>1, <2>2, <2>3 DEF Spelled
<1> DEFINE s == <<v>>
<1>2. DOMAIN s = {1} /\ s[1] = v
  OBVIOUS
<1> HIDE DEF s
<1>3. string_toupper(s) = [k \in {1} |-> c]
  BY <1>2 DEF string_toupper
<1> HIDE DEF c
<1>4. [k \in {1} |-> w] = <<w>>
  OBVIOUS
<1> QED
  BY <1>1, <1>3, <1>4 DEF s

\* What is left of a line without its last two characters.
LEMMA CutEnd ==
  ASSUME NEW X, CR \in X, LF \in X, NEW body \in Seq(X)
  PROVE  /\ body \o <<CR, LF>> \in Seq(X) /\ Len(body \o <<CR, LF>>) = Len(body) + 2
         /\ SubSeq(body \o <<CR, LF>>, 1, Len(body \o <<CR, LF>>) - 2) = body
<1> DEFINE e == <<CR, LF>>
           u == body \o e
<1>1. e \in Seq(X) /\ Len(e) = 2 /\ Len(body) \in Nat
  OBVIOUS
<1> HIDE DEF e
<1>2. /\ u \in Seq(X) /\ Len(u) = Len(body) + Len(e)
      /\ \A k \in 1..(Len(body) + Len(e)) : u[k] = IF k <= Len(body) THEN body[k] ELSE e[k - Len(body)]
  BY <1>1, ConcatProperties
<1> HIDE DEF u
<1>3. Len(u) - 2 = Len(body) /\ Len(body) \in 0..Len(u)
  BY <1>1, <1>2
<1>4. \A k \in 1..Len(body) : u[k] = body[k]
  BY <1>1, <1>2
<1>5. SubSeq(u, 1, Len(body)) = body
  <2> DEFINE w == SubSeq(u, 1, Len(body))
  <2>1. w \in Seq(X) /\ Len(w) = Len(body) /\ \A k \in 1..Len(body) : w[k] = u[k]
    BY <1>2, <1>3, FirstSteps
  <2> HIDE DEF w
  <2>2. w = body
    BY <1>4, <2>1, SeqEqual
  <2> QED
    BY <2>2 DEF w
<1>6. Len(u) = Len(body) + 2
  BY <1>1, <1>2
<1>7. SubSeq(u, 1, Len(u) - 2) = body
  BY <1>3, <1>5
<1> QED
  BY <1>2, <1>6, <1>7 DEF u, e

\* A verb and what may follow it.
LEMMA VerbParsed ==
  ASSUME NEW Char, Ordinary(Char), NEW w \in Verb, NEW v \in Spelled(w),
         NEW x \in Seq(Char) \cup {None}, NEW body, body = Said(v, x)
  PROVE  /\ string_toupper(string_parsecmd(body).name) = <<w>>
         /\ string_parsecmd(body).args = x /\ body \in Seq(Char) /\ Len(body) > 0
<1>1. v \in Char /\ v # Space /\ Space \in Char /\ None \notin Seq(Char)
  <2>1. v \in {w, Lower[w]}
    BY DEF Ordinary, Spelled
  <2> QED
    BY <2>1 DEF Ordinary, Verb, Range
<1>2. string_toupper(<<v>>) = <<w>>
  BY UpperVerb
<1>3. CASE x = None
  <2>1. body = <<v>> /\ <<v>> \in Seq(Char) /\ Len(<<v>>) = 1
    BY <1>1, <1>3 DEF Said
  <2>2. string_parsecmd(<<v>>) = [name |-> <<v>>, args |-> None]
    BY <1>1, ParseAlone
  <2>3. string_parsecmd(body) = [name |-> <<v>>, args |-> None]
    BY <2>1, <2>2
  <2>4. string_parsecmd(body).name = <<v>> /\ string_parsecmd(body).args = None
    BY <2>3
  <2>5. string_toupper(string_parsecmd(body).name) = <<w>>
    BY <1>2, <2>4
  <2>6. body \in Seq(Char) /\ Len(body) > 0
    BY <2>1
  <2> QED
    BY <1>3, <2>4, <2>5, <2>6
<1>4. CASE x \in Seq(Char)
  <2>1. body = <<v, Space>> \o x
    BY <1>1, <1>4 DEF Said
  <2>2. body \in Seq(Char) /\ Len(body) > 0
    <3>1. <<v, Space>> \in Seq(Char) /\ Len(<<v, Space>>) = 2
      BY <1>1
    <3> QED
      BY <1>4, <2>1, <3>1, ConcatProperties
  <2>3. string_parsecmd(<<v, Space>> \o x) = [name |-> <<v>>, args |-> x]
    BY <1>1, <1>4, ParseArguments
  <2>4. string_parsecmd(body) = [name |-> <<v>>, args |-> x]
    BY <2>1, <2>3
  <2>5. string_parsecmd(body).name = <<v>> /\ string_parsecmd(body).args = x
    BY <2>4
  <2> QED
    BY <1>2, <2>2, <2>5
<1> QED
  BY <1>3, <1>4

\* What the server makes of the line of a request.
LEMMA LineParsed ==
  ASSUME NEW Char, Ordinary(Char), NEW r \in Request, NEW line \in Lines(r)
  PROVE  /\ line \in Seq(Char) /\ Len(line) > 2 /\ Len(line) <= BufSize
         /\ string_toupper(Command(line).name) = <<r.verb>>
         /\ r.sub = None => Command(line).args = r.args
         /\ r.sub # None => /\ Command(line).args # None
                            /\ string_toupper(string_parsecmd(Command(line).args).name) = <<r.sub>>
                            /\ string_parsecmd(Command(line).args).args = r.args
<1>1. /\ r.verb \in Verb /\ r.sub \in Verb \cup {None} /\ r.args \in Seq(Char) \cup {None}
      /\ Len(line) <= BufSize /\ CR \in Char /\ LF \in Char /\ None \notin Seq(Char)
  BY DEF Ordinary
<1>2. PICK v \in Spelled(r.verb), s \in Spelled(r.sub) : line = Line(v, s, r.args)
  BY DEF Lines
<1> DEFINE x == IF s = None THEN r.args ELSE Said(s, r.args)
           body == Said(v, x)
<1>3. s = None <=> r.sub = None
  <2>1. None \notin Verb /\ None \notin Range(Lower)
    BY DEF Ordinary
  <2> QED
    BY <1>1, <2>1 DEF Spelled, Verb, Range
<1>4. ASSUME r.sub # None
      PROVE  /\ x \in Seq(Char)
             /\ string_toupper(string_parsecmd(x).name) = <<r.sub>> /\ string_parsecmd(x).args = r.args
  <2> DEFINE w == r.sub
             y == r.args
  <2>1. w \in Verb /\ s \in Spelled(w) /\ y \in Seq(Char) \cup {None} /\ x = Said(s, y)
    BY <1>1, <1>3, <1>4
  <2> HIDE DEF w, y, x
  <2>2. /\ string_toupper(string_parsecmd(x).name) = <<w>>
        /\ string_parsecmd(x).args = y /\ x \in Seq(Char)
    BY <2>1, VerbParsed
  <2> QED
    BY <2>2 DEF w, y
<1>5. x \in Seq(Char) \cup {None}
  <2>1. CASE r.sub = None
    BY <1>1, <1>3, <2>1
  <2>2. CASE r.sub # None
    BY <1>4, <2>2
  <2> QED
    BY <2>1, <2>2
<1>6. r.sub = None => x = r.args
  BY <1>3
<1>7. line = body \o <<CR, LF>>
  BY <1>2 DEF Line
<1> HIDE DEF x
<1>8. /\ string_toupper(string_parsecmd(body).name) = <<r.verb>> /\ string_parsecmd(body).args = x
      /\ body \in Seq(Char) /\ Len(body) > 0
  <2> DEFINE w == r.verb
  <2>1. w \in Verb /\ body = Said(v, x)
    BY <1>1
  <2> HIDE DEF w, body
  <2>2. /\ string_toupper(string_parsecmd(body).name) = <<w>>
        /\ string_parsecmd(body).args = x /\ body \in Seq(Char) /\ Len(body) > 0
    BY <1>2, <1>5, <2>1, VerbParsed DEF w
  <2> QED
    BY <2>2 DEF w
<1> HIDE DEF body
<1>9. line \in Seq(Char) /\ Len(line) = Len(body) + 2 /\ SubSeq(line, 1, Len(line) - 2) = body
  BY <1>1, <1>7, <1>8, CutEnd
<1>10. Command(line) = string_parsecmd(body)
  BY <1>9 DEF Command
<1>11. Len(line) > 2
  <2>1. Len(body) \in Nat
    BY <1>8
  <2> QED
    BY <1>8, <1>9, <2>1
<1> QED
  BY <1>1, <1>4, <1>6, <1>8, <1>9, <1>10, <1>11

------------------------------------------------------------------------------
(* The invariant: where the client stands, and what is under way. *)

Steps(Char) == Char \ {DotDot}

InStep(Char) ==
  /\ Standing(Steps(Char), cwd)
  /\ hup => asked = <<>>
  /\ open => \/ wire = <<>> /\ asked = <<>>
             \/ \E r \in Request : asked = <<r>> /\ (wire \in Lines(r) \/ wire = <<>>)

LEMMA InitInStep ==
  ASSUME NEW Char, Ordinary(Char)
  PROVE  Init => InStep(Char) /\ Expected!Init
<1> SUFFICES ASSUME Init PROVE InStep(Char) /\ Expected!Init
  OBVIOUS
<1>1. Slash \in Steps(Char) /\ DotDot \notin Steps(Char)
  BY DEF Ordinary, Steps
<1>2. Standing(Steps(Char), cwd)
  BY <1>1 DEF Init, Standing
<1>3. Place(cwd) = <<>>
  <2>1. <<Slash>> = Append(<<>>, Slash) /\ <<>> \in Seq(Steps(Char))
    OBVIOUS
  <2>2. Place(Append(<<>>, Slash)) = Place(<<>>)
    BY <1>1, <2>1, PlaceOn
  <2> QED
    BY <2>1, <2>2, WalkedNowhere DEF Place, Init
<1> QED
  BY <1>2, <1>3 DEF Init, InStep, Expected!Init

Primary == Registered \cup {Cwd, Cdup, Pwd, Quit, Site}

\* Nothing is said yet.
Silent == UNCHANGED <<open, asked, cwd, reply>>

\* The reply to a request is what the shell answers.
Answered(r) == Expected!Serve(r) /\ asked' = <<>> /\ open' = (r.verb # Quit)

LEMMA Replies ==
  ASSUME NEW r, asked = <<r>>, open,
         NEW code, NEW text, Answers(code, text)
  PROVE  /\ reply' = [code |-> code, says |-> text] /\ asked' = <<>>
         /\ open' = TRUE /\ cwd' = cwd
<1>1. Tail(<<r>>) = <<>>
  OBVIOUS
<1> QED
  BY <1>1 DEF Answers, Sends

LEMMA SiteReplies ==
  ASSUME NEW r \in Request, asked = <<r>>, open = TRUE, r.verb = Site, Quit # Site,
         Site \notin {Cwd, Cdup, Pwd}, NEW args,
         r.sub = None => args = r.args,
         r.sub # None => /\ args # None
                         /\ string_toupper(string_parsecmd(args).name) = <<r.sub>>
                         /\ string_parsecmd(args).args = r.args,
         r.args # None => r.sub # None, None # Stop,
         ssftpCmdSite(args)
  PROVE  cwd' = cwd /\ (Silent \/ Answered(r))
<1>1. ASSUME NEW code, NEW text, Answers(code, text)
      PROVE  /\ reply' = [code |-> code, says |-> text] /\ asked' = <<>> /\ cwd' = cwd
             /\ open' = (r.verb # Quit)
  BY <1>1, Replies
<1>2. CASE r.sub = None
  <2>1. Answers(501, None)
    BY <1>2 DEF ssftpCmdSite
  <2> QED
    BY <1>1, <1>2, <2>1 DEF Answered, Expected!Serve, Expected!Says
<1>3. CASE r.sub # None
  <2>1. <<r.sub>> = <<Stop>> <=> r.sub = Stop
    OBVIOUS
  <2>2. Finds(RegisteredSite, <<r.sub>>) <=> r.sub \in RegisteredSite
    BY DEF Finds
  <2>3. CASE r.sub = Stop
    BY <1>3, <2>1, <2>3 DEF ssftpCmdSite, ssftpCmdStop, Silent
  <2>4. CASE r.sub # Stop /\ r.sub \notin RegisteredSite
    <3>1. Answers(502, None)
      BY <1>3, <2>1, <2>2, <2>4 DEF ssftpCmdSite
    <3> QED
      BY <1>1, <1>3, <2>4, <3>1 DEF Answered, Expected!Serve, Expected!Heard, Expected!Says
  <2>5. CASE r.sub # Stop /\ r.sub \in RegisteredSite
    <3>1. Answers(200, r.args)
      BY <1>3, <2>1, <2>2, <2>5 DEF ssftpCmdSite
    <3> QED
      BY <1>1, <1>3, <2>5, <3>1 DEF Answered, Expected!Serve, Expected!Heard, Expected!Says
  <2> QED
    BY <2>3, <2>4, <2>5
<1> QED
  BY <1>2, <1>3

LEMMA CwdReplies ==
  ASSUME NEW X, Slash \in X, DotDot \notin X, Standing(X, cwd), Cwd # Quit,
         NEW r \in Request, asked = <<r>>, open = TRUE, r.verb = Cwd,
         r.args # None => Plain(r.args) /\ r.args \in Seq(X),
         ssftpCmdCwd(r.args)
  PROVE  Standing(X, cwd') /\ Answered(r)
<1>1. ASSUME NEW code, NEW text, Answers(code, text)
      PROVE  /\ reply' = [code |-> code, says |-> text] /\ asked' = <<>> /\ cwd' = cwd
             /\ open' = (r.verb # Quit)
  BY <1>1, Replies
<1>2. CASE r.args = None
  <2>1. Answers(501, None)
    BY <1>2 DEF ssftpCmdCwd
  <2> QED
    BY <1>1, <1>2, <2>1 DEF Answered, Expected!Serve, Expected!Move, Expected!Says
<1>3. CASE r.args # None
  <2> DEFINE path == string_getpath(cwd, r.args)
  <2>1. path \in Seq(X) /\ Place(path) = Meant(Place(cwd), r.args) /\ Standing(X, path)
    <3> DEFINE a == r.args
    <3>1. cwd \in Seq(X) /\ a \in Seq(X) /\ Plain(a)
      BY <1>3 DEF Standing
    <3> HIDE DEF a
    <3>2. /\ string_getpath(cwd, a) \in Seq(X) /\ Place(string_getpath(cwd, a)) = Meant(Place(cwd), a)
          /\ Standing(X, string_getpath(cwd, a))
      BY <3>1, GetPathPlace, GetPathStanding
    <3> QED
      BY <3>2 DEF a
  <2>2. IsDirectory(path) <=> Place(path) \in Tree
    BY <2>1, EndDecides DEF Standing
  <2>3. IF IsDirectory(path) THEN Sends(250, None) /\ cwd' = path /\ UNCHANGED <<open, stop>>
        ELSE Answers(550, None)
    BY <1>3 DEF ssftpCmdCwd
  <2> HIDE DEF path
  <2>4. CASE IsDirectory(path)
    <3>1. reply' = [code |-> 250, says |-> None] /\ asked' = <<>> /\ cwd' = path /\ open' = (r.verb # Quit)
      <4>1. Tail(<<r>>) = <<>>
        OBVIOUS
      <4> QED
        BY <2>3, <2>4, <4>1 DEF Sends
    <3>2. Meant(Place(cwd), r.args) = Place(path) /\ Place(path) \in Tree
      BY <2>1, <2>2, <2>4
    <3> QED
      BY <1>3, <2>1, <3>1, <3>2 DEF Answered, Expected!Serve, Expected!Move, Expected!Says
  <2>5. CASE ~IsDirectory(path)
    <3>1. reply' = [code |-> 550, says |-> None] /\ asked' = <<>> /\ cwd' = cwd /\ open' = (r.verb # Quit)
      BY <1>1, <2>3, <2>5
    <3>2. Meant(Place(cwd), r.args) \notin Tree
      BY <2>1, <2>2, <2>5
    <3> QED
      BY <1>3, <3>1, <3>2 DEF Answered, Expected!Serve, Expected!Move, Expected!Says
  <2> QED
    BY <2>4, <2>5
<1> QED
  BY <1>2, <1>3

LEMMA Served ==
  ASSUME NEW Char, Ordinary(Char), Standing(Steps(Char), cwd), open = TRUE,
         NEW r \in Request, asked = <<r>>, NEW name, NEW args, name = <<r.verb>>,
         r.sub = None => args = r.args,
         r.sub # None => /\ args # None
                         /\ string_toupper(string_parsecmd(args).name) = <<r.sub>>
                         /\ string_parsecmd(args).args = r.args,
         IF Finds(Primary, name) THEN Callback(name, args) ELSE Answers(502, None)
  PROVE  Standing(Steps(Char), cwd') /\ (Silent \/ Answered(r))
<1> DEFINE X == Steps(Char)
<1>1. Slash \in X /\ DotDot \notin X
  BY DEF Ordinary, Steps
<1>2. /\ r.verb = Cwd /\ r.args # None => Plain(r.args) /\ r.args \in Seq(X)
      /\ r.sub # None => r.verb = Site
      /\ r.verb = Site /\ r.args # None => r.sub # None
      /\ r.verb \in Unasked => r.args # None
      /\ None # Stop
  <2>1. ASSUME Plain(r.args), r.args \in Seq(Char) PROVE r.args \in Seq(X)
    <3> DEFINE a == r.args
    <3>1. DotDot \notin Range(a) /\ a \in Seq(Char)
      BY <2>1 DEF Plain
    <3> HIDE DEF a
    <3>2. \A k \in 1..Len(a) : a[k] \in X
      BY <3>1, RangeEquality DEF Steps
    <3>3. a \in Seq(X)
      BY <3>1, <3>2
    <3> QED
      BY <3>3 DEF a
  <2>2. None # Stop
    BY ControlAssumption DEF Ordinary
  <2> QED
    BY <2>1, <2>2 DEF Ordinary
<1>3. /\ Cwd \notin {Cdup, Pwd, Quit, Site} /\ Cdup \notin {Pwd, Quit, Site} /\ Pwd \notin {Quit, Site}
      /\ Quit # Site
  BY DEF Ordinary
<1>4. /\ name = <<Cwd>> <=> r.verb = Cwd
      /\ name = <<Cdup>> <=> r.verb = Cdup
      /\ name = <<Pwd>> <=> r.verb = Pwd
      /\ name = <<Quit>> <=> r.verb = Quit
      /\ name = <<Site>> <=> r.verb = Site
      /\ name[1] = r.verb
  <2>1. \A u, w : (<<u>> = <<w>> <=> u = w) /\ <<u>>[1] = u
    OBVIOUS
  <2> QED
    BY <2>1
<1>5. Finds(Primary, name) <=> r.verb \in Primary
  BY <1>4 DEF Finds
<1>6. ASSUME NEW code, NEW text, Answers(code, text)
      PROVE  /\ reply' = [code |-> code, says |-> text] /\ asked' = <<>> /\ cwd' = cwd
             /\ open' = TRUE
  <2>1. Tail(<<r>>) = <<>>
    OBVIOUS
  <2> QED
    BY <1>6, <2>1 DEF Answers, Sends
<1>7. CASE r.verb = Cwd
  <2>1. ssftpCmdCwd(r.args)
    BY <1>2, <1>3, <1>4, <1>5, <1>7 DEF Callback, Primary
  <2> QED
    BY <1>1, <1>2, <1>3, <1>7, <2>1, CwdReplies
<1>8. CASE r.verb = Cdup
  <2>1. /\ cwd' = CutLast(cwd) /\ reply' = [code |-> 250, says |-> None] /\ asked' = <<>>
        /\ open' = (r.verb # Quit)
    <3>1. ssftpCmdCdup
      BY <1>3, <1>4, <1>5, <1>8 DEF Callback, Primary
    <3>2. Tail(<<r>>) = <<>>
      OBVIOUS
    <3> QED
      BY <1>3, <1>8, <3>1, <3>2 DEF ssftpCmdCdup, Sends
  <2>2. Standing(X, CutLast(cwd)) /\ Place(CutLast(cwd)) = Parent(Place(cwd))
    BY <1>1, CutLastPlace
  <2> QED
    BY <1>3, <1>8, <2>1, <2>2 DEF Answered, Expected!Serve, Expected!Says
<1>9. CASE r.verb = Pwd
  <2>1. Answers(257, cwd)
    BY <1>3, <1>4, <1>5, <1>9 DEF Callback, ssftpCmdPwd, Primary
  <2>2. cwd' = cwd /\ reply' = [code |-> 257, says |-> cwd] /\ asked' = <<>> /\ open' = (r.verb # Quit)
    BY <1>3, <1>6, <1>9, <2>1
  <2> QED
    BY <1>3, <1>9, <2>2 DEF Answered, Expected!Serve, Expected!Says
<1>10. CASE r.verb = Quit
  <2>1. /\ reply' = [code |-> 221, says |-> None] /\ asked' = <<>> /\ cwd' = cwd
        /\ open' = (r.verb # Quit)
    <3>1. ssftpCmdQuit
      BY <1>3, <1>4, <1>5, <1>10 DEF Callback, Primary
    <3>2. Tail(<<r>>) = <<>>
      OBVIOUS
    <3> QED
      BY <1>10, <3>1, <3>2 DEF ssftpCmdQuit, Sends
  <2> QED
    BY <1>3, <1>10, <2>1 DEF Answered, Expected!Serve, Expected!Says
<1>11. CASE r.verb = Site
  <2>1. ssftpCmdSite(args)
    BY <1>3, <1>4, <1>5, <1>11 DEF Callback, Primary
  <2>2. cwd' = cwd /\ (Silent \/ Answered(r))
    BY <1>2, <1>3, <1>11, <2>1, SiteReplies
  <2> QED
    BY <2>2
<1>12. CASE r.verb \notin {Cwd, Cdup, Pwd, Quit, Site}
  <2>1. args = r.args
    BY <1>2, <1>12
  <2>2. IF r.verb \in Registered THEN Answers(200, r.args) ELSE Answers(502, None)
    <3>1. r.verb \in Primary <=> r.verb \in Registered
      BY <1>12 DEF Primary
    <3>2. CASE r.verb \in Registered
      <4>1. OtherCallback(name, args)
        BY <1>4, <1>5, <1>12, <3>1, <3>2 DEF Callback
      <4> QED
        BY <1>2, <1>4, <2>1, <3>2, <4>1 DEF OtherCallback
    <3> QED
      BY <1>5, <3>1, <3>2
  <2>3. CASE r.verb \in Registered
    <3>1. /\ reply' = [code |-> 200, says |-> r.args] /\ asked' = <<>> /\ cwd' = cwd
          /\ open' = TRUE
      <4>1. Answers(200, r.args)
        BY <2>2, <2>3
      <4>2. PICK text : text = r.args
        OBVIOUS
      <4>3. Answers(200, text)
        BY <4>1, <4>2
      <4>4. reply' = [code |-> 200, says |-> text] /\ asked' = <<>> /\ cwd' = cwd /\ open' = TRUE
        BY <1>6, <4>3
      <4> QED
        BY <4>2, <4>4
    <3>2. r.verb # Quit
      BY <1>12
    <3>3. open' = (r.verb # Quit)
      BY <3>1, <3>2
    <3> QED
      BY <1>12, <2>3, <3>1, <3>3 DEF Answered, Expected!Serve, Expected!Heard, Expected!Says
  <2>4. CASE r.verb \notin Registered
    <3>1. /\ reply' = [code |-> 502, says |-> None] /\ asked' = <<>> /\ cwd' = cwd
          /\ open' = TRUE
      <4>1. Answers(502, None)
        BY <2>2, <2>4
      <4> QED
        BY <1>6, <4>1
    <3>2. r.verb # Quit
      BY <1>12
    <3>3. open' = (r.verb # Quit)
      BY <3>1, <3>2
    <3> QED
      BY <1>12, <2>4, <3>1, <3>3 DEF Answered, Expected!Serve, Expected!Heard, Expected!Says
  <2>5. cwd' = cwd
    BY <1>6, <2>2
  <2> QED
    BY <2>3, <2>4, <2>5
<1> QED
  BY <1>7, <1>8, <1>9, <1>10, <1>11, <1>12

LEMMA NextInStep ==
  ASSUME NEW Char, Ordinary(Char)
  PROVE  InStep(Char) /\ [Next]_vars => InStep(Char)' /\ [Expected!Next]_(Expected!vars)
<1> SUFFICES ASSUME InStep(Char), [Next]_vars
             PROVE  InStep(Char)' /\ [Expected!Next]_(Expected!vars)
  OBVIOUS
<1>1. CASE Send
  <2>1. PICK r \in Request : \E line \in Lines(r) :
          open /\ ~hup /\ asked = <<>> /\ wire' = wire \o line /\ asked' = Append(asked, r)
          /\ UNCHANGED <<open, stop, hup, cwd, reply>>
    BY <1>1 DEF Send, Ordinary
  <2>2. PICK line \in Lines(r) : wire' = wire \o line
    BY <2>1
  <2>3. wire = <<>>
    BY <2>1 DEF InStep
  <2>4. asked' = <<r>> /\ wire' = line
    <3>1. line \in Seq(Char)
      BY LineParsed
    <3> QED
      BY <2>1, <2>3, <2>2, <3>1, ConcatEmptySeq
  <2>5. Expected!Ask
    BY <2>1 DEF Expected!Ask
  <2> QED
    BY <2>1, <2>4, <2>5 DEF InStep, Expected!Next
<1>2. CASE Close
  BY <1>2 DEF Close, InStep, Expected!vars
<1>3. CASE Receive
  <2>1. PICK r \in Request : asked = <<r>> /\ wire \in Lines(r)
    BY <1>3 DEF Receive, InStep
  <2>2. /\ wire \in Seq(Char) /\ Len(wire) > 2 /\ Len(wire) <= BufSize
        /\ string_toupper(Command(wire).name) = <<r.verb>>
        /\ r.sub = None => Command(wire).args = r.args
        /\ r.sub # None => /\ Command(wire).args # None
                           /\ string_toupper(string_parsecmd(Command(wire).args).name) = <<r.sub>>
                           /\ string_parsecmd(Command(wire).args).args = r.args
    BY <2>1, LineParsed
  <2>3. Len(wire) \in Nat /\ SubSeq(wire, 1, Len(wire)) = wire
        /\ SubSeq(wire, Len(wire) + 1, Len(wire)) = <<>>
    BY <2>2, SubSeqFull, SubSeqEmpty
  <2>4. Received = {Len(wire)}
    BY <2>2, <2>3, ControlAssumption DEF Received, Ordinary
  <2>5. open /\ wire' = <<>> /\ Dispatch(wire) /\ UNCHANGED hup
    <3>1. ~(Len(wire) <= 2)
      BY <2>2, <2>3
    <3> QED
      BY <1>3, <2>3, <2>4, <3>1 DEF Receive
  <2>6. IF Finds(Primary, string_toupper(Command(wire).name))
        THEN Callback(string_toupper(Command(wire).name), Command(wire).args) ELSE Answers(502, None)
    BY <2>5 DEF Dispatch, Primary
  <2>7. open = TRUE /\ Standing(Steps(Char), cwd)
    BY <2>5 DEF InStep
  <2>8. Standing(Steps(Char), cwd') /\ (Silent \/ Answered(r))
    BY <2>1, <2>2, <2>6, <2>7, Served
  <2>9. Standing(Steps(Char), cwd)'
    BY <2>8 DEF Standing
  <2>10. CASE Silent
    BY <2>1, <2>5, <2>9, <2>10 DEF Silent, InStep, Expected!vars
  <2>11. CASE Answered(r)
    <3>1. Head(asked) = r /\ Tail(asked) = <<>> /\ asked # <<>>
      BY <2>1
    <3>2. Expected!Answer
      BY <2>7, <2>11, <3>1 DEF Expected!Answer, Answered
    <3> QED
      BY <2>5, <2>9, <2>11, <3>2 DEF InStep, Expected!Next, Answered
  <2> QED
    BY <2>8, <2>10, <2>11
<1>4. CASE EndOfFile
  <2>1. CASE asked = <<>>
    <3>1. Expected!Leave
      BY <1>4, <2>1 DEF EndOfFile, Expected!Leave
    <3> QED
      BY <1>4, <2>1, <3>1 DEF EndOfFile, InStep, Expected!Next
  <2>2. hup => asked = <<>>
    BY <1>4 DEF InStep
  <2> QED
    BY <1>4, <2>1, <2>2 DEF EndOfFile
<1>5. CASE ftpserv_stop
  BY <1>5 DEF ftpserv_stop, InStep, Expected!vars
<1>6. CASE Broadcast
  <2>1. /\ open = TRUE /\ open' = FALSE /\ cwd' = cwd /\ reply' = [code |-> 421, says |-> None]
        /\ asked' = IF asked = <<>> THEN asked ELSE Tail(asked)
    BY <1>6 DEF Broadcast, Sends, InStep
  <2>2. Expected!Goodbye
    BY <2>1 DEF Expected!Goodbye, Expected!Says
  <2> QED
    <3>1. hup' = hup /\ (hup => asked' = <<>>)
      BY <1>6, <2>1 DEF Broadcast, InStep
    <3>2. Standing(Steps(Char), cwd)'
      BY <2>1 DEF InStep, Standing
    <3> QED
      BY <2>1, <2>2, <3>1, <3>2 DEF InStep, Expected!Next
<1>7. CASE UNCHANGED vars
  BY <1>7 DEF vars, InStep, Expected!vars
<1> QED
  BY <1>1, <1>2, <1>3, <1>4, <1>5, <1>6, <1>7 DEF Next

\* For any tree, any verbs and any size of the buffer: what ftpclient_event makes of
\* lines, string_parsecmd of verbs and string_getpath of cwd answers each request, in
\* order, as the shell does, if the client asks for plain paths and waits.
THEOREM ShellImplemented ==
  ASSUME NEW Char, Ordinary(Char)
  PROVE  Spec => ImplementsShell
<1>1. Init => InStep(Char) /\ Expected!Init
  BY InitInStep
<1>2. InStep(Char) /\ [Next]_vars => InStep(Char)' /\ [Expected!Next]_(Expected!vars)
  BY NextInStep
<1> QED
  BY <1>1, <1>2, PTL DEF Spec, ImplementsShell, Expected!Spec

=============================================================================
