---------------------------- MODULE AppDetectProofs ----------------------------
(* Proofs about AppDetect and PathMatching: what a pull request adds, removes,   *)
(* modifies or changes the files of is found, and as what it is; and what a      *)
(* pattern with "**" matches.                                                    *)
EXTENDS AppDetect, FiniteSetTheorems, WellFoundedInduction, TLAPS

-----------------------------------------------------------------------------
(* Paths. *)

\* Induction over an interval, for one set.
LEMMA UpTo ==
    ASSUME NEW n \in Nat, NEW G, 0 \in G, \A i \in 1..n : i - 1 \in G => i \in G
    PROVE  0..n \subseteq G
  <1> DEFINE S == {i \in 0..n : i \notin G}
  <1>1. SUFFICES ASSUME S # {} PROVE FALSE
    OBVIOUS
  <1>2. PICK x \in S : \A y \in S : ~(<<y, x>> \in OpToRel(<, Nat))
    <2>1. S \subseteq Nat
      OBVIOUS
    <2>2. QED
      BY <1>1, <2>1, NatLessThanWellFounded, WFMin
  <1>3. x \in 1..n
    BY DEF S
  <1>4. x - 1 \in S
    BY <1>3
  <1> DEFINE e == <<x - 1, x>>
  <1>5. e \in Nat \X Nat /\ e[1] = x - 1 /\ e[2] = x
    BY <1>3
  <1>6. ~(e[1] < e[2])
    BY <1>2, <1>4, <1>5, Zenon DEF OpToRel
  <1>7. QED
    BY <1>3, <1>5, <1>6

\* What is made step by step from a beginning exists.
LEMMA StepByStep ==
    ASSUME NEW n \in Nat, NEW step \in [1..n -> [Seq(STRING) -> Seq(STRING)]]
    PROVE  \E f \in [0..n -> Seq(STRING)] :
              f[0] = <<>> /\ \A i \in 1..n : f[i] = step[i][f[i - 1]]
  <1> DEFINE S == Seq(STRING)
             base == <<>>
  <1>5. base \in S /\ step \in [1..n -> [S -> S]]
    OBVIOUS
  <1> HIDE DEF S, base
  <1> DEFINE Made(f, k) == f[0] = base /\ \A i \in 1..k : f[i] = step[i][f[i - 1]]
             G == {k \in 0..n : \E f \in [0..n -> S] : Made(f, k)}
  <1>1. 0 \in G
    <2>1. PICK f : f = [i \in 0..n |-> base]
      OBVIOUS
    <2>2. f \in [0..n -> S] /\ f[0] = base
      BY <1>5, <2>1
    <2>3. Made(f, 0)
      BY <2>2
    <2>4. 0 \in 0..n
      OBVIOUS
    <2> HIDE DEF Made
    <2>5. QED
      BY <2>2, <2>3, <2>4
  <1>2. ASSUME NEW k \in 1..n, k - 1 \in G
        PROVE  k \in G
    <2>1. PICK f \in [0..n -> S] : Made(f, k - 1)
      BY <1>2
    <2>2. step[k][f[k - 1]] \in S
      BY <1>5
    <2> DEFINE g == [f EXCEPT ![k] = step[k][f[k - 1]]]
    <2>3. g \in [0..n -> S]
      BY <2>2
    <2>4. g[k] = step[k][f[k - 1]] /\ \A i \in 0..(k - 1) : g[i] = f[i]
      OBVIOUS
    <2> HIDE DEF g
    <2>5. ASSUME NEW i \in 1..k
          PROVE  g[i] = step[i][g[i - 1]]
      <3>1. i - 1 \in 0..(k - 1) /\ g[i - 1] = f[i - 1]
        BY <2>4
      <3>2. CASE i = k
        BY <2>4, <3>1, <3>2
      <3>3. CASE i # k
        BY <2>1, <2>4, <3>1, <3>3
      <3>4. QED
        BY <3>2, <3>3
    <2>7. g[0] = base
      BY <2>1, <2>4
    <2>6. QED
      BY <2>3, <2>5, <2>7
  <1>3. n \in G
    <2> HIDE DEF G
    <2>1. 0..n \subseteq G
      BY <1>1, <1>2, UpTo
    <2>2. n \in 0..n
      OBVIOUS
    <2>3. QED
      BY <2>1, <2>2
  <1>4. QED
    BY <1>3 DEF S, base

\* A path is cleaned one name at a time.
LEMMA CleanSteps ==
    ASSUME NEW p \in Seq(STRING)
    PROVE  \E c \in [0..Len(p) -> Seq(STRING)] :
              /\ Clean(p) = c[Len(p)] /\ c[0] = <<>>
              /\ \A i \in 1..Len(p) : c[i] = Cleaned(c[i - 1], p[i])
  <1> DEFINE n == Len(p)
             step == [i \in 1..n |-> [d \in Seq(STRING) |-> Cleaned(d, p[i])]]
             IsDone(f) == f = [i \in 0..n |-> IF i = 0 THEN <<>> ELSE Cleaned(f[i - 1], p[i])]
             done == CHOOSE f : IsDone(f)
  <1>1. n \in Nat /\ \A i \in 1..n : p[i] \in STRING
    OBVIOUS
  <1>2. ASSUME NEW d \in Seq(STRING), NEW i \in 1..n
        PROVE  Cleaned(d, p[i]) \in Seq(STRING)
    <2>1. d # <<>> => Front(d) \in Seq(STRING)
      BY DEF Front
    <2>2. Append(d, p[i]) \in Seq(STRING)
      BY <1>1
    <2>3. QED
      BY <2>1, <2>2 DEF Cleaned
  <1>3. step \in [1..n -> [Seq(STRING) -> Seq(STRING)]]
    BY <1>2
  <1>4. \A d \in Seq(STRING) : \A i \in 1..n : step[i][d] = Cleaned(d, p[i])
    OBVIOUS
  <1> HIDE DEF n, step
  <1>5. PICK c \in [0..n -> Seq(STRING)] :
           c[0] = <<>> /\ \A i \in 1..n : c[i] = step[i][c[i - 1]]
    <2>1. PICK m, st : m = n /\ st = step
      OBVIOUS
    <2>2. m \in Nat /\ st \in [1..m -> [Seq(STRING) -> Seq(STRING)]]
      BY <1>1, <1>3, <2>1
    <2>3. \E c \in [0..m -> Seq(STRING)] :
             c[0] = <<>> /\ \A i \in 1..m : c[i] = st[i][c[i - 1]]
      BY <2>2, StepByStep, Zenon
    <2>4. QED
      BY <2>1, <2>3
  <1>6. IsDone(c)
    <2>1. ASSUME NEW i \in 1..n
          PROVE  c[i] = Cleaned(c[i - 1], p[i])
      <3>1. i - 1 \in 0..n
        BY <1>1
      <3>2. QED
        BY <1>4, <1>5, <3>1
    <2>2. QED
      BY <1>1, <1>5, <2>1
  <1>7. IsDone(done)
    BY <1>6
  <1>8. Clean(p) = done[n]
    BY DEF Clean, n
  <1>9. QED
    <2>1. done = c
      <3> HIDE DEF done
      <3> DEFINE G == {i \in 0..n : done[i] = c[i]}
      <3>1. 0 \in G
        BY <1>1, <1>6, <1>7
      <3>2. ASSUME NEW i \in 1..n, i - 1 \in G
            PROVE  i \in G
        <4>1. i \in 0..n /\ i # 0 /\ done[i - 1] = c[i - 1]
          BY <1>1, <3>2
        <4>2. done[i] = Cleaned(done[i - 1], p[i]) /\ c[i] = Cleaned(c[i - 1], p[i])
          BY <1>6, <1>7, <4>1
        <4>3. QED
          BY <4>1, <4>2
      <3>3. 0..n \subseteq G
        <4> HIDE DEF G
        <4>1. QED
          BY <1>1, <3>1, <3>2, UpTo
      <3>4. \A i \in 0..n : done[i] = c[i]
        BY <3>3
      <3>5. QED
        BY <1>6, <1>7, <3>4
    <2>2. ASSUME NEW i \in 1..n
          PROVE  c[i] = Cleaned(c[i - 1], p[i])
      <3>1. i \in 0..n /\ i # 0
        BY <1>1
      <3>2. QED
        BY <1>6, <3>1
    <2> HIDE DEF done
    <2>3. QED
      BY <1>5, <1>8, <2>1, <2>2 DEF n

\* A path is followed one name at a time.
LEMMA FollowSteps ==
    ASSUME NEW p \in Seq(STRING)
    PROVE  \E c \in [0..Len(p) -> Seq(STRING)] :
              /\ Follow(p) = c[Len(p)] /\ c[0] = <<>>
              /\ \A i \in 1..Len(p) : c[i] = Entered(c[i - 1], p[i])
  <1> DEFINE n == Len(p)
             step == [i \in 1..n |-> [d \in Seq(STRING) |-> Entered(d, p[i])]]
             IsDone(f) == f = [i \in 0..n |-> IF i = 0 THEN <<>> ELSE Entered(f[i - 1], p[i])]
             done == CHOOSE f : IsDone(f)
  <1>1. n \in Nat /\ \A i \in 1..n : p[i] \in STRING
    OBVIOUS
  <1>2. ASSUME NEW d \in Seq(STRING), NEW i \in 1..n
        PROVE  Entered(d, p[i]) \in Seq(STRING)
    <2>1. d # <<>> => Front(d) \in Seq(STRING)
      BY DEF Front
    <2>2. Append(d, p[i]) \in Seq(STRING)
      BY <1>1
    <2>3. p[i] = ".." => Outside \in Seq(STRING)
      <3>1. <<p[i]>> \in Seq(STRING)
        BY <1>1
      <3>2. QED
        BY <3>1 DEF Outside
    <2>4. QED
      BY <2>1, <2>2, <2>3 DEF Entered
  <1>3. step \in [1..n -> [Seq(STRING) -> Seq(STRING)]]
    BY <1>2
  <1>4. \A d \in Seq(STRING) : \A i \in 1..n : step[i][d] = Entered(d, p[i])
    OBVIOUS
  <1> HIDE DEF n, step
  <1>5. PICK c \in [0..n -> Seq(STRING)] :
           c[0] = <<>> /\ \A i \in 1..n : c[i] = step[i][c[i - 1]]
    <2>1. PICK m, st : m = n /\ st = step
      OBVIOUS
    <2>2. m \in Nat /\ st \in [1..m -> [Seq(STRING) -> Seq(STRING)]]
      BY <1>1, <1>3, <2>1
    <2>3. \E c \in [0..m -> Seq(STRING)] :
             c[0] = <<>> /\ \A i \in 1..m : c[i] = st[i][c[i - 1]]
      BY <2>2, StepByStep, Zenon
    <2>4. QED
      BY <2>1, <2>3
  <1>6. IsDone(c)
    <2>1. ASSUME NEW i \in 1..n
          PROVE  c[i] = Entered(c[i - 1], p[i])
      <3>1. i - 1 \in 0..n
        BY <1>1
      <3>2. QED
        BY <1>4, <1>5, <3>1
    <2>2. QED
      BY <1>1, <1>5, <2>1
  <1>7. IsDone(done)
    BY <1>6
  <1>8. Follow(p) = done[n]
    BY DEF Follow, n
  <1>9. QED
    <2>1. done = c
      <3> HIDE DEF done
      <3> DEFINE G == {i \in 0..n : done[i] = c[i]}
      <3>1. 0 \in G
        BY <1>1, <1>6, <1>7
      <3>2. ASSUME NEW i \in 1..n, i - 1 \in G
            PROVE  i \in G
        <4>1. i \in 0..n /\ i # 0 /\ done[i - 1] = c[i - 1]
          BY <1>1, <3>2
        <4>2. done[i] = Entered(done[i - 1], p[i]) /\ c[i] = Entered(c[i - 1], p[i])
          BY <1>6, <1>7, <4>1
        <4>3. QED
          BY <4>1, <4>2
      <3>3. 0..n \subseteq G
        <4> HIDE DEF G
        <4>1. QED
          BY <1>1, <3>1, <3>2, UpTo
      <3>4. \A i \in 0..n : done[i] = c[i]
        BY <3>3
      <3>5. QED
        BY <1>6, <1>7, <3>4
    <2>2. ASSUME NEW i \in 1..n
          PROVE  c[i] = Entered(c[i - 1], p[i])
      <3>1. i \in 0..n /\ i # 0
        BY <1>1
      <3>2. QED
        BY <1>6, <3>1
    <2> HIDE DEF done
    <2>3. QED
      BY <1>5, <1>8, <2>1, <2>2 DEF n

\* Where a path leads to, if not outside, is what it is when it is cleaned.
LEMMA CleanLeads ==
    ASSUME NEW p \in Seq(STRING), Follow(p) # Outside
    PROVE  Clean(p) = Follow(p)
  <1> DEFINE n == Len(p)
  <1>1. n \in Nat /\ \A i \in 1..n : p[i] \in STRING
    OBVIOUS
  <1>2. PICK c \in [0..n -> Seq(STRING)] :
           Clean(p) = c[n] /\ c[0] = <<>> /\ \A i \in 1..n : c[i] = Cleaned(c[i - 1], p[i])
    BY CleanSteps
  <1>3. PICK g \in [0..n -> Seq(STRING)] :
           Follow(p) = g[n] /\ g[0] = <<>> /\ \A i \in 1..n : g[i] = Entered(g[i - 1], p[i])
    BY FollowSteps
  <1> HIDE DEF n
  \* Who is outside stays there.
  <1>4. \A i \in 0..n : g[i] # Outside
    <2> DEFINE G == {i \in 0..n : g[n - i] # Outside}
    <2>1. 0 \in G
      BY <1>1, <1>3
    <2>2. ASSUME NEW i \in 1..n, i - 1 \in G
          PROVE  i \in G
      <3>1. n - i \in 0..n /\ n - i + 1 \in 1..n /\ n - (i - 1) = n - i + 1 /\ (n - i + 1) - 1 = n - i
        BY <1>1
      <3>2. g[n - i + 1] # Outside
        BY <2>2, <3>1
      <3>3. g[n - i + 1] = Entered(g[n - i], p[n - i + 1])
        BY <1>3, <3>1
      <3>4. g[n - i] # Outside
        BY <3>2, <3>3 DEF Entered
      <3>5. QED
        BY <3>1, <3>4
    <2>3. 0..n \subseteq G
      <3> HIDE DEF G
      <3>1. QED
        BY <1>1, <2>1, <2>2, UpTo
    <2>4. ASSUME NEW i \in 0..n
          PROVE  g[i] # Outside
      <3>1. n - i \in 0..n /\ n - (n - i) = i
        BY <1>1
      <3>2. n - i \in G
        BY <2>3, <3>1
      <3>3. QED
        BY <3>1, <3>2
    <2>5. QED
      BY <2>4
  <1>5. \A i \in 0..n : c[i] = g[i] /\ g[i] \in Seq(STRING \ {".."})
    <2> DEFINE G == {i \in 0..n : c[i] = g[i] /\ g[i] \in Seq(STRING \ {".."})}
    <2>1. 0 \in G
      BY <1>1, <1>2, <1>3
    <2>2. ASSUME NEW i \in 1..n, i - 1 \in G
          PROVE  i \in G
      <3> DEFINE at == g[i - 1]
      <3>1. /\ i \in 0..n /\ i - 1 \in 0..n /\ p[i] \in STRING
            /\ c[i - 1] = at /\ at \in Seq(STRING \ {".."}) /\ at # Outside
        BY <1>1, <1>4, <2>2
      <3>2. c[i] = Cleaned(at, p[i]) /\ g[i] = Entered(at, p[i]) /\ g[i] # Outside
        BY <1>2, <1>3, <1>4, <3>1
      <3> HIDE DEF at
      <3>3. CASE p[i] = ".."
        <4>1. at # <<>> /\ g[i] = Front(at)
          BY <3>1, <3>2, <3>3 DEF Entered
        <4>2. Last(at) # ".." /\ Front(at) \in Seq(STRING \ {".."})
          BY <3>1, <4>1 DEF Last, Front
        <4>3. c[i] = Front(at)
          BY <3>2, <3>3, <4>1, <4>2 DEF Cleaned
        <4>4. QED
          BY <3>1, <4>1, <4>2, <4>3
      <3>4. CASE p[i] # ".."
        <4>1. g[i] = Append(at, p[i]) /\ c[i] = Append(at, p[i])
          BY <3>1, <3>2, <3>4 DEF Entered, Cleaned
        <4>2. Append(at, p[i]) \in Seq(STRING \ {".."})
          BY <3>1, <3>4
        <4>3. QED
          BY <3>1, <4>1, <4>2
      <3>5. QED
        BY <3>3, <3>4
    <2>3. 0..n \subseteq G
      <3> HIDE DEF G
      <3>1. QED
        BY <1>1, <2>1, <2>2, UpTo
    <2>4. QED
      BY <2>3
  <1>6. QED
    BY <1>1, <1>2, <1>3, <1>5

\* A path without ".." leads where it says.
LEMMA PlainPath ==
    ASSUME NEW p \in Seq(STRING \ {".."})
    PROVE  Follow(p) = p /\ p # Outside
  <1> DEFINE n == Len(p)
  <1>1. p \in Seq(STRING) /\ n \in Nat /\ \A i \in 1..n : p[i] \in STRING \ {".."}
    OBVIOUS
  <1>2. p # Outside
    <2>1. SUFFICES ASSUME p = Outside PROVE FALSE
      OBVIOUS
    <2>2. n = 1 /\ p[1] = ".."
      BY <2>1 DEF Outside
    <2>3. QED
      BY <1>1, <2>2
  <1>3. PICK g \in [0..n -> Seq(STRING)] :
           Follow(p) = g[n] /\ g[0] = <<>> /\ \A i \in 1..n : g[i] = Entered(g[i - 1], p[i])
    BY <1>1, FollowSteps
  <1>4. \A i \in 0..n : g[i] = SubSeq(p, 1, i)
    <2> DEFINE H == {i \in 0..n : g[i] = SubSeq(p, 1, i)}
    <2>1. 0 \in H
      <3>1. SubSeq(p, 1, 0) = <<>>
        BY <1>1
      <3>2. QED
        BY <1>1, <1>3, <3>1
    <2>2. ASSUME NEW i \in 1..n, i - 1 \in H
          PROVE  i \in H
      <3> DEFINE at == SubSeq(p, 1, i - 1)
      <3>1. i \in 0..n /\ g[i] = Entered(at, p[i])
        <4>1. i \in 0..n /\ g[i - 1] = at
          BY <1>1, <2>2
        <4>2. g[i] = Entered(g[i - 1], p[i])
          BY <1>3
        <4> HIDE DEF at
        <4>3. QED
          BY <4>1, <4>2
      <3>2. at # Outside
        <4>1. \A j \in 1..(i - 1) : at[j] = p[j] /\ p[j] # ".."
          BY <1>1
        <4>2. Len(at) = i - 1
          BY <1>1
        <4> HIDE DEF at
        <4>3. at = Outside => Len(at) = 1 /\ at[1] = ".."
          BY DEF Outside
        <4>4. QED
          BY <4>1, <4>2, <4>3
      <3>3. p[i] # ".."
        BY <1>1
      <3>4. Entered(at, p[i]) = Append(at, p[i])
        BY <3>2, <3>3 DEF Entered
      <3>5. Append(at, p[i]) = SubSeq(p, 1, i)
        BY <1>1
      <3>6. QED
        BY <3>1, <3>4, <3>5
    <2>3. 0..n \subseteq H
      <3> HIDE DEF H
      <3>1. QED
        BY <1>1, <2>1, <2>2, UpTo
    <2>4. QED
      BY <2>3
  <1>5. SubSeq(p, 1, n) = p
    BY <1>1
  <1>6. QED
    BY <1>1, <1>2, <1>3, <1>4, <1>5

-----------------------------------------------------------------------------
(* Patterns. *)

\* A segment that is no wildcard stands for itself.
LEMMA PlainPrefix ==
    ASSUME NEW p \in Seq(STRING), NEW f \in Seq(STRING), NEW n \in Nat, n <= Len(p),
           \A k \in 1..n : p[k] \notin {"*", "**"}
    PROVE  PathContains(SubSeq(p, 1, n), f)
           <=> n < Len(f) /\ Glob(SubSeq(p, 1, n), SubSeq(f, 1, n))
  <1> DEFINE d == SubSeq(p, 1, n)
  <1>1. d \in Seq(STRING) /\ Len(d) = n /\ \A k \in 1..n : d[k] = p[k]
    OBVIOUS
  <1>2. SubSeq(d, 1, Len(d)) = d
    BY <1>1
  <1> HIDE DEF d
  <1>3. SUFFICES ASSUME n < Len(f)
                 PROVE  IsPrefix(d, f) <=> Glob(d, SubSeq(f, 1, n))
    BY <1>1 DEF PathContains, d
  <1> DEFINE e == SubSeq(f, 1, n)
  <1>4. e \in Seq(STRING) /\ Len(e) = n /\ \A k \in 1..n : e[k] = f[k]
    BY <1>3
  <1> HIDE DEF e
  <1>5. IsPrefix(d, f) <=> d = e
    BY <1>1, <1>2, <1>3 DEF IsPrefix, e
  <1>6. Glob(d, e) <=> \A k \in 1..n : d[k] = e[k]
    <2>1. DOMAIN e = 1..n /\ Len(d) = Len(e)
      BY <1>1, <1>4
    <2>2. \A k \in 1..n : d[k] \notin {"*", "**"}
      BY <1>1
    <2>3. QED
      BY <2>1, <2>2 DEF Glob
  <1>7. d = e <=> \A k \in 1..n : d[k] = e[k]
    BY <1>1, <1>4
  <1>8. QED
    BY <1>5, <1>6, <1>7 DEF e

\* A tail of what is left is a tail.
LEMMA TailsOfRest ==
    ASSUME NEW f \in Seq(STRING), NEW i \in 1..Len(f)
    PROVE  Tails(SubSeq(f, i, Len(f))) = {SubSeq(f, q, Len(f)) : q \in i..Len(f)}
  <1> DEFINE n == Len(f)
             g == SubSeq(f, i, n)
  <1>1. n \in Nat /\ g \in Seq(STRING) /\ Len(g) = n - i + 1
    OBVIOUS
  <1>2. ASSUME NEW j \in 1..(n - i + 1)
        PROVE  SubSeq(g, j, Len(g)) = SubSeq(f, i + j - 1, n)
    BY <1>1, <1>2
  <1>3. DOMAIN g = 1..(n - i + 1)
    BY <1>1
  <1>4. \A q \in i..n : q - i + 1 \in 1..(n - i + 1) /\ i + (q - i + 1) - 1 = q
    BY <1>1
  <1>5. \A j \in 1..(n - i + 1) : i + j - 1 \in i..n
    BY <1>1
  <1> HIDE DEF g, n
  <1>6. Tails(g) = {SubSeq(f, q, n) : q \in i..n}
    <2>1. ASSUME NEW t \in Tails(g)
          PROVE  t \in {SubSeq(f, q, n) : q \in i..n}
      BY <1>2, <1>3, <1>5 DEF Tails
    <2>2. ASSUME NEW q \in i..n
          PROVE  SubSeq(f, q, n) \in Tails(g)
      <3>1. PICK j \in 1..(n - i + 1) : i + j - 1 = q
        BY <1>4
      <3>2. SubSeq(f, q, n) = SubSeq(g, j, Len(g))
        BY <1>2, <3>1
      <3>3. QED
        BY <1>3, <3>2 DEF Tails
    <2>3. QED
      BY <2>1, <2>2
  <1>7. QED
    BY <1>6 DEF g, n

\* A pattern with one "**" that only follows plain segments.
LEMMA OneDoubleStar ==
    ASSUME NEW p \in Seq(STRING), NEW f \in Seq(STRING), Cardinality(DoubleStars(p)) = 1,
           \A i \in DOMAIN p : p[i] = "*" => \A j \in DoubleStars(p) : j < i
    PROVE  MatchesPath(p, f) <=> DoubleStar(p, f)
  <1>1. PICK i \in DOMAIN p : DoubleStars(p) = {i}
    <2>1. DoubleStars(p) \subseteq 1..Len(p) /\ Len(p) \in Nat
      BY DEF DoubleStars
    <2>2. IsFiniteSet(DoubleStars(p))
      <3>1. IsFiniteSet(1..Len(p))
        BY <2>1, FS_Interval
      <3>2. QED
        BY <2>1, <3>1, FS_Subset
    <2>3. PICK i : DoubleStars(p) = {i}
      BY <2>2, FS_Singleton
    <2>4. QED
      BY <2>3 DEF DoubleStars
  <1> DEFINE n == Len(f)
             m == Len(p)
             prefix == SubSeq(p, 1, i - 1)
             suffix == SubSeq(p, i + 1, m)
  <1>2. n \in Nat /\ m \in Nat /\ i \in 1..m
    OBVIOUS
  <1>3. (CHOOSE j \in DoubleStars(p) : TRUE) = i
    BY <1>1
  <1>4. PathContains(prefix, f) <=> i - 1 < n /\ Glob(prefix, SubSeq(f, 1, i - 1))
    <2>1. \A k \in 1..(i - 1) : p[k] \notin {"*", "**"}
      BY <1>1, <1>2 DEF DoubleStars
    <2>2. QED
      BY <1>2, <2>1, PlainPrefix
  <1>5. suffix \in Seq(STRING) /\ Len(suffix) = m - i
    BY <1>2
  <1>6. MatchesPath(p, f) <=>
           /\ PathContains(prefix, f)
           /\ \/ suffix = <<>>
              \/ \E t \in Tails(SubSeq(f, i, n)) : Glob(suffix, t)
              \/ Glob(suffix, <<Last(f)>>)
    BY <1>3 DEF MatchesPath
  <1>7. DoubleStar(p, f) <=>
           /\ i - 1 <= n - (m - i) /\ i - 1 < n
           /\ Glob(prefix, SubSeq(f, 1, i - 1))
           /\ Glob(suffix, SubSeq(f, n - (m - i) + 1, n))
    BY <1>1 DEF DoubleStar
  <1> HIDE DEF prefix, suffix, n, m
  <1>8. SUFFICES ASSUME i <= n
                 PROVE  \/ suffix = <<>>
                        \/ \E t \in Tails(SubSeq(f, i, n)) : Glob(suffix, t)
                        \/ Glob(suffix, <<Last(f)>>)
                        <=> i - 1 <= n - (m - i) /\ Glob(suffix, SubSeq(f, n - (m - i) + 1, n))
    BY <1>2, <1>4, <1>6, <1>7
  <1>9. Tails(SubSeq(f, i, n)) = {SubSeq(f, q, n) : q \in i..n}
    <2>1. i \in 1..Len(f)
      BY <1>2, <1>8 DEF n
    <2>2. QED
      BY <2>1, TailsOfRest DEF n
  <1>10. ASSUME NEW q \in 1..(n + 1)
         PROVE  Len(SubSeq(f, q, n)) = n - q + 1
    BY <1>2 DEF n
  <1>11. ASSUME NEW q \in 1..(n + 1), Glob(suffix, SubSeq(f, q, n))
         PROVE  q = n - (m - i) + 1
    BY <1>2, <1>5, <1>10, <1>11 DEF Glob
  <1>12. <<Last(f)>> = SubSeq(f, n, n)
    BY <1>2, <1>8 DEF Last, n
  <1>13. CASE suffix = <<>>
    <2>1. m = i
      BY <1>2, <1>5, <1>13
    <2>2. SubSeq(f, n + 1, n) = <<>>
      BY <1>2 DEF n
    <2>3. Glob(<<>>, <<>>)
      BY DEF Glob
    <2>4. n - (m - i) + 1 = n + 1 /\ i - 1 <= n - (m - i)
      BY <1>2, <1>8, <2>1
    <2>5. QED
      BY <1>13, <2>2, <2>3, <2>4
  <1>14. CASE suffix # <<>>
    <2>1. i < m
      BY <1>2, <1>5, <1>14
    <2>2. ASSUME \E t \in Tails(SubSeq(f, i, n)) : Glob(suffix, t)
          PROVE  i - 1 <= n - (m - i) /\ Glob(suffix, SubSeq(f, n - (m - i) + 1, n))
      <3>1. PICK q \in i..n : Glob(suffix, SubSeq(f, q, n))
        BY <1>9, <2>2
      <3>2. q = n - (m - i) + 1
        BY <1>2, <1>11, <3>1
      <3>3. QED
        BY <1>2, <3>1, <3>2
    <2>3. ASSUME i - 1 <= n - (m - i), Glob(suffix, SubSeq(f, n - (m - i) + 1, n))
          PROVE  \E t \in Tails(SubSeq(f, i, n)) : Glob(suffix, t)
      <3>1. n - (m - i) + 1 \in i..n
        BY <1>2, <2>1, <2>3
      <3>2. QED
        BY <1>9, <2>3, <3>1
    <2>4. Glob(suffix, <<Last(f)>>) => \E t \in Tails(SubSeq(f, i, n)) : Glob(suffix, t)
      <3>1. n \in i..n
        BY <1>2, <1>8
      <3>2. QED
        BY <1>9, <1>12, <3>1
    <2>5. QED
      BY <1>14, <2>2, <2>3, <2>4
  <1>15. QED
    BY <1>13, <1>14

\* helpers.go:25-58: for any files and patterns.
THEOREM GlobsMean == Spec => []GlobIsDoubleStar
  <1> DEFINE Situated == in \in Inputs
  <1>1. Init => Situated
    BY DEF Init
  <1>2. Situated /\ [Next]_vars => Situated'
    BY DEF Next, vars, MatchScanned, ExpandAppSetMappings, ListApplications, CompareManifests,
           CompareSets, AddDeleted, DetectCrossRepo
  <1>3. Situated => GlobIsDoubleStar
    <2> SUFFICES ASSUME in \in Inputs, NEW a \in Apps, NEW f \in Files,
                        NEW p \in in.exact[a] \union in.wild[a] \union in.set,
                        Cardinality(DoubleStars(p)) = 1,
                        \A i \in DOMAIN p : p[i] = "*" => \A j \in DoubleStars(p) : j < i
                 PROVE  MatchesPath(p, f) <=> DoubleStar(p, f)
      BY DEF GlobIsDoubleStar
    <2>1. p \in Seq(STRING)
      BY DetectAssumption
    <2>2. f \in Seq(STRING)
      BY DetectAssumption DEF Files, AllFilePaths
    <2>3. QED
      BY <2>1, <2>2, OneDoubleStar
  <1>4. QED
    BY <1>1, <1>2, <1>3, PTL DEF Spec

-----------------------------------------------------------------------------
(* The search. *)

\* The steps after the comparison of the manifests, of the ApplicationSets, of what is left.
ManifestsCompared == pc \in {"sets", "deleted", "cross-repo", "done"}
SetsCompared == pc \in {"deleted", "cross-repo", "done"}
Settled == pc \in {"cross-repo", "done"}

ReadsChanged(a) == ReferencesRepo(in.app[a]) /\ \E f \in Files : FileMatchesAppSources(in.app[a], f)

\* What is known of an application follows from the situation as far as that was looked at.
Follows(a) ==
    LET type == affected[a].type IN
    /\ type = "none" <=> ~Detected(a)
    /\ type \in {"", "existing"} => in.head[a] # 0 \/ a \in Live
    /\ type = "new" => NewCR(a) \/ a \in NewOfSet
    /\ type = "deleted" <=> Settled /\ a \in deleted
    /\ a \in deleted => ManifestsCompared /\ (DeletedCR(a) \/ a \in DeletedOfSet)
    /\ pc # "scan" /\ in.head[a] # 0 /\ IsAppAffected(a) => Detected(a)
    /\ ManifestsCompared =>
          /\ NewCR(a) => type \in {"new", "deleted"}
          /\ ModifiedCR(a) /\ in.cr[a] \in Files => Detected(a)
          /\ DeletedCR(a) => a \in deleted
    /\ SetsCompared /\ ~failed =>
          /\ a \in NewOfSet => Detected(a)
          /\ a \in DeletedOfSet => a \in deleted
    /\ Settled => type # ""
    /\ pc = "done" /\ a \in list /\ ReadsChanged(a) => Detected(a)

Tracked == /\ in \in Inputs /\ pc \in Steps /\ affected \in [Apps -> Entry]
           /\ deleted \subseteq Apps /\ list \subseteq Live /\ failed \in BOOLEAN
           /\ pc \in {"scan", "mapping", "list"} \/ failed \/ list = Live
           /\ \A a \in Apps : Follows(a)

LEMMA Situation ==
    ASSUME in \in Inputs
    PROVE  /\ Live \subseteq Apps /\ Generated \subseteq Live
           /\ DeletedOfSet \subseteq Apps
           /\ in.headSet.there \in BOOLEAN /\ in.baseSet.there \in BOOLEAN
  BY DetectAssumption DEF Live, Generated, DeletedOfSet

LEMMA Entries ==
    ASSUME NEW t \in {"", "new", "existing", "deleted"}, NEW s \in BOOLEAN
    PROVE  /\ Found(t, s) \in Entry /\ Found(t, s).type = t /\ Found(t, s) # NotFound
           /\ NotFound \in Entry /\ NotFound.type = "none"
           /\ [Found(t, s) EXCEPT !.generated = TRUE] \in Entry
           /\ [Found(t, s) EXCEPT !.generated = FALSE] \in Entry
           /\ [Found(t, s) EXCEPT !.generated = TRUE].type = t
           /\ [Found(t, s) EXCEPT !.generated = FALSE].type = t
  BY DEF Found, Entry, NotFound

\* The situation stays, and all that is said of it.
LEMMA Still ==
    ASSUME in' = in, NEW a
    PROVE  /\ Files' = Files /\ Live' = Live /\ Generated' = Generated
           /\ NewOfSet' = NewOfSet /\ DeletedOfSet' = DeletedOfSet
           /\ NewCR(a)' <=> NewCR(a)
           /\ ModifiedCR(a)' <=> ModifiedCR(a)
           /\ IsAppAffected(a)' <=> IsAppAffected(a)
           /\ ReadsChanged(a)' <=> ReadsChanged(a)
           /\ list' = list => (DeletedCR(a)' <=> DeletedCR(a))
           /\ affected'[a] = affected[a] => (Detected(a)' <=> Detected(a))
  BY DEF Files, Live, Generated, NewOfSet, DeletedOfSet, NewCR, ModifiedCR, IsAppAffected,
         ReadsChanged, DeletedCR, Generates, Detected

\* An entry that becomes one of another type, or is found.
LEMMA Becomes ==
    ASSUME Tracked, NEW a \in Apps
    PROVE  /\ affected[a] \in Entry
           /\ affected[a].type \in {"none", "", "new", "existing", "deleted"}
           /\ Typed(affected[a]) \in Entry
           /\ Detected(a) => Typed(affected[a]) # NotFound
           /\ ~Detected(a) => Typed(affected[a]) = NotFound
           /\ Typed(affected[a]).type = IF affected[a].type = "" THEN "existing" ELSE affected[a].type
           /\ [affected[a] EXCEPT !.type = "deleted", !.source = TRUE] \in Entry
           /\ [affected[a] EXCEPT !.type = "deleted", !.source = TRUE].type = "deleted"
  <1>1. affected[a] \in Entry /\ Follows(a)
    BY DEF Tracked
  <1>2. NotFound.type = "none"
    BY DEF NotFound
  <1>3. [affected[a] EXCEPT !.type = "existing"].type = "existing"
    BY <1>1 DEF Entry
  <1>4. CASE affected[a].type = ""
    BY <1>1, <1>2, <1>3, <1>4 DEF Typed, Entry, Follows
  <1>5. CASE affected[a].type # ""
    BY <1>1, <1>2, <1>5 DEF Typed, Entry, Detected
  <1>6. QED
    BY <1>4, <1>5

LEMMA ScanTracked ==
    ASSUME Tracked, MatchScanned
    PROVE  Tracked'
  <1>1. /\ pc = "scan" /\ pc' = "mapping" /\ UNCHANGED <<in, deleted, list, failed>>
        /\ affected' = [a \in Apps |-> IF in.head[a] # 0 /\ IsAppAffected(a) THEN Found("", TRUE)
                                       ELSE NotFound]
    BY DEF MatchScanned
  <1>2. ASSUME NEW a \in Apps
        PROVE  Follows(a)' /\ affected'[a] \in Entry
    <2>1. a \notin deleted
      BY <1>1 DEF Tracked, Follows, ManifestsCompared
    <2>2. CASE in.head[a] # 0 /\ IsAppAffected(a)
      <3>1. affected'[a] = Found("", TRUE)
        BY <1>1, <2>2
      <3>2. affected'[a].type = "" /\ affected'[a] \in Entry /\ affected'[a] # NotFound
        BY <3>1, Entries
      <3>3. QED
        BY <1>1, <2>1, <2>2, <3>2, Still DEF Follows, ManifestsCompared, SetsCompared, Settled, Detected
    <2>3. CASE ~(in.head[a] # 0 /\ IsAppAffected(a))
      <3>1. affected'[a] = NotFound
        BY <1>1, <2>3
      <3>2. affected'[a].type = "none" /\ affected'[a] \in Entry
        BY <3>1, Entries
      <3>3. QED
        BY <1>1, <2>1, <2>3, <3>1, <3>2, Still DEF Follows, ManifestsCompared, SetsCompared, Settled, Detected
    <2>4. QED
      BY <2>2, <2>3
  <1>3. affected' \in [Apps -> Entry]
    BY <1>1, <1>2
  <1>4. Live' = Live
    BY <1>1, Still
  <1>5. QED
    BY <1>1, <1>2, <1>3, <1>4 DEF Tracked, Steps

\* A step that finds some as existing, of those that Argo CD has.
LEMMA MappingTracked ==
    ASSUME Tracked, ExpandAppSetMappings
    PROVE  Tracked'
  <1>1. pc = "mapping" /\ pc' = "list" /\ UNCHANGED <<in, deleted, list>> /\ failed' \in BOOLEAN
    BY DEF ExpandAppSetMappings, Tracked
  <1>2. affected' \in [Apps -> Entry] /\ \A a \in Apps :
           \/ affected'[a] = affected[a]
           \/ a \in Generated /\ ~Detected(a) /\ affected'[a] = Found("existing", FALSE)
    BY Entries DEF ExpandAppSetMappings, Tracked
  <1>3. ASSUME NEW a \in Apps
        PROVE  Follows(a)'
    <2>1. Follows(a) /\ a \notin deleted
      BY <1>1 DEF Tracked, Follows, ManifestsCompared
    <2>2. CASE affected'[a] = affected[a]
      BY <1>1, <2>1, <2>2, Still DEF Follows, ManifestsCompared, SetsCompared, Settled
    <2>3. CASE a \in Generated /\ affected'[a] = Found("existing", FALSE)
      <3>1. affected'[a].type = "existing" /\ affected'[a] # NotFound
        BY <2>3, Entries
      <3>2. a \in Live
        BY <2>3, Situation DEF Tracked
      <3>3. QED
        BY <1>1, <2>1, <3>1, <3>2, Still DEF Follows, ManifestsCompared, SetsCompared, Settled, Detected
    <2>4. QED
      BY <1>2, <2>2, <2>3
  <1>4. Live' = Live
    BY <1>1, Still
  <1>5. QED
    BY <1>1, <1>2, <1>3, <1>4 DEF Tracked, Steps

LEMMA ListTracked ==
    ASSUME Tracked, ListApplications
    PROVE  Tracked'
  <1>1. /\ pc = "list" /\ pc' = "manifests" /\ UNCHANGED <<in, affected, deleted>>
        /\ (list' = Live /\ failed' = failed) \/ (list' = {} /\ failed' = TRUE)
    BY DEF ListApplications
  <1>2. Live' = Live
    BY <1>1, Still
  <1>3. ASSUME NEW a \in Apps
        PROVE  Follows(a)'
    <2>1. Follows(a) /\ a \notin deleted
      BY <1>1 DEF Tracked, Follows, ManifestsCompared
    <2>2. QED
      BY <1>1, <2>1, Still DEF Follows, ManifestsCompared, SetsCompared, Settled
  <1>4. failed' \in BOOLEAN /\ list' \subseteq Live' /\ (failed' \/ list' = Live')
    BY <1>1, <1>2 DEF Tracked
  <1>5. QED
    BY <1>1, <1>3, <1>4 DEF Tracked, Steps

LEMMA ManifestsTracked ==
    ASSUME Tracked, CompareManifests
    PROVE  Tracked'
  <1>1. /\ pc = "manifests" /\ pc' = "sets" /\ UNCHANGED <<in, list, failed>>
        /\ affected' = [a \in Apps |-> WithCR(a)] /\ deleted' = {a \in Apps : DeletedCR(a)}
    BY DEF CompareManifests
  <1>2. ASSUME NEW a \in Apps
        PROVE  Follows(a)' /\ affected'[a] \in Entry
    <2>1. Follows(a) /\ affected'[a] = WithCR(a) /\ (a \in deleted' <=> DeletedCR(a))
      BY <1>1 DEF Tracked
    <2>2. affected[a] \in Entry /\ affected[a].type # "deleted"
      BY <1>1 DEF Tracked, Follows, Settled
    <2>3. CASE NewCR(a)
      <3>1. affected'[a] = Found("new", TRUE)
        BY <2>1, <2>3 DEF WithCR, NewCR, ModifiedCR
      <3>2. affected'[a] \in Entry /\ affected'[a].type = "new" /\ affected'[a] # NotFound
        BY <3>1, Entries
      <3>3. ~DeletedCR(a)
        BY <2>3 DEF NewCR, DeletedCR
      <3>4. QED
        BY <1>1, <2>1, <2>3, <3>2, <3>3, Still DEF Follows, ManifestsCompared, SetsCompared, Settled, Detected
    <2>4. CASE ~NewCR(a) /\ ModifiedCR(a) /\ (Detected(a) \/ in.cr[a] \in Files)
      <3>1. affected'[a] = Found("existing", TRUE)
        BY <2>1, <2>4 DEF WithCR
      <3>2. affected'[a] \in Entry /\ affected'[a].type = "existing" /\ affected'[a] # NotFound
        BY <3>1, Entries
      <3>3. in.head[a] # 0
        BY <2>4 DEF ModifiedCR
      <3>4. QED
        BY <1>1, <2>1, <2>4, <3>2, <3>3, Still DEF Follows, ManifestsCompared, SetsCompared, Settled, Detected
    <2>5. CASE ~NewCR(a) /\ ~(ModifiedCR(a) /\ (Detected(a) \/ in.cr[a] \in Files))
      <3>1. affected'[a] = affected[a]
        BY <2>1, <2>5 DEF WithCR
      <3>2. QED
        BY <1>1, <2>1, <2>2, <2>5, <3>1, Still DEF Follows, ManifestsCompared, SetsCompared, Settled
    <2>6. QED
      BY <2>3, <2>4, <2>5
  <1>3. affected' \in [Apps -> Entry] /\ deleted' \subseteq Apps
    BY <1>1, <1>2
  <1>4. Live' = Live
    BY <1>1, Still
  <1>5. QED
    BY <1>1, <1>2, <1>3, <1>4 DEF Tracked, Steps

LEMMA SetsTracked ==
    ASSUME Tracked, CompareSets
    PROVE  Tracked'
  <1>1. pc = "sets" /\ pc' = "deleted" /\ UNCHANGED <<in, list>>
    BY DEF CompareSets
  <1>2. \/ /\ affected' = [a \in Apps |->
                            IF a \in NewOfSet /\ ~Detected(a)
                            THEN [Found("new", TRUE) EXCEPT !.generated = TRUE] ELSE affected[a]]
           /\ deleted' = deleted \union DeletedOfSet /\ failed' = failed
        \/ failed' = TRUE /\ affected' = affected /\ deleted' = deleted
    BY DEF CompareSets
  <1>3. ASSUME NEW a \in Apps
        PROVE  Follows(a)' /\ affected'[a] \in Entry
    <2>1. Follows(a) /\ affected[a] \in Entry
      BY DEF Tracked
    <2>2. CASE failed' = TRUE /\ affected' = affected /\ deleted' = deleted
      BY <1>1, <2>1, <2>2, Still DEF Follows, ManifestsCompared, SetsCompared, Settled
    <2>3. CASE /\ a \in NewOfSet /\ ~Detected(a)
               /\ affected'[a] = [Found("new", TRUE) EXCEPT !.generated = TRUE]
               /\ deleted' = deleted \union DeletedOfSet /\ failed' = failed
      <3>1. [Found("new", TRUE) EXCEPT !.generated = TRUE] # NotFound
        BY Entries
      <3>2. affected'[a] \in Entry /\ affected'[a].type = "new" /\ affected'[a] # NotFound
        BY <2>3, <3>1, Entries
      <3>3. QED
        BY <1>1, <2>1, <2>3, <3>2, Still DEF Follows, ManifestsCompared, SetsCompared, Settled, Detected
    <2>4. CASE /\ a \in NewOfSet => Detected(a)
               /\ affected'[a] = affected[a]
               /\ deleted' = deleted \union DeletedOfSet /\ failed' = failed
      BY <1>1, <2>1, <2>4, Still DEF Follows, ManifestsCompared, SetsCompared, Settled
    <2>5. QED
      BY <1>2, <2>2, <2>3, <2>4
  <1>4. affected' \in [Apps -> Entry] /\ deleted' \subseteq Apps /\ failed' \in BOOLEAN
    BY <1>2, <1>3, Situation DEF Tracked
  <1>5. Live' = Live
    BY <1>1, Still
  <1>6. failed' \/ list' = Live'
    BY <1>1, <1>2, <1>5 DEF Tracked
  <1>7. QED
    BY <1>1, <1>3, <1>4, <1>5, <1>6 DEF Tracked, Steps

LEMMA DeletedTracked ==
    ASSUME Tracked, AddDeleted
    PROVE  Tracked'
  <1>1. /\ pc = "deleted" /\ pc' = "cross-repo" /\ UNCHANGED <<in, deleted, list, failed>>
    BY DEF AddDeleted
  <1>2. ASSUME NEW a \in Apps
        PROVE  Follows(a)' /\ affected'[a] \in Entry
    <2>1. Follows(a) /\ affected[a] \in Entry
      BY DEF Tracked
    <2>2. CASE a \in deleted
      <3>1. \/ affected'[a] = [Found("deleted", TRUE) EXCEPT !.generated = ~DeletedCR(a)]
            \/ affected'[a] = [affected[a] EXCEPT !.type = "deleted", !.source = TRUE]
        BY <2>2 DEF AddDeleted
      <3>2. affected'[a] \in Entry /\ affected'[a].type = "deleted"
        <4>1. (~DeletedCR(a)) = TRUE \/ (~DeletedCR(a)) = FALSE
          OBVIOUS
        <4>2. QED
          BY <3>1, <4>1, Entries, Becomes
      <3>3. affected'[a] # NotFound
        BY <3>2 DEF NotFound
      <3>4. QED
        BY <1>1, <2>1, <2>2, <3>2, <3>3, Still DEF Follows, ManifestsCompared, SetsCompared, Settled, Detected
    <2>3. CASE a \notin deleted
      <3>1. affected'[a] = Typed(affected[a])
        BY <2>3 DEF AddDeleted
      <3>2. /\ affected'[a] \in Entry
            /\ affected'[a].type = IF affected[a].type = "" THEN "existing" ELSE affected[a].type
            /\ Detected(a)' <=> Detected(a)
        BY <3>1, Becomes DEF Detected
      <3>3. QED
        BY <1>1, <2>1, <2>3, <3>2, Still DEF Follows, ManifestsCompared, SetsCompared, Settled
    <2>4. QED
      BY <2>2, <2>3
  <1>3. affected' \in [Apps -> Entry]
    BY <1>2 DEF AddDeleted
  <1>4. Live' = Live
    BY <1>1, Still
  <1>5. QED
    BY <1>1, <1>2, <1>3, <1>4 DEF Tracked, Steps

LEMMA CrossRepoTracked ==
    ASSUME Tracked, DetectCrossRepo
    PROVE  Tracked'
  <1>1. /\ pc = "cross-repo" /\ pc' = "done" /\ UNCHANGED <<in, deleted, list, failed>>
    BY DEF DetectCrossRepo
  <1>2. affected' \in [Apps -> Entry] /\ \A a \in Apps :
           IF a \in list /\ ~Detected(a) /\ ReadsChanged(a)
           THEN affected'[a] = Found("existing", FALSE) ELSE affected'[a] = affected[a]
    BY Entries DEF DetectCrossRepo, ReadsChanged, Tracked
  <1>3. ASSUME NEW a \in Apps
        PROVE  Follows(a)'
    <2>1. Follows(a)
      BY DEF Tracked
    <2>2. CASE a \in list /\ ~Detected(a) /\ ReadsChanged(a)
      <3>1. affected'[a].type = "existing" /\ affected'[a] # NotFound /\ affected[a].type = "none"
        BY <1>2, <2>1, <2>2, Entries DEF Follows
      <3>2. a \in Live /\ a \notin deleted
        BY <1>1, <2>1, <2>2, <3>1 DEF Tracked, Follows, Settled
      <3>3. ~NewCR(a)
        BY <1>1, <2>1, <3>1 DEF Follows, ManifestsCompared
      <3>4. QED
        BY <1>1, <2>1, <3>1, <3>2, <3>3, Still DEF Follows, ManifestsCompared, SetsCompared, Settled, Detected
    <2>3. CASE ~(a \in list /\ ~Detected(a) /\ ReadsChanged(a))
      <3>1. affected'[a] = affected[a]
        BY <1>2, <2>3
      <3>2. QED
        BY <1>1, <2>1, <2>3, <3>1, Still DEF Follows, ManifestsCompared, SetsCompared, Settled
    <2>4. QED
      BY <2>2, <2>3
  <1>4. Live' = Live
    BY <1>1, Still
  <1>5. QED
    BY <1>1, <1>2, <1>3, <1>4 DEF Tracked, Steps

\* What the search has found at each of its steps.
THEOREM AlwaysTracked == Spec => []Tracked
  <1>1. Init => Tracked
    <2> SUFFICES ASSUME Init PROVE Tracked
      OBVIOUS
    <2>1. ASSUME NEW a \in Apps
          PROVE  Follows(a)
      BY Entries DEF Init, Follows, Detected, ManifestsCompared, SetsCompared, Settled
    <2>2. affected \in [Apps -> Entry]
      BY Entries DEF Init
    <2>3. QED
      BY <2>1, <2>2 DEF Init, Tracked, Steps
  <1>2. Tracked /\ [Next]_vars => Tracked'
    <2> SUFFICES ASSUME Tracked, [Next]_vars PROVE Tracked'
      OBVIOUS
    <2>1. CASE UNCHANGED vars
      <3>1. UNCHANGED <<in, pc, affected, deleted, list, failed>>
        BY <2>1 DEF vars
      <3>2. ASSUME NEW a \in Apps
            PROVE  Follows(a)'
        BY <3>1, Still DEF Follows, Tracked, ManifestsCompared, SetsCompared, Settled
      <3>3. Live' = Live
        BY <3>1, Still
      <3>4. QED
        BY <3>1, <3>2, <3>3 DEF Tracked
    <2>2. QED
      BY <2>1, ScanTracked, MappingTracked, ListTracked, ManifestsTracked, SetsTracked,
         DeletedTracked, CrossRepoTracked DEF Next
  <1>3. QED
    BY <1>1, <1>2, PTL DEF Spec

\* No application is left without a type, and nothing is found but applications.
THEOREM TypeCorrect == Spec => []TypeOK
  <1>1. Tracked => TypeOK
    <2> SUFFICES ASSUME Tracked PROVE TypeOK
      OBVIOUS
    <2>1. pc = "done" => \A a \in Apps : affected[a].type # ""
      BY DEF Tracked, Follows, Settled
    <2>2. list \subseteq Apps
      BY DEF Tracked, Live
    <2>3. QED
      BY <2>1, <2>2 DEF Tracked, TypeOK
  <1>2. QED
    BY <1>1, AlwaysTracked, PTL

\* What a pull request makes of an application, in terms of the manifests.
LEMMA Changes ==
    ASSUME in \in Inputs, NEW a \in Apps
    PROVE  /\ Change(a) = "new" => NewCR(a) \/ a \in NewOfSet
           /\ Change(a) = "deleted" =>
                 /\ in.head[a] = 0 /\ a \notin Generates(in.headSet)
                 /\ in.base[a] # 0 \/ a \in DeletedOfSet
           /\ Change(a) = "deleted" /\ in.base[a] = 0 => a \in DeletedOfSet
           /\ ~Moves(a) =>
                 /\ NewCR(a) \/ a \in NewOfSet => Change(a) = "new"
                 /\ DeletedCR(a) \/ a \in DeletedOfSet => Change(a) = "deleted"
           /\ Change(a) \in {"new", "deleted", "existing"}
  <1>1. in.headSet.there \in BOOLEAN /\ in.baseSet.there \in BOOLEAN
    BY Situation
  <1>2. /\ a \in AtHead <=> in.head[a] # 0 \/ a \in Generates(in.headSet)
        /\ a \in AtBase <=> in.base[a] # 0 \/ a \in BaseOfSet
    BY DEF AtHead, AtBase
  <1>3. /\ Change(a) = "new" <=> a \in AtHead /\ a \notin AtBase
        /\ Change(a) = "deleted" <=> a \in AtBase /\ a \notin AtHead
        /\ Change(a) \in {"new", "deleted", "existing"}
    BY DEF Change
  <1>4. CASE in.baseSet.there /\ in.headSet.there
    <2>1. /\ BaseOfSet = in.baseSet.apps /\ Generates(in.headSet) = in.headSet.apps
          /\ NewOfSet = in.headSet.apps \ in.baseSet.apps
          /\ DeletedOfSet = in.baseSet.apps \ in.headSet.apps
      BY <1>4 DEF BaseOfSet, Generates, NewOfSet, DeletedOfSet
    <2>2. QED
      BY <1>2, <1>3, <2>1 DEF NewCR, DeletedCR, Moves
  <1>5. CASE in.baseSet.there /\ ~in.headSet.there
    <2>1. /\ BaseOfSet = Generated /\ Generates(in.headSet) = {}
          /\ NewOfSet = {} /\ DeletedOfSet = Generated
      BY <1>5 DEF BaseOfSet, Generates, NewOfSet, DeletedOfSet
    <2>2. QED
      BY <1>2, <1>3, <2>1 DEF NewCR, DeletedCR, Moves
  <1>6. CASE ~in.baseSet.there
    <2>1. /\ BaseOfSet = {} /\ NewOfSet = Generates(in.headSet) /\ DeletedOfSet = {}
      BY <1>6 DEF BaseOfSet, Generates, NewOfSet, DeletedOfSet
    <2>2. QED
      BY <1>2, <1>3, <2>1 DEF NewCR, DeletedCR, Moves
  <1>7. QED
    BY <1>1, <1>4, <1>5, <1>6

\* executor.go:207-212: whatever is added, removed or modified is found, for any
\* applications, manifests and ApplicationSet and whichever calls fail.
THEOREM EveryChangeIsFound == Spec => []ChangesAreFound
  <1>1. Tracked => ChangesAreFound
    <2> SUFFICES ASSUME Tracked, pc = "done", NEW a \in Apps,
                        \/ NewCR(a)
                        \/ ~failed /\ Change(a) = "new"
                        \/ /\ ~failed /\ Change(a) = "deleted" /\ a \in Live
                           /\ ~(in.base[a] = 0 /\ a \notin Generated)
                        \/ ModifiedCR(a) /\ in.cr[a] \in Files
                 PROVE  Detected(a)
      BY DEF ChangesAreFound, NewCR, ModifiedCR
    <2>1. Follows(a) /\ in \in Inputs /\ (failed \/ list = Live)
      BY DEF Tracked
    <2>2. ManifestsCompared /\ SetsCompared /\ Settled
      BY DEF ManifestsCompared, SetsCompared, Settled
    <2>3. a \in deleted => Detected(a)
      BY <2>1, <2>2 DEF Follows
    <2>4. NewCR(a) => Detected(a)
      BY <2>1, <2>2 DEF Follows
    <2>5. CASE ~failed /\ Change(a) = "new"
      BY <2>1, <2>2, <2>4, <2>5, Changes DEF Follows
    <2>6. CASE ~failed /\ Change(a) = "deleted" /\ a \in Live
      <3>1. in.head[a] = 0 /\ (in.base[a] # 0 \/ a \in DeletedOfSet)
        BY <2>1, <2>6, Changes
      <3>2. DeletedCR(a) \/ a \in DeletedOfSet
        BY <2>1, <2>6, <3>1 DEF DeletedCR
      <3>3. QED
        BY <2>1, <2>2, <2>3, <2>6, <3>2 DEF Follows
    <2>7. QED
      BY <2>1, <2>2, <2>4, <2>5, <2>6 DEF Follows
  <1>2. QED
    BY <1>1, AlwaysTracked, PTL

\* models.Application.ChangeType: each application found is planned as what the pull
\* request makes of it, but for the two cases that TypesAgree leaves out.
THEOREM TypesAreRight == Spec => []TypesAgree
  <1>1. Tracked => TypesAgree
    <2> SUFFICES ASSUME Tracked, pc = "done", ~failed, NEW a \in Apps,
                        Detected(a), ~Moves(a), ~(Change(a) = "new" /\ a \in Live)
                 PROVE  affected[a].type = Change(a)
      BY DEF TypesAgree
    <2>1. Follows(a) /\ in \in Inputs /\ list = Live /\ affected[a] \in Entry
      BY DEF Tracked
    <2>2. ManifestsCompared /\ SetsCompared /\ Settled
      BY DEF ManifestsCompared, SetsCompared, Settled
    <2>3. affected[a].type \in {"new", "existing", "deleted"}
      BY <2>1, <2>2 DEF Follows, Entry
    <2>4. CASE affected[a].type = "new"
      BY <2>1, <2>4, Changes DEF Follows
    <2>5. CASE affected[a].type = "deleted"
      BY <2>1, <2>5, Changes DEF Follows
    <2>6. CASE affected[a].type = "existing"
      <3>1. a \notin deleted /\ ~NewCR(a) /\ ~DeletedCR(a) /\ a \notin DeletedOfSet
        BY <2>1, <2>2, <2>6 DEF Follows
      <3>2. in.head[a] # 0 \/ a \in Live
        BY <2>1, <2>6 DEF Follows
      <3>3. Change(a) # "deleted"
        <4>1. SUFFICES ASSUME Change(a) = "deleted"
                       PROVE  FALSE
          OBVIOUS
        <4>2. in.head[a] = 0 /\ in.base[a] # 0
          BY <2>1, <3>1, <4>1, Changes
        <4>3. QED
          BY <2>1, <3>1, <3>2, <4>2 DEF DeletedCR
      <3>4. Change(a) # "new"
        <4>1. SUFFICES ASSUME Change(a) = "new"
                       PROVE  FALSE
          OBVIOUS
        <4>2. a \notin Live /\ in.head[a] # 0
          BY <3>2, <4>1
        <4>3. in.base[a] = 0
          BY <4>1 DEF Change, AtBase
        <4>4. QED
          BY <3>1, <4>2, <4>3 DEF NewCR
      <3>5. QED
        BY <2>1, <2>6, <3>3, <3>4, Changes
    <2>7. QED
      BY <2>3, <2>4, <2>5, <2>6
  <1>2. QED
    BY <1>1, AlwaysTracked, PTL

\* What the code makes of the path of a value file is where it leads, if that is a file.
LEMMA ReadsMatch ==
    ASSUME in \in Inputs, NEW a \in Apps, NEW f \in Files, Reads(in.app[a], f),
           in.app[a].multi \/ \A s \in in.app[a].sources : s.values = {}
    PROVE  ReadsChanged(a) /\ FileMatchesAppSources(in.app[a], f)
  <1>1. PICK s \in in.app[a].sources :
           \/ s.here /\ s.path # <<>> /\ PathContains(s.path, f)
           \/ \E v \in s.values :
                 CASE v.kind = "ref" -> \E t \in in.app[a].sources : t.here /\ t.ref = v.ref
                                                          /\ Follow(v.path) = f
                   [] v.kind = "absolute" -> s.here /\ Follow(v.path) = f
                   [] OTHER -> s.here /\ Follow(s.path \o v.path) = f
    BY DEF Reads
  <1>2. FileMatchesAppSources(in.app[a], f) => (ReferencesRepo(in.app[a]) => ReadsChanged(a))
    BY DEF ReadsChanged
  <1>3. CASE s.here /\ s.path # <<>> /\ PathContains(s.path, f)
    BY <1>2, <1>3 DEF FileMatchesAppSources, ReferencesRepo
  <1>4. CASE ~(s.here /\ s.path # <<>> /\ PathContains(s.path, f))
    <2>1. PICK v \in s.values :
             CASE v.kind = "ref" -> \E t \in in.app[a].sources : t.here /\ t.ref = v.ref
                                                      /\ Follow(v.path) = f
               [] v.kind = "absolute" -> s.here /\ Follow(v.path) = f
               [] OTHER -> s.here /\ Follow(s.path \o v.path) = f
      BY <1>1, <1>4
    <2>2. in.app[a].multi
      BY <2>1
    <2>3. /\ Clean(f) = f
          /\ IF v.kind \in {"ref", "absolute"} THEN Clean(v.path) = f
             ELSE Clean(s.path \o v.path) = f
      <3>1. f \in Seq(STRING \ {".."}) /\ f \in Seq(STRING)
        <4>1. f \in Seq(STRING \ {".."})
          BY DetectAssumption DEF Files, AllFilePaths
        <4>2. QED
          BY <4>1
      <3>2. s.path \in Seq(STRING) /\ v.path \in Seq(STRING)
        BY DetectAssumption
      <3>3. s.path \o v.path \in Seq(STRING)
        BY <3>2
      <3>4. Follow(f) = f /\ f # Outside
        BY <3>1, PlainPath
      <3>5. Clean(f) = f
        BY <3>1, <3>4, CleanLeads
      <3>6. CASE v.kind \in {"ref", "absolute"}
        <4>1. Follow(v.path) = f
          BY <2>1, <3>6
        <4>2. QED
          BY <3>2, <3>4, <3>5, <3>6, <4>1, CleanLeads
      <3>7. CASE v.kind \notin {"ref", "absolute"}
        <4>1. Follow(s.path \o v.path) = f
          BY <2>1, <3>7
        <4>2. QED
          BY <3>3, <3>4, <3>5, <3>7, <4>1, CleanLeads
      <3>8. QED
        BY <3>6, <3>7
    <2>4. CASE v.kind = "ref"
      <3>1. PICK t \in in.app[a].sources : t.here /\ t.ref = v.ref /\ Follow(v.path) = f
        BY <2>1, <2>4
      <3>2. ResolveRef(in.app[a].sources, v, f)
        BY <2>3, <2>4, <3>1 DEF ResolveRef
      <3>3. FileMatchesAppSources(in.app[a], f)
        BY <2>2, <2>4, <3>2 DEF FileMatchesAppSources
      <3>4. QED
        BY <1>2, <3>1, <3>3 DEF ReferencesRepo
    <2>5. CASE v.kind # "ref"
      <3>1. s.here /\ ResolveValueFile(s.path, v) = f
        BY <2>1, <2>3, <2>5 DEF ResolveValueFile
      <3>2. FileMatchesAppSources(in.app[a], f)
        BY <2>2, <2>5, <3>1 DEF FileMatchesAppSources
      <3>3. QED
        BY <1>2, <3>1, <3>2 DEF ReferencesRepo
    <2>6. QED
      BY <2>4, <2>5
  <1>5. QED
    BY <1>3, <1>4

\* executor.go:453-470, appdetect.go:405-407: an application that reads a changed file is
\* found, by its manifest or in Argo CD, for any sources, files and paths.
THEOREM EveryReaderIsFound == Spec => []ReadersAreFound
  <1>1. Tracked => ReadersAreFound
    <2> SUFFICES ASSUME Tracked, pc = "done", ~failed, NEW a \in Apps, NEW f \in Files,
                        in.app[a].multi \/ \A s \in in.app[a].sources : s.values = {},
                        in.exact[a] = {}, in.head[a] # 0 \/ a \in Live, Reads(in.app[a], f)
                 PROVE  Detected(a)
      BY DEF ReadersAreFound
    <2>1. Follows(a) /\ in \in Inputs /\ list = Live
      BY DEF Tracked
    <2>2. ReadsChanged(a)
      BY <2>1, ReadsMatch
    <2>3. IsAppAffected(a)
      BY <2>2 DEF IsAppAffected, ReadsChanged
    <2>4. QED
      BY <2>1, <2>2, <2>3 DEF Follows
  <1>2. QED
    BY <1>1, AlwaysTracked, PTL

================================================================================
