------------------------------ MODULE Induction ------------------------------
(***************************************************************************)
(* For the proofs about loops, running sums, sequences and trees: what the *)
(* proofs of several modules, or of several parts of one, share.  First    *)
(* induction over an interval of numbers and the existence of functions    *)
(* defined by recursion over one.  Both are stated with sets in place of   *)
(* predicates and of definitions of a next value, so that each use only    *)
(* instantiates a constant.  The root is that every set of numbers has a   *)
(* least element.  Then what follows for sequences: their prefixes, what   *)
(* is appended, FlattenSeq, members mapped and picked; and recursion by    *)
(* levels, as trees need it.                                               *)
(***************************************************************************)
EXTENDS Integers, Sequences, SequencesExt, SequenceTheorems, WellFoundedInduction, TLAPS

(* f is defined from a on, each value by a step from the one before it.    *)
Follows(f, step, a, b) == \A n \in a + 1..b : f[n] = step[n][f[n - 1]]

(* The same from b down to a.                                              *)
FollowsDown(f, step, a, b) == \A n \in a..b - 1 : f[n] = step[n][f[n + 1]]

(* Between a and b, H contains the successor of each of its elements.      *)
Inductive(H, a, b) == \A n \in a..b - 1 : n \in H => n + 1 \in H

(* Between a and b, H contains the predecessor of each of its elements.    *)
InductiveDown(H, a, b) == \A n \in a + 1..b : n \in H => n - 1 \in H

(* H contains whatever has all greater numbers up to b in H.               *)
Backward(H, a, b) == \A n \in a..b : (\A m \in n + 1..b : m \in H) => n \in H

(* f is at each number from a to b what step makes of f.                   *)
FollowsAbove(f, step, a, b) == \A n \in a..b : f[n] = step[n][f]

(* At each n, step makes an element of S of a function from a..b, of which *)
(* it looks only at what it is above n.                                    *)
LooksAbove(step, S, a, b) ==
    /\ step \in [a..b -> [[a..b -> S] -> S]]
    /\ \A n \in a..b : \A g, h \in [a..b -> S] :
           (\A m \in n + 1..b : g[m] = h[m]) => step[n][g] = step[n][h]

(* A set of natural numbers has a least element.                           *)
LEMMA LeastElement ==
    ASSUME NEW T \in SUBSET Nat, T # {}
    PROVE  \E m \in T : \A k \in T : m <= k
<1>1. \E m \in T : \A k \in T : ~(<<k, m>> \in OpToRel(<, Nat))
  BY WFMin, NatLessThanWellFounded, Zenon
<1>2. PICK m \in T : \A k \in T : ~(<<k, m>> \in OpToRel(<, Nat))
  BY <1>1
<1>3. ASSUME NEW k \in T PROVE ~(k < m)
  BY <1>2, Zenon DEF OpToRel
<1> QED
  BY <1>3

(* What holds at a and passes to successors holds up to b.                 *)
LEMMA UpTo ==
    ASSUME NEW a \in Int, NEW b \in Int, NEW H, a \in H, Inductive(H, a, b)
    PROVE  \A n \in a..b : n \in H
<1> DEFINE T == {n \in Nat : a + n <= b /\ a + n \notin H}
<1>1. T \in SUBSET Nat
  OBVIOUS
<1>2. ASSUME NEW n \in a..b, n \notin H PROVE n - a \in T
  BY <1>2
<1> HIDE DEF T
<1>3. ASSUME T # {} PROVE FALSE
  <2>1. PICK m \in T : \A k \in T : m <= k
    BY <1>1, <1>3, LeastElement
  <2>2. m \in Nat /\ a + m <= b /\ a + m \notin H
    BY <2>1 DEF T
  <2>3. m # 0
    BY <2>2
  <2>4. m - 1 \in Nat /\ m - 1 \notin T
    BY <1>1, <2>1, <2>2, <2>3
  <2>5. a + (m - 1) \in H
    BY <2>2, <2>4 DEF T, Inductive
  <2> QED
    BY <2>2, <2>3, <2>5 DEF Inductive
<1> QED
  BY <1>2, <1>3

(* What holds at b and passes to predecessors holds down to a.             *)
LEMMA DownTo ==
    ASSUME NEW a \in Int, NEW b \in Int, NEW H, b \in H, InductiveDown(H, a, b)
    PROVE  \A n \in a..b : n \in H
<1> DEFINE G == {m \in a..b : a + b - m \in H}
<1>1. ASSUME a <= b PROVE a \in G
  BY <1>1
<1>2. ASSUME NEW m \in a..b - 1, m \in G PROVE m + 1 \in G
  <2>1. a + b - m \in a + 1..b /\ a + b - m \in H /\ m + 1 \in a..b
    BY <1>2
  <2>2. (a + b - m) - 1 \in H
    BY <2>1 DEF InductiveDown
  <2> QED
    BY <2>1, <2>2
<1>3. Inductive(G, a, b)
  BY <1>2 DEF Inductive
<1> HIDE DEF G
<1>4. ASSUME a <= b PROVE \A m \in a..b : m \in G
  BY <1>1, <1>3, <1>4, UpTo
<1>5. ASSUME NEW n \in a..b PROVE n \in H
  <2>1. a + b - n \in a..b
    OBVIOUS
  <2>2. a + b - n \in G
    BY <1>4, <2>1
  <2> QED
    BY <2>2 DEF G
<1> QED
  BY <1>5

(* What follows from its holding for all greater numbers holds throughout. *)
LEMMA FromAbove ==
    ASSUME NEW a \in Int, NEW b \in Int, NEW H, Backward(H, a, b)
    PROVE  \A n \in a..b : n \in H
<1> DEFINE T == {k \in Nat : a <= b - k /\ b - k \notin H}
<1>1. T \in SUBSET Nat
  OBVIOUS
<1>2. ASSUME NEW n \in a..b, n \notin H PROVE b - n \in T
  <2>1. b - n \in Nat /\ b - (b - n) = n
    OBVIOUS
  <2> QED
    BY <1>2, <2>1
<1>3. ASSUME T # {} PROVE FALSE
  <2> HIDE DEF T
  <2>1. PICK m \in T : \A k \in T : m <= k
    BY <1>1, <1>3, LeastElement
  <2> DEFINE n == b - m
  <2>2. m \in Nat /\ n \in a..b /\ n \notin H
    BY <2>1 DEF T
  <2>3. ASSUME NEW l \in n + 1..b, l \notin H PROVE FALSE
    <3>1. l \in a..b /\ b - l < m
      BY <2>2
    <3>2. b - l \in T
      BY <1>2, <2>3, <3>1
    <3> QED
      BY <1>1, <2>1, <2>2, <3>1, <3>2
  <2> HIDE DEF n
  <2>4. n \in H
    BY <2>2, <2>3 DEF Backward
  <2> QED
    BY <2>2, <2>4
<1> QED
  BY <1>2, <1>3

(* A loop from a up to b has states: its steps define a function.          *)
LEMMA Recursion ==
    ASSUME NEW a \in Int, NEW b \in Int, NEW S, NEW z \in S,
           NEW step \in [a + 1..b -> [S -> S]], a <= b
    PROVE  \E f \in [a..b -> S] : f[a] = z /\ Follows(f, step, a, b)
<1> DEFINE Good(f, n) == f[a] = z /\ Follows(f, step, a, n)
           H == {n \in a..b : \E f \in [a..n -> S] : Good(f, n)}
<1>1. a \in H
  <2>1. [k \in a..a |-> z] \in [a..a -> S] /\ Good([k \in a..a |-> z], a)
    BY DEF Follows
  <2>2. a \in a..b
    OBVIOUS
  <2> HIDE DEF Good
  <2>3. \E f \in [a..a -> S] : Good(f, a)
    BY <2>1
  <2> QED
    BY <2>2, <2>3
<1>2. ASSUME NEW n \in a..b - 1, n \in H PROVE n + 1 \in H
  <2>1. PICK f \in [a..n -> S] : Good(f, n)
    BY <1>2
  <2> DEFINE g == [k \in a..n + 1 |-> IF k <= n THEN f[k] ELSE step[n + 1][f[n]]]
  <2>2. g \in [a..n + 1 -> S]
    <3>1. f[n] \in S /\ n + 1 \in a + 1..b
      OBVIOUS
    <3>2. step[n + 1][f[n]] \in S
      BY <3>1
    <3> QED
      BY <3>2
  <2>3. \A k \in a..n : g[k] = f[k]
    OBVIOUS
  <2>4. g[n + 1] = step[n + 1][f[n]]
    OBVIOUS
  <2> HIDE DEF g
  <2>5. Good(g, n + 1)
    <3>1. g[a] = z
      BY <2>1, <2>3
    <3>2. ASSUME NEW k \in a + 1..n + 1 PROVE g[k] = step[k][g[k - 1]]
      <4>1. CASE k = n + 1
        BY <4>1, <2>3, <2>4
      <4>2. CASE k # n + 1
        <5>1. k \in a + 1..n /\ k - 1 \in a..n /\ k \in a..n
          BY <4>2
        <5> QED
          BY <5>1, <2>1, <2>3 DEF Follows
      <4> QED
        BY <4>1, <4>2
    <3> QED
      BY <3>1, <3>2 DEF Follows
  <2>6. n + 1 \in a..b
    OBVIOUS
  <2> QED
    BY <2>2, <2>5, <2>6
<1> HIDE DEF H
<1>3. \A n \in a..b : n \in H
  BY <1>1, <1>2, UpTo DEF Inductive
<1>4. b \in H
  BY <1>3
<1> QED
  BY <1>4 DEF H

(* So has a loop from b down to a.                                         *)
LEMMA RecursionDown ==
    ASSUME NEW a \in Int, NEW b \in Int, NEW S, NEW z \in S,
           NEW step \in [a..b - 1 -> [S -> S]], a <= b
    PROVE  \E f \in [a..b -> S] : f[b] = z /\ FollowsDown(f, step, a, b)
<1> DEFINE up == [n \in a + 1..b |-> step[a + b - n]]
<1>1. \A n \in a + 1..b : up[n] = step[a + b - n]
  OBVIOUS
<1>2. up \in [a + 1..b -> [S -> S]]
  OBVIOUS
<1> HIDE DEF up
<1>3. PICK g \in [a..b -> S] : g[a] = z /\ Follows(g, up, a, b)
  BY <1>2, Recursion
<1> DEFINE f == [n \in a..b |-> g[a + b - n]]
<1>4. f \in [a..b -> S]
  OBVIOUS
<1>5. f[b] = z
  <2>1. a + b - b = a
    OBVIOUS
  <2> QED
    BY <1>3, <2>1
<1>6. ASSUME NEW n \in a..b - 1 PROVE f[n] = step[n][f[n + 1]]
  <2>1. a + b - n \in a + 1..b /\ a + b - (a + b - n) = n
    OBVIOUS
  <2>2. g[a + b - n] = step[n][g[(a + b - n) - 1]]
    BY <1>1, <1>3, <2>1 DEF Follows
  <2>3. f[n] = g[a + b - n] /\ f[n + 1] = g[a + b - (n + 1)]
    OBVIOUS
  <2>4. a + b - (n + 1) = (a + b - n) - 1
    OBVIOUS
  <2> QED
    BY <2>2, <2>3, <2>4
<1>7. FollowsDown(f, step, a, b)
  BY <1>6 DEF FollowsDown
<1> HIDE DEF f
<1> QED
  BY <1>4, <1>5, <1>7

(* A function on a..b that is at each number what a step makes of all it   *)
(* is at greater ones.                                                     *)
LEMMA RecursionAbove ==
    ASSUME NEW a \in Int, NEW b \in Int, NEW S, NEW z \in S,
           NEW step, LooksAbove(step, S, a, b), a <= b
    PROVE  \E f \in [a..b -> S] : FollowsAbove(f, step, a, b)
<1>0. step \in [a..b -> [[a..b -> S] -> S]]
  BY Zenon DEF LooksAbove
<1> DEFINE G == [a..b -> S]
           put == [n \in a..b |-> [g \in G |-> [g EXCEPT ![n] = step[n][g]]]]
           none == [n \in a..b |-> z]
<1>1. none \in G
  OBVIOUS
<1>2. ASSUME NEW n \in a..b, NEW g \in G
      PROVE  /\ put[n][g] \in G
             /\ put[n][g][n] = step[n][g]
             /\ \A m \in a..b : m # n => put[n][g][m] = g[m]
  <2>1. step[n][g] \in S
    BY <1>0
  <2> QED
    BY <2>1
<1>3. put \in [a..b -> [G -> G]]
  <2>1. ASSUME NEW n \in a..b PROVE put[n] \in [G -> G]
    BY <1>2
  <2> QED
    BY <2>1
<1>4. (b + 1) - 1 = b /\ a <= b + 1 /\ b + 1 \in Int
  OBVIOUS
<1> HIDE DEF put, none
<1>5. PICK F \in [a..b + 1 -> G] : F[b + 1] = none /\ FollowsDown(F, put, a, b + 1)
  <2> HIDE DEF G
  <2> DEFINE c == b + 1
  <2>1. c \in Int /\ a <= c /\ put \in [a..c - 1 -> [G -> G]] /\ none \in G
    BY <1>1, <1>3, <1>4
  <2> HIDE DEF c
  <2>2. \E F \in [a..c -> G] : F[c] = none /\ FollowsDown(F, put, a, c)
    BY <2>1, RecursionDown
  <2> QED
    BY <2>2 DEF c
<1>6. ASSUME NEW n \in a..b PROVE F[n] = put[n][F[n + 1]] /\ F[n + 1] \in G /\ F[n] \in G
  <2> HIDE DEF G
  <2>1. n \in a..(b + 1) - 1 /\ n \in a..b + 1 /\ n + 1 \in a..b + 1
    BY <1>4
  <2>2. F[n] = put[n][F[n + 1]]
    BY <1>5, <2>1, Zenon DEF FollowsDown
  <2> QED
    BY <2>1, <2>2
<1> DEFINE f == [n \in a..b |-> F[n][n]]
           H == {n \in a..b + 1 : \A m \in n..b : F[n][m] = f[m]}
<1>7. f \in G /\ \A n \in a..b : f[n] = F[n][n]
  BY <1>6
<1> HIDE DEF f, G
<1>8. b + 1 \in H
  OBVIOUS
<1>9. ASSUME NEW n \in a + 1..b + 1, n \in H PROVE n - 1 \in H
  <2>1. n - 1 \in a..b /\ (n - 1) + 1 = n /\ n - 1 \in a..b + 1
    OBVIOUS
  <2>2. F[n - 1] = put[n - 1][F[n]] /\ F[n] \in G
    BY <1>6, <2>1
  <2>3. ASSUME NEW m \in n - 1..b PROVE F[n - 1][m] = f[m]
    <3>1. CASE m = n - 1
      BY <1>7, <2>1, <3>1
    <3>2. CASE m # n - 1
      <4>1. m \in n..b /\ m \in a..b
        BY <3>2
      <4>2. F[n - 1][m] = F[n][m]
        BY <1>2, <2>1, <2>2, <3>2, <4>1
      <4>3. F[n][m] = f[m]
        BY <1>9, <4>1
      <4> QED
        BY <4>2, <4>3
    <3> QED
      BY <3>1, <3>2
  <2> QED
    BY <2>1, <2>3
<1>10. \A n \in a..b + 1 : n \in H
  <2>1. InductiveDown(H, a, b + 1)
    BY <1>9 DEF InductiveDown
  <2> HIDE DEF H
  <2> QED
    BY <1>4, <1>8, <2>1, DownTo
<1>11. ASSUME NEW n \in a..b PROVE f[n] = step[n][f]
  <2>1. n + 1 \in a..b + 1
    OBVIOUS
  <2>2. \A m \in n + 1..b : F[n + 1][m] = f[m]
    BY <1>10, <2>1
  <2>3. F[n + 1] \in G /\ F[n] = put[n][F[n + 1]]
    BY <1>6
  <2>4. step[n][F[n + 1]] = step[n][f]
    BY <1>7, <2>2, <2>3 DEF LooksAbove, G
  <2> QED
    BY <1>2, <1>7, <2>3, <2>4
<1> QED
  BY <1>7, <1>11 DEF G, FollowsAbove
-----------------------------------------------------------------------------
(* A greatest number                                                       *)

(* A set of numbers up to w has a greatest element.                        *)
LEMMA MaxOf ==
    ASSUME NEW w \in Nat, NEW T \in SUBSET (0..w), T # {}
    PROVE  Max(T) \in T /\ \A k \in T : k <= Max(T)
<1> DEFINE D == {w - k : k \in T}
<1>1. D \in SUBSET Nat /\ D # {}
  <2>1. PICK k \in T : TRUE
    OBVIOUS
  <2>2. w - k \in D
    BY <2>1
  <2> QED
    BY <2>2
<1>2. PICK m \in D : \A d \in D : m <= d
  BY <1>1, LeastElement
<1>3. PICK x \in T : m = w - x
  BY <1>2
<1>4. ASSUME NEW k \in T PROVE x >= k
  <2>1. w - k \in D
    OBVIOUS
  <2>2. w - x <= w - k
    BY <1>2, <1>3, <2>1
  <2> QED
    BY <1>3, <2>2
<1>5. \E y \in T : \A k \in T : y >= k
  BY <1>4
<1>6. Max(T) \in T /\ \A k \in T : Max(T) >= k
  BY <1>5, Zenon DEF Max
<1>7. \A k \in T : k \in Int
  OBVIOUS
<1> QED
  BY <1>6, <1>7

-----------------------------------------------------------------------------
(* Sequences, their prefixes and the rest of one                           *)

(* Appending is adding a sequence of one.                                  *)
LEMMA AppendIs ==
    ASSUME NEW S, NEW s \in Seq(S), NEW x \in S
    PROVE  Append(s, x) = s \o <<x>>
<1> DEFINE t == Append(s, x)
           u == s \o <<x>>
           n == Len(s)
<1>1. t \in Seq(S) /\ u \in Seq(S) /\ Len(t) = n + 1 /\ Len(u) = n + 1
  OBVIOUS
<1>2. \A i \in 1..n + 1 : t[i] = u[i]
  OBVIOUS
<1> HIDE DEF t, u
<1>3. t = u
  BY <1>1, <1>2, SeqEqual
<1> QED
  BY <1>3 DEF t, u

(* What was appended to is not empty.                                      *)
LEMMA AppendNotEmpty ==
    ASSUME NEW S, NEW s \in Seq(S), NEW x \in S
    PROVE  Append(s, x) # <<>>
<1>1. Len(Append(s, x)) = Len(s) + 1 /\ Len(s) \in Nat
  BY AppendProperties
<1>2. Len(<<>>) = 0
  OBVIOUS
<1> QED
  BY <1>1, <1>2

(* The last member is the one appended.                                    *)
LEMMA LastIs ==
    ASSUME NEW S, NEW s \in Seq(S), NEW x \in S
    PROVE  /\ Append(s, x) \in Seq(S) /\ Append(s, x) # <<>> /\ Last(Append(s, x)) = x
<1> DEFINE t == Append(s, x)
           n == Len(s) + 1
<1>1. t \in Seq(S) /\ t # <<>> /\ Len(t) = n /\ t[n] = x
  BY AppendProperties
<1> HIDE DEF t, n
<1>2. Last(t) = x
  BY <1>1 DEF Last
<1> QED
  BY <1>1, <1>2 DEF t

(* The text from its n-th character on, as a line that starts there.       *)
Rest(text, n) == SubSeq(text, n + 1, Len(text))

(* The rest of a sequence, member by member.                               *)
LEMMA RestIs ==
    ASSUME NEW S, NEW text \in Seq(S), NEW n \in 0..Len(text)
    PROVE  /\ Rest(text, n) \in Seq(S)
           /\ Len(Rest(text, n)) = Len(text) - n
           /\ \A k \in 1..Len(text) - n : Rest(text, n)[k] = text[n + k]
           /\ Rest(text, n) = <<>> <=> n = Len(text)
<1> DEFINE r == Rest(text, n)
<1>1. Len(text) \in Nat /\ n \in Nat /\ n + 1 \in Int /\ Len(text) \in Int
  OBVIOUS
<1>2. \A i \in n + 1..Len(text) : text[i] \in S
  BY <1>1, ElementOfSeq
<1>3. /\ r \in Seq(S)
      /\ Len(r) = IF n + 1 <= Len(text) THEN Len(text) - (n + 1) + 1 ELSE 0
      /\ \A i \in 1..Len(text) - (n + 1) + 1 : r[i] = text[(n + 1) + i - 1]
  <2> DEFINE m == n + 1
             l == Len(text)
  <2>1. m \in Int /\ l \in Int /\ \A i \in m..l : text[i] \in S
    BY <1>1, <1>2
  <2>2. r = SubSeq(text, m, l)
    BY DEF Rest
  <2> HIDE DEF m, l, r
  <2>3. /\ r \in Seq(S)
        /\ Len(r) = IF m <= l THEN l - m + 1 ELSE 0
        /\ \A i \in 1..l - m + 1 : r[i] = text[m + i - 1]
    BY <2>1, <2>2, SubSeqProperties
  <2> QED
    BY <2>3 DEF m, l
<1>4. r = <<>> <=> Len(r) = 0
  BY <1>3, EmptySeq
<1> HIDE DEF r
<1>5. Len(r) = Len(text) - n
  BY <1>1, <1>3
<1>6. ASSUME NEW k \in 1..Len(text) - n PROVE r[k] = text[n + k]
  <2>1. k \in 1..Len(text) - (n + 1) + 1 /\ (n + 1) + k - 1 = n + k
    BY <1>1
  <2>2. r[k] = text[(n + 1) + k - 1]
    BY <1>3, <2>1
  <2> QED
    BY <2>1, <2>2
<1>7. r = <<>> <=> n = Len(text)
  BY <1>1, <1>4, <1>5
<1> QED
  BY <1>3, <1>5, <1>6, <1>7 DEF r

(* A part of the text.                                                     *)
LEMMA PieceIs ==
    ASSUME NEW S, NEW text \in Seq(S), NEW a \in 0..Len(text), NEW b \in 0..Len(text), a <= b
    PROVE  /\ SubSeq(text, a + 1, b) \in Seq(S)
           /\ Len(SubSeq(text, a + 1, b)) = b - a
           /\ \A k \in 1..b - a : SubSeq(text, a + 1, b)[k] = text[a + k]
<1> DEFINE e == a + 1
<1>1. a \in Nat /\ b \in Nat /\ e \in Int /\ \A i \in e..b : text[i] \in S
  BY ElementOfSeq
<1> HIDE DEF e
<1>2. /\ SubSeq(text, e, b) \in Seq(S)
      /\ Len(SubSeq(text, e, b)) = IF e <= b THEN b - e + 1 ELSE 0
      /\ \A i \in 1..b - e + 1 : SubSeq(text, e, b)[i] = text[e + i - 1]
  BY <1>1, SubSeqProperties
<1>3. (IF e <= b THEN b - e + 1 ELSE 0) = b - a
  BY <1>1 DEF e
<1>4. ASSUME NEW k \in 1..b - a PROVE k \in 1..b - e + 1 /\ e + k - 1 = a + k
  BY <1>1 DEF e
<1>5. ASSUME NEW k \in 1..b - a PROVE SubSeq(text, e, b)[k] = text[a + k]
  <2>1. SubSeq(text, e, b)[k] = text[e + k - 1]
    BY <1>2, <1>4
  <2> QED
    BY <1>4, <2>1
<1> QED
  BY <1>2, <1>3, <1>5 DEF e

(* The first n elements.                                                   *)
Prefix(s, n) == [i \in 1..n |-> s[i]]

(* A prefix, member by member.                                             *)
LEMMA PrefixIs ==
    ASSUME NEW S, NEW s \in Seq(S), NEW n \in 0..Len(s)
    PROVE  /\ Prefix(s, n) \in Seq(S) /\ Len(Prefix(s, n)) = n
           /\ \A i \in 1..n : Prefix(s, n)[i] = s[i]
<1>1. n \in Nat /\ \A i \in 1..n : s[i] \in S
  BY ElementOfSeq
<1> QED
  BY <1>1 DEF Prefix

(* The longest and the shortest prefix.                                    *)
LEMMA PrefixAll ==
    ASSUME NEW S, NEW s \in Seq(S)
    PROVE  Prefix(s, Len(s)) = s /\ Prefix(s, 0) = <<>>
<1>1. Len(s) \in Nat /\ Len(s) \in 0..Len(s) /\ 0 \in 0..Len(s)
  OBVIOUS
<1> DEFINE p == Prefix(s, Len(s))
           q == Prefix(s, 0)
<1>2. p \in Seq(S) /\ Len(p) = Len(s) /\ \A i \in 1..Len(s) : p[i] = s[i]
  BY <1>1, PrefixIs
<1>3. q \in Seq(S) /\ Len(q) = 0
  BY <1>1, PrefixIs
<1> HIDE DEF p, q
<1>4. p = s
  BY <1>2, SeqEqual
<1>5. q = <<>>
  BY <1>3, EmptySeq
<1> QED
  BY <1>4, <1>5 DEF p, q

(* The next prefix has one member more.                                    *)
LEMMA PrefixNext ==
    ASSUME NEW S, NEW s \in Seq(S), NEW n \in 1..Len(s)
    PROVE  Prefix(s, n) = Append(Prefix(s, n - 1), s[n])
<1> DEFINE p == Prefix(s, n)
           q == Prefix(s, n - 1)
           r == Append(q, s[n])
<1>1. Len(s) \in Nat /\ n \in 0..Len(s) /\ n - 1 \in 0..Len(s) /\ s[n] \in S
  BY ElementOfSeq
<1>2. p \in Seq(S) /\ Len(p) = n /\ \A i \in 1..n : p[i] = s[i]
  BY <1>1, PrefixIs
<1>3. q \in Seq(S) /\ Len(q) = n - 1 /\ \A i \in 1..n - 1 : q[i] = s[i]
  BY <1>1, PrefixIs
<1> HIDE DEF p, q
<1>4. /\ r \in Seq(S) /\ Len(r) = (n - 1) + 1 /\ \A i \in 1..n - 1 : r[i] = q[i]
      /\ r[(n - 1) + 1] = s[n]
  BY <1>1, <1>3, AppendProperties
<1>5. (n - 1) + 1 = n
  BY <1>1
<1> HIDE DEF r
<1>6. ASSUME NEW i \in 1..n PROVE p[i] = r[i]
  <2>1. i = n \/ i \in 1..n - 1
    BY <1>1
  <2> QED
    BY <1>2, <1>3, <1>4, <1>5, <2>1
<1>7. p = r
  BY <1>2, <1>4, <1>5, <1>6, SeqEqual
<1> QED
  BY <1>7 DEF p, q, r

(* The top of the stack and what is under it.                              *)
LEMMA TopIs ==
    ASSUME NEW S, NEW s \in Seq(S), s # <<>>
    PROVE  /\ Front(s) \in Seq(S) /\ Last(s) \in S /\ Len(s) \in Nat \ {0}
           /\ Len(Front(s)) = Len(s) - 1
           /\ \A i \in 1..Len(s) - 1 : Front(s)[i] = s[i]
           /\ s = Append(Front(s), Last(s))
<1> DEFINE n == Len(s)
           p == Front(s)
           q == Append(p, s[n])
<1>1. n \in Nat \ {0} /\ n - 1 \in Int /\ \A i \in 1..n : s[i] \in S
  BY EmptySeq, ElementOfSeq
<1>2. p \in Seq(S) /\ Len(p) = n - 1 /\ \A i \in 1..n - 1 : p[i] = s[i]
  <2> DEFINE m == n - 1
             one == 1
  <2>1. p = SubSeq(s, one, m) /\ m \in Int /\ one \in Int /\ \A i \in one..m : s[i] \in S
    BY <1>1 DEF Front
  <2> HIDE DEF p, m, one
  <2>2. /\ p \in Seq(S) /\ Len(p) = IF one <= m THEN m - one + 1 ELSE 0
        /\ \A i \in 1..m - one + 1 : p[i] = s[one + i - 1]
    BY <2>1, SubSeqProperties
  <2> QED
    <3>1. n - 1 = m - one + 1 /\ (~(one <= m) => n - 1 = 0)
      <4>1. n \in Nat \ {0} /\ m = n - 1 /\ one = 1
        BY <1>1 DEF m, one
      <4> HIDE DEF n
      <4> QED
        BY <4>1
    <3>2. Len(p) = n - 1
      BY <2>2, <3>1
    <3>3. ASSUME NEW i \in 1..n - 1 PROVE p[i] = s[i]
      <4>1. i \in 1..m - one + 1 /\ one + i - 1 = i
        BY <1>1 DEF m, one
      <4> QED
        BY <2>2, <4>1
    <3> QED
      BY <2>2, <3>2, <3>3
<1>3. s[n] \in S /\ Last(s) = s[n]
  BY <1>1 DEF Last
<1> HIDE DEF p, n
<1>4. q \in Seq(S) /\ Len(q) = (n - 1) + 1 /\ q[(n - 1) + 1] = s[n] /\ \A i \in 1..n - 1 : q[i] = p[i]
  BY <1>2, <1>3, AppendProperties
<1>5. (n - 1) + 1 = n
  BY <1>1
<1> HIDE DEF q
<1>6. ASSUME NEW i \in 1..n PROVE s[i] = q[i]
  <2>1. i = n \/ i \in 1..n - 1
    BY <1>1
  <2> QED
    BY <1>2, <1>4, <1>5, <2>1
<1>7. s = q
  BY <1>4, <1>5, <1>6, SeqEqual DEF n
<1> QED
  BY <1>1, <1>2, <1>3, <1>7 DEF p, q, n

(* What is appended to the second of two is appended to both.              *)
LEMMA ConcatAppend ==
    ASSUME NEW S, NEW s \in Seq(S), NEW t \in Seq(S), NEW x \in S
    PROVE  s \o Append(t, x) = Append(s \o t, x)
<1> DEFINE u == <<x>>
           v == s \o t
<1>1. u \in Seq(S)
  OBVIOUS
<1>2. v \in Seq(S)
  BY ConcatProperties
<1>3. Append(t, x) = t \o u
  BY AppendIs
<1> HIDE DEF v
<1>4. Append(v, x) = v \o u
  BY <1>2, AppendIs
<1> HIDE DEF u
<1>5. (s \o t) \o u = s \o (t \o u)
  BY <1>1, ConcatAssociative
<1> QED
  BY <1>3, <1>4, <1>5 DEF v

-----------------------------------------------------------------------------
(* Sequences of sequences                                                  *)

(* g[n] are the first n of the sequences, one after the other.             *)
Joins(g, seqs) ==
    /\ g[0] = <<>>
    /\ \A n \in 1..Len(seqs) : g[n] = g[n - 1] \o seqs[n]

(* FlattenSeq joins the sequences from the first on.                       *)
LEMMA FlattenIs ==
    ASSUME NEW S, NEW seqs \in Seq(Seq(S))
    PROVE  \E g \in [0..Len(seqs) -> Seq(S)] : Joins(g, seqs) /\ FlattenSeq(seqs) = g[Len(seqs)]
<1> DEFINE N == Len(seqs)
           Q == Seq(S)
           step == [n \in 1..N |-> [s \in Q |-> s \o seqs[n]]]
<1>1. N \in Nat /\ 0 \in Int /\ N \in Int /\ 0 <= N
  OBVIOUS
<1>2. <<>> \in Q
  OBVIOUS
<1>3. \A n \in 1..N : seqs[n] \in Q
  OBVIOUS
<1>4. ASSUME NEW n \in 1..N, NEW s \in Q PROVE s \o seqs[n] \in Q
  BY <1>3, ConcatProperties
<1>5. \A n \in 1..N : \A s \in Q : step[n][s] = s \o seqs[n]
  OBVIOUS
<1>6. step \in [1..N -> [Q -> Q]]
  <2> HIDE DEF Q
  <2>1. ASSUME NEW n \in 1..N PROVE [s \in Q |-> s \o seqs[n]] \in [Q -> Q]
    BY <1>4
  <2> QED
    BY <2>1
<1> HIDE DEF step
<1>7. PICK g \in [0..N -> Q] : g[0] = <<>> /\ Follows(g, step, 0, N)
  <2> DEFINE a == 0
             b == 1
  <2>1. a + 1 = b
    OBVIOUS
  <2>2. step \in [a + 1..N -> [Q -> Q]]
    BY <1>6, <2>1
  <2> HIDE DEF Q, N, b
  <2>3. a \in Int /\ N \in Int /\ a <= N
    BY <1>1
  <2> HIDE DEF a
  <2>4. \E g \in [a..N -> Q] : g[a] = <<>> /\ Follows(g, step, a, N)
    BY <1>2, <2>2, <2>3, Recursion
  <2> QED
    BY <2>4 DEF a
<1>8. ASSUME NEW n \in 1..N PROVE g[n] = g[n - 1] \o seqs[n]
  <2>1. n \in 0 + 1..N /\ n - 1 \in 0..N
    OBVIOUS
  <2>2. g[n] = step[n][g[n - 1]]
    BY <1>7, <2>1, Zenon DEF Follows
  <2>3. g[n - 1] \in Q
    BY <2>1
  <2> QED
    BY <1>5, <2>2, <2>3
<1>9. Joins(g, seqs)
  BY <1>7, <1>8, Zenon DEF Joins
<1>10. CASE N = 0
  <2>1. FlattenSeq(seqs) = seqs
    BY <1>10, Zenon DEF FlattenSeq
  <2>2. seqs = <<>>
    BY <1>10, EmptySeq
  <2> QED
    BY <1>7, <1>9, <1>10, <2>1, <2>2
<1>11. CASE N # 0
  <2> DEFINE f == [i \in 1..N |-> g[i]]
             flatten[i \in 1..Len(seqs)] == IF i = 1 THEN seqs[i] ELSE flatten[i - 1] \o seqs[i]
             H == {i \in 1..N : flatten[i] = g[i]}
  <2>1. 1 \in 1..N /\ N \in 1..N
    BY <1>1, <1>11
  <2>2. seqs[1] = g[1]
    <3>1. g[1] = g[1 - 1] \o seqs[1]
      BY <1>8, <2>1
    <3>2. g[1 - 1] = <<>> /\ seqs[1] \in Seq(S)
      BY <1>3, <1>7, <2>1
    <3> QED
      BY <3>1, <3>2, ConcatEmptySeq
  <2>3. ASSUME NEW i \in 1..N PROVE f[i] = IF i = 1 THEN seqs[i] ELSE f[i - 1] \o seqs[i]
    <3>1. CASE i = 1
      BY <2>2, <3>1
    <3>2. CASE i # 1
      <4>1. i - 1 \in 1..N
        BY <3>2
      <4>2. f[i] = g[i] /\ f[i - 1] = g[i - 1]
        BY <4>1
      <4> QED
        BY <1>8, <3>2, <4>2
    <3> QED
      BY <3>1, <3>2
  <2>4. f = [i \in 1..N |-> f[i]]
    OBVIOUS
  <2> HIDE DEF f
  <2>5. f = [i \in 1..Len(seqs) |-> IF i = 1 THEN seqs[i] ELSE f[i - 1] \o seqs[i]]
    BY <2>3, <2>4
  <2>6. \E h : h = [i \in 1..Len(seqs) |-> IF i = 1 THEN seqs[i] ELSE h[i - 1] \o seqs[i]]
    BY <2>5
  <2>7. flatten = [i \in 1..Len(seqs) |-> IF i = 1 THEN seqs[i] ELSE flatten[i - 1] \o seqs[i]]
    BY <2>6, Zenon
  <2>8. FlattenSeq(seqs) = flatten[N]
    BY <1>11, Zenon DEF FlattenSeq
  <2> HIDE DEF flatten
  <2>9. \A i \in 1..N : flatten[i] = IF i = 1 THEN seqs[i] ELSE flatten[i - 1] \o seqs[i]
    BY <2>7
  <2>10. 1 \in H
    BY <2>1, <2>2, <2>9
  <2>11. ASSUME NEW n \in 1..N - 1, n \in H PROVE n + 1 \in H
    <3>1. n + 1 \in 1..N /\ n + 1 # 1 /\ (n + 1) - 1 = n
      BY <1>1
    <3>2. flatten[n + 1] = flatten[n] \o seqs[n + 1] /\ g[n + 1] = g[n] \o seqs[n + 1]
      BY <1>8, <2>9, <3>1
    <3> QED
      BY <2>11, <3>1, <3>2
  <2>12. Inductive(H, 1, N)
    BY <2>11, Zenon DEF Inductive
  <2>13. flatten[N] = g[N]
    <3>1. 1 \in Int /\ N \in Int
      BY <1>1
    <3> HIDE DEF H, N
    <3>2. N \in H
      BY <2>1, <2>10, <2>12, <3>1, UpTo
    <3> QED
      BY <3>2 DEF H
  <2> QED
    BY <1>9, <2>8, <2>13
<1> QED
  BY <1>10, <1>11

(* The members of the sequences are those of the flat one.                 *)
LEMMA FlattenType ==
    ASSUME NEW S, NEW seqs \in Seq(Seq(S))
    PROVE  FlattenSeq(seqs) \in Seq(S)
<1>1. PICK g \in [0..Len(seqs) -> Seq(S)] : FlattenSeq(seqs) = g[Len(seqs)]
  BY FlattenIs
<1>2. Len(seqs) \in 0..Len(seqs)
  OBVIOUS
<1> QED
  BY <1>1, <1>2

(* No sequences, no members.                                               *)
LEMMA FlattenEmpty == FlattenSeq(<<>>) = <<>>
  BY DEF FlattenSeq

Agree(s, t, n) == \A i \in 1..n : s[i] = t[i]

(* Joins determines its function up to any place.                          *)
LEMMA JoinsSame ==
    ASSUME NEW S, NEW seqs \in Seq(Seq(S)), NEW more \in Seq(Seq(S)), NEW n \in 0..Len(seqs),
           n <= Len(more), Agree(seqs, more, n),
           NEW g, NEW h, Joins(g, seqs), Joins(h, more)
    PROVE  g[n] = h[n]
<1> DEFINE H == {i \in 0..n : g[i] = h[i]}
<1>1. n \in Nat /\ 0 \in Int /\ n \in Int /\ 0 \in 0..n /\ n \in 0..n /\ Len(seqs) \in Nat /\ Len(more) \in Nat
  OBVIOUS
<1>2. 0 \in H
  BY <1>1 DEF Joins
<1>3. ASSUME NEW i \in 0..n - 1, i \in H PROVE i + 1 \in H
  <2>1. i + 1 \in 1..n /\ i + 1 \in 1..Len(seqs) /\ i + 1 \in 1..Len(more) /\ (i + 1) - 1 = i /\ i + 1 \in 0..n
    BY <1>1
  <2>2. g[i + 1] = g[i] \o seqs[i + 1] /\ h[i + 1] = h[i] \o more[i + 1]
    BY <2>1 DEF Joins
  <2>3. g[i] = h[i] /\ seqs[i + 1] = more[i + 1]
    BY <1>3, <2>1 DEF Agree
  <2> QED
    BY <2>1, <2>2, <2>3
<1>4. Inductive(H, 0, n)
  BY <1>3, Zenon DEF Inductive
<1> HIDE DEF H
<1>5. n \in H
  BY <1>1, <1>2, <1>4, UpTo
<1> QED
  BY <1>5 DEF H

(* Flattening one sequence more.                                           *)
LEMMA FlattenAppend ==
    ASSUME NEW S, NEW seqs \in Seq(Seq(S)), NEW s \in Seq(S)
    PROVE  FlattenSeq(Append(seqs, s)) = FlattenSeq(seqs) \o s
<1> DEFINE more == Append(seqs, s)
           n == Len(seqs)
<1>1. /\ more \in Seq(Seq(S)) /\ Len(more) = n + 1 /\ more[n + 1] = s
      /\ \A i \in 1..n : seqs[i] = more[i]
  BY AppendProperties
<1> HIDE DEF more
<1>2. n \in Nat
  OBVIOUS
<1>3. PICK g \in [0..n -> Seq(S)] : Joins(g, seqs) /\ FlattenSeq(seqs) = g[n]
  BY FlattenIs
<1>4. PICK h \in [0..Len(more) -> Seq(S)] : Joins(h, more) /\ FlattenSeq(more) = h[Len(more)]
  BY <1>1, FlattenIs
<1>5. g[n] = h[n]
  <2>1. n \in 0..Len(seqs) /\ n <= Len(more)
    BY <1>1, <1>2
  <2>2. Agree(seqs, more, n)
    BY <1>1 DEF Agree
  <2>3. Joins(g, seqs) /\ Joins(h, more) /\ more \in Seq(Seq(S)) /\ seqs \in Seq(Seq(S))
    BY <1>1, <1>3, <1>4
  <2>4. n <= Len(more)
    BY <2>1
  <2> HIDE DEF n
  <2>5. n \in 0..Len(seqs)
    BY <2>1
  <2> QED
    BY <2>2, <2>3, <2>4, <2>5, JoinsSame
<1>6. h[n + 1] = h[n] \o s
  <2>1. n + 1 \in 1..Len(more) /\ (n + 1) - 1 = n
    BY <1>1, <1>2
  <2> QED
    BY <1>1, <1>4, <2>1 DEF Joins
<1> QED
  BY <1>1, <1>3, <1>4, <1>5, <1>6 DEF more

(* What is written for a code, character by character.                     *)
LEMMA JoinTwo ==
    ASSUME NEW p, NEW q, NEW a, NEW b, NEW z, NEW d, d = <<a, b>>
    PROVE  (<<p, q>> \o d) \o <<z>> = <<p, q, a, b, z>>
<1> DEFINE s == (<<p, q>> \o <<a, b>>) \o <<z>>
           t == <<p, q, a, b, z>>
           S == {p, q, a, b, z}
<1>1. s \in Seq(S) /\ t \in Seq(S)
  OBVIOUS
<1>2. \A i \in 1..5 : s[i] = t[i]
  OBVIOUS
<1>3. Len(s) = 5 /\ Len(t) = 5
  OBVIOUS
<1> HIDE DEF s, t
<1>4. s = t
  BY <1>1, <1>2, <1>3, SeqEqual
<1> QED
  BY <1>4 DEF s, t

(* A pair, a triple and an end.                                            *)
LEMMA JoinThree ==
    ASSUME NEW p, NEW q, NEW a, NEW b, NEW c, NEW z, NEW d, d = <<a, b, c>>
    PROVE  (<<p, q>> \o d) \o <<z>> = <<p, q, a, b, c, z>>
<1> DEFINE s == (<<p, q>> \o <<a, b, c>>) \o <<z>>
           t == <<p, q, a, b, c, z>>
           S == {p, q, a, b, c, z}
<1>1. s \in Seq(S) /\ t \in Seq(S)
  OBVIOUS
<1>2. \A i \in 1..6 : s[i] = t[i]
  OBVIOUS
<1>3. Len(s) = 6 /\ Len(t) = 6
  OBVIOUS
<1> HIDE DEF s, t
<1>4. s = t
  BY <1>1, <1>2, <1>3, SeqEqual
<1> QED
  BY <1>4 DEF s, t

-----------------------------------------------------------------------------
(* Sequences that grow at the end                                          *)

(* Append one at a time, or all at once.                                   *)
Appended(s, a, b, c) == Append(Append(Append(s, a), b), c)

Longer(t, s, a, b, c, S) ==
    /\ t \in Seq(S) /\ Len(t) = Len(s) + 3
    /\ \A i \in 1..Len(s) : t[i] = s[i]
    /\ t[Len(s) + 1] = a /\ t[Len(s) + 2] = b /\ t[Len(s) + 3] = c

(* Three appended, member by member.                                       *)
LEMMA AppendedIs ==
    ASSUME NEW S, NEW s \in Seq(S), NEW a \in S, NEW b \in S, NEW c \in S
    PROVE  Longer(Appended(s, a, b, c), s, a, b, c, S)
<1> DEFINE s1 == Append(s, a)
           s2 == Append(s1, b)
           s3 == Append(s2, c)
           n == Len(s)
<1>1. n \in Nat
  OBVIOUS
<1>2. s1 \in Seq(S) /\ Len(s1) = n + 1 /\ s1[n + 1] = a /\ \A i \in 1..n : s1[i] = s[i]
  BY AppendProperties
<1> HIDE DEF s1, n
<1>3. s2 \in Seq(S) /\ Len(s2) = n + 2 /\ s2[n + 2] = b /\ \A i \in 1..n + 1 : s2[i] = s1[i]
  BY <1>1, <1>2, AppendProperties
<1> HIDE DEF s2
<1>4. s3 \in Seq(S) /\ Len(s3) = n + 3 /\ s3[n + 3] = c /\ \A i \in 1..n + 2 : s3[i] = s2[i]
  BY <1>1, <1>3, AppendProperties
<1>5. s3 = Appended(s, a, b, c)
  BY Zenon DEF s1, s2, Appended
<1> HIDE DEF s3
<1> QED
  BY <1>1, <1>2, <1>3, <1>4, <1>5 DEF n, Longer

-----------------------------------------------------------------------------
(* What becomes of each member                                             *)

(* f on each of a sequence.                                                *)
Map(f, s) == [i \in DOMAIN s |-> f[s[i]]]

Into(f, S, T) == \A x \in S : f[x] \in T

(* Functions that agree map alike.                                         *)
LEMMA MapSame ==
    ASSUME NEW S, NEW s \in Seq(S), NEW f, NEW g, \A x \in S : f[x] = g[x]
    PROVE  Map(f, s) = Map(g, s)
<1>1. \A i \in DOMAIN s : s[i] \in S
  OBVIOUS
<1>2. \A i \in DOMAIN s : f[s[i]] = g[s[i]]
  BY <1>1
<1> QED
  BY <1>2 DEF Map

(* A mapped sequence, member by member.                                    *)
LEMMA MapIs ==
    ASSUME NEW S, NEW s \in Seq(S), NEW f
    PROVE  Len(Map(f, s)) = Len(s) /\ \A i \in 1..Len(s) : Map(f, s)[i] = f[s[i]]
<1>1. DOMAIN s = 1..Len(s) /\ Len(s) \in Nat
  OBVIOUS
<1> QED
  BY <1>1 DEF Map

(* The members of a mapped sequence.                                       *)
LEMMA MapType ==
    ASSUME NEW S, NEW T, NEW s \in Seq(S), NEW f, Into(f, S, T)
    PROVE  Map(f, s) \in Seq(T)
<1>1. DOMAIN s = 1..Len(s) /\ Len(s) \in Nat /\ \A i \in 1..Len(s) : s[i] \in S
  OBVIOUS
<1>2. \A i \in 1..Len(s) : f[s[i]] \in T
  BY <1>1 DEF Into
<1> QED
  BY <1>1, <1>2 DEF Map

(* Mapping one member more.                                                *)
LEMMA MapAppend ==
    ASSUME NEW S, NEW s \in Seq(S), NEW x \in S, NEW f
    PROVE  Map(f, Append(s, x)) = Append(Map(f, s), f[x])
<1> DEFINE T == {f[y] : y \in S}
           more == Append(s, x)
           n == Len(s)
           p == Map(f, more)
           m == Map(f, s)
           q == Append(m, f[x])
<1>0. Into(f, S, T)
  BY DEF Into
<1> HIDE DEF T
<1>1. more \in Seq(S) /\ Len(more) = n + 1 /\ more[n + 1] = x /\ \A i \in 1..n : more[i] = s[i]
  BY AppendProperties
<1>2. n \in Nat
  OBVIOUS
<1>3. m \in Seq(T) /\ Len(m) = n /\ \A i \in 1..n : m[i] = f[s[i]]
  BY <1>0, MapType, MapIs
<1> HIDE DEF more
<1>4. p \in Seq(T) /\ Len(p) = n + 1 /\ \A i \in 1..n + 1 : p[i] = f[more[i]]
  <2>1. p \in Seq(T) /\ Len(p) = Len(more) /\ \A i \in 1..Len(more) : p[i] = f[more[i]]
    BY <1>0, <1>1, MapType, MapIs
  <2> QED
    BY <1>1, <2>1
<1> HIDE DEF m, n, p
<1>5. q \in Seq(T) /\ Len(q) = n + 1 /\ q[n + 1] = f[x] /\ \A i \in 1..n : q[i] = m[i]
  BY <1>0, <1>3, AppendProperties DEF Into
<1> HIDE DEF q
<1>6. ASSUME NEW i \in 1..n + 1 PROVE p[i] = q[i]
  <2>1. i = n + 1 \/ i \in 1..n
    BY <1>2
  <2> QED
    BY <1>1, <1>3, <1>4, <1>5, <2>1
<1>7. p = q
  BY <1>4, <1>5, <1>6, SeqEqual
<1> QED
  BY <1>7 DEF p, q, m, more

(* Mapping two sequences.                                                  *)
LEMMA MapConcat ==
    ASSUME NEW S, NEW T, NEW f, Into(f, S, T), NEW a \in Seq(S), NEW b \in Seq(S)
    PROVE  Map(f, a \o b) = Map(f, a) \o Map(f, b)
<1> DEFINE c == a \o b
           p == Map(f, a)
           q == Map(f, b)
           r == Map(f, c)
           s == p \o q
           m == Len(a)
           n == Len(b)
<1>1. /\ c \in Seq(S) /\ Len(c) = m + n
      /\ \A i \in 1..m + n : c[i] = IF i <= m THEN a[i] ELSE b[i - m]
  BY ConcatProperties
<1>2. m \in Nat /\ n \in Nat
  OBVIOUS
<1>3. p \in Seq(T) /\ Len(p) = m /\ \A i \in 1..m : p[i] = f[a[i]]
  BY MapType, MapIs
<1>4. q \in Seq(T) /\ Len(q) = n /\ \A i \in 1..n : q[i] = f[b[i]]
  BY MapType, MapIs
<1> HIDE DEF c
<1>5. r \in Seq(T) /\ Len(r) = m + n /\ \A i \in 1..m + n : r[i] = f[c[i]]
  BY <1>1, MapType, MapIs
<1> HIDE DEF p, q, r, m, n
<1>6. /\ s \in Seq(T) /\ Len(s) = m + n
      /\ \A i \in 1..m + n : s[i] = IF i <= m THEN p[i] ELSE q[i - m]
  <2>1. p \in Seq(T) /\ q \in Seq(T) /\ Len(p) = m /\ Len(q) = n
    BY <1>3, <1>4
  <2>2. /\ s \in Seq(T) /\ Len(s) = Len(p) + Len(q)
        /\ \A i \in 1..Len(p) + Len(q) : s[i] = IF i <= Len(p) THEN p[i] ELSE q[i - Len(p)]
    BY <2>1, ConcatProperties
  <2> HIDE DEF s
  <2> QED
    BY <2>1, <2>2
<1>7. ASSUME NEW i \in 1..m + n PROVE r[i] = s[i]
  <2>1. CASE i <= m
    <3>1. i \in 1..m
      BY <1>2, <2>1
    <3>2. c[i] = a[i] /\ s[i] = p[i]
      BY <1>1, <1>6, <2>1
    <3> HIDE DEF s
    <3> QED
      BY <1>3, <1>5, <3>1, <3>2
  <2>2. CASE ~(i <= m)
    <3> DEFINE k == i - m
    <3>1. k \in 1..n
      BY <1>2, <2>2
    <3>2. c[i] = b[k] /\ s[i] = q[k]
      BY <1>1, <1>6, <2>2
    <3> HIDE DEF s, k
    <3> QED
      BY <1>4, <1>5, <3>1, <3>2
  <2> QED
    BY <2>1, <2>2
<1> HIDE DEF s
<1>8. r = s
  BY <1>5, <1>6, <1>7, SeqEqual
<1> QED
  BY <1>8 DEF c, p, q, r, s

-----------------------------------------------------------------------------
(* The members of a sequence that are in a set                             *)

Pick(T, x) == IF x \in T THEN <<x>> ELSE <<>>
Chosen(s, T) == FlattenSeq([i \in DOMAIN s |-> Pick(T, s[i])])

(* One member, or none.                                                    *)
LEMMA PickIs ==
    ASSUME NEW S, NEW T, NEW x \in S
    PROVE  Pick(T, x) \in Seq(S \cap T)
<1> DEFINE Q == Seq(S \cap T)
           U == S \cap T
<1>1. <<>> \in Q
  OBVIOUS
<1>2. CASE x \in T
  <2>1. x \in U
    BY <1>2
  <2> HIDE DEF U
  <2> QED
    BY <1>2, <2>1 DEF Pick, U
<1> HIDE DEF Q
<1>3. CASE x \notin T
  BY <1>1, <1>3 DEF Pick, Q
<1> QED
  BY <1>2, <1>3

(* Choosing is mapping and flattening.                                     *)
LEMMA ChosenMap ==
    ASSUME NEW S, NEW T, NEW s \in Seq(S)
    PROVE  /\ Chosen(s, T) = FlattenSeq(Map([x \in S |-> Pick(T, x)], s))
           /\ Map([x \in S |-> Pick(T, x)], s) \in Seq(Seq(S \cap T))
           /\ Into([x \in S |-> Pick(T, x)], S, Seq(S \cap T))
<1> DEFINE f == [x \in S |-> Pick(T, x)]
           R == Seq(S \cap T)
<1>1. \A x \in S : f[x] = Pick(T, x) /\ f[x] \in R
  BY PickIs
<1> HIDE DEF f, R
<1>2. \A i \in DOMAIN s : f[s[i]] = Pick(T, s[i])
  <2>1. \A i \in DOMAIN s : s[i] \in S
    OBVIOUS
  <2> QED
    BY <1>1, <2>1
<1>3. Map(f, s) = [i \in DOMAIN s |-> Pick(T, s[i])]
  BY <1>2, Zenon DEF Map
<1>4. Into(f, S, R)
  BY <1>1 DEF Into
<1>5. Map(f, s) \in Seq(R)
  BY <1>4, MapType
<1> QED
  BY <1>3, <1>4, <1>5, Zenon DEF Chosen, f, R

(* What is chosen is in the set.                                           *)
LEMMA ChosenType ==
    ASSUME NEW S, NEW T, NEW s \in Seq(S)
    PROVE  Chosen(s, T) \in Seq(S \cap T) /\ Chosen(s, T) \in Seq(S)
<1> DEFINE m == Map([x \in S |-> Pick(T, x)], s)
           U == S \cap T
<1>1. m \in Seq(Seq(U)) /\ Chosen(s, T) = FlattenSeq(m)
  BY ChosenMap, ZenonT(60)
<1> HIDE DEF m
<1>2. U \subseteq S
  OBVIOUS
<1> HIDE DEF U
<1>3. FlattenSeq(m) \in Seq(U)
  BY <1>1, FlattenType
<1>4. FlattenSeq(m) \in Seq(S)
  BY <1>2, <1>3, SeqMonotonic
<1> QED
  BY <1>1, <1>3, <1>4 DEF U

(* None of none.                                                           *)
LEMMA ChosenNone == \A T : Chosen(<<>>, T) = <<>>
<1>1. ASSUME NEW T PROVE Chosen(<<>>, T) = <<>>
  <2>1. [i \in DOMAIN <<>> |-> Pick(T, <<>>[i])] = <<>>
    OBVIOUS
  <2> QED
    BY <2>1, FlattenEmpty, Zenon DEF Chosen
<1> QED
  BY <1>1

(* Choosing from one member more.                                          *)
LEMMA ChosenAppend ==
    ASSUME NEW S, NEW T, NEW s \in Seq(S), NEW x \in S
    PROVE  /\ x \in T => Chosen(Append(s, x), T) = Append(Chosen(s, T), x)
           /\ x \notin T => Chosen(Append(s, x), T) = Chosen(s, T)
<1> DEFINE f == [y \in S |-> Pick(T, y)]
           U == S \cap T
           R == Seq(U)
           more == Append(s, x)
           m == Map(f, s)
           c == FlattenSeq(m)
<1>1. more \in Seq(S)
  BY AppendProperties
<1>2. Chosen(s, T) = FlattenSeq(Map(f, s)) /\ Map(f, s) \in Seq(R)
  BY ChosenMap
<1>3. Chosen(more, T) = FlattenSeq(Map(f, more))
  <2> HIDE DEF more
  <2> QED
    BY <1>1, ChosenMap
<1>4. f[x] = Pick(T, x) /\ f[x] \in R
  BY PickIs
<1> HIDE DEF f
<1>5. Map(f, more) = Append(Map(f, s), f[x])
  BY MapAppend
<1> HIDE DEF m, more
<1>6. FlattenSeq(Append(m, f[x])) = FlattenSeq(m) \o f[x]
  BY <1>2, <1>4, FlattenAppend DEF m, R
<1>7. c \in Seq(U)
  BY <1>2, FlattenType DEF m
<1>8. Chosen(more, T) = c \o Pick(T, x) /\ Chosen(s, T) = c
  BY <1>2, <1>3, <1>4, <1>5, <1>6 DEF m
<1> HIDE DEF c
<1>9. CASE x \in T
  <2>1. x \in U
    BY <1>9
  <2> HIDE DEF U
  <2>2. c \o <<x>> = Append(c, x)
    BY <1>7, <2>1, AppendIs
  <2> QED
    BY <1>8, <1>9, <2>2 DEF Pick, more
<1>10. CASE x \notin T
  <2> HIDE DEF U
  <2>1. c \o <<>> = c
    BY <1>7, ConcatEmptySeq
  <2> QED
    BY <1>8, <1>10, <2>1 DEF Pick, more
<1> QED
  BY <1>9, <1>10

(* Choosing from two sequences.                                            *)
LEMMA ChosenConcat ==
    ASSUME NEW S, NEW T, NEW a \in Seq(S), NEW b \in Seq(S)
    PROVE  Chosen(a \o b, T) = Chosen(a, T) \o Chosen(b, T)
<1> DEFINE n == Len(b)
           p(i) == Prefix(b, i)
           c == Chosen(a, T)
           H == {i \in 0..n : Chosen(a \o p(i), T) = c \o Chosen(p(i), T)}
<1>1. n \in Nat /\ 0 \in Int /\ n \in Int /\ 0 \in 0..n /\ n \in 0..n
  OBVIOUS
<1>2. c \in Seq(S)
  BY ChosenType
<1>3. 0 \in H
  <2>1. p(0) = <<>>
    BY PrefixAll
  <2>2. a \o <<>> = a /\ c \o <<>> = c
    BY <1>2, ConcatEmptySeq
  <2> HIDE DEF p
  <2>3. Chosen(a \o p(0), T) = c \o Chosen(p(0), T)
    BY <2>1, <2>2, ChosenNone
  <2> HIDE DEF c
  <2> QED
    BY <1>1, <2>3
<1>4. ASSUME NEW i \in 0..n - 1, i \in H PROVE i + 1 \in H
  <2> DEFINE e == i + 1
             x == b[e]
             old == p(i)
             q == a \o old
             d == Chosen(old, T)
  <2>1. e \in 1..n /\ e \in 0..n /\ e - 1 = i /\ i \in 0..n
    BY <1>1
  <2> HIDE DEF e
  <2>2. p(e) = Append(old, x)
    BY <2>1, PrefixNext
  <2>3. x \in S
    BY <2>1, ElementOfSeq
  <2>4. old \in Seq(S)
    BY <2>1, PrefixIs
  <2>5. Chosen(q, T) = c \o d
    BY <1>4
  <2> HIDE DEF x, old, p, c
  <2>6. q \in Seq(S)
    BY <2>4, ConcatProperties
  <2>7. a \o p(e) = Append(q, x)
    BY <2>2, <2>3, <2>4, ConcatAppend
  <2>8. d \in Seq(S)
    BY <2>4, ChosenType
  <2> HIDE DEF q
  <2>9. /\ x \in T => Chosen(Append(q, x), T) = Append(Chosen(q, T), x)
        /\ x \notin T => Chosen(Append(q, x), T) = Chosen(q, T)
    BY <2>3, <2>6, ChosenAppend
  <2>10. /\ x \in T => Chosen(Append(old, x), T) = Append(d, x)
         /\ x \notin T => Chosen(Append(old, x), T) = d
    BY <2>3, <2>4, ChosenAppend
  <2> HIDE DEF d
  <2>11. c \o Append(d, x) = Append(c \o d, x)
    BY <1>2, <2>3, <2>8, ConcatAppend
  <2>12. Chosen(a \o p(e), T) = c \o Chosen(p(e), T)
    <3>1. CASE x \in T
      BY <2>2, <2>5, <2>7, <2>9, <2>10, <2>11, <3>1
    <3>2. CASE x \notin T
      BY <2>2, <2>5, <2>7, <2>9, <2>10, <3>2
    <3> QED
      BY <3>1, <3>2
  <2>13. e \in H
    BY <2>1, <2>12
  <2> QED
    BY <2>13 DEF e
<1>5. Inductive(H, 0, n)
  BY <1>4, Zenon DEF Inductive
<1>6. n \in H
  <2> HIDE DEF H, n
  <2> QED
    BY <1>1, <1>3, <1>5, UpTo
<1>7. p(n) = b
  BY PrefixAll
<1> QED
  BY <1>6, <1>7

-----------------------------------------------------------------------------
(* Recursion by levels: a step that looks only at what it has made of the  *)
(* levels below defines a function                                         *)

AgreeOn(f, g, S) == \A x \in S : f[x] = g[x]
LooksBelow(step, F, L, m) ==
    \A d \in 0..m : \A f, g \in F : \A x \in L[d] :
        (d > 0 => AgreeOn(f, g, L[d - 1])) => step[f][x] = step[g][x]

Same(F, N) == \A f, g \in F : AgreeOn(f, g, N) => f = g
Under(L, m, N) == \A d \in 0..m : L[d] \subseteq N
Functions(F, N, R) == F = [N -> R]
IsStep(step, F) == step \in [F -> F]

(* The function exists.                                                    *)
LEMMA LevelRecursion ==
    ASSUME NEW m \in Nat, NEW L, NEW N, N = L[m], Under(L, m, N), NEW F, NEW z \in F,
           NEW step, IsStep(step, F), LooksBelow(step, F, L, m),
           Same(F, N)
    PROVE  \E f \in F : f = step[f]
<1> DEFINE Good(f, d) == AgreeOn(f, step[f], L[d])
           H == {d \in 0..m : \E f \in F : Good(f, d)}
<1>1. 0 \in Int /\ m \in Int /\ 0 \in 0..m /\ m \in 0..m
  OBVIOUS
<1>2. 0 \in H
  <2> DEFINE f == step[z]
  <2>1. f \in F
    BY DEF IsStep
  <2>2. \A x \in L[0] : step[z][x] = step[f][x]
    <3> HIDE DEF f
    <3> QED
      BY <1>1, <2>1 DEF LooksBelow
  <2>3. Good(f, 0)
    BY <2>2 DEF AgreeOn
  <2> HIDE DEF f, Good
  <2> QED
    BY <1>1, <2>1, <2>3
<1>3. ASSUME NEW d \in 0..m - 1, d \in H PROVE d + 1 \in H
  <2> DEFINE e == d + 1
  <2>1. e \in 0..m /\ e - 1 = d /\ d \in 0..m /\ e > 0
    OBVIOUS
  <2> HIDE DEF e
  <2>2. PICK f \in F : Good(f, d)
    BY <1>3
  <2> DEFINE g == step[f]
  <2>3. g \in F /\ AgreeOn(f, g, L[d])
    BY <2>2 DEF IsStep
  <2>4. \A x \in L[e] : step[f][x] = step[g][x]
    <3> HIDE DEF g
    <3> QED
      BY <2>1, <2>3 DEF LooksBelow
  <2>5. Good(g, e)
    BY <2>4 DEF AgreeOn
  <2> HIDE DEF g, Good
  <2>6. e \in H
    BY <2>1, <2>3, <2>5
  <2> QED
    BY <2>6 DEF e
<1>4. Inductive(H, 0, m)
  BY <1>3, Zenon DEF Inductive
<1>5. m \in H
  <2> HIDE DEF H
  <2> QED
    BY <1>1, <1>2, <1>4, UpTo
<1>6. PICK f \in F : Good(f, m)
  BY <1>5
<1>7. step[f] \in F
  BY DEF IsStep
<1> QED
  BY <1>6, <1>7 DEF Same
=============================================================================
