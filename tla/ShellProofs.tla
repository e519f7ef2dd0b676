---------------------------- MODULE ShellProofs -----------------------------
(***************************************************************************)
(* Proofs about LineEditor and Shell: the loops over the buffer, the line  *)
(* editor as an implementation of Line, and the words parseCmd finds, for  *)
(* a buffer of any size and lines of any length.                           *)
(***************************************************************************)
EXTENDS Shell, Induction, SequenceTheorems

-----------------------------------------------------------------------------
(* The NUL that ends a string                                              *)

Buffers == [Index -> Bytes \cup {"NUL"}]

Ends(b, i, e) ==
    /\ e \in Index /\ e >= i
    /\ b[e] = "NUL"
    /\ \A k \in i..e - 1 : b[k] # "NUL"

(* The indices of the buffer are numbers from 0 on.                        *)
LEMMA SizeType == Size \in Nat /\ Size >= 2 /\ Index = 0..Size - 1 /\ "NUL" \notin Letters
  BY BufferAssumption DEF Index

(* A string has one end.                                                   *)
LEMMA NulIs ==
    ASSUME NEW b, NEW i \in Nat, NEW e, Ends(b, i, e)
    PROVE  Nul(b, i) = e
<1>1. \A f \in Index : Ends(b, i, f) => f = e
  BY SizeType DEF Ends
<1>2. Nul(b, i) = CHOOSE f \in Index : Ends(b, i, f)
  BY Zenon DEF Nul, Ends
<1>3. e \in Index
  BY DEF Ends
<1> QED
  BY <1>1, <1>2, <1>3, Zenon

(* A string that has a NUL has an end.                                     *)
LEMMA NulEnds ==
    ASSUME NEW b, NEW i \in Nat, NEW e \in Index, e >= i, b[e] = "NUL"
    PROVE  Ends(b, i, Nul(b, i)) /\ Nul(b, i) <= e
<1> DEFINE T == {k \in Index : k >= i /\ b[k] = "NUL"}
<1>1. T \in SUBSET Nat /\ e \in T
  BY SizeType
<1> HIDE DEF T
<1>2. PICK m \in T : \A k \in T : m <= k
  BY <1>1, LeastElement
<1>3. m \in Index /\ m >= i /\ b[m] = "NUL" /\ m <= e
  BY <1>1, <1>2 DEF T
<1>4. ASSUME NEW k \in i..m - 1 PROVE b[k] # "NUL"
  BY <1>2, <1>3, <1>4, SizeType DEF T
<1>5. Ends(b, i, m)
  BY <1>3, <1>4 DEF Ends
<1>6. Nul(b, i) = m
  BY <1>5, NulIs
<1> QED
  BY <1>3, <1>5, <1>6

-----------------------------------------------------------------------------
(* The loops over the buffer                                               *)

(* The text from "from" on moves one byte up, with its NUL.                *)
LEMMA ShiftRightMoves ==
    ASSUME serialCmd \in Buffers, NEW from \in Index, NEW e, Ends(serialCmd, from, e)
    PROVE  ShiftRight(from) =
               [k \in Index |-> IF k \in from + 1..e + 1 THEN serialCmd[k - 1] ELSE serialCmd[k]]
<1> DEFINE z == [serialCmd EXCEPT ![e + 1] = serialCmd[e]]
           shifted[i \in from..e] ==
               IF i = e THEN [serialCmd EXCEPT ![i + 1] = serialCmd[i]]
               ELSE [shifted[i + 1] EXCEPT ![i + 1] = shifted[i + 1][i]]
           step == [i \in from..e - 1 |-> [v \in Buffers |-> [v EXCEPT ![i + 1] = v[i]]]]
<1>1. from \in Int /\ e \in Int /\ from <= e /\ from \in Nat /\ e \in Index
  BY SizeType DEF Ends
<1>2. \E g : g = [i \in from..e |->
                    IF i = e THEN [serialCmd EXCEPT ![i + 1] = serialCmd[i]]
                    ELSE [g[i + 1] EXCEPT ![i + 1] = g[i + 1][i]]]
  <2>1. ASSUME NEW i \in from..e - 1, NEW v \in Buffers
        PROVE  [v EXCEPT ![i + 1] = v[i]] \in Buffers
    <3>1. i \in Index
      BY <1>1, SizeType
    <3> QED
      BY <3>1 DEF Buffers
  <2>2. step \in [from..e - 1 -> [Buffers -> Buffers]]
    <3> HIDE DEF Buffers
    <3> QED
      BY <2>1
  <2>3. z \in Buffers
    BY <1>1 DEF Buffers
  <2>4. \A i \in from..e - 1, v \in Buffers : step[i][v] = [v EXCEPT ![i + 1] = v[i]]
    OBVIOUS
  <2> HIDE DEF step, z
  <2>5. PICK g \in [from..e -> Buffers] : g[e] = z /\ FollowsDown(g, step, from, e)
    BY <1>1, <2>2, <2>3, RecursionDown
  <2>6. ASSUME NEW i \in from..e - 1
        PROVE  g[i] = [g[i + 1] EXCEPT ![i + 1] = g[i + 1][i]]
    <3>1. g[i] = step[i][g[i + 1]]
      BY <2>5 DEF FollowsDown
    <3>2. g[i + 1] \in Buffers
      BY <1>1
    <3> QED
      BY <2>4, <3>1, <3>2
  <2>7. ASSUME NEW i \in from..e
        PROVE  g[i] = IF i = e THEN [serialCmd EXCEPT ![i + 1] = serialCmd[i]]
                      ELSE [g[i + 1] EXCEPT ![i + 1] = g[i + 1][i]]
    <3>1. i # e => i \in from..e - 1
      BY <1>1
    <3> QED
      BY <2>5, <2>6, <3>1 DEF z
  <2>8. g = [i \in from..e |->
               IF i = e THEN [serialCmd EXCEPT ![i + 1] = serialCmd[i]]
               ELSE [g[i + 1] EXCEPT ![i + 1] = g[i + 1][i]]]
    BY <2>7
  <2> QED
    BY <2>8
<1>3. shifted = [i \in from..e |->
                    IF i = e THEN [serialCmd EXCEPT ![i + 1] = serialCmd[i]]
                    ELSE [shifted[i + 1] EXCEPT ![i + 1] = shifted[i + 1][i]]]
  BY <1>2, Zenon
<1>4. ShiftRight(from) = shifted[from]
  <2>1. End(from) = e
    BY <1>1, NulIs DEF End
  <2> QED
    BY <2>1, Zenon DEF ShiftRight
<1> HIDE DEF shifted
<1> DEFINE Moved(i) ==
               [k \in Index |-> IF k \in i + 1..e + 1 THEN serialCmd[k - 1] ELSE serialCmd[k]]
           H == {i \in from..e : shifted[i] = Moved(i)}
<1>5. e \in H
  <2>1. shifted[e] = z
    BY <1>1, <1>3
  <2>2. ASSUME NEW k \in Index PROVE z[k] = Moved(e)[k]
    BY <1>1, SizeType DEF Buffers
  <2>3. z = Moved(e)
    BY <2>2 DEF Buffers
  <2> QED
    BY <1>1, <2>1, <2>3
<1>6. ASSUME NEW n \in from + 1..e, n \in H PROVE n - 1 \in H
  <2> DEFINE i == n - 1
  <2>1. i \in from..e /\ i # e /\ i + 1 = n /\ i \in Index /\ n \in Index
    BY <1>1, SizeType
  <2>2. shifted[n] = Moved(n)
    BY <1>6
  <2> HIDE DEF i
  <2>3. shifted[i] = [shifted[n] EXCEPT ![n] = shifted[n][i]]
    BY <1>3, <2>1
  <2>4. [Moved(n) EXCEPT ![n] = Moved(n)[i]] = Moved(i)
    <3>1. ASSUME NEW k \in Index
          PROVE  [Moved(n) EXCEPT ![n] = Moved(n)[i]][k] = Moved(i)[k]
      BY <1>1, <2>1, SizeType
    <3> QED
      BY <3>1
  <2> QED
    BY <2>1, <2>2, <2>3, <2>4 DEF i
<1>7. InductiveDown(H, from, e)
  BY <1>6 DEF InductiveDown
<1>8. from \in H
  <2>1. from \in from..e
    BY <1>1
  <2> HIDE DEF H
  <2> QED
    BY <1>1, <1>5, <1>7, <2>1, DownTo
<1> QED
  BY <1>4, <1>8

(* The text behind "from" moves one byte down, with its NUL.               *)
LEMMA ShiftLeftMoves ==
    ASSUME serialCmd \in Buffers, NEW from \in Index, NEW e, Ends(serialCmd, from + 1, e)
    PROVE  ShiftLeft(from) =
               [k \in Index |-> IF k \in from..e - 1 THEN serialCmd[k + 1] ELSE serialCmd[k]]
<1> DEFINE last == e - 1
           z == [serialCmd EXCEPT ![from] = serialCmd[from + 1]]
           shifted[i \in from..last] ==
               IF i = from THEN [serialCmd EXCEPT ![i] = serialCmd[i + 1]]
               ELSE [shifted[i - 1] EXCEPT ![i] = shifted[i - 1][i + 1]]
           step == [i \in from + 1..last |-> [v \in Buffers |-> [v EXCEPT ![i] = v[i + 1]]]]
<1>1. /\ from \in Int /\ from \in Nat /\ e \in Index /\ e \in Nat
      /\ last \in Int /\ from <= last /\ last + 1 = e /\ last \in Index
  BY SizeType DEF Ends
<1>2. ShiftLeft(from) = shifted[last]
  <2>1. End(from + 1) = e
    BY <1>1, NulIs DEF End
  <2> QED
    BY <2>1, Zenon DEF ShiftLeft
<1> HIDE DEF last
<1>3. \E g : g = [i \in from..last |->
                    IF i = from THEN [serialCmd EXCEPT ![i] = serialCmd[i + 1]]
                    ELSE [g[i - 1] EXCEPT ![i] = g[i - 1][i + 1]]]
  <2>1. ASSUME NEW i \in from + 1..last, NEW v \in Buffers
        PROVE  [v EXCEPT ![i] = v[i + 1]] \in Buffers
    <3>1. i + 1 \in Index
      BY <1>1, SizeType
    <3> QED
      BY <3>1 DEF Buffers
  <2>2. step \in [from + 1..last -> [Buffers -> Buffers]]
    <3> HIDE DEF Buffers
    <3> QED
      BY <2>1
  <2>3. z \in Buffers
    <3>1. from + 1 \in Index
      BY <1>1, SizeType
    <3> QED
      BY <3>1 DEF Buffers
  <2>4. \A i \in from + 1..last, v \in Buffers : step[i][v] = [v EXCEPT ![i] = v[i + 1]]
    OBVIOUS
  <2> HIDE DEF step, z
  <2>5. PICK g \in [from..last -> Buffers] : g[from] = z /\ Follows(g, step, from, last)
    BY <1>1, <2>2, <2>3, Recursion
  <2>6. ASSUME NEW i \in from + 1..last
        PROVE  g[i] = [g[i - 1] EXCEPT ![i] = g[i - 1][i + 1]]
    <3>1. g[i] = step[i][g[i - 1]]
      BY <2>5 DEF Follows
    <3>2. g[i - 1] \in Buffers
      BY <1>1
    <3> QED
      BY <2>4, <3>1, <3>2
  <2>7. ASSUME NEW i \in from..last
        PROVE  g[i] = IF i = from THEN [serialCmd EXCEPT ![i] = serialCmd[i + 1]]
                      ELSE [g[i - 1] EXCEPT ![i] = g[i - 1][i + 1]]
    <3>1. i # from => i \in from + 1..last
      BY <1>1
    <3> QED
      BY <2>5, <2>6, <3>1 DEF z
  <2>8. g = [i \in from..last |->
               IF i = from THEN [serialCmd EXCEPT ![i] = serialCmd[i + 1]]
               ELSE [g[i - 1] EXCEPT ![i] = g[i - 1][i + 1]]]
    BY <2>7
  <2> QED
    BY <2>8
<1>4. shifted = [i \in from..last |->
                    IF i = from THEN [serialCmd EXCEPT ![i] = serialCmd[i + 1]]
                    ELSE [shifted[i - 1] EXCEPT ![i] = shifted[i - 1][i + 1]]]
  BY <1>3, Zenon
<1> HIDE DEF shifted
<1> DEFINE Moved(i) ==
               [k \in Index |-> IF k \in from..i THEN serialCmd[k + 1] ELSE serialCmd[k]]
           H == {i \in from..last : shifted[i] = Moved(i)}
<1>5. from \in H
  <2>1. shifted[from] = z
    BY <1>1, <1>4
  <2>2. ASSUME NEW k \in Index PROVE z[k] = Moved(from)[k]
    BY <1>1, SizeType DEF Buffers
  <2>3. z = Moved(from)
    BY <2>2 DEF Buffers
  <2> QED
    BY <1>1, <2>1, <2>3
<1>6. ASSUME NEW n \in from..last - 1, n \in H PROVE n + 1 \in H
  <2> DEFINE i == n + 1
  <2>1. i \in from..last /\ i # from /\ i - 1 = n /\ i \in Index /\ n \in Index /\ i + 1 \in Index
    BY <1>1, SizeType
  <2>2. shifted[n] = Moved(n)
    BY <1>6
  <2> HIDE DEF i
  <2>3. shifted[i] = [shifted[n] EXCEPT ![i] = shifted[n][i + 1]]
    BY <1>4, <2>1
  <2>4. [Moved(n) EXCEPT ![i] = Moved(n)[i + 1]] = Moved(i)
    <3>1. ASSUME NEW k \in Index
          PROVE  [Moved(n) EXCEPT ![i] = Moved(n)[i + 1]][k] = Moved(i)[k]
      BY <1>1, <2>1, SizeType
    <3> QED
      BY <3>1
  <2> QED
    BY <2>1, <2>2, <2>3, <2>4 DEF i
<1>7. Inductive(H, from, last)
  BY <1>6 DEF Inductive
<1>8. last \in H
  <2>1. last \in from..last
    BY <1>1
  <2> HIDE DEF H
  <2> QED
    BY <1>1, <1>5, <1>7, <2>1, UpTo
<1> QED
  BY <1>2, <1>8 DEF last

-----------------------------------------------------------------------------
(* Inserting into a sequence and removing from it, element by element      *)

IsInsertion(t, s, i, x) ==
    /\ Len(t) = Len(s) + 1
    /\ \A k \in 1..Len(t) : t[k] = IF k < i THEN s[k] ELSE IF k = i THEN x ELSE s[k - 1]

IsRemoval(t, s, i) ==
    /\ Len(t) = Len(s) - 1
    /\ \A k \in 1..Len(t) : t[k] = IF k < i THEN s[k] ELSE s[k + 1]

LEMMA InsertAtIs ==
    ASSUME NEW S, NEW s \in Seq(S), NEW t \in Seq(S), NEW i \in 1..Len(s) + 1, NEW x \in S,
           IsInsertion(t, s, i, x)
    PROVE  InsertAt(s, i, x) = t
<1> DEFINE u == SubSeq(s, 1, i - 1)
           v == SubSeq(s, i, Len(s))
<1>1. /\ Len(s) \in Nat /\ Len(t) = Len(s) + 1
      /\ \A k \in 1..Len(t) : t[k] = IF k < i THEN s[k] ELSE IF k = i THEN x ELSE s[k - 1]
  BY DEF IsInsertion
<1>2. u \in Seq(S) /\ Len(u) = i - 1 /\ \A k \in 1..i - 1 : u[k] = s[k]
  <2>1. \A k \in 1..i - 1 : s[k] \in S
    BY <1>1
  <2> QED
    BY <1>1, <2>1, SubSeqProperties
<1>3. v \in Seq(S) /\ Len(v) = Len(s) - i + 1 /\ \A k \in 1..Len(s) - i + 1 : v[k] = s[i + k - 1]
  <2>1. \A k \in i..Len(s) : s[k] \in S
    BY <1>1
  <2> QED
    BY <1>1, <2>1, SubSeqProperties
<1>4. InsertAt(s, i, x) = u \o <<x>> \o v
  BY DEF InsertAt
<1> HIDE DEF u, v
<1>5. /\ u \o <<x>> \in Seq(S) /\ Len(u \o <<x>>) = i
      /\ \A k \in 1..i : (u \o <<x>>)[k] = IF k < i THEN u[k] ELSE x
  BY <1>1, <1>2
<1> DEFINE w == u \o <<x>>
<1> HIDE DEF w
<1>6. w \in Seq(S) /\ Len(w) = i /\ \A k \in 1..i : w[k] = IF k < i THEN u[k] ELSE x
  BY <1>5 DEF w
<1>7. /\ w \o v \in Seq(S) /\ Len(w \o v) = Len(s) + 1
      /\ \A k \in 1..Len(s) + 1 : (w \o v)[k] = IF k <= i THEN w[k] ELSE v[k - i]
  BY <1>1, <1>3, <1>6, ConcatProperties
<1>8. ASSUME NEW k \in 1..Len(t) PROVE (w \o v)[k] = t[k]
  <2>0. k \in Int /\ k \in 1..Len(s) + 1 /\ i \in Int
    BY <1>1
  <2>1. CASE k <= i
    <3>1. k \in 1..i /\ (k < i => k \in 1..i - 1)
      BY <2>0, <2>1
    <3>2. (w \o v)[k] = w[k]
      BY <1>7, <2>0, <2>1
    <3>3. w[k] = IF k < i THEN s[k] ELSE x
      BY <1>2, <1>6, <3>1
    <3> QED
      BY <1>1, <2>0, <2>1, <3>2, <3>3
  <2>2. CASE k > i
    <3>1. k - i \in 1..Len(s) - i + 1 /\ i + (k - i) - 1 = k - 1
      BY <1>1, <2>0, <2>2
    <3>2. (w \o v)[k] = v[k - i]
      BY <1>7, <2>0, <2>2
    <3>3. v[k - i] = s[k - 1]
      BY <1>3, <3>1
    <3> QED
      BY <1>1, <2>0, <2>2, <3>2, <3>3
  <2>3. k <= i \/ k > i
    BY <2>0
  <2> QED
    BY <2>1, <2>2, <2>3
<1>9. w \o v = t
  BY <1>1, <1>7, <1>8, SeqEqual
<1> QED
  BY <1>4, <1>9 DEF w

LEMMA RemoveAtIs ==
    ASSUME NEW S, NEW s \in Seq(S), NEW t \in Seq(S), NEW i \in 1..Len(s),
           IsRemoval(t, s, i)
    PROVE  RemoveAt(s, i) = t
<1> DEFINE u == SubSeq(s, 1, i - 1)
           v == SubSeq(s, i + 1, Len(s))
<1>1. /\ Len(s) \in Nat /\ Len(t) = Len(s) - 1
      /\ \A k \in 1..Len(t) : t[k] = IF k < i THEN s[k] ELSE s[k + 1]
  BY DEF IsRemoval
<1>2. u \in Seq(S) /\ Len(u) = i - 1 /\ \A k \in 1..i - 1 : u[k] = s[k]
  <2>1. \A k \in 1..i - 1 : s[k] \in S
    BY <1>1
  <2> QED
    BY <1>1, <2>1, SubSeqProperties
<1>3. v \in Seq(S) /\ Len(v) = Len(s) - i /\ \A k \in 1..Len(s) - i : v[k] = s[i + k]
  <2>1. \A k \in i + 1..Len(s) : s[k] \in S
    BY <1>1
  <2>2. /\ v \in Seq(S) /\ Len(v) = IF i + 1 <= Len(s) THEN Len(s) - (i + 1) + 1 ELSE 0
        /\ \A k \in 1..Len(s) - (i + 1) + 1 : v[k] = s[i + 1 + k - 1]
    BY <1>1, <2>1, SubSeqProperties
  <2> HIDE DEF v
  <2>3. ASSUME NEW k \in 1..Len(s) - i PROVE v[k] = s[i + k]
    <3>1. k \in 1..Len(s) - (i + 1) + 1 /\ i + 1 + k - 1 = i + k
      BY <1>1
    <3> QED
      BY <2>2, <3>1
  <2>4. Len(v) = Len(s) - i
    BY <1>1, <2>2
  <2> QED
    BY <2>2, <2>3, <2>4
<1>4. RemoveAt(s, i) = u \o v
  BY DEF RemoveAt
<1> HIDE DEF u, v
<1>5. /\ u \o v \in Seq(S) /\ Len(u \o v) = Len(s) - 1
      /\ \A k \in 1..Len(s) - 1 : (u \o v)[k] = IF k <= i - 1 THEN u[k] ELSE v[k - (i - 1)]
  <2>1. /\ u \o v \in Seq(S) /\ Len(u \o v) = Len(u) + Len(v)
        /\ \A k \in 1..Len(u) + Len(v) : (u \o v)[k] = IF k <= Len(u) THEN u[k] ELSE v[k - Len(u)]
    BY <1>2, <1>3, ConcatProperties, Zenon
  <2>2. Len(u) + Len(v) = Len(s) - 1
    BY <1>1, <1>2, <1>3
  <2> QED
    BY <1>2, <2>1, <2>2
<1>6. ASSUME NEW k \in 1..Len(t) PROVE (u \o v)[k] = t[k]
  <2>0. k \in Int /\ k \in 1..Len(s) - 1 /\ i \in Int
    BY <1>1
  <2>1. CASE k < i
    <3>1. k \in 1..i - 1 /\ k <= i - 1
      BY <2>0, <2>1
    <3>2. (u \o v)[k] = u[k] /\ u[k] = s[k]
      BY <1>2, <1>5, <2>0, <3>1
    <3> QED
      BY <1>1, <2>0, <2>1, <3>2
  <2>2. CASE k >= i
    <3>1. k - (i - 1) \in 1..Len(s) - i /\ i + (k - (i - 1)) = k + 1
      BY <1>1, <2>0, <2>2
    <3>2. (u \o v)[k] = v[k - (i - 1)]
      BY <1>5, <2>0, <2>2
    <3>3. v[k - (i - 1)] = s[k + 1]
      BY <1>3, <3>1
    <3> QED
      BY <1>1, <2>0, <2>2, <3>2, <3>3
  <2>3. k < i \/ k >= i
    BY <2>0
  <2> QED
    BY <2>1, <2>2, <2>3
<1>7. u \o v = t
  BY <1>1, <1>5, <1>6, SeqEqual
<1> QED
  BY <1>4, <1>7

-----------------------------------------------------------------------------
(* What every byte does to the line                                        *)

(* The buffer holds a text of printable bytes, and the cursor is in it.    *)
Printable(b, e) == \A k \in 0..e - 1 : b[k] \in Letters

LineInv ==
    /\ TypeOK
    /\ Ends(serialCmd, 0, End(0))
    /\ cmdIdx <= End(0)
    /\ Printable(serialCmd, End(0))

(* What the invariant says of the line, and of Text in terms of it.        *)
LEMMA LineFacts ==
    ASSUME LineInv
    PROVE  /\ serialCmd \in Buffers /\ cmdIdx \in Nat /\ cmdIdx \in Index
           /\ End(0) \in Nat /\ End(0) \in Index /\ cmdIdx <= End(0)
           /\ serialCmd[End(0)] = "NUL"
           /\ Text \in Seq(Letters) /\ Len(Text) = End(0)
           /\ \A k \in 1..End(0) : Text[k] = serialCmd[k - 1]
<1>1. /\ serialCmd \in Buffers /\ cmdIdx \in Nat /\ cmdIdx \in Index
      /\ End(0) \in Nat /\ End(0) \in Index /\ cmdIdx <= End(0)
      /\ serialCmd[End(0)] = "NUL"
  BY SizeType DEF LineInv, TypeOK, Ends, Buffers
<1>2. \A k \in 1..End(0) : serialCmd[k - 1] \in Letters
  BY <1>1 DEF LineInv, Printable
<1> DEFINE e == End(0)
<1> HIDE DEF e
<1>3. Text = [k \in 1..e |-> serialCmd[k - 1]]
  BY DEF Text, e
<1>4. e \in Nat /\ \A k \in 1..e : serialCmd[k - 1] \in Letters
  BY <1>1, <1>2 DEF e
<1>5. Text \in Seq(Letters) /\ Len(Text) = e /\ \A k \in 1..e : Text[k] = serialCmd[k - 1]
  BY <1>3, <1>4
<1> QED
  BY <1>1, <1>5 DEF e

(* Typing a byte inserts it at the cursor, where there is room for it.     *)
LEMMA InsertBuffer ==
    ASSUME LineInv, NEW c, Insert(c), End(0) # Size - 1
    PROVE  /\ serialCmd' \in Buffers
           /\ \A k \in Index :
                  serialCmd'[k] = IF k = cmdIdx THEN c
                                  ELSE IF k \in cmdIdx + 1..End(0) + 1 THEN serialCmd[k - 1]
                                  ELSE serialCmd[k]
           /\ End(0)' = End(0) + 1
           /\ Ends(serialCmd', 0, End(0) + 1)
<1> DEFINE e == End(0)
<1>1. /\ serialCmd \in Buffers /\ cmdIdx \in Nat /\ cmdIdx \in Index
      /\ e \in Nat /\ e \in Index /\ cmdIdx <= e /\ e <= Size - 2
      /\ serialCmd[e] = "NUL" /\ \A k \in 0..e - 1 : serialCmd[k] # "NUL"
      /\ c \in Bytes /\ c # "NUL"
  BY LineFacts, SizeType, BufferAssumption DEF Insert, LineInv, Ends
<1>2. serialCmd' = [ShiftRight(cmdIdx) EXCEPT ![cmdIdx] = c]
  BY DEF Insert
<1>3. Ends(serialCmd, cmdIdx, e)
  BY <1>1 DEF Ends
<1> HIDE DEF e
<1>4. ShiftRight(cmdIdx) =
          [k \in Index |-> IF k \in cmdIdx + 1..e + 1 THEN serialCmd[k - 1] ELSE serialCmd[k]]
  BY <1>1, <1>3, ShiftRightMoves
<1>5. \A k \in Index :
          serialCmd'[k] = IF k = cmdIdx THEN c
                          ELSE IF k \in cmdIdx + 1..e + 1 THEN serialCmd[k - 1]
                          ELSE serialCmd[k]
  BY <1>2, <1>4
<1>6. \A k \in Index : k \in cmdIdx + 1..e + 1 => k - 1 \in Index
  BY <1>1, SizeType
<1>7. serialCmd' \in Buffers
  <2>1. ASSUME NEW k \in Index PROVE serialCmd'[k] \in Bytes \cup {"NUL"}
    BY <1>1, <1>5, <1>6 DEF Buffers
  <2>2. serialCmd' = [k \in Index |-> serialCmd'[k]]
    BY <1>2, <1>4
  <2> QED
    BY <2>1, <2>2 DEF Buffers
<1>8. Ends(serialCmd', 0, e + 1)
  <2>1. e + 1 \in Index /\ e + 1 # cmdIdx /\ e + 1 \in cmdIdx + 1..e + 1 /\ e + 1 - 1 = e
    BY <1>1, SizeType
  <2>2. serialCmd'[e + 1] = "NUL"
    BY <1>1, <1>5, <2>1
  <2>3. ASSUME NEW k \in 0..e PROVE serialCmd'[k] # "NUL"
    <3>1. k \in Index
      BY <1>1, SizeType
    <3>2. k # cmdIdx => IF k \in cmdIdx + 1..e + 1 THEN k - 1 \in 0..e - 1 ELSE k \in 0..e - 1
      BY <1>1
    <3> QED
      BY <1>1, <1>5, <3>1, <3>2
  <2> QED
    BY <1>1, <2>1, <2>2, <2>3 DEF Ends
<1>9. End(0)' = e + 1
  <2>1. Nul(serialCmd', 0) = e + 1
    BY <1>8, NulIs
  <2> QED
    BY <2>1 DEF End, Nul
<1> QED
  BY <1>5, <1>7, <1>8, <1>9 DEF e

(* Erasing removes the byte before the cursor.                             *)
LEMMA EraseBuffer ==
    ASSUME LineInv, NEW c, Erase(c), cmdIdx > 0
    PROVE  /\ serialCmd' \in Buffers
           /\ \A k \in Index :
                  serialCmd'[k] = IF k \in cmdIdx - 1..End(0) - 1 THEN serialCmd[k + 1]
                                  ELSE serialCmd[k]
           /\ End(0)' = End(0) - 1
           /\ Ends(serialCmd', 0, End(0) - 1)
<1> DEFINE e == End(0)
           from == cmdIdx - 1
<1>1. /\ serialCmd \in Buffers /\ cmdIdx \in Nat /\ cmdIdx \in Index
      /\ e \in Nat /\ e \in Index /\ cmdIdx <= e
      /\ serialCmd[e] = "NUL" /\ \A k \in 0..e - 1 : serialCmd[k] # "NUL"
  BY LineFacts DEF LineInv, Ends
<1>2. serialCmd' = ShiftLeft(from)
  BY DEF Erase
<1>3. from \in Nat /\ from \in Index /\ from + 1 = cmdIdx
  BY <1>1, SizeType
<1>4. Ends(serialCmd, from + 1, e)
  BY <1>1, <1>3 DEF Ends
<1> HIDE DEF e, from
<1>5. ShiftLeft(from) =
          [k \in Index |-> IF k \in from..e - 1 THEN serialCmd[k + 1] ELSE serialCmd[k]]
  BY <1>1, <1>3, <1>4, ShiftLeftMoves
<1>6. \A k \in Index :
          serialCmd'[k] = IF k \in from..e - 1 THEN serialCmd[k + 1] ELSE serialCmd[k]
  BY <1>2, <1>5
<1>7. serialCmd' \in Buffers
  <2>1. ASSUME NEW k \in Index PROVE serialCmd'[k] \in Bytes \cup {"NUL"}
    <3>1. k \in from..e - 1 => k + 1 \in Index
      BY <1>1, <1>3, SizeType
    <3> QED
      BY <1>1, <1>6, <3>1 DEF Buffers
  <2>2. serialCmd' = [k \in Index |-> serialCmd'[k]]
    BY <1>2, <1>5
  <2> QED
    BY <2>1, <2>2 DEF Buffers
<1>8. Ends(serialCmd', 0, e - 1)
  <2>1. e - 1 \in Index /\ e - 1 \in Nat /\ e - 1 \in from..e - 1 /\ e - 1 + 1 = e
    BY <1>1, <1>3, SizeType
  <2>2. serialCmd'[e - 1] = "NUL"
    BY <1>1, <1>6, <2>1
  <2>3. ASSUME NEW k \in 0..e - 1 - 1 PROVE serialCmd'[k] # "NUL"
    <3>1. k \in Index /\ k \in 0..e - 1 /\ k + 1 \in 0..e - 1
      BY <1>1, SizeType
    <3> QED
      BY <1>1, <1>6, <3>1
  <2> QED
    BY <1>1, <2>1, <2>2, <2>3 DEF Ends
<1>9. End(0)' = e - 1
  <2>1. Nul(serialCmd', 0) = e - 1
    BY <1>8, NulIs
  <2> QED
    BY <2>1 DEF End, Nul
<1> QED
  BY <1>6, <1>7, <1>8, <1>9 DEF e, from

(* An emptied line: its first byte is a NUL.                               *)
LEMMA EnterBuffer ==
    ASSUME NEW cut \in Buffers, NEW c, EnterCutting(c, cut)
    PROVE  /\ serialCmd' \in Buffers
           /\ End(0)' = 0
           /\ Ends(serialCmd', 0, 0)
<1>1. serialCmd' = [cut EXCEPT ![0] = "NUL"] /\ 0 \in Index
  BY SizeType DEF EnterCutting
<1>2. serialCmd' \in Buffers /\ serialCmd'[0] = "NUL"
  BY <1>1 DEF Buffers
<1>3. Ends(serialCmd', 0, 0)
  BY <1>1, <1>2 DEF Ends
<1>4. Nul(serialCmd', 0) = 0
  BY <1>3, NulIs
<1>5. End(0)' = 0
  BY <1>4 DEF End, Nul
<1> QED
  BY <1>2, <1>3, <1>5

(* What one byte leaves of the type invariant when it does not change the  *)
(* buffer.                                                                 *)
ParserTypeOK ==
    /\ parsers \in {<<"base">>, <<"base", "escape">>}
    /\ second \in {"[", "other", "NUL"} /\ seq \in Seq({"[", "other"}) /\ Len(seq) <= 2
    /\ Base => second = "NUL" /\ seq = <<>>

(* LineEditor's type invariant, in parts that a step changes together.     *)
LEMMA TypeSplit ==
    TypeOK <=> /\ serialCmd \in Buffers /\ cmdIdx \in 0..Size /\ ParserTypeOK
               /\ command \in Seq(Letters)
  BY Zenon DEF TypeOK, Buffers, ParserTypeOK

(* The parser stack and the statics of the escape parser.                  *)
LEMMA ParserStep ==
    ASSUME ParserTypeOK, NEW c \in Bytes, Edit(c) \/ \E cut : EnterCutting(c, cut)
    PROVE  ParserTypeOK'
<1>1. <<"base">> # <<"base", "escape">> /\ Last(<<"base">>) = "base" /\ Last(<<"base", "escape">>) = "escape"
  BY DEF Last
<1>2. Base <=> parsers = <<"base">>
  BY <1>1 DEF Base, ParserTypeOK
<1>3. Base' <=> Last(parsers') = "base"
  BY DEF Base
<1>4. CASE Insert(c) \/ Erase(c)
  BY <1>3, <1>4 DEF Insert, Erase, ParserTypeOK, Base
<1>5. CASE Escape(c)
  <2>1. parsers' = Append(<<"base">>, "escape") /\ second' = second /\ seq' = seq
    BY <1>2, <1>5 DEF Escape
  <2>2. Append(<<"base">>, "escape") = <<"base", "escape">>
    <3> DEFINE a == Append(<<"base">>, "escape")
    <3>1. /\ a \in Seq({"base", "escape"}) /\ Len(a) = 2
          /\ a[1] = "base" /\ a[2] = "escape"
      OBVIOUS
    <3> HIDE DEF a
    <3>2. a = <<"base", "escape">>
      BY <3>1
    <3> QED
      BY <3>2 DEF a
  <2> QED
    BY <1>1, <1>3, <2>1, <2>2 DEF ParserTypeOK
<1>6. CASE EnterEmpty(c) \/ Ignore(c)
  BY <1>3, <1>6 DEF EnterEmpty, Ignore, vars, ParserTypeOK, Base
<1>7. CASE EscapeFirst(c) \/ EscapeCollect(c)
  <2>1. parsers' = parsers /\ ~Base /\ second' \in {"[", "other"} /\ seq' = Keep(c)
    BY <1>7 DEF EscapeFirst, EscapeCollect, Seen
  <2>2. Keep(c) \in Seq({"[", "other"}) /\ Len(Keep(c)) <= 2
    BY DEF Keep, Seen, ParserTypeOK
  <2> QED
    BY <1>2, <1>3, <1>1, <2>1, <2>2 DEF ParserTypeOK
<1>8. CASE EscapeEnd(c)
  <2>1. parsers = <<"base", "escape">>
    BY <1>2, <1>8 DEF EscapeEnd, ParserTypeOK
  <2>2. Front(parsers) = <<"base">>
    <3> DEFINE s == <<"base", "escape">>
               f == SubSeq(s, 1, 1)
    <3>1. \A k \in 1..1 : s[k] \in {"base", "escape"}
      OBVIOUS
    <3>2. f \in Seq({"base", "escape"}) /\ Len(f) = 1 /\ f[1] = s[1]
      <4> HIDE DEF s
      <4>1. /\ f \in Seq({"base", "escape"}) /\ Len(f) = IF 1 <= 1 THEN 1 - 1 + 1 ELSE 0
            /\ \A k \in 1..1 - 1 + 1 : f[k] = s[1 + k - 1]
        BY <3>1, SubSeqProperties
      <4> QED
        BY <4>1
    <3>3. Front(parsers) = f
      BY <2>1 DEF Front
    <3> HIDE DEF f
    <3> QED
      BY <3>2, <3>3
  <2> QED
    BY <1>1, <1>3, <1>8, <2>2 DEF EscapeEnd, ParserTypeOK
<1>9. CASE \E cut : EnterCutting(c, cut)
  <2>1. /\ parsers' = <<Head(parsers)>> /\ second' = second /\ seq' = seq /\ Base
    BY <1>9 DEF EnterCutting
  <2>2. parsers' = <<"base">>
    BY <1>2, <2>1
  <2> QED
    BY <1>1, <1>3, <2>1, <2>2 DEF ParserTypeOK
<1> QED
  BY <1>4, <1>5, <1>6, <1>7, <1>8, <1>9 DEF Edit

(* What is left to show of a step: where the new text ends, that it is     *)
(* printable, and that the cursor is in it.                                *)
LEMMA LineAfter ==
    ASSUME ParserTypeOK', command' \in Seq(Letters), serialCmd' \in Buffers,
           NEW e, Ends(serialCmd', 0, e),
           cmdIdx' \in Nat, cmdIdx' <= e, Printable(serialCmd', e)
    PROVE  /\ LineInv' /\ End(0)' = e
           /\ Text' \in Seq(Letters) /\ Len(Text') = e
           /\ \A k \in 1..e : Text'[k] = serialCmd'[k - 1]
<1>1. e \in Nat /\ e \in Index
  BY SizeType DEF Ends
<1>2. End(0)' = e
  <2>1. Nul(serialCmd', 0) = e
    BY NulIs
  <2> QED
    BY <2>1 DEF End, Nul
<1>3. cmdIdx' \in 0..Size
  BY <1>1, SizeType
<1>4. TypeOK'
  BY <1>3, Zenon DEF TypeOK, ParserTypeOK, Buffers
<1>5. LineInv'
  <2>1. Ends(serialCmd', 0, End(0)') /\ cmdIdx' <= End(0)'
    BY <1>2
  <2>2. Printable(serialCmd, End(0))'
    BY <1>2 DEF Printable
  <2>3. Ends(serialCmd, 0, End(0))'
    BY <2>1 DEF Ends
  <2> QED
    BY <1>4, <2>1, <2>2, <2>3, Zenon DEF LineInv
<1>6. Text' = [k \in 1..e |-> serialCmd'[k - 1]]
  BY <1>2 DEF Text
<1>7. \A k \in 1..e : serialCmd'[k - 1] \in Letters
  BY <1>1 DEF Printable
<1>8. Text' \in Seq(Letters) /\ Len(Text') = e /\ \A k \in 1..e : Text'[k] = serialCmd'[k - 1]
  BY <1>1, <1>6, <1>7
<1> QED
  BY <1>2, <1>5, <1>8

(* Typing a byte is Line's Type.                                           *)
LEMMA InsertStep ==
    ASSUME LineInv, NEW c \in Bytes, Insert(c), End(0) # Size - 1
    PROVE  LineInv' /\ CommandLine!Type(c)
<1> DEFINE e == End(0)
<1>1. /\ ParserTypeOK' /\ command' = <<>> /\ c \in Letters /\ cmdIdx' = cmdIdx + 1
  BY ParserStep, TypeSplit DEF Insert, Edit, LineInv
<1>2. /\ cmdIdx \in Nat /\ e \in Nat /\ cmdIdx <= e /\ Text \in Seq(Letters) /\ Len(Text) = e
      /\ \A k \in 1..e : Text[k] = serialCmd[k - 1]
      /\ e <= Size - 2
  BY LineFacts, SizeType
<1>3. /\ serialCmd' \in Buffers
      /\ \A k \in Index :
             serialCmd'[k] = IF k = cmdIdx THEN c
                             ELSE IF k \in cmdIdx + 1..e + 1 THEN serialCmd[k - 1]
                             ELSE serialCmd[k]
      /\ Ends(serialCmd', 0, e + 1)
  BY InsertBuffer
<1> HIDE DEF e
<1>4. ASSUME NEW k \in 1..e + 1
      PROVE  serialCmd'[k - 1] = IF k < cmdIdx + 1 THEN Text[k]
                                 ELSE IF k = cmdIdx + 1 THEN c ELSE Text[k - 1]
  <2>0. k \in Int /\ k - 1 \in Index
    BY <1>2, SizeType
  <2>1. CASE k < cmdIdx + 1
    <3>1. k - 1 # cmdIdx /\ k - 1 \notin cmdIdx + 1..e + 1 /\ k \in 1..e
      BY <1>2, <2>0, <2>1
    <3>2. serialCmd'[k - 1] = serialCmd[k - 1] /\ Text[k] = serialCmd[k - 1]
      BY <1>2, <1>3, <2>0, <3>1
    <3> QED
      BY <2>1, <3>2
  <2>2. CASE k = cmdIdx + 1
    <3>1. k - 1 = cmdIdx /\ ~(k < cmdIdx + 1)
      BY <1>2, <2>0, <2>2
    <3> QED
      BY <1>3, <2>0, <2>2, <3>1
  <2>3. CASE k > cmdIdx + 1
    <3>1. /\ k - 1 # cmdIdx /\ k - 1 \in cmdIdx + 1..e + 1 /\ k - 1 \in 1..e
          /\ ~(k < cmdIdx + 1) /\ k # cmdIdx + 1
      BY <1>2, <2>0, <2>3
    <3>2. serialCmd'[k - 1] = serialCmd[(k - 1) - 1] /\ Text[k - 1] = serialCmd[(k - 1) - 1]
      BY <1>2, <1>3, <2>0, <3>1
    <3> QED
      BY <3>1, <3>2
  <2> QED
    BY <1>2, <2>0, <2>1, <2>2, <2>3
<1>5. ASSUME NEW k \in 0..e + 1 - 1 PROVE serialCmd'[k] \in Letters
  <2> DEFINE j == k + 1
  <2>1. j \in 1..e + 1 /\ j - 1 = k
    BY <1>2
  <2>2. (j < cmdIdx + 1 => j \in 1..e) /\ (j > cmdIdx + 1 => j - 1 \in 1..e)
    BY <1>2
  <2>3. \A i \in 1..e : Text[i] \in Letters
    BY <1>2
  <2>4. j < cmdIdx + 1 \/ j = cmdIdx + 1 \/ j > cmdIdx + 1
    BY <1>2
  <2> HIDE DEF j
  <2>5. serialCmd'[j - 1] \in Letters
    BY <1>1, <1>4, <2>1, <2>2, <2>3, <2>4
  <2> QED
    BY <2>1, <2>5
<1>6. /\ LineInv' /\ Text' \in Seq(Letters) /\ Len(Text') = e + 1
      /\ \A k \in 1..e + 1 : Text'[k] = serialCmd'[k - 1]
  <2>1. cmdIdx' \in Nat /\ cmdIdx' <= e + 1 /\ command' \in Seq(Letters)
    BY <1>1, <1>2
  <2>2. Printable(serialCmd', e + 1)
    BY <1>2, <1>5 DEF Printable
  <2> QED
    BY <1>1, <1>3, <2>1, <2>2, LineAfter
<1>7. InsertAt(Text, cmdIdx + 1, c) = Text'
  <2>1. cmdIdx + 1 \in 1..Len(Text) + 1
    BY <1>2
  <2>2. IsInsertion(Text', Text, cmdIdx + 1, c)
    <3>1. Len(Text') = Len(Text) + 1
      BY <1>2, <1>6
    <3>2. ASSUME NEW k \in 1..Len(Text')
          PROVE  Text'[k] = IF k < cmdIdx + 1 THEN Text[k]
                            ELSE IF k = cmdIdx + 1 THEN c ELSE Text[k - 1]
      BY <1>4, <1>6
    <3> QED
      BY <3>1, <3>2 DEF IsInsertion
  <2> QED
    BY <1>1, <1>2, <1>6, <2>1, <2>2, InsertAtIs
<1>8. Text' = CommandLine!InsertAt(Text, cmdIdx + 1, c)
  BY <1>7, Zenon DEF InsertAt, CommandLine!InsertAt
<1> QED
  BY <1>1, <1>6, <1>8, Zenon DEF CommandLine!Type

(* Typing a byte into a full line pushes its NUL out of the buffer.        *)
LEMMA OverrunStep ==
    ASSUME LineInv, NEW c \in Letters, Insert(c), End(0) = Size - 1
    PROVE  TypeOK' /\ ~Terminated'
<1> DEFINE e == End(0)
<1>1. /\ serialCmd \in Buffers /\ cmdIdx \in Nat /\ cmdIdx \in Index
      /\ e \in Nat /\ e \in Index /\ cmdIdx <= e /\ e = Size - 1
      /\ serialCmd[e] = "NUL" /\ \A k \in 0..e - 1 : serialCmd[k] # "NUL"
      /\ c \in Bytes /\ c # "NUL"
  BY LineFacts, BufferAssumption DEF LineInv, Ends
<1>2. /\ serialCmd' = [ShiftRight(cmdIdx) EXCEPT ![cmdIdx] = c]
      /\ cmdIdx' = cmdIdx + 1 /\ command' = <<>>
  BY DEF Insert
<1>3. Ends(serialCmd, cmdIdx, e)
  BY <1>1 DEF Ends
<1> HIDE DEF e
<1>4. ShiftRight(cmdIdx) =
          [k \in Index |-> IF k \in cmdIdx + 1..e + 1 THEN serialCmd[k - 1] ELSE serialCmd[k]]
  BY <1>1, <1>3, ShiftRightMoves
<1>5. ASSUME NEW k \in Index PROVE serialCmd'[k] \in Bytes /\ serialCmd'[k] # "NUL"
  <2>1. k \in 0..e /\ (k > cmdIdx => k - 1 \in 0..e - 1) /\ (k < cmdIdx => k \in 0..e - 1)
    BY <1>1, SizeType
  <2>2. serialCmd'[k] = IF k = cmdIdx THEN c
                        ELSE IF k > cmdIdx THEN serialCmd[k - 1] ELSE serialCmd[k]
    BY <1>1, <1>2, <1>4, <2>1
  <2>3. \A j \in 0..e - 1 : serialCmd[j] \in Bytes /\ serialCmd[j] # "NUL"
    BY <1>1, SizeType DEF Buffers
  <2> QED
    BY <1>1, <2>1, <2>2, <2>3
<1>6. serialCmd' = [k \in Index |-> serialCmd'[k]]
  BY <1>2, <1>4
<1>7. serialCmd' \in Buffers /\ ~Terminated'
  BY <1>5, <1>6 DEF Buffers, Terminated
<1>8. ParserTypeOK' /\ cmdIdx' \in 0..Size /\ command' \in Seq(Letters)
  BY <1>1, <1>2, SizeType, ParserStep, TypeSplit DEF Edit, LineInv
<1> QED
  BY <1>7, <1>8, Zenon DEF TypeOK, ParserTypeOK, Buffers

(* Erasing one is Line's Erase.                                            *)
LEMMA EraseStep ==
    ASSUME LineInv, NEW c \in Bytes, Erase(c), cmdIdx > 0
    PROVE  LineInv' /\ CommandLine!Erase
<1> DEFINE e == End(0)
<1>1. ParserTypeOK' /\ command' = <<>> /\ cmdIdx' = cmdIdx - 1
  BY ParserStep, TypeSplit DEF Erase, Edit, LineInv
<1>2. /\ cmdIdx \in Nat /\ e \in Nat /\ cmdIdx <= e /\ Text \in Seq(Letters) /\ Len(Text) = e
      /\ \A k \in 1..e : Text[k] = serialCmd[k - 1]
      /\ e \in Index
  BY LineFacts
<1>3. /\ serialCmd' \in Buffers
      /\ \A k \in Index :
             serialCmd'[k] = IF k \in cmdIdx - 1..e - 1 THEN serialCmd[k + 1] ELSE serialCmd[k]
      /\ Ends(serialCmd', 0, e - 1)
  BY EraseBuffer
<1> HIDE DEF e
<1>4. ASSUME NEW k \in 1..e - 1
      PROVE  serialCmd'[k - 1] = IF k < cmdIdx THEN Text[k] ELSE Text[k + 1]
  <2>0. k \in Int /\ k - 1 \in Index /\ k \in 1..e /\ k + 1 \in 1..e
    BY <1>2, SizeType
  <2>1. CASE k < cmdIdx
    <3>1. k - 1 \notin cmdIdx - 1..e - 1
      BY <1>2, <2>0, <2>1
    <3>2. serialCmd'[k - 1] = serialCmd[k - 1] /\ Text[k] = serialCmd[k - 1]
      BY <1>2, <1>3, <2>0, <3>1
    <3> QED
      BY <2>1, <3>2
  <2>2. CASE k >= cmdIdx
    <3>1. k - 1 \in cmdIdx - 1..e - 1 /\ ~(k < cmdIdx) /\ (k + 1) - 1 = (k - 1) + 1
      BY <1>2, <2>0, <2>2
    <3>2. serialCmd'[k - 1] = serialCmd[(k - 1) + 1]
      BY <1>3, <2>0, <3>1
    <3>3. Text[k + 1] = serialCmd[(k + 1) - 1]
      BY <1>2, <2>0
    <3> QED
      BY <3>1, <3>2, <3>3
  <2>3. k < cmdIdx \/ k >= cmdIdx
    BY <1>2, <2>0
  <2> QED
    BY <2>1, <2>2, <2>3
<1>5. ASSUME NEW k \in 0..e - 1 - 1 PROVE serialCmd'[k] \in Letters
  <2> DEFINE j == k + 1
  <2>1. j \in 1..e - 1 /\ j - 1 = k /\ j \in 1..e /\ j + 1 \in 1..e
    BY <1>2
  <2>2. \A i \in 1..e : Text[i] \in Letters
    BY <1>2
  <2> HIDE DEF j
  <2>3. serialCmd'[j - 1] \in Letters
    BY <1>4, <2>1, <2>2
  <2> QED
    BY <2>1, <2>3
<1>6. /\ LineInv' /\ Text' \in Seq(Letters) /\ Len(Text') = e - 1
      /\ \A k \in 1..e - 1 : Text'[k] = serialCmd'[k - 1]
  <2>1. cmdIdx' \in Nat /\ cmdIdx' <= e - 1 /\ command' \in Seq(Letters)
    BY <1>1, <1>2
  <2>2. Printable(serialCmd', e - 1)
    BY <1>2, <1>5 DEF Printable
  <2> QED
    BY <1>1, <1>3, <2>1, <2>2, LineAfter
<1>7. RemoveAt(Text, cmdIdx) = Text'
  <2>1. cmdIdx \in 1..Len(Text)
    BY <1>2
  <2>2. IsRemoval(Text', Text, cmdIdx)
    <3>1. Len(Text') = Len(Text) - 1
      BY <1>2, <1>6
    <3>2. ASSUME NEW k \in 1..Len(Text')
          PROVE  Text'[k] = IF k < cmdIdx THEN Text[k] ELSE Text[k + 1]
      BY <1>4, <1>6
    <3> QED
      BY <3>1, <3>2 DEF IsRemoval
  <2> QED
    BY <1>2, <1>6, <2>1, <2>2, RemoveAtIs
<1>8. Text' = CommandLine!RemoveAt(Text, cmdIdx)
  BY <1>7, Zenon DEF RemoveAt, CommandLine!RemoveAt
<1> QED
  BY <1>1, <1>6, <1>8, Zenon DEF CommandLine!Erase

(* Enter is Line's, wherever the line was cut.                             *)
LEMMA EnterStep ==
    ASSUME LineInv, NEW c \in Bytes, NEW cut \in Buffers, EnterCutting(c, cut)
    PROVE  LineInv' /\ CommandLine!Enter
<1>1. /\ ParserTypeOK' /\ command' = Text /\ cmdIdx' = 0 /\ serialCmd[0] # "NUL"
  BY ParserStep, TypeSplit DEF EnterCutting, LineInv
<1>2. serialCmd' \in Buffers /\ Ends(serialCmd', 0, 0)
  BY EnterBuffer
<1>3. Text \in Seq(Letters) /\ Len(Text) = End(0) /\ End(0) \in Nat /\ serialCmd[End(0)] = "NUL"
  BY LineFacts
<1>4. LineInv' /\ Text' \in Seq(Letters) /\ Len(Text') = 0
  <2>1. Printable(serialCmd', 0) /\ cmdIdx' \in Nat /\ cmdIdx' <= 0 /\ command' \in Seq(Letters)
    BY <1>1, <1>3 DEF Printable
  <2> QED
    BY <1>1, <1>2, <2>1, LineAfter
<1>5. Text' = <<>>
  BY <1>4
<1>6. Text # <<>>
  <2>1. Len(Text) # 0
    BY <1>1, <1>3
  <2> QED
    BY <2>1
<1> QED
  BY <1>1, <1>4, <1>5, <1>6, Zenon DEF CommandLine!Enter

(* Bytes that leave the text alone.                                        *)
LEMMA StillStep ==
    ASSUME LineInv, NEW c \in Bytes, Edit(c), ~Insert(c),
           serialCmd' = serialCmd, command' = command
    PROVE  LineInv' /\ (CommandLine!Move \/ UNCHANGED CommandLine!vars)
<1>1. ParserTypeOK' /\ TypeOK /\ ParserTypeOK
  BY ParserStep, TypeSplit DEF LineInv
<1>2. /\ cmdIdx \in Nat /\ End(0) \in Nat /\ cmdIdx <= End(0) /\ Len(Text) = End(0)
      /\ serialCmd[End(0)] = "NUL" /\ serialCmd \in Buffers
  BY LineFacts
<1>3. cmdIdx' = cmdIdx \/ cmdIdx' \in {cmdIdx - 1, cmdIdx + 1} \cap (0..End(0))
  <2>1. CASE EscapeEnd(c)
    <3>1. cmdIdx' = cmdIdx \/ cmdIdx' = Cursor(c)
      BY <2>1 DEF EscapeEnd
    <3>2. CASE Append(seq, c) = <<"[", "D">> /\ cmdIdx > 0
      BY <1>2, <3>1, <3>2 DEF Cursor
    <3>3. CASE ~(Append(seq, c) = <<"[", "D">> /\ cmdIdx > 0)
               /\ Append(seq, c) = <<"[", "C">> /\ serialCmd[cmdIdx] # "NUL"
      <4>1. Cursor(c) = cmdIdx + 1
        BY <3>3 DEF Cursor
      <4> QED
        BY <1>2, <3>1, <3>3, <4>1
    <3>4. CASE /\ ~(Append(seq, c) = <<"[", "D">> /\ cmdIdx > 0)
               /\ ~(Append(seq, c) = <<"[", "C">> /\ serialCmd[cmdIdx] # "NUL")
      BY <3>1, <3>4 DEF Cursor
    <3> QED
      BY <3>2, <3>3, <3>4
  <2>2. CASE Erase(c)
    <3>1. CASE cmdIdx > 0
      <4>1. End(0)' = End(0) - 1
        BY <2>2, <3>1, EraseBuffer
      <4>2. End(0)' = End(0)
        BY DEF End, Nul
      <4> QED
        BY <1>2, <4>1, <4>2
    <3> QED
      BY <2>2, <3>1 DEF Erase
  <2>3. CASE Escape(c) \/ EnterEmpty(c) \/ Ignore(c) \/ EscapeFirst(c) \/ EscapeCollect(c)
    BY <2>3 DEF Escape, EnterEmpty, Ignore, EscapeFirst, EscapeCollect, vars
  <2> QED
    BY <2>1, <2>2, <2>3 DEF Edit
<1>4. LineInv'
  <2>1. Ends(serialCmd', 0, End(0)) /\ Printable(serialCmd', End(0)) /\ command' \in Seq(Letters)
    BY <1>1 DEF LineInv, TypeOK
  <2>2. cmdIdx' \in Nat /\ cmdIdx' <= End(0)
    BY <1>2, <1>3
  <2> QED
    BY <1>1, <1>2, <2>1, <2>2, LineAfter
<1>5. Text' = Text
  BY DEF Text, End, Nul
<1>6. CommandLine!Move \/ UNCHANGED CommandLine!vars
  BY <1>2, <1>3, <1>5 DEF CommandLine!Move, CommandLine!vars
<1> QED
  BY <1>4, <1>6

(* A byte that is not Enter edits the line, or does nothing to it, unless  *)
(* it is typed into a full line.                                           *)
FullLine == End(0) = Size - 1 /\ \E c \in Letters : Insert(c)

LEMMA EditStep ==
    ASSUME LineInv, NEW c \in Bytes, Edit(c), ~FullLine
    PROVE  LineInv' /\ [CommandLine!Next]_CommandLine!vars
<1>1. CASE Insert(c)
  <2>0. c \in Letters /\ End(0) # Size - 1
    BY <1>1 DEF Insert, FullLine
  <2>1. LineInv' /\ CommandLine!Type(c)
    BY <1>1, <2>0, InsertStep
  <2> QED
    BY <2>0, <2>1 DEF CommandLine!Next
<1>2. CASE Erase(c) /\ cmdIdx > 0
  BY <1>2, EraseStep DEF CommandLine!Next
<1>3. CASE ~Insert(c) /\ ~(Erase(c) /\ cmdIdx > 0)
  <2>1. serialCmd' = serialCmd /\ command' = command
    BY <1>3 DEF Edit, Erase, Escape, EnterEmpty, Ignore, EscapeFirst, EscapeCollect, EscapeEnd, vars
  <2> QED
    BY <1>3, <2>1, StillStep DEF CommandLine!Next
<1> QED
  BY <1>1, <1>2, <1>3

-----------------------------------------------------------------------------
(* What the loop of parseCmd keeps                                         *)

Chars == Bytes \cup {"NUL"}

(* A scan of a line of N bytes.  A pointer to the start of the buffer is   *)
(* only ever the name, so it is not among the arguments.                   *)
Scans(N) ==
    {s \in [buffer : Buffers, word : 0..N, quotes : BOOLEAN,
            name : Seq(Chars), args : Seq(Index \ {0})] :
        s.buffer[N] = "NUL" /\ (s.name # <<>> => s.word # 0)}

Scan(b, w, q, n, a) == [buffer |-> b, word |-> w, quotes |-> q, name |-> n, args |-> a]

LEMMA ScanIs ==
    ASSUME NEW N, NEW b \in Buffers, NEW w \in 0..N, NEW q \in BOOLEAN,
           NEW n \in Seq(Chars), NEW a \in Seq(Index \ {0}),
           b[N] = "NUL", n # <<>> => w # 0
    PROVE  Scan(b, w, q, n, a) \in Scans(N)
<1> HIDE DEF Buffers, Chars
<1> QED
  BY DEF Scan, Scans

LEMMA ScanFields ==
    ASSUME NEW N, NEW s \in Scans(N)
    PROVE  /\ s = Scan(s.buffer, s.word, s.quotes, s.name, s.args)
           /\ s.buffer \in Buffers /\ s.word \in 0..N /\ s.quotes \in BOOLEAN
           /\ s.name \in Seq(Chars) /\ s.args \in Seq(Index \ {0})
           /\ s.buffer[N] = "NUL" /\ (s.name # <<>> => s.word # 0)
<1> HIDE DEF Buffers, Chars
<1> QED
  BY DEF Scan, Scans

(* A string that ends within the buffer is a sequence of bytes.            *)
LEMMA CStringType ==
    ASSUME NEW b \in Buffers, NEW i \in Nat, NEW e \in Index, i <= e, b[e] = "NUL"
    PROVE  CString(b, i) \in Seq(Chars)
<1> DEFINE f == Nul(b, i)
<1>1. Ends(b, i, f) /\ f <= e
  BY NulEnds
<1>2. f \in Index /\ f \in Nat /\ i <= f
  BY <1>1, SizeType DEF Ends
<1>3. CString(b, i) = [k \in 1..f - i |-> b[i + k - 1]]
  BY DEF CString
<1> HIDE DEF f
<1>4. ASSUME NEW k \in 1..f - i PROVE b[i + k - 1] \in Chars
  <2>1. i + k - 1 \in Index
    BY <1>2, SizeType
  <2> QED
    BY <2>1 DEF Buffers, Chars
<1>5. f - i \in Nat
  BY <1>2
<1> QED
  BY <1>3, <1>4, <1>5

(* Taking a word only changes the name or the arguments.                   *)
LEMMA TakeType ==
    ASSUME NEW N \in Index, NEW s \in Scans(N), NEW e \in Index, s.word < e, s.buffer[e] = "NUL"
    PROVE  /\ Take(s).name \in Seq(Chars) /\ Take(s).args \in Seq(Index \ {0})
           /\ Take(s) = Scan(s.buffer, s.word, s.quotes, Take(s).name, Take(s).args)
<1>1. /\ s = Scan(s.buffer, s.word, s.quotes, s.name, s.args)
      /\ s.buffer \in Buffers /\ s.word \in Nat /\ s.word \in Index
      /\ s.name \in Seq(Chars) /\ s.args \in Seq(Index \ {0}) /\ (s.name # <<>> => s.word # 0)
  BY ScanFields, SizeType
<1>2. CASE s.name = <<>>
  <2> DEFINE name == CString(s.buffer, s.word)
  <2>1. name \in Seq(Chars)
    BY <1>1, CStringType, SizeType
  <2>2. Take(s) = [s EXCEPT !.name = name]
    BY <1>2 DEF Take
  <2> HIDE DEF name
  <2>3. Take(s) = Scan(s.buffer, s.word, s.quotes, name, s.args)
    BY <1>1, <2>2 DEF Scan
  <2> QED
    BY <1>1, <2>1, <2>3 DEF Scan
<1>3. CASE s.name # <<>>
  <2> DEFINE args == Append(s.args, s.word)
  <2>1. args \in Seq(Index \ {0})
    <3>1. s.word \in Index \ {0} /\ s.args \in Seq(Index \ {0})
      BY <1>1, <1>3
    <3> HIDE DEF Index
    <3> QED
      BY <3>1
  <2>2. Take(s) = [s EXCEPT !.args = args]
    BY <1>3 DEF Take
  <2> HIDE DEF args
  <2>3. Take(s) = Scan(s.buffer, s.word, s.quotes, s.name, args)
    BY <1>1, <2>2 DEF Scan
  <2> QED
    BY <1>1, <2>1, <2>3 DEF Scan
<1> QED
  BY <1>2, <1>3

(* A quote starts a word or ends it.                                       *)
LEMMA QuoteIs ==
    ASSUME NEW N, NEW s \in Scans(N), NEW i
    PROVE  Quote(s, i) = IF s.quotes
                         THEN Scan([s.buffer EXCEPT ![i] = "NUL"], s.word, FALSE, s.name, s.args)
                         ELSE Scan(s.buffer, i + 1, TRUE, s.name, s.args)
<1>1. PICK b, w, q, n, a : s = Scan(b, w, q, n, a)
  BY ScanFields
<1>2. s.quotes \in BOOLEAN /\ s.quotes = q
  BY <1>1, ScanFields DEF Scan
<1>3. CASE s.quotes = TRUE
  <2>1. Quote(s, i) = [s EXCEPT !.quotes = FALSE, !.word = @, !.buffer = [@ EXCEPT ![i] = "NUL"]]
    BY <1>3, Zenon DEF Quote
  <2> QED
    BY <1>1, <1>3, <2>1 DEF Scan
<1>4. CASE s.quotes = FALSE
  <2>1. Quote(s, i) = [s EXCEPT !.quotes = TRUE, !.word = i + 1, !.buffer = @]
    BY <1>4, Zenon DEF Quote
  <2> QED
    BY <1>1, <1>4, <2>1 DEF Scan
<1> QED
  BY <1>2, <1>3, <1>4

(* The scan with the space at i overwritten, about to take the word.       *)
Cut(s, i) == Scan([s.buffer EXCEPT ![i] = "NUL"], s.word, s.quotes, s.name, s.args)

LEMMA CutType ==
    ASSUME NEW N \in Index, NEW s \in Scans(N), NEW i \in 0..N - 1
    PROVE  /\ Cut(s, i) \in Scans(N)
           /\ Cut(s, i).buffer = [s.buffer EXCEPT ![i] = "NUL"] /\ Cut(s, i).word = s.word
           /\ Cut(s, i).quotes = s.quotes /\ Cut(s, i).name = s.name /\ Cut(s, i).args = s.args
<1> DEFINE b == [s.buffer EXCEPT ![i] = "NUL"]
<1>1. /\ s.buffer \in Buffers /\ s.word \in 0..N /\ s.quotes \in BOOLEAN
      /\ s.name \in Seq(Chars) /\ s.args \in Seq(Index \ {0})
      /\ s.buffer[N] = "NUL" /\ (s.name # <<>> => s.word # 0)
  BY ScanFields
<1>2. b \in Buffers /\ b[N] = "NUL"
  <2>1. i \in Index /\ i # N
    BY SizeType
  <2> QED
    BY <1>1, <2>1 DEF Buffers
<1> HIDE DEF b
<1>3. Scan(b, s.word, s.quotes, s.name, s.args) \in Scans(N)
  BY <1>1, <1>2, ScanIs
<1> QED
  BY <1>3 DEF Cut, b, Scan

(* A space ends the word, takes it and starts another.                     *)
LEMMA SpaceIs ==
    ASSUME NEW N \in Index, NEW s \in Scans(N), NEW i \in 0..N - 1, s.word < i
    PROVE  /\ Space(s, i) = Scan([s.buffer EXCEPT ![i] = "NUL"], i + 1, s.quotes,
                                 Take(Cut(s, i)).name, Take(Cut(s, i)).args)
           /\ Take(Cut(s, i)).name \in Seq(Chars) /\ Take(Cut(s, i)).args \in Seq(Index \ {0})
<1> DEFINE t == Cut(s, i)
           u == Take(t)
<1>1. [s EXCEPT !.buffer[i] = "NUL"] = t
  <2>1. PICK b, w, q, n, a : s = Scan(b, w, q, n, a)
    BY ScanFields
  <2> QED
    BY <2>1 DEF Cut, Scan
<1>2. /\ t \in Scans(N) /\ t.word < i /\ i \in Index /\ t.buffer[i] = "NUL"
      /\ t.buffer = [s.buffer EXCEPT ![i] = "NUL"] /\ t.quotes = s.quotes
  <2>1. s.buffer \in Buffers /\ i \in Index
    BY ScanFields, SizeType
  <2> QED
    BY <2>1, CutType DEF Buffers
<1> HIDE DEF t
<1>3. /\ u.name \in Seq(Chars) /\ u.args \in Seq(Index \ {0})
      /\ u = Scan(t.buffer, t.word, t.quotes, u.name, u.args)
  BY <1>2, TakeType
<1> HIDE DEF u
<1>4. Space(s, i) = [u EXCEPT !.word = i + 1]
  BY <1>1 DEF Space, u
<1>5. Space(s, i) = Scan(t.buffer, i + 1, t.quotes, u.name, u.args)
  BY <1>3, <1>4 DEF Scan
<1> QED
  BY <1>2, <1>3, <1>5 DEF t, u

(* A turn of the loop stays within the line.                               *)
LEMMA TurnType ==
    ASSUME NEW N \in Index, NEW s \in Scans(N), NEW i \in 0..N - 1
    PROVE  Turn(s, i) \in Scans(N)
<1>1. /\ s.buffer \in Buffers /\ s.word \in 0..N /\ s.quotes \in BOOLEAN
      /\ s.name \in Seq(Chars) /\ s.args \in Seq(Index \ {0})
      /\ s.buffer[N] = "NUL" /\ (s.name # <<>> => s.word # 0)
  BY ScanFields
<1>2. i \in Index /\ i # N /\ N \in Nat /\ i + 1 \in 0..N /\ i + 1 # 0 /\ i \in Nat
  BY SizeType
<1>3. /\ [s.buffer EXCEPT ![i] = "NUL"] \in Buffers
      /\ [s.buffer EXCEPT ![i] = "NUL"][N] = "NUL"
  BY <1>1, <1>2 DEF Buffers
<1>4. CASE Turn(s, i) = Quote(s, i)
  <2>1. Scan([s.buffer EXCEPT ![i] = "NUL"], s.word, FALSE, s.name, s.args) \in Scans(N)
    BY <1>1, <1>3, ScanIs
  <2>2. Scan(s.buffer, i + 1, TRUE, s.name, s.args) \in Scans(N)
    BY <1>1, <1>2, ScanIs
  <2> QED
    BY <1>4, <2>1, <2>2, QuoteIs
<1>5. CASE Turn(s, i) = Space(s, i) /\ s.word < i
  <2> DEFINE n == Take(Cut(s, i)).name
             a == Take(Cut(s, i)).args
             b == [s.buffer EXCEPT ![i] = "NUL"]
  <2>1. Space(s, i) = Scan(b, i + 1, s.quotes, n, a) /\ n \in Seq(Chars) /\ a \in Seq(Index \ {0})
    BY <1>5, SpaceIs
  <2>2. b \in Buffers /\ b[N] = "NUL"
    BY <1>3
  <2> HIDE DEF n, a, b
  <2>3. Scan(b, i + 1, s.quotes, n, a) \in Scans(N)
    BY <1>1, <1>2, <2>1, <2>2, ScanIs
  <2> QED
    BY <1>5, <2>1, <2>3
<1>6. CASE Turn(s, i) = s
  BY <1>6
<1> QED
  BY <1>4, <1>5, <1>6 DEF Turn

(* The states of the loop, from before the first byte to after the last.   *)
IsLoop(loop, N) ==
    /\ loop[0] = Start
    /\ \A n \in 1..N : loop[n] = Turn(loop[n - 1], n - 1)
    /\ \A n \in 0..N : loop[n] \in Scans(N)

AfterLoop(loop, N) == IF loop[N].word < N THEN Take(loop[N]) ELSE loop[N]

(* parseCmd's loop has such states.                                        *)
LEMMA ParsedLoops ==
    ASSUME LineInv
    PROVE  \E loop : IsLoop(loop, End(0)) /\ Parsed(End(0)) = AfterLoop(loop, End(0))
<1> DEFINE N == End(0)
           loop[n \in 0..N] == IF n = 0 THEN Start ELSE Turn(loop[n - 1], n - 1)
           step == [n \in 0 + 1..N |-> [s \in Scans(N) |-> Turn(s, n - 1)]]
<1>1. /\ N \in Nat /\ N \in Index /\ 0 \in Int /\ N \in Int /\ 0 <= N
      /\ serialCmd \in Buffers /\ serialCmd[N] = "NUL"
  BY LineFacts
<1>2. Parsed(N) = AfterLoop(loop, N)
  BY Zenon DEF Parsed, AfterLoop
<1> HIDE DEF N
<1>3. Start \in Scans(N)
  <2>1. 0 \in 0..N /\ FALSE \in BOOLEAN /\ <<>> \in Seq(Chars) /\ <<>> \in Seq(Index \ {0})
    BY <1>1
  <2>2. Scan(serialCmd, 0, FALSE, <<>>, <<>>) \in Scans(N)
    BY <1>1, <2>1, ScanIs
  <2> QED
    BY <2>2 DEF Scan, Start
<1>4. ASSUME NEW n \in 1..N, NEW s \in Scans(N) PROVE Turn(s, n - 1) \in Scans(N)
  <2>1. n - 1 \in 0..N - 1
    BY <1>1
  <2> QED
    BY <1>1, <2>1, TurnType
<1>5. \E g : /\ g = [n \in 0..N |-> IF n = 0 THEN Start ELSE Turn(g[n - 1], n - 1)]
             /\ \A n \in 0..N : g[n] \in Scans(N)
  <2>1. step \in [0 + 1..N -> [Scans(N) -> Scans(N)]]
    BY <1>4
  <2>2. \A n \in 1..N, s \in Scans(N) : step[n][s] = Turn(s, n - 1)
    OBVIOUS
  <2> HIDE DEF step
  <2>3. PICK g \in [0..N -> Scans(N)] : g[0] = Start /\ Follows(g, step, 0, N)
    BY <1>1, <1>3, <2>1, Recursion, Zenon
  <2>4. ASSUME NEW n \in 1..N PROVE g[n] = Turn(g[n - 1], n - 1)
    <3>1. n \in 0 + 1..N /\ n - 1 \in 0..N
      BY <1>1
    <3>2. g[n] = step[n][g[n - 1]]
      BY <2>3, <3>1 DEF Follows
    <3>3. g[n - 1] \in Scans(N)
      BY <3>1
    <3> QED
      BY <2>2, <3>2, <3>3
  <2>5. ASSUME NEW n \in 0..N PROVE g[n] = IF n = 0 THEN Start ELSE Turn(g[n - 1], n - 1)
    <3>1. n # 0 => n \in 1..N
      BY <1>1
    <3> QED
      BY <3>1, <2>3, <2>4
  <2>6. g = [n \in 0..N |-> IF n = 0 THEN Start ELSE Turn(g[n - 1], n - 1)]
    BY <2>5
  <2>7. \A n \in 0..N : g[n] \in Scans(N)
    OBVIOUS
  <2> QED
    BY <2>6, <2>7, Zenon
<1>6. loop = [n \in 0..N |-> IF n = 0 THEN Start ELSE Turn(loop[n - 1], n - 1)]
  BY <1>5, Zenon
<1> HIDE DEF loop
<1>7. loop[0] = Start /\ \A n \in 1..N : loop[n] = Turn(loop[n - 1], n - 1)
  BY <1>1, <1>6
<1>8. \A n \in 0..N : loop[n] \in Scans(N)
  <2> DEFINE H == {n \in 0..N : loop[n] \in Scans(N)}
  <2>1. 0 \in H
    BY <1>1, <1>3, <1>7
  <2>2. ASSUME NEW n \in 0..N - 1, n \in H PROVE n + 1 \in H
    <3> DEFINE m == n + 1
    <3>1. m \in 1..N /\ m \in 0..N /\ m - 1 = n /\ loop[n] \in Scans(N)
      BY <1>1, <2>2
    <3> HIDE DEF m
    <3>2. loop[m] \in Scans(N)
      BY <1>4, <1>7, <3>1
    <3> QED
      BY <3>1, <3>2 DEF m
  <2>3. Inductive(H, 0, N)
    BY <2>2 DEF Inductive
  <2> HIDE DEF H
  <2>4. \A n \in 0..N : n \in H
    BY <1>1, <2>1, <2>3, UpTo
  <2> QED
    BY <2>4 DEF H
<1>9. IsLoop(loop, N)
  BY <1>7, <1>8 DEF IsLoop
<1> QED
  BY <1>2, <1>9 DEF N

(* The cut line is a buffer, and no argument points to its start.          *)
LEMMA ParsedType ==
    ASSUME LineInv
    PROVE  /\ Parsed(End(0)).buffer \in Buffers /\ Parsed(End(0)).args \in Seq(Index \ {0})
           /\ Parsed(End(0)).name \in Seq(Chars)
<1>1. PICK loop : IsLoop(loop, End(0)) /\ Parsed(End(0)) = AfterLoop(loop, End(0))
  BY ParsedLoops
<1>2. End(0) \in Nat /\ End(0) \in Index
  BY LineFacts
<1> DEFINE N == End(0)
           s == loop[N]
<1>3. s \in Scans(N)
  BY <1>1, <1>2 DEF IsLoop
<1> HIDE DEF s, N
<1>4. /\ s.buffer \in Buffers /\ s.args \in Seq(Index \ {0}) /\ s.buffer[N] = "NUL"
      /\ s.name \in Seq(Chars)
  BY <1>3 DEF Scans
<1>5. CASE s.word < N
  <2>1. /\ Take(s).buffer = s.buffer /\ Take(s).args \in Seq(Index \ {0})
        /\ Take(s).name \in Seq(Chars)
    BY <1>2, <1>3, <1>4, <1>5, TakeType DEF N, Scan
  <2> QED
    BY <1>1, <1>4, <1>5, <2>1 DEF AfterLoop, s, N
<1>6. CASE ~(s.word < N)
  BY <1>1, <1>4, <1>6 DEF AfterLoop, s, N
<1> QED
  BY <1>5, <1>6

-----------------------------------------------------------------------------
(* The shell keeps its line                                                *)

(* An evaluator that is not idle has one bound command, whose arguments    *)
(* point into the buffer behind its first byte.                            *)
Bound == {<<>>} \cup {<<[name |-> n, args |-> a]>> : n \in Seq(Chars), a \in Seq(Index \ {0})}

SideInv ==
    /\ registry \in SUBSET (Early \cup {Late})
    /\ setup \in {"mounting", "inserting", "done"}
    /\ evaluator \in Bound
    /\ answer \in {"none", "launched", "failed", "unknown"}

(* While the line has its NUL, and once it has none.                       *)
ShellInv == LineInv /\ SideInv

LostInv == TypeOK /\ ~Terminated /\ SideInv

(* The editor starts with an empty line.                                   *)
LEMMA LineInit ==
    ASSUME Init
    PROVE  LineInv /\ CommandLine!Init
<1>1. 0 \in Index /\ 0 \in Nat
  BY SizeType
<1>2. serialCmd \in Buffers /\ serialCmd[0] = "NUL"
  BY <1>1 DEF Init, Buffers
<1>3. Ends(serialCmd, 0, 0)
  BY <1>1, <1>2 DEF Ends
<1>4. End(0) = 0
  BY <1>1, <1>3, NulIs DEF End
<1>5. ParserTypeOK
  BY DEF Init, ParserTypeOK
<1>6. TypeOK
  BY <1>1, <1>2, <1>5, TypeSplit DEF Init
<1>7. LineInv
  BY <1>1, <1>3, <1>4, <1>6 DEF Init, LineInv, Printable
<1>8. Text = <<>>
  <2>1. Text \in Seq(Letters) /\ Len(Text) = 0
    BY <1>4, <1>7, LineFacts
  <2> QED
    BY <2>1
<1> QED
  BY <1>7, <1>8 DEF Init, CommandLine!Init

LEMMA LineUnchanged ==
    ASSUME UNCHANGED vars
    PROVE  (LineInv => LineInv') /\ UNCHANGED CommandLine!vars
<1>1. serialCmd' = serialCmd /\ cmdIdx' = cmdIdx /\ parsers' = parsers /\ second' = second
      /\ seq' = seq /\ command' = command
  BY DEF vars
<1>2. End(0)' = End(0) /\ Text' = Text
  BY <1>1 DEF End, Text, Nul
<1>3. LineInv => LineInv'
  BY <1>1, <1>2 DEF LineInv, TypeOK, Base, Ends, Printable
<1> QED
  BY <1>1, <1>2, <1>3 DEF CommandLine!vars

(* Enter, as the line editor sees it: the cut line is a buffer.            *)
LEMMA RunLineStep ==
    ASSUME ShellInv, NEW c \in Bytes, RunLine(c)
    PROVE  ShellInv' /\ CommandLine!Enter
<1> DEFINE line == Parsed(End(0))
<1>1. line.buffer \in Buffers /\ line.args \in Seq(Index \ {0}) /\ line.name \in Seq(Chars)
  BY ParsedType DEF ShellInv
<1>2. /\ EnterCutting(c, line.buffer) /\ answer' \in Answers(line.name)
      /\ evaluator' = IF answer' = "launched"
                      THEN <<[name |-> line.name, args |-> line.args]>> ELSE <<>>
      /\ registry' = registry /\ setup' = setup
  BY Zenon DEF RunLine
<1> HIDE DEF line
<1>3. LineInv' /\ CommandLine!Enter
  BY <1>1, <1>2, EnterStep DEF ShellInv
<1>4. evaluator' \in Bound
  <2>1. CASE answer' = "launched"
    <3>1. evaluator' = <<[name |-> line.name, args |-> line.args]>>
      BY <1>2, <2>1
    <3> HIDE DEF Chars, Index
    <3> QED
      BY <1>1, <3>1 DEF Bound
  <2>2. CASE answer' # "launched"
    BY <1>2, <2>2 DEF Bound
  <2> QED
    BY <2>1, <2>2
<1>5. answer' \in {"none", "launched", "failed", "unknown"}
  <2>1. PICK found \in BOOLEAN :
            answer' \in IF found THEN {"launched", "failed"} ELSE {"unknown"}
    BY <1>2 DEF Answers, Found
  <2> QED
    BY <2>1
<1> QED
  BY <1>2, <1>3, <1>4, <1>5 DEF ShellInv, SideInv

(* Each step of the shell keeps its invariant and is a step of Line or     *)
(* none, unless a byte is typed into a full line.                          *)
LEMMA ShellStep ==
    ASSUME ShellInv, [ShellNext]_<<vars, shell>>, ~FullLine
    PROVE  ShellInv' /\ [CommandLine!Next]_CommandLine!vars
<1>1. CASE \E c \in Bytes : RunLine(c)
  <2>1. PICK c \in Bytes : RunLine(c)
    BY <1>1
  <2> QED
    BY <2>1, RunLineStep DEF CommandLine!Next
<1>2. CASE \E c \in Bytes : EditLine(c)
  <2>1. PICK c \in Bytes : EditLine(c)
    BY <1>2
  <2>2. /\ Edit(c) /\ answer' = "none"
        /\ registry' = registry /\ setup' = setup /\ evaluator' = evaluator
    BY <2>1 DEF EditLine
  <2>3. LineInv' /\ [CommandLine!Next]_CommandLine!vars
    BY <2>2, EditStep DEF ShellInv
  <2> QED
    BY <2>2, <2>3 DEF ShellInv, SideInv, Bound
<1>3. CASE Evaluate
  <2>1. UNCHANGED vars /\ evaluator' = <<>> /\ answer' = "none"
        /\ registry' = registry /\ setup' = setup
    BY <1>3 DEF Evaluate
  <2> QED
    BY <2>1, LineUnchanged DEF ShellInv, SideInv, Bound
<1>4. CASE Mount \/ Inserted
  <2>1. /\ UNCHANGED vars /\ evaluator' = evaluator /\ answer' = answer
        /\ registry' \in {registry, registry \cup {Late}}
        /\ setup' \in {"inserting", "done"}
    BY <1>4 DEF Mount, Inserted
  <2> QED
    BY <2>1, LineUnchanged DEF ShellInv, SideInv, Bound
<1>5. CASE UNCHANGED <<vars, shell>> \/ (Overrun /\ UNCHANGED shell)
  <2>1. UNCHANGED vars /\ evaluator' = evaluator /\ answer' = answer
        /\ registry' = registry /\ setup' = setup
    BY <1>5 DEF shell, Overrun
  <2> QED
    BY <2>1, LineUnchanged DEF ShellInv, SideInv, Bound
<1> QED
  BY <1>1, <1>2, <1>3, <1>4, <1>5 DEF ShellNext

(* A byte typed into a full line leaves everything but the line in order.  *)
LEMMA FullLineStep ==
    ASSUME ShellInv, [ShellNext]_<<vars, shell>>, FullLine
    PROVE  LostInv'
<1>1. TypeOK' /\ ~Terminated'
  BY OverrunStep DEF FullLine, ShellInv
<1>2. ~LineInv'
  BY <1>1 DEF LineInv, Ends, Terminated
<1>3. PICK c \in Bytes : EditLine(c)
  <2>1. ~UNCHANGED vars
    BY <1>2, LineUnchanged DEF ShellInv
  <2>2. ~\E c \in Bytes : RunLine(c)
    BY <1>2, RunLineStep DEF ShellInv
  <2> QED
    BY <2>1, <2>2 DEF ShellNext, Evaluate, Mount, Inserted, Overrun
<1>4. answer' = "none" /\ registry' = registry /\ setup' = setup /\ evaluator' = evaluator
  BY <1>3 DEF EditLine
<1> QED
  BY <1>1, <1>4 DEF ShellInv, LostInv, SideInv, Bound

(* After that, the model stands still.                                     *)
LEMMA LostStep ==
    ASSUME LostInv, [ShellNext]_<<vars, shell>>
    PROVE  LostInv' /\ UNCHANGED <<vars, shell>>
<1>1. UNCHANGED vars /\ UNCHANGED shell
  BY DEF LostInv, ShellNext, Overrun
<1>2. /\ serialCmd' = serialCmd /\ cmdIdx' = cmdIdx /\ parsers' = parsers /\ second' = second
      /\ seq' = seq /\ command' = command
      /\ registry' = registry /\ setup' = setup /\ evaluator' = evaluator /\ answer' = answer
  BY <1>1 DEF vars, shell
<1> QED
  BY <1>1, <1>2 DEF LostInv, TypeOK, Base, Terminated, SideInv, Bound

(* The invariant of the shell.                                             *)
LEMMA AnyStep ==
    ASSUME ShellInv \/ LostInv, [ShellNext]_<<vars, shell>>
    PROVE  ShellInv' \/ LostInv'
  BY ShellStep, FullLineStep, LostStep

LEMMA ShellInitInv ==
    ASSUME ShellInit
    PROVE  ShellInv /\ CommandLine!Init
<1>1. LineInv /\ CommandLine!Init
  BY LineInit DEF ShellInit
<1> QED
  BY <1>1 DEF ShellInit, ShellInv, SideInv, Bound

LEMMA ShellTypes ==
    ASSUME TypeOK, SideInv
    PROVE  ShellTypeOK
<1>1. CASE evaluator = <<>>
  BY <1>1 DEF SideInv, ShellTypeOK
<1>2. CASE evaluator # <<>>
  <2>1. PICK n \in Seq(Chars), a \in Seq(Index \ {0}) : evaluator = <<[name |-> n, args |-> a]>>
    <3> HIDE DEF Chars, Index
    <3> QED
      BY <1>2 DEF SideInv, Bound
  <2>2. Len(evaluator) = 1 /\ DOMAIN evaluator = {1} /\ evaluator[1].args = a
    BY <2>1
  <2> HIDE DEF Index
  <2> QED
    BY <2>1, <2>2 DEF SideInv, ShellTypeOK
<1> QED
  BY <1>1, <1>2

(* Whatever bytes the host sends and whatever was left behind in the       *)
(* buffer, the shell's variables keep their types: an evaluator's          *)
(* arguments are indices of the buffer, never its first (state.cpp:94-155).*)
THEOREM ShellTypeCorrect == ShellSpec => []ShellTypeOK
<1>1. ShellInit => ShellInv \/ LostInv
  BY ShellInitInv
<1>2. (ShellInv \/ LostInv) /\ [ShellNext]_<<vars, shell>> => (ShellInv \/ LostInv)'
  BY AnyStep
<1>3. ShellInv \/ LostInv => ShellTypeOK
  BY ShellTypes DEF ShellInv, LostInv, LineInv
<1> QED
  BY <1>1, <1>2, <1>3, PTL DEF ShellSpec

(* Until a line has overrun the buffer, the cursor stays in the text, so   *)
(* that every loop of the parsers stops at the NUL that ends it            *)
(* (state.cpp:33, 55-77).                                                  *)
THEOREM CursorStaysInText == ShellSpec => []CursorInText
<1>1. ShellInit => ShellInv \/ LostInv
  BY ShellInitInv
<1>2. (ShellInv \/ LostInv) /\ [ShellNext]_<<vars, shell>> => (ShellInv \/ LostInv)'
  BY AnyStep
<1>3. ShellInv \/ LostInv => CursorInText
  BY LineFacts DEF ShellInv, LostInv, CursorInText
<1> QED
  BY <1>1, <1>2, <1>3, PTL DEF ShellSpec

(* A buffer of any size holds a line of one byte less: the next byte typed *)
(* into it overruns the buffer, and there is no other way to overrun it,   *)
(* whatever is typed, erased, run and left behind (state.cpp:57-63).       *)
THEOREM FullLineOverruns == ShellSpec => OverrunsWhenFull
<1> DEFINE Overruns ==
               Terminated =>
                   (~Terminated' <=> End(0) = Size - 1 /\ \E c \in Letters : Insert(c))
<1>1. ShellInit => ShellInv \/ LostInv
  BY ShellInitInv
<1>2. (ShellInv \/ LostInv) /\ [ShellNext]_<<vars, shell>> => (ShellInv \/ LostInv)'
  BY AnyStep
<1>3. ASSUME ShellInv \/ LostInv, [ShellNext]_<<vars, shell>> PROVE Overruns
  <2>1. CASE LostInv
    BY <2>1 DEF LostInv
  <2>2. CASE ShellInv /\ FullLine
    BY <1>3, <2>2, FullLineStep DEF LostInv, FullLine
  <2>3. CASE ShellInv /\ ~FullLine
    <3>1. Terminated'
      BY <1>3, <2>3, ShellStep DEF ShellInv, LineInv, Ends, Terminated
    <3> QED
      BY <2>3, <3>1 DEF FullLine
  <2> QED
    BY <1>3, <2>1, <2>2, <2>3
<1>4. (ShellInv \/ LostInv) /\ [ShellNext]_<<vars, shell>> => [Overruns]_vars
  BY <1>3
<1> QED
  BY <1>1, <1>2, <1>4, PTL DEF ShellSpec, OverrunsWhenFull

(* Until a line has overrun the buffer, the shell is the command line of   *)
(* Line: each byte types, erases, moves, runs the line or does nothing,    *)
(* and the evaluator and setup leave it alone (state.cpp:20-87, 157-163).  *)
THEOREM ShellEditsLine == ShellSpec => EditsLine
<1>1. ShellInit => ShellInv /\ CommandLine!Init
  BY ShellInitInv
<1>2. (ShellInv \/ LostInv) /\ [ShellNext]_<<vars, shell>> => (ShellInv \/ LostInv)'
  BY AnyStep
<1>3. ASSUME ShellInv \/ LostInv, [ShellNext]_<<vars, shell>>
      PROVE  [~Terminated' \/ CommandLine!Next]_CommandLine!vars
  <2>1. CASE LostInv \/ FullLine
    BY <1>3, <2>1, LostStep, FullLineStep DEF LostInv
  <2>2. CASE ShellInv /\ ~FullLine
    BY <1>3, <2>2, ShellStep
  <2> QED
    BY <1>3, <2>1, <2>2
<1> QED
  BY <1>1, <1>2, <1>3, PTL DEF ShellSpec, EditsLine

-----------------------------------------------------------------------------
(* Words in the buffer                                                     *)

(* The string t stands in b at i, with its NUL.                            *)
Holds(b, i, t) ==
    /\ i \in Nat /\ i + Len(t) \in Index
    /\ \A j \in 1..Len(t) : b[i + j - 1] = t[j]
    /\ b[i + Len(t)] = "NUL"

(* Such a string is read as t.                                             *)
LEMMA HoldsString ==
    ASSUME NEW b, NEW i, NEW t \in Seq(Letters), Holds(b, i, t)
    PROVE  CString(b, i) = t
<1> DEFINE m == Len(t)
           e == i + m
<1>1. /\ i \in Nat /\ m \in Nat /\ e \in Index /\ b[e] = "NUL"
      /\ \A j \in 1..m : b[i + j - 1] = t[j]
  BY DEF Holds
<1>2. ASSUME NEW k \in i..e - 1 PROVE b[k] # "NUL"
  <2> DEFINE j == k - i + 1
  <2>1. j \in 1..m /\ i + j - 1 = k
    BY <1>1
  <2> HIDE DEF j
  <2>2. b[k] = t[j] /\ t[j] \in Letters
    BY <1>1, <2>1
  <2> QED
    BY <2>2, SizeType
<1>3. Ends(b, i, e)
  BY <1>1, <1>2, SizeType DEF Ends
<1>4. Nul(b, i) = e
  BY <1>1, <1>3, NulIs
<1>5. CString(b, i) = [k \in 1..m |-> b[i + k - 1]]
  BY <1>1, <1>4 DEF CString
<1> HIDE DEF m, e
<1>6. CString(b, i) = [k \in 1..m |-> t[k]]
  BY <1>1, <1>5
<1> QED
  BY <1>6 DEF m

(* A NUL written outside a string leaves it.                               *)
LEMMA HoldsKept ==
    ASSUME NEW b \in Buffers, NEW i, NEW t, Len(t) \in Nat, Holds(b, i, t),
           NEW x \in Index, x < i \/ x > i + Len(t)
    PROVE  Holds([b EXCEPT ![x] = "NUL"], i, t)
<1> DEFINE m == Len(t)
           c == [b EXCEPT ![x] = "NUL"]
<1>1. /\ i \in Nat /\ m \in Nat /\ i + m \in Index /\ b[i + m] = "NUL"
      /\ \A j \in 1..m : b[i + j - 1] = t[j] /\ x \in Nat
  BY SizeType DEF Holds
<1>2. \A k \in Index : k # x => c[k] = b[k]
  BY DEF Buffers
<1> HIDE DEF m, c
<1>3. x < i \/ x > i + m
  BY DEF m
<1>4. ASSUME NEW j \in 1..m PROVE c[i + j - 1] = t[j]
  <2>1. i + j - 1 \in Index /\ i + j - 1 # x
    BY <1>1, <1>3, SizeType
  <2> QED
    BY <1>1, <1>2, <2>1
<1>5. c[i + m] = "NUL"
  BY <1>1, <1>2, <1>3
<1> QED
  BY <1>1, <1>4, <1>5 DEF Holds, m, c

(* The first m words of ws were taken from b, all of them before p.        *)
Taken(b, name, args, ws, m, p) ==
    /\ m = 0 => name = <<>> /\ args = <<>>
    /\ m > 0 => /\ name = ws[1].text
                /\ Len(args) = m - 1
                /\ \A a \in 1..m - 1 : /\ Holds(b, args[a], ws[a + 1].text)
                                       /\ args[a] + Len(ws[a + 1].text) < p

IsWords(ws, n) ==
    n \in Nat \ {0} /\ ws \in [1..n -> Words] /\ Len(ws) = n /\ ws[1].text # <<>>

(* WordAssumption, for a word of a list.                                   *)
LEMMA WordFacts ==
    ASSUME NEW ws, NEW n, IsWords(ws, n), NEW k \in 1..n
    PROVE  /\ ws[k] \in Words /\ ws[k].quoted \in BOOLEAN
           /\ ws[k].text \in Seq(Letters) /\ Len(ws[k].text) \in Nat
           /\ \A j \in 1..Len(ws[k].text) :
                ws[k].text[j] # "QUOTE" /\ (ws[k].quoted = FALSE => ws[k].text[j] # " ")
           /\ ws[k].quoted = FALSE => Len(ws[k].text) > 0
<1>1. ws[k] \in Words
  BY DEF IsWords
<1> DEFINE w == ws[k]
<1> HIDE DEF w
<1>2. /\ w \in [quoted : BOOLEAN, text : Seq(Letters)]
      /\ \A j \in 1..Len(w.text) : w.text[j] # "QUOTE" /\ (w.quoted = FALSE => w.text[j] # " ")
      /\ w.quoted = FALSE => w.text # <<>>
  BY <1>1, WordAssumption DEF w
<1> DEFINE t == w.text
<1>3. t \in Seq(Letters) /\ w.quoted \in BOOLEAN
  BY <1>2
<1>4. (w.quoted = FALSE => Len(t) > 0) /\ Len(t) \in Nat
  <2>1. w.quoted = FALSE => t # <<>>
    BY <1>2
  <2> HIDE DEF t
  <2> QED
    BY <1>3, <2>1
<1> QED
  BY <1>1, <1>2, <1>3, <1>4 DEF w

(* A NUL written behind the words taken leaves them.                       *)
LEMMA TakenKept ==
    ASSUME NEW b \in Buffers, NEW name, NEW args, NEW ws, NEW n, IsWords(ws, n),
           NEW m \in 0..n, NEW p \in Nat, NEW q \in Nat, NEW x \in Index,
           Taken(b, name, args, ws, m, p), x >= p, q >= p
    PROVE  Taken(b, name, args, ws, m, q) /\ Taken([b EXCEPT ![x] = "NUL"], name, args, ws, m, q)
<1>1. ASSUME m > 0, NEW a \in 1..m - 1
      PROVE  /\ Holds(b, args[a], ws[a + 1].text)
             /\ args[a] + Len(ws[a + 1].text) < q
             /\ Holds([b EXCEPT ![x] = "NUL"], args[a], ws[a + 1].text)
  <2>1. n \in Nat /\ a + 1 \in 1..n
    BY DEF IsWords
  <2>2. Len(ws[a + 1].text) \in Nat
    BY <2>1, WordFacts
  <2>3. Holds(b, args[a], ws[a + 1].text) /\ args[a] + Len(ws[a + 1].text) < p
    BY <1>1 DEF Taken
  <2>4. args[a] \in Nat /\ x \in Nat
    BY <2>3, SizeType DEF Holds
  <2>5. x > args[a] + Len(ws[a + 1].text)
    BY <2>2, <2>3, <2>4
  <2> QED
    BY <2>2, <2>3, <2>4, <2>5, HoldsKept
<1> QED
  BY <1>1 DEF Taken

(* Taking the word that stands at s.word.                                  *)
LEMMA TakeWord ==
    ASSUME NEW N \in Index, NEW s \in Scans(N), NEW ws, NEW n, IsWords(ws, n),
           NEW k \in 1..n, NEW p \in Nat,
           Taken(s.buffer, s.name, s.args, ws, k - 1, s.word),
           Holds(s.buffer, s.word, ws[k].text), s.word + Len(ws[k].text) < p
    PROVE  Taken(s.buffer, Take(s).name, Take(s).args, ws, k, p)
<1>1. /\ s = Scan(s.buffer, s.word, s.quotes, s.name, s.args)
      /\ s.word \in Nat /\ s.args \in Seq(Index \ {0}) /\ (s.name # <<>> => s.word # 0)
  BY ScanFields, SizeType
<1>2. ws[k].text \in Seq(Letters) /\ n \in Nat /\ ws[1].text # <<>>
  BY WordFacts DEF IsWords
<1>3. CASE k = 1
  <2>1. s.name = <<>> /\ s.args = <<>>
    BY <1>3 DEF Taken
  <2>2. CString(s.buffer, s.word) = ws[1].text
    BY <1>2, <1>3, HoldsString
  <2>3. Take(s) = [s EXCEPT !.name = ws[1].text]
    BY <2>1, <2>2, Zenon DEF Take
  <2>4. Take(s).name = ws[1].text /\ Take(s).args = <<>>
    BY <1>1, <2>1, <2>3 DEF Scan
  <2> QED
    BY <1>3, <2>4 DEF Taken
<1>4. CASE k # 1
  <2> DEFINE args == Append(s.args, s.word)
             m == k - 1
  <2>1. /\ s.name = ws[1].text /\ Len(s.args) = m - 1 /\ m \in 1..n
        /\ \A a \in 1..m - 1 : /\ Holds(s.buffer, s.args[a], ws[a + 1].text)
                               /\ s.args[a] + Len(ws[a + 1].text) < s.word
    BY <1>2, <1>4 DEF Taken
  <2>2. Take(s) = [s EXCEPT !.args = args]
    BY <1>2, <2>1, Zenon DEF Take
  <2> HIDE DEF args
  <2>3. Take(s).name = ws[1].text /\ Take(s).args = args
    BY <1>1, <2>1, <2>2 DEF Scan
  <2> HIDE DEF m
  <2>4. /\ Len(args) = m /\ args[m] = s.word
        /\ \A a \in 1..m - 1 : args[a] = s.args[a]
    <3>1. s.args \in Seq(Index \ {0}) /\ Len(s.args) = m - 1 /\ m \in Nat
      BY <1>1, <2>1
    <3> HIDE DEF Index
    <3> QED
      BY <3>1 DEF args
  <2>5. ASSUME NEW a \in 1..m
        PROVE  /\ Holds(s.buffer, args[a], ws[a + 1].text)
               /\ args[a] + Len(ws[a + 1].text) < p
    <3>1. CASE a = m
      BY <2>1, <2>4, <3>1 DEF m
    <3>2. CASE a # m
      <4>1. a \in 1..m - 1 /\ a + 1 \in 1..n
        BY <1>2, <2>1, <3>2
      <4>2. /\ Holds(s.buffer, s.args[a], ws[a + 1].text) /\ args[a] = s.args[a]
            /\ s.args[a] + Len(ws[a + 1].text) < s.word
        BY <2>1, <2>4, <4>1
      <4>3. Len(ws[a + 1].text) \in Nat /\ Len(ws[k].text) \in Nat
        BY <4>1, WordFacts
      <4>4. args[a] \in Nat /\ args[a] + Len(ws[a + 1].text) < s.word
        BY <4>2 DEF Holds
      <4> DEFINE x == Len(ws[a + 1].text)
                 y == Len(ws[k].text)
      <4>5. x \in Nat /\ y \in Nat /\ args[a] + x < s.word /\ s.word + y < p
        BY <4>3, <4>4
      <4> HIDE DEF x, y
      <4>6. args[a] + x < p
        BY <1>1, <4>4, <4>5
      <4> QED
        BY <4>2, <4>6 DEF x
    <3> QED
      BY <3>1, <3>2
  <2> QED
    BY <2>3, <2>4, <2>5 DEF Taken, m
<1> QED
  BY <1>3, <1>4

-----------------------------------------------------------------------------
(* The loop over one word                                                  *)

(* From p on, b is the line as it was entered.                             *)
Intact(b, p, N) == \A i \in p..N : b[i] = serialCmd[i]

(* The word w stands in the line at p, as the user wrote it.               *)
Spells(p, w) == \A j \in 1..Len(Written(w)) : serialCmd[p + j - 1] = Written(w)[j]

(* The loop is at p, where word k begins.                                  *)
Before(s, ws, k, p, N) ==
    /\ s.quotes = FALSE /\ s.word = p
    /\ Intact(s.buffer, p, N)
    /\ Taken(s.buffer, s.name, s.args, ws, k - 1, p)

(* The loop is at e, right behind word k, which is still to be taken.      *)
Behind(s, ws, k, e, N) ==
    /\ s.quotes = FALSE /\ s.word < e
    /\ Intact(s.buffer, e, N)
    /\ Taken(s.buffer, s.name, s.args, ws, k - 1, s.word)
    /\ s.word + Len(ws[k].text) <= e
    /\ \A j \in 1..Len(ws[k].text) : s.buffer[s.word + j - 1] = ws[k].text[j]
    /\ s.word + Len(ws[k].text) # e => s.buffer[s.word + Len(ws[k].text)] = "NUL"

Idle(s, a, b) == \A i \in a..b - 1 : Turn(s, i) = s

(* Turns that change nothing can be skipped.                               *)
LEMMA Idles ==
    ASSUME NEW N \in Nat, NEW loop, IsLoop(loop, N), NEW a \in 0..N, NEW b \in a..N,
           NEW s, loop[a] = s, Idle(s, a, b)
    PROVE  loop[b] = s
<1> DEFINE H == {i \in a..b : loop[i] = s}
<1>1. a \in H
  OBVIOUS
<1>2. ASSUME NEW i \in a..b - 1, i \in H PROVE i + 1 \in H
  <2> DEFINE m == i + 1
  <2>1. m \in 1..N /\ m - 1 = i /\ m \in a..b /\ loop[i] = s
    BY <1>2
  <2> HIDE DEF m
  <2>2. loop[m] = Turn(s, i)
    BY <2>1 DEF IsLoop
  <2> QED
    BY <2>1, <2>2 DEF Idle, m
<1>3. Inductive(H, a, b)
  BY <1>2 DEF Inductive
<1> HIDE DEF H
<1>4. \A i \in a..b : i \in H
  BY <1>1, <1>3, UpTo
<1> QED
  BY <1>4 DEF H

(* How a word is written, with and without quotes.                         *)
LEMMA WrittenIs ==
    ASSUME NEW w, NEW t \in Seq(Letters), w.text = t
    PROVE  /\ w.quoted = FALSE => Written(w) = t
           /\ w.quoted = TRUE => /\ Len(Written(w)) = Len(t) + 2
                                 /\ Written(w)[1] = "QUOTE" /\ Written(w)[Len(t) + 2] = "QUOTE"
                                 /\ \A j \in 1..Len(t) : Written(w)[j + 1] = t[j]
<1>1. CASE w.quoted = FALSE
  BY <1>1 DEF Written
<1>2. CASE w.quoted = TRUE
  <2> DEFINE S == Letters \cup {"QUOTE"}
             q == <<"QUOTE">>
             u == q \o t
             v == u \o q
             m == Len(t)
  <2>1. q \in Seq(S) /\ Len(q) = 1 /\ q[1] = "QUOTE"
    OBVIOUS
  <2>2. t \in Seq(S) /\ m \in Nat
    OBVIOUS
  <2> HIDE DEF S, q
  <2>3. /\ u \in Seq(S) /\ Len(u) = Len(q) + m
        /\ \A i \in 1..Len(q) + m : u[i] = IF i <= Len(q) THEN q[i] ELSE t[i - Len(q)]
    BY <2>1, <2>2, ConcatProperties, Zenon
  <2> HIDE DEF u
  <2>4. /\ Len(v) = Len(u) + Len(q)
        /\ \A i \in 1..Len(u) + Len(q) : v[i] = IF i <= Len(u) THEN u[i] ELSE q[i - Len(u)]
    <3>1. u \in Seq(S) /\ q \in Seq(S)
      BY <2>1, <2>3
    <3> QED
      BY <3>1, ConcatProperties, Zenon
  <2> HIDE DEF v, m
  <2>5. Len(v) = m + 2 /\ v[1] = "QUOTE" /\ v[m + 2] = "QUOTE"
    BY <2>1, <2>2, <2>3, <2>4
  <2>6. ASSUME NEW j \in 1..m PROVE v[j + 1] = t[j]
    <3> DEFINE i == j + 1
    <3>1. i \in 1..m + 1 /\ ~(i <= 1) /\ i - 1 = j
      BY <2>2
    <3> HIDE DEF i
    <3>2. v[i] = t[j]
      BY <2>1, <2>2, <2>3, <2>4, <3>1
    <3> QED
      BY <3>2 DEF i
  <2>7. Written(w) = v
    BY <1>2 DEF Written, u, v, q
  <2> QED
    BY <1>2, <2>5, <2>6, <2>7 DEF m
<1> QED
  BY <1>1, <1>2

LEMMA TurnIdle ==
    ASSUME NEW s, NEW i, s.buffer[i] # "QUOTE", s.buffer[i] # " " \/ s.quotes = TRUE
    PROVE  Turn(s, i) = s
BY DEF Turn

(* A word without quotes leaves the scan as it is.                         *)
LEMMA PlainRead ==
    ASSUME NEW N \in Index, NEW loop, IsLoop(loop, N), NEW ws, NEW n, IsWords(ws, n),
           NEW k \in 1..n, NEW p \in Nat, NEW e \in 0..N, ws[k].quoted = FALSE,
           e = p + Len(Written(ws[k])), Spells(p, ws[k]), Before(loop[p], ws, k, p, N)
    PROVE  Behind(loop[e], ws, k, e, N)
<1> DEFINE s == loop[p]
           t == ws[k].text
           m == Len(t)
<1>1. t \in Seq(Letters) /\ m \in Nat /\ m > 0 /\ N \in Nat
  <2>1. t \in Seq(Letters) /\ m \in Nat /\ m > 0
    BY WordFacts
  <2>2. N \in Nat
    BY SizeType
  <2> QED
    BY <2>1, <2>2
<1>10. \A j \in 1..m : t[j] # "QUOTE" /\ t[j] # " "
  BY WordFacts
<1>2. Written(ws[k]) = t
  BY WrittenIs, WordFacts
<1>3. e = p + m /\ \A j \in 1..m : serialCmd[p + j - 1] = t[j]
  BY <1>2 DEF Spells
<1>4. /\ s.quotes = FALSE /\ s.word = p
      /\ \A i \in p..N : s.buffer[i] = serialCmd[i]
      /\ Taken(s.buffer, s.name, s.args, ws, k - 1, p)
  BY DEF Before, Intact
<1> HIDE DEF s, t, m
<1>5. ASSUME NEW i \in p..e - 1 PROVE Turn(s, i) = s
  <2> DEFINE j == i - p + 1
  <2>1. j \in 1..m /\ p + j - 1 = i /\ i \in p..N
    BY <1>1, <1>3
  <2> HIDE DEF j
  <2>2. s.buffer[i] = t[j]
    BY <1>3, <1>4, <2>1
  <2> QED
    BY <1>1, <1>10, <2>1, <2>2, TurnIdle
<1>6. loop[e] = s
  <2>1. Idle(s, p, e) /\ p \in 0..N /\ e \in p..N /\ loop[p] = s
    BY <1>1, <1>3, <1>5 DEF Idle, s
  <2> QED
    BY <1>1, <2>1, Idles
<1>7. \A i \in e..N : s.buffer[i] = serialCmd[i]
  BY <1>1, <1>3, <1>4
<1>8. ASSUME NEW j \in 1..m PROVE s.buffer[p + j - 1] = t[j]
  <2>1. p + j - 1 \in p..N
    BY <1>1, <1>3
  <2> QED
    BY <1>3, <1>4, <2>1
<1>9. p + m <= e /\ ~(p + m # e) /\ p < e
  BY <1>1, <1>3
<1> QED
  BY <1>4, <1>6, <1>7, <1>8, <1>9 DEF Behind, Intact, t, m

(* The quotes of a word: the first one sets its start, its letters leave   *)
(* the scan as it is, and the second one becomes its NUL.                  *)
LEMMA QuotedRead ==
    ASSUME NEW N \in Index, NEW loop, IsLoop(loop, N), NEW ws, NEW n, IsWords(ws, n),
           NEW k \in 1..n, NEW p \in Nat, NEW e \in 0..N, ws[k].quoted = TRUE,
           e = p + Len(Written(ws[k])), Spells(p, ws[k]), Before(loop[p], ws, k, p, N)
    PROVE  Behind(loop[e], ws, k, e, N)
<1> DEFINE s == loop[p]
           t == ws[k].text
           m == Len(t)
           a == p + 1
           z == p + m + 1
<1>1. t \in Seq(Letters) /\ m \in Nat /\ N \in Nat
  <2>1. t \in Seq(Letters) /\ m \in Nat
    BY WordFacts
  <2>2. N \in Nat
    BY SizeType
  <2> QED
    BY <2>1, <2>2
<1>19. \A j \in 1..m : t[j] # "QUOTE"
  BY WordFacts
<1>2. /\ Len(Written(ws[k])) = m + 2
      /\ Written(ws[k])[1] = "QUOTE" /\ Written(ws[k])[m + 2] = "QUOTE"
      /\ \A j \in 1..m : Written(ws[k])[j + 1] = t[j]
  BY WrittenIs, WordFacts
<1>3. e = p + m + 2 /\ p \in 0..N /\ a \in 1..N /\ z \in a..N - 1 /\ e = z + 1
  BY <1>1, <1>2
<1>4. /\ serialCmd[p] = "QUOTE" /\ serialCmd[z] = "QUOTE"
      /\ \A j \in 1..m : serialCmd[a + j - 1] = t[j]
  <2>1. \A j \in 1..m + 2 : serialCmd[p + j - 1] = Written(ws[k])[j]
    BY <1>2 DEF Spells
  <2>2. serialCmd[p + 1 - 1] = "QUOTE" /\ serialCmd[p + (m + 2) - 1] = "QUOTE"
    <3>1. 1 \in 1..m + 2 /\ m + 2 \in 1..m + 2
      BY <1>1
    <3> QED
      BY <1>2, <2>1, <3>1
  <2>3. ASSUME NEW j \in 1..m PROVE serialCmd[a + j - 1] = t[j]
    <3> DEFINE i == j + 1
    <3>1. i \in 1..m + 2 /\ p + i - 1 = a + j - 1 /\ Written(ws[k])[i] = t[j]
      BY <1>1, <1>2
    <3> HIDE DEF i, a
    <3> QED
      BY <2>1, <3>1
  <2>4. p + 1 - 1 = p /\ p + (m + 2) - 1 = z
    BY <1>1
  <2> QED
    BY <2>2, <2>3, <2>4
<1>5. /\ s.quotes = FALSE /\ s.word = p
      /\ \A i \in p..N : s.buffer[i] = serialCmd[i]
      /\ Taken(s.buffer, s.name, s.args, ws, k - 1, p)
  BY DEF Before, Intact
<1>6. /\ s \in Scans(N) /\ loop[a] \in Scans(N) /\ loop[a] = Turn(s, p)
      /\ loop[e] = Turn(loop[z], z) /\ loop[e] \in Scans(N)
  <2>1. a - 1 = p /\ e - 1 = z /\ e \in 1..N
    BY <1>1, <1>3
  <2> HIDE DEF a, z
  <2> QED
    BY <1>3, <2>1 DEF IsLoop
<1> HIDE DEF s, t, m, a, z
<1> DEFINE q == Scan(s.buffer, a, TRUE, s.name, s.args)
           b == [s.buffer EXCEPT ![z] = "NUL"]
           r == Scan(b, a, FALSE, s.name, s.args)
<1>7. loop[a] = q
  <2>1. s.buffer[p] = "QUOTE"
    BY <1>1, <1>3, <1>4, <1>5
  <2>2. Turn(s, p) = Quote(s, p)
    BY <2>1 DEF Turn
  <2>3. Quote(s, p) = Scan(s.buffer, p + 1, TRUE, s.name, s.args)
    BY <1>5, <1>6, QuoteIs
  <2> QED
    BY <1>6, <2>2, <2>3 DEF a
<1>8. /\ q.buffer = s.buffer /\ q.word = a /\ q.quotes = TRUE /\ q.name = s.name
      /\ q.args = s.args /\ q \in Scans(N)
  BY <1>6, <1>7 DEF Scan
<1> HIDE DEF q
<1>9. ASSUME NEW i \in a..z - 1 PROVE Turn(q, i) = q
  <2> DEFINE j == i - a + 1
  <2>1. j \in 1..m /\ a + j - 1 = i /\ i \in p..N
    BY <1>1, <1>3 DEF a, z
  <2> HIDE DEF j
  <2>2. q.buffer[i] = t[j]
    BY <1>4, <1>5, <1>8, <2>1
  <2> QED
    BY <1>1, <1>8, <1>19, <2>1, <2>2, TurnIdle
<1>10. loop[z] = q
  <2>1. Idle(q, a, z) /\ a \in 0..N /\ z \in a..N
    BY <1>1, <1>3, <1>9 DEF Idle
  <2> QED
    BY <1>1, <1>7, <2>1, Idles
<1>11. loop[e] = r
  <2>1. q.buffer[z] = "QUOTE"
    BY <1>1, <1>3, <1>4, <1>5, <1>8
  <2>2. Turn(q, z) = Quote(q, z)
    BY <2>1 DEF Turn
  <2>3. Quote(q, z) = Scan([q.buffer EXCEPT ![z] = "NUL"], q.word, FALSE, q.name, q.args)
    BY <1>8, QuoteIs
  <2> QED
    BY <1>6, <1>8, <1>10, <2>2, <2>3
<1>12. /\ s.buffer \in Buffers /\ z \in Index /\ a \in Nat /\ z \in Nat /\ z >= p /\ a >= p
       /\ k - 1 \in 0..n
  <2>1. s.buffer \in Buffers
    BY <1>6, ScanFields
  <2> QED
    BY <1>1, <1>3, <2>1, SizeType DEF IsWords, a, z
<1>13. Taken(b, s.name, s.args, ws, k - 1, a)
  BY <1>5, <1>12, TakenKept
<1>14. b[z] = "NUL" /\ \A i \in Index : i # z => b[i] = s.buffer[i]
  BY <1>12 DEF Buffers
<1> HIDE DEF b
<1>15. ASSUME NEW i \in e..N PROVE b[i] = serialCmd[i]
  <2>1. i \in p..N /\ i \in Index /\ i # z
    BY <1>1, <1>3, <1>12, SizeType
  <2> QED
    BY <1>5, <1>14, <2>1
<1>16. ASSUME NEW j \in 1..m PROVE b[a + j - 1] = t[j]
  <2> DEFINE i == a + j - 1
  <2>1. i \in p..N /\ i \in Index /\ i # z /\ serialCmd[i] = t[j]
    BY <1>1, <1>3, <1>4, <1>12, SizeType DEF a, z
  <2> HIDE DEF i
  <2>2. b[i] = t[j]
    BY <1>5, <1>14, <2>1
  <2> QED
    BY <2>2 DEF i
<1>17. r.buffer = b /\ r.word = a /\ r.quotes = FALSE /\ r.name = s.name /\ r.args = s.args
  BY DEF Scan
<1> HIDE DEF r
<1>18. a + m = z /\ a < e /\ z <= e
  BY <1>1, <1>3 DEF a, z
<1> QED
  BY <1>11, <1>13, <1>14, <1>15, <1>16, <1>17, <1>18 DEF Behind, Intact, t, m

(* One word, quoted or not.                                                *)
LEMMA WordRead ==
    ASSUME NEW N \in Index, NEW loop, IsLoop(loop, N), NEW ws, NEW n, IsWords(ws, n),
           NEW k \in 1..n, NEW p \in Nat, NEW e \in 0..N,
           e = p + Len(Written(ws[k])), Spells(p, ws[k]), Before(loop[p], ws, k, p, N)
    PROVE  Behind(loop[e], ws, k, e, N)
<1>1. ws[k].quoted \in BOOLEAN
  BY WordFacts
<1>2. CASE ws[k].quoted = TRUE
  BY <1>2, QuotedRead
<1>3. CASE ws[k].quoted = FALSE
  BY <1>3, PlainRead
<1> QED
  BY <1>1, <1>2, <1>3

(* A space in the line.                                                    *)
IsSpace(i) == serialCmd[i] = " "

(* The space behind a word takes it, and the next word begins.             *)
LEMMA SpaceTakes ==
    ASSUME NEW N \in Index, NEW loop, IsLoop(loop, N), NEW ws, NEW n, IsWords(ws, n),
           NEW k \in 1..n, NEW e \in 0..N - 1, IsSpace(e),
           Behind(loop[e], ws, k, e, N)
    PROVE  Before(loop[e + 1], ws, k + 1, e + 1, N)
<1> DEFINE s == loop[e]
           t == ws[k].text
           m == Len(t)
           u == Cut(s, e)
           b == [s.buffer EXCEPT ![e] = "NUL"]
           f == e + 1
<1>1. m \in Nat
  BY WordFacts
<1>2. N \in Nat /\ e \in 0..N /\ e \in Index /\ e \in Nat /\ f \in 1..N /\ f - 1 = e /\ k - 1 \in 0..n
      /\ k \in Nat
  <2>1. n \in Nat /\ N \in Nat
    BY SizeType DEF IsWords
  <2>2. k \in Nat /\ k - 1 \in 0..n
    BY <2>1
  <2> QED
    BY <2>1, <2>2, SizeType
<1>3. s \in Scans(N) /\ loop[f] = Turn(s, e)
  <2> HIDE DEF f
  <2> QED
    BY <1>2 DEF IsLoop
<1>4. /\ s.quotes = FALSE /\ s.word < e
      /\ Taken(s.buffer, s.name, s.args, ws, k - 1, s.word)
      /\ s.word + m <= e
      /\ s.word + m # e => s.buffer[s.word + m] = "NUL"
  BY DEF Behind
<1>5. \A i \in e..N : s.buffer[i] = serialCmd[i]
  BY DEF Behind, Intact
<1>6. \A j \in 1..m : s.buffer[s.word + j - 1] = t[j]
  BY DEF Behind
<1>7. s.buffer \in Buffers /\ s.word \in Nat
  BY <1>2, <1>3, ScanFields
<1> HIDE DEF s, t, m, f
<1>8. b[e] = "NUL" /\ \A i \in Index : i # e => b[i] = s.buffer[i]
  BY <1>2, <1>7 DEF Buffers
<1>9. /\ u \in Scans(N) /\ u.buffer = b /\ u.word = s.word /\ u.quotes = s.quotes
      /\ u.name = s.name /\ u.args = s.args
  BY <1>3, CutType
<1> HIDE DEF u
<1>10. Taken(b, s.name, s.args, ws, k - 1, s.word)
  BY <1>2, <1>4, <1>7, TakenKept
<1> HIDE DEF b
<1>11. Holds(b, s.word, t)
  <2>1. s.word + m \in Index
    BY <1>1, <1>2, <1>4, <1>7, SizeType
  <2>2. b[s.word + m] = "NUL"
    BY <1>4, <1>8, <2>1
  <2>3. ASSUME NEW j \in 1..m PROVE b[s.word + j - 1] = t[j]
    <3> DEFINE i == s.word + j - 1
    <3>1. i \in Index /\ i # e
      BY <1>1, <1>2, <1>4, <1>7, SizeType
    <3> HIDE DEF i
    <3>2. b[i] = s.buffer[i]
      BY <1>8, <3>1
    <3>3. s.buffer[i] = t[j]
      BY <1>6 DEF i
    <3> QED
      BY <3>2, <3>3 DEF i
  <2> QED
    BY <1>7, <2>1, <2>2, <2>3 DEF Holds, m
<1>12. Taken(b, Take(u).name, Take(u).args, ws, k, f)
  <2>1. /\ Taken(u.buffer, u.name, u.args, ws, k - 1, u.word)
        /\ Holds(u.buffer, u.word, ws[k].text)
    BY <1>9, <1>10, <1>11 DEF t
  <2>2. u.word + Len(ws[k].text) < f /\ f \in Nat
    BY <1>1, <1>2, <1>4, <1>7, <1>9 DEF f, m, t
  <2>3. Taken(u.buffer, Take(u).name, Take(u).args, ws, k, f)
    BY <1>9, <2>1, <2>2, TakeWord
  <2> QED
    BY <1>9, <2>3
<1>13. loop[f] = Scan(b, f, FALSE, Take(u).name, Take(u).args)
  <2>1. s.buffer[e] = serialCmd[e]
    BY <1>2, <1>5
  <2>2. Turn(s, e) = Space(s, e)
    BY <1>4, <2>1, Zenon DEF Turn, IsSpace
  <2>3. Space(s, e) = Scan([s.buffer EXCEPT ![e] = "NUL"], e + 1, s.quotes,
                           Take(Cut(s, e)).name, Take(Cut(s, e)).args)
    BY <1>3, <1>4, SpaceIs
  <2> QED
    BY <1>3, <1>4, <2>2, <2>3 DEF b, f, u
<1>14. ASSUME NEW i \in f..N PROVE b[i] = serialCmd[i]
  <2>1. i \in Index /\ i # e /\ i \in e..N
    BY <1>2, SizeType DEF f
  <2> QED
    BY <1>5, <1>8, <2>1
<1> DEFINE r == loop[f]
<1>15. /\ r.buffer = b /\ r.word = f /\ r.quotes = FALSE
       /\ r.name = Take(u).name /\ r.args = Take(u).args
  BY <1>13 DEF Scan
<1> HIDE DEF r
<1>16. (k + 1) - 1 = k
  BY <1>2
<1>17. Before(r, ws, k + 1, f, N)
  BY <1>12, <1>14, <1>15, <1>16 DEF Before, Intact
<1> QED
  BY <1>17 DEF r, f

(* The end of the line takes the last word.                                *)
LEMMA EndTakes ==
    ASSUME NEW N \in Index, NEW s \in Scans(N), NEW ws, NEW n, IsWords(ws, n),
           NEW k \in 1..n, Behind(s, ws, k, N, N)
    PROVE  Taken(s.buffer, Take(s).name, Take(s).args, ws, k, N + 1) /\ s.word < N
<1> DEFINE m == Len(ws[k].text)
<1>1. m \in Nat /\ N \in Nat
  <2>1. m \in Nat
    BY WordFacts
  <2>2. N \in Nat
    BY SizeType
  <2> QED
    BY <2>1, <2>2
<1>2. /\ s.word < N /\ s.word + m <= N
      /\ Taken(s.buffer, s.name, s.args, ws, k - 1, s.word)
      /\ s.word + m # N => s.buffer[s.word + m] = "NUL"
  BY DEF Behind
<1>3. s.word \in Nat /\ s.buffer[N] = "NUL"
  BY <1>1, ScanFields
<1>4. \A j \in 1..m : s.buffer[s.word + j - 1] = ws[k].text[j]
  BY DEF Behind
<1> HIDE DEF m
<1>5. s.word + m \in Index /\ s.buffer[s.word + m] = "NUL" /\ s.word + m < N + 1 /\ N + 1 \in Nat
  BY <1>1, <1>2, <1>3, SizeType
<1>6. Holds(s.buffer, s.word, ws[k].text)
  BY <1>3, <1>4, <1>5 DEF Holds, m
<1> QED
  BY <1>2, <1>5, <1>6, TakeWord DEF m

-----------------------------------------------------------------------------
(* Where the words of a line stand                                         *)

Joint == <<" ">>
Signs == Letters \cup {"QUOTE"} \cup {Joint[1]}

(* t begins with s.                                                        *)
Starts(s, t) == Len(s) <= Len(t) /\ \A i \in 1..Len(s) : t[i] = s[i]

LEMMA OneSign ==
    ASSUME NEW x
    PROVE  <<x>> \in Seq({x}) /\ Len(<<x>>) = 1 /\ <<x>>[1] = x
OBVIOUS

LEMMA JointIs == Joint \in Seq(Signs) /\ Len(Joint) = 1 /\ Joint[1] = " "
<1>1. Joint \in Seq({" "}) /\ Len(Joint) = 1 /\ Joint[1] = " "
  BY OneSign, Zenon DEF Joint
<1>2. \A x : Joint[1] = x => (Joint \in Seq({x}) => Joint \in Seq(Signs))
  <2> HIDE DEF Joint
  <2> QED
    BY DEF Signs
<1> QED
  BY <1>1, <1>2, Zenon

LEMMA AppendStarts ==
    ASSUME NEW S, NEW s \in Seq(S), NEW x
    PROVE  /\ Starts(s, Append(s, x)) /\ Len(Append(s, x)) = Len(s) + 1
           /\ Append(s, x)[Len(s) + 1] = x
<1> DEFINE T == S \cup {x}
<1>1. s \in Seq(T) /\ x \in T
  OBVIOUS
<1> HIDE DEF T
<1> QED
  BY <1>1 DEF Starts

LEMMA JoinIs ==
    ASSUME NEW s \in Seq(Signs), NEW u \in Seq(Signs)
    PROVE  /\ s \o Joint \o u \in Seq(Signs)
           /\ Len(s \o Joint \o u) = Len(s) + 1 + Len(u)
           /\ Starts(s, s \o Joint \o u)
           /\ (s \o Joint \o u)[Len(s) + 1] = Joint[1]
           /\ \A j \in 1..Len(u) : (s \o Joint \o u)[Len(s) + 1 + j] = u[j]
<1> DEFINE m == Len(s)
           l == Len(u)
           a == s \o Joint
           b == a \o u
<1> HIDE DEF Signs, Joint
<1>1. m \in Nat /\ l \in Nat /\ Len(Joint) = 1 /\ Joint \in Seq(Signs)
  <2>1. m \in Nat /\ l \in Nat
    OBVIOUS
  <2> QED
    BY <2>1, JointIs, Zenon
<1>2. /\ a \in Seq(Signs) /\ Len(a) = m + 1
      /\ \A i \in 1..m + 1 : a[i] = IF i <= m THEN s[i] ELSE Joint[i - m]
  <2>1. /\ a \in Seq(Signs) /\ Len(a) = m + Len(Joint)
        /\ \A i \in 1..m + Len(Joint) : a[i] = IF i <= m THEN s[i] ELSE Joint[i - m]
    BY <1>1, ConcatProperties, Zenon
  <2> QED
    BY <1>1, <2>1, Zenon
<1> HIDE DEF a
<1>3. /\ b \in Seq(Signs) /\ Len(b) = (m + 1) + l
      /\ \A i \in 1..(m + 1) + l : b[i] = IF i <= m + 1 THEN a[i] ELSE u[i - (m + 1)]
  <2>1. a \in Seq(Signs) /\ Len(a) = m + 1
    BY <1>2
  <2>2. /\ b \in Seq(Signs) /\ Len(b) = Len(a) + l
        /\ \A i \in 1..Len(a) + l : b[i] = IF i <= Len(a) THEN a[i] ELSE u[i - Len(a)]
    BY <2>1, ConcatProperties, Zenon
  <2> QED
    BY <2>1, <2>2, Zenon
<1> HIDE DEF b, m, l
<1>4. ASSUME NEW i \in 1..m PROVE b[i] = s[i]
  BY <1>1, <1>2, <1>3
<1>5. b[m + 1] = Joint[1]
  <2>1. (m + 1) - m = 1 /\ m + 1 \in 1..m + 1 /\ ~(m + 1 <= m) /\ m + 1 \in 1..(m + 1) + l
    BY <1>1
  <2> QED
    BY <1>2, <1>3, <2>1
<1>6. ASSUME NEW j \in 1..l PROVE b[m + 1 + j] = u[j]
  <2> DEFINE i == m + 1 + j
  <2>1. i \in 1..(m + 1) + l /\ ~(i <= m + 1) /\ i - (m + 1) = j
    BY <1>1
  <2> HIDE DEF i
  <2>2. b[i] = u[j]
    BY <1>3, <2>1
  <2> QED
    BY <2>2 DEF i
<1>7. Starts(s, b)
  <2>1. m <= Len(b)
    BY <1>1, <1>3
  <2> QED
    BY <1>4, <2>1 DEF Starts, m
<1>8. b = s \o Joint \o u
  BY DEF b, a
<1> QED
  BY <1>1, <1>3, <1>5, <1>6, <1>7, <1>8 DEF m, l

LEMMA StartsTrans ==
    ASSUME NEW s, NEW t, NEW u, Len(s) \in Nat, Len(t) \in Nat, Len(u) \in Nat,
           Starts(s, t), Starts(t, u)
    PROVE  Starts(s, u)
<1>1. Len(s) <= Len(t) /\ Len(t) <= Len(u)
  BY DEF Starts
<1>2. ASSUME NEW i \in 1..Len(s) PROVE u[i] = s[i]
  <2>1. i \in 1..Len(t)
    BY <1>1
  <2> QED
    BY <2>1 DEF Starts
<1> QED
  BY <1>1, <1>2 DEF Starts

LEMMA WrittenType ==
    ASSUME NEW ws, NEW n, IsWords(ws, n), NEW k \in 1..n
    PROVE  Written(ws[k]) \in Seq(Signs)
<1> DEFINE w == ws[k]
           t == w.text
<1>1. t \in Seq(Letters) /\ w.quoted \in BOOLEAN
  BY WordFacts
<1> HIDE DEF w, t, Joint
<1>2. CASE w.quoted = FALSE
  <2>1. Written(w) = t
    BY <1>2 DEF Written, t
  <2> QED
    BY <1>1, <2>1 DEF Signs, w
<1>3. CASE w.quoted = TRUE
  <2> DEFINE q == <<"QUOTE">>
  <2>1. q \in Seq(Signs) /\ t \in Seq(Signs)
    BY <1>1 DEF Signs
  <2>2. Written(w) = q \o t \o q
    BY <1>3 DEF Written, t
  <2> HIDE DEF q, Signs
  <2>3. q \o t \o q \in Seq(Signs)
    BY <2>1
  <2> QED
    BY <2>2, <2>3 DEF w
<1> QED
  BY <1>1, <1>2, <1>3

(* The lines made of the first words of ws, one after the other.           *)
IsJoined(J, ws, n) ==
    /\ J \in [1..n -> Seq(Signs)]
    /\ J[1] = Written(ws[1])
    /\ \A k \in 2..n : J[k] = J[k - 1] \o Joint \o Written(ws[k])

(* Line is the last of the joined lines.                                   *)
LEMMA LineJoins ==
    ASSUME NEW ws, NEW n, IsWords(ws, n)
    PROVE  \E J : IsJoined(J, ws, n) /\ Line(ws) = J[n]
<1> DEFINE joined[k \in 1..Len(ws)] ==
               IF k = 1 THEN Written(ws[1]) ELSE joined[k - 1] \o <<" ">> \o Written(ws[k])
           S == Seq(Signs)
           step == [k \in 1 + 1..n |-> [v \in S |-> v \o Joint \o Written(ws[k])]]
<1>1. n \in Nat /\ n >= 1 /\ 1 \in Int /\ n \in Int /\ 1 <= n /\ Len(ws) = n /\ 1 \in 1..n
  BY DEF IsWords
<1>2. Line(ws) = joined[Len(ws)]
  BY Zenon DEF Line
<1>3. joined = [k \in 1..n |->
                  IF k = 1 THEN Written(ws[1]) ELSE joined[k - 1] \o Joint \o Written(ws[k])]
  <2> HIDE DEF Joint, Signs
  <2>1. ASSUME NEW k \in 1 + 1..n, NEW v \in S PROVE v \o Joint \o Written(ws[k]) \in S
    <3>1. k \in 1..n
      BY <1>1
    <3>2. Written(ws[k]) \in Seq(Signs)
      BY <3>1, WrittenType
    <3> QED
      BY <3>2, JoinIs
  <2> HIDE DEF S
  <2>2. step \in [1 + 1..n -> [S -> S]]
    BY <2>1
  <2>3. \A k \in 1 + 1..n, v \in S : step[k][v] = v \o Joint \o Written(ws[k])
    OBVIOUS
  <2>4. Written(ws[1]) \in S
    BY <1>1, WrittenType DEF S
  <2> HIDE DEF step
  <2>5. PICK g \in [1..n -> S] : g[1] = Written(ws[1]) /\ Follows(g, step, 1, n)
    BY <1>1, <2>2, <2>4, Recursion
  <2>6. ASSUME NEW k \in 2..n PROVE g[k] = g[k - 1] \o Joint \o Written(ws[k])
    <3>1. k \in 1..n /\ k - 1 \in 1..n /\ k \in 1 + 1..n
      BY <1>1
    <3>2. g[k] = step[k][g[k - 1]] /\ g[k - 1] \in S
      BY <2>5, <3>1 DEF Follows
    <3> QED
      BY <2>3, <3>1, <3>2
  <2>7. ASSUME NEW k \in 1..n
        PROVE  g[k] = IF k = 1 THEN Written(ws[1]) ELSE g[k - 1] \o Joint \o Written(ws[k])
    <3>1. k # 1 => k \in 2..n
      BY <1>1
    <3> QED
      BY <2>5, <2>6, <3>1
  <2>8. g = [k \in 1..n |-> IF k = 1 THEN Written(ws[1])
                            ELSE g[k - 1] \o Joint \o Written(ws[k])]
    BY <2>7
  <2>9. \E h : h = [k \in 1..Len(ws) |-> IF k = 1 THEN Written(ws[1])
                                         ELSE h[k - 1] \o Joint \o Written(ws[k])]
    BY <1>1, <2>8, Zenon
  <2>10. joined = [k \in 1..Len(ws) |->
                     IF k = 1 THEN Written(ws[1]) ELSE joined[k - 1] \o Joint \o Written(ws[k])]
    BY <2>9, Zenon DEF Joint
  <2> QED
    BY <1>1, <2>10, Zenon
<1> HIDE DEF joined
<1>4. joined[1] = Written(ws[1]) /\ \A k \in 2..n : joined[k] = joined[k - 1] \o Joint \o Written(ws[k])
  <2> HIDE DEF Joint
  <2>1. joined[1] = Written(ws[1])
    BY <1>1, <1>3, Zenon
  <2>2. ASSUME NEW k \in 2..n PROVE joined[k] = joined[k - 1] \o Joint \o Written(ws[k])
    <3>1. k \in 1..n /\ k # 1
      BY <1>1
    <3> QED
      BY <1>3, <3>1, Zenon
  <2> QED
    BY <2>1, <2>2
<1>5. IsJoined(joined, ws, n)
  <2> HIDE DEF Joint, Signs
  <2> DEFINE H == {k \in 1..n : joined[k] \in Seq(Signs)}
  <2>1. 1 \in H
    BY <1>1, <1>4, WrittenType
  <2>2. ASSUME NEW k \in 1..n - 1, k \in H PROVE k + 1 \in H
    <3> DEFINE m == k + 1
    <3>1. m \in 2..n /\ m - 1 = k /\ m \in 1..n /\ joined[k] \in Seq(Signs)
      BY <1>1, <2>2
    <3> HIDE DEF m
    <3>2. joined[m] = joined[k] \o Joint \o Written(ws[m]) /\ Written(ws[m]) \in Seq(Signs)
      BY <1>4, <3>1, WrittenType
    <3>3. joined[m] \in Seq(Signs)
      BY <3>1, <3>2, JoinIs
    <3> QED
      BY <3>1, <3>3 DEF m
  <2>3. Inductive(H, 1, n)
    BY <2>2 DEF Inductive
  <2> HIDE DEF H
  <2>4. \A k \in 1..n : k \in H
    BY <1>1, <2>1, <2>3, UpTo
  <2>5. \A k \in 1..n : joined[k] \in Seq(Signs)
    BY <2>4 DEF H
  <2>6. joined \in [1..n -> Seq(Signs)]
    BY <1>1, <1>3, <2>5
  <2> QED
    BY <1>4, <2>6 DEF IsJoined
<1> QED
  BY <1>1, <1>2, <1>5

(* The words of ws stand in a line of N bytes at P[1], P[2], ..., each     *)
(* followed by a space but for the last one, which ends at P[n + 1] - 1.   *)
Layout(P, ws, n, N) ==
    /\ P \in [1..n + 1 -> Nat] /\ P[1] = 0
    /\ \A k \in 1..n : /\ P[k + 1] = P[k] + Len(Written(ws[k])) + 1
                       /\ P[k + 1] - 1 <= N
                       /\ Spells(P[k], ws[k])
    /\ \A k \in 1..n - 1 : IsSpace(P[k + 1] - 1)

(* Every joined line is the beginning of the line.                         *)
LEMMA JoinedStarts ==
    ASSUME NEW ws, NEW n, IsWords(ws, n), NEW J, IsJoined(J, ws, n), NEW t, Len(t) \in Nat,
           Starts(J[n], t), NEW k \in 1..n
    PROVE  Starts(J[k], t) /\ J[k] \in Seq(Signs) /\ Len(J[k]) \in Nat
<1> HIDE DEF Joint, Signs
<1>1. n \in Nat /\ n \in 1..n /\ 1 \in Int /\ n \in Int
  BY DEF IsWords
<1>2. ASSUME NEW m \in 1..n PROVE J[m] \in Seq(Signs) /\ Len(J[m]) \in Nat
  BY <1>2 DEF IsJoined
<1> DEFINE H == {m \in 1..n : Starts(J[m], t)}
<1>3. n \in H
  BY <1>1
<1>4. ASSUME NEW m \in 1 + 1..n, m \in H PROVE m - 1 \in H
  <2> DEFINE l == m - 1
  <2>1. m \in 2..n /\ m \in 1..n /\ l \in 1..n /\ Starts(J[m], t)
    BY <1>1, <1>4
  <2>2. J[m] = J[l] \o Joint \o Written(ws[m])
    BY <2>1 DEF IsJoined
  <2> HIDE DEF l
  <2>3. Written(ws[m]) \in Seq(Signs) /\ J[l] \in Seq(Signs)
    BY <1>2, <2>1, WrittenType
  <2>4. Starts(J[l], J[m])
    BY <2>2, <2>3, JoinIs
  <2>5. Len(J[l]) \in Nat /\ Len(J[m]) \in Nat
    BY <1>2, <2>1
  <2>6. Starts(J[l], t)
    BY <2>1, <2>4, <2>5, StartsTrans
  <2> QED
    BY <2>1, <2>6 DEF l
<1>5. InductiveDown(H, 1, n)
  BY <1>4 DEF InductiveDown
<1> HIDE DEF H
<1>6. \A m \in 1..n : m \in H
  BY <1>1, <1>3, <1>5, DownTo
<1> QED
  BY <1>2, <1>6 DEF H

(* A line that begins with the written words has them at known places.     *)
LEMMA LineLayout ==
    ASSUME LineInv, NEW ws, NEW n, IsWords(ws, n), Starts(Line(ws), Text)
    PROVE  \E P : Layout(P, ws, n, End(0)) /\ P[n + 1] = Len(Line(ws)) + 1
<1> DEFINE N == End(0)
           W(k) == Len(Written(ws[k]))
<1> HIDE DEF Joint, Signs
<1>1. /\ N \in Nat /\ Len(Text) = N /\ Len(Text) \in Nat
      /\ \A k \in 1..N : Text[k] = serialCmd[k - 1]
  BY LineFacts
<1>2. PICK J : IsJoined(J, ws, n) /\ Line(ws) = J[n]
  BY LineJoins
<1>3. n \in Nat /\ n >= 1
  BY DEF IsWords
<1> DEFINE L(k) == Len(J[k])
<1>4. ASSUME NEW k \in 1..n
      PROVE  /\ J[k] \in Seq(Signs) /\ L(k) \in Nat /\ L(k) <= N
             /\ \A i \in 1..L(k) : serialCmd[i - 1] = J[k][i]
             /\ Written(ws[k]) \in Seq(Signs) /\ W(k) \in Nat
  <2>1. Starts(J[k], Text) /\ J[k] \in Seq(Signs) /\ L(k) \in Nat
    BY <1>1, <1>2, JoinedStarts
  <2>2. L(k) <= N /\ \A i \in 1..L(k) : Text[i] = J[k][i]
    BY <1>1, <2>1 DEF Starts
  <2>3. \A i \in 1..L(k) : serialCmd[i - 1] = J[k][i]
    <3> HIDE DEF N, L
    <3> SUFFICES ASSUME NEW i \in 1..L(k) PROVE serialCmd[i - 1] = J[k][i]
      OBVIOUS
    <3>1. i \in 1..N
      BY <1>1, <2>1, <2>2
    <3> QED
      BY <1>1, <2>2, <3>1
  <2>4. Written(ws[k]) \in Seq(Signs)
    BY WrittenType
  <2>5. W(k) \in Nat
    BY <2>4
  <2> QED
    BY <2>1, <2>2, <2>3, <2>4, <2>5
<1>5. J[1] = Written(ws[1])
  BY <1>2 DEF IsJoined
<1>6. ASSUME NEW k \in 2..n
      PROVE  /\ L(k) = L(k - 1) + 1 + W(k)
             /\ J[k][L(k - 1) + 1] = Joint[1]
             /\ \A j \in 1..W(k) : J[k][L(k - 1) + 1 + j] = Written(ws[k])[j]
  <2> DEFINE l == k - 1
  <2>1. J[k] = J[l] \o Joint \o Written(ws[k])
    BY <1>2 DEF IsJoined
  <2>2. l \in 1..n /\ k \in 1..n
    BY <1>3
  <2> HIDE DEF l
  <2>3. J[l] \in Seq(Signs) /\ Written(ws[k]) \in Seq(Signs)
    BY <1>4, <2>2
  <2>4. /\ L(k) = L(l) + 1 + W(k)
        /\ J[k][L(l) + 1] = Joint[1]
        /\ \A j \in 1..W(k) : J[k][L(l) + 1 + j] = Written(ws[k])[j]
    <3> DEFINE s == J[l]
               u == Written(ws[k])
               v == J[k]
    <3>1. s \in Seq(Signs) /\ u \in Seq(Signs) /\ v = s \o Joint \o u
      BY <2>1, <2>3
    <3> HIDE DEF s, u, v
    <3>2. /\ Len(v) = Len(s) + 1 + Len(u)
          /\ v[Len(s) + 1] = Joint[1]
          /\ \A j \in 1..Len(u) : v[Len(s) + 1 + j] = u[j]
      BY <3>1, JoinIs
    <3> QED
      BY <3>2 DEF s, u, v
  <2> QED
    BY <2>4 DEF l
<1> HIDE DEF N, L, W
<1> DEFINE P == [k \in 1..n + 1 |-> IF k = 1 THEN 0 ELSE L(k - 1) + 1]
<1>7. P[1] = 0 /\ \A k \in 1..n : P[k + 1] = L(k) + 1
  <2>1. ASSUME NEW k \in 1..n PROVE P[k + 1] = L(k) + 1
    <3> DEFINE m == k + 1
    <3>1. m \in 1..n + 1 /\ m # 1 /\ m - 1 = k
      BY <1>3
    <3> HIDE DEF m
    <3>2. P[m] = L(k) + 1
      BY <3>1
    <3> HIDE DEF P
    <3> QED
      BY <3>2 DEF m
  <2> QED
    BY <1>3, <2>1
<1>8. P \in [1..n + 1 -> Nat]
  <2>1. ASSUME NEW k \in 1..n + 1, k # 1 PROVE L(k - 1) \in Nat
    <3>1. k - 1 \in 1..n
      BY <1>3, <2>1
    <3> QED
      BY <1>4, <3>1
  <2> QED
    BY <2>1
<1> HIDE DEF P
<1>9. ASSUME NEW k \in 1..n
      PROVE  /\ P[k] \in Nat /\ L(k) = P[k] + W(k)
             /\ \A j \in 1..W(k) : J[k][P[k] + j] = Written(ws[k])[j]
  <2>1. CASE k = 1
    <3>1. L(1) = W(1) /\ P[1] = 0 /\ W(1) \in Nat
      BY <1>4, <1>5, <1>7, <2>1 DEF L, W
    <3>2. ASSUME NEW j \in 1..W(1) PROVE J[1][0 + j] = Written(ws[1])[j]
      <4>1. 0 + j = j
        BY <3>1
      <4> QED
        BY <1>5, <4>1
    <3> QED
      BY <2>1, <3>1, <3>2
  <2>2. CASE k # 1
    <3> DEFINE l == k - 1
    <3>1. k \in 2..n /\ l \in 1..n /\ l + 1 = k
      BY <1>3, <2>2
    <3> HIDE DEF l
    <3>2. P[k] = L(l) + 1
      BY <1>7, <3>1
    <3>3. /\ L(k) = L(l) + 1 + W(k)
          /\ \A j \in 1..W(k) : J[k][L(l) + 1 + j] = Written(ws[k])[j]
      BY <1>6, <3>1 DEF l
    <3>4. L(l) \in Nat
      BY <1>4, <3>1
    <3> QED
      BY <3>2, <3>3, <3>4
  <2> QED
    BY <2>1, <2>2
<1>10. ASSUME NEW k \in 1..n
       PROVE  /\ P[k + 1] = P[k] + W(k) + 1
              /\ P[k + 1] - 1 <= N
              /\ Spells(P[k], ws[k])
  <2>1. /\ P[k] \in Nat /\ L(k) = P[k] + W(k) /\ W(k) \in Nat /\ L(k) \in Nat /\ L(k) <= N
        /\ P[k + 1] = L(k) + 1
    BY <1>4, <1>7, <1>9
  <2>2. ASSUME NEW j \in 1..W(k) PROVE serialCmd[P[k] + j - 1] = Written(ws[k])[j]
    <3> DEFINE i == P[k] + j
    <3>1. i \in 1..L(k) /\ i - 1 = P[k] + j - 1
      BY <2>1
    <3>2. J[k][i] = Written(ws[k])[j]
      BY <1>9
    <3> HIDE DEF i
    <3>3. serialCmd[i - 1] = J[k][i]
      BY <1>4, <3>1
    <3>4. serialCmd[i - 1] = Written(ws[k])[j]
      BY <3>2, <3>3
    <3> QED
      BY <3>1, <3>4
  <2> QED
    BY <1>1, <2>1, <2>2 DEF Spells, W
<1>11. ASSUME NEW k \in 1..n - 1 PROVE IsSpace(P[k + 1] - 1)
  <2> DEFINE m == k + 1
  <2>1. k \in 1..n /\ m \in 2..n /\ m \in 1..n /\ m - 1 = k
    BY <1>3
  <2>2. P[k + 1] = L(k) + 1 /\ L(k) \in Nat
    BY <1>4, <1>7, <2>1
  <2> HIDE DEF m
  <2>3. J[m][L(k) + 1] = Joint[1] /\ L(m) = L(k) + 1 + W(m)
    BY <1>6, <2>1
  <2>4. L(k) + 1 \in 1..L(m) /\ (L(k) + 1) - 1 = P[k + 1] - 1
    BY <1>4, <2>1, <2>2, <2>3
  <2>5. serialCmd[P[k + 1] - 1] = Joint[1]
    BY <1>4, <2>1, <2>3, <2>4
  <2> QED
    BY <2>5, JointIs, Zenon DEF IsSpace
<1>12. Layout(P, ws, n, N)
  BY <1>7, <1>8, <1>10, <1>11 DEF Layout, W
<1>13. P[n + 1] = Len(Line(ws)) + 1
  BY <1>2, <1>3, <1>7 DEF L
<1> QED
  BY <1>12, <1>13 DEF N

-----------------------------------------------------------------------------
(* parseCmd finds the words that were written                              *)

(* The loop gets behind the last word with all others taken.               *)
LEMMA LoopReads ==
    ASSUME LineInv, NEW loop, IsLoop(loop, End(0)), NEW ws, NEW n, IsWords(ws, n),
           NEW P, Layout(P, ws, n, End(0))
    PROVE  Behind(loop[P[n + 1] - 1], ws, n, P[n + 1] - 1, End(0))
<1> DEFINE N == End(0)
           W(k) == Len(Written(ws[k]))
           H == {k \in 1..n : Before(loop[P[k]], ws, k, P[k], N)}
<1>1. N \in Nat /\ N \in Index /\ serialCmd \in Buffers /\ serialCmd[N] = "NUL"
  BY LineFacts
<1>2. n \in Nat /\ n >= 1 /\ 1 \in Int /\ n \in Int
  BY DEF IsWords
<1> HIDE DEF N
<1>3. IsLoop(loop, N) /\ Layout(P, ws, n, N)
  BY DEF N
<1>4. ASSUME NEW k \in 1..n
      PROVE  /\ P[k] \in Nat /\ P[k + 1] - 1 = P[k] + W(k) /\ P[k + 1] - 1 \in 0..N
             /\ P[k + 1] \in Nat /\ Spells(P[k], ws[k])
  <2> DEFINE m == k + 1
  <2>1. P[k] \in Nat /\ P[m] \in Nat
    <3>1. k \in 1..n + 1 /\ m \in 1..n + 1
      BY <1>2
    <3> HIDE DEF m
    <3> QED
      BY <1>3, <3>1 DEF Layout
  <2>2. P[m] = P[k] + W(k) + 1 /\ P[m] - 1 <= N /\ Spells(P[k], ws[k])
    BY <1>3 DEF Layout
  <2>3. W(k) \in Nat
    <3>1. Written(ws[k]) \in Seq(Signs)
      BY WrittenType
    <3> HIDE DEF Signs
    <3> QED
      BY <3>1
  <2> HIDE DEF m, W
  <2>4. P[m] - 1 = P[k] + W(k) /\ P[m] - 1 \in 0..N
    BY <1>1, <2>1, <2>2, <2>3
  <2> QED
    BY <2>1, <2>2, <2>4 DEF m
<1>5. ASSUME NEW k \in 1..n, k \in H
      PROVE  Behind(loop[P[k + 1] - 1], ws, k, P[k + 1] - 1, N)
  <2> DEFINE e == P[k + 1] - 1
             p == P[k]
  <2>1. p \in Nat /\ e = p + Len(Written(ws[k])) /\ e \in 0..N /\ Spells(p, ws[k])
    BY <1>4
  <2>2. Before(loop[p], ws, k, p, N)
    BY <1>5
  <2> HIDE DEF e, p
  <2>3. Behind(loop[e], ws, k, e, N)
    BY <1>1, <1>3, <2>1, <2>2, WordRead
  <2> QED
    BY <2>3 DEF e
<1>6. 1 \in H
  <2>1. P[1] = 0 /\ loop[0] = Start
    BY <1>3 DEF Layout, IsLoop
  <2>2. /\ Start.quotes = FALSE /\ Start.word = 0 /\ Start.buffer = serialCmd
        /\ Start.name = <<>> /\ Start.args = <<>>
    BY DEF Start
  <2>3. Intact(serialCmd, 0, N)
    BY DEF Intact
  <2>4. Taken(serialCmd, <<>>, <<>>, ws, 1 - 1, 0)
    BY DEF Taken
  <2>5. Before(Start, ws, 1, 0, N)
    BY <2>2, <2>3, <2>4 DEF Before
  <2> QED
    BY <1>2, <2>1, <2>5
<1>7. ASSUME NEW k \in 1..n - 1, k \in H PROVE k + 1 \in H
  <2> DEFINE e == P[k + 1] - 1
             m == k + 1
  <2>1. k \in 1..n /\ m \in 1..n
    BY <1>2
  <2>2. Behind(loop[e], ws, k, e, N)
    BY <1>5, <1>7, <2>1
  <2>3. IsSpace(e)
    BY <1>3 DEF Layout
  <2>4. e \in 0..N /\ P[m] \in Nat
    BY <1>4, <2>1
  <2>5. e + 1 = P[m]
    BY <2>4
  <2> HIDE DEF e
  <2>6. e # N
    BY <1>1, <2>3, Zenon DEF IsSpace
  <2>7. e \in 0..N - 1
    BY <1>1, <2>4, <2>6
  <2>8. Before(loop[e + 1], ws, k + 1, e + 1, N)
    BY <1>1, <1>3, <2>1, <2>2, <2>3, <2>7, SpaceTakes
  <2>9. Before(loop[P[m]], ws, m, P[m], N)
    BY <2>5, <2>8
  <2> QED
    BY <2>1, <2>9
<1>8. Inductive(H, 1, n)
  BY <1>7 DEF Inductive
<1> HIDE DEF H
<1>9. n \in 1..n /\ \A k \in 1..n : k \in H
  BY <1>2, <1>6, <1>8, UpTo
<1> QED
  BY <1>5, <1>9 DEF N

(* A line that ends in a space.                                            *)
Spaced(ws) == Append(Line(ws), " ")

LEMMA SpacedIs ==
    ASSUME NEW ws, NEW n, IsWords(ws, n)
    PROVE  /\ Line(ws) \in Seq(Signs) /\ Len(Line(ws)) \in Nat
           /\ Starts(Line(ws), Line(ws)) /\ Starts(Line(ws), Spaced(ws))
           /\ Len(Spaced(ws)) = Len(Line(ws)) + 1
           /\ Spaced(ws)[Len(Line(ws)) + 1] = " "
<1>1. PICK J : IsJoined(J, ws, n) /\ Line(ws) = J[n]
  BY LineJoins
<1> HIDE DEF Joint, Signs
<1>2. n \in 1..n
  BY DEF IsWords
<1>3. Line(ws) \in Seq(Signs)
  BY <1>1, <1>2 DEF IsJoined
<1>4. Len(Line(ws)) \in Nat /\ Starts(Line(ws), Line(ws))
  BY <1>3 DEF Starts
<1>5. /\ Starts(Line(ws), Spaced(ws)) /\ Len(Spaced(ws)) = Len(Line(ws)) + 1
      /\ Spaced(ws)[Len(Line(ws)) + 1] = " "
  BY <1>3, AppendStarts, Zenon DEF Spaced
<1> QED
  BY <1>3, <1>4, <1>5, Zenon

(* Every word is found, in order, whether or not the line ends in a space. *)
LEMMA ParsesWords ==
    ASSUME LineInv, NEW ws, NEW n, IsWords(ws, n), Text = Line(ws) \/ Text = Spaced(ws)
    PROVE  \E p \in Nat : Taken(Parsed(End(0)).buffer, Parsed(End(0)).name,
                                Parsed(End(0)).args, ws, n, p)
<1> DEFINE N == End(0)
           l == Len(Line(ws))
<1>1. /\ N \in Nat /\ N \in Index /\ Len(Text) = N
      /\ \A k \in 1..N : Text[k] = serialCmd[k - 1]
  BY LineFacts
<1>2. l \in Nat /\ Starts(Line(ws), Text)
  BY SpacedIs, Zenon
<1>3. PICK P : Layout(P, ws, n, N) /\ P[n + 1] = l + 1
  BY <1>2, LineLayout
<1>4. PICK loop : IsLoop(loop, N) /\ Parsed(N) = AfterLoop(loop, N)
  BY ParsedLoops
<1>5. P[n + 1] - 1 = l
  BY <1>2, <1>3
<1>6. Behind(loop[l], ws, n, l, N)
  BY <1>3, <1>4, <1>5, LoopReads
<1>7. n \in Nat /\ n \in 1..n
  BY DEF IsWords
<1> HIDE DEF N, l
<1>8. loop[N] \in Scans(N)
  BY <1>1, <1>4 DEF IsLoop
<1> DEFINE s == loop[N]
<1> HIDE DEF s
<1>9. CASE Text = Line(ws)
  <2>1. l = N
    BY <1>1, <1>9 DEF l
  <2>2. Taken(s.buffer, Take(s).name, Take(s).args, ws, n, N + 1) /\ s.word < N
    BY <1>1, <1>6, <1>7, <1>8, <2>1, EndTakes DEF s
  <2>3. Parsed(N) = Take(s)
    BY <1>4, <2>2 DEF AfterLoop, s
  <2>4. s.buffer[N] = "NUL"
    BY <1>8, ScanFields DEF s
  <2>5. Take(s) = Scan(s.buffer, s.word, s.quotes, Take(s).name, Take(s).args)
    BY <1>1, <1>8, <2>2, <2>4, TakeType DEF s
  <2>6. Take(s).buffer = s.buffer
    BY <2>5 DEF Scan
  <2> QED
    BY <1>1, <2>2, <2>3, <2>6 DEF N
<1>10. CASE Text = Spaced(ws)
  <2>1. Len(Spaced(ws)) = l + 1 /\ Text[l + 1] = Spaced(ws)[l + 1]
    BY <1>10, SpacedIs, Zenon DEF l
  <2>2. l + 1 = N
    BY <1>1, <1>10, <2>1
  <2>3. N \in 1..N /\ N - 1 = l /\ l \in 0..N - 1
    BY <1>1, <1>2, <2>2
  <2>4. Text[N] = serialCmd[l]
    BY <1>1, <2>3
  <2>5. IsSpace(l)
    BY <2>1, <2>2, <2>4, SpacedIs, Zenon DEF IsSpace, l
  <2>6. Before(loop[l + 1], ws, n + 1, l + 1, N)
    BY <1>1, <1>4, <1>6, <1>7, <2>3, <2>5, SpaceTakes
  <2>7. (n + 1) - 1 = n
    BY <1>7
  <2>8. Before(s, ws, n + 1, N, N)
    BY <2>2, <2>6 DEF s
  <2>9. s.word = N /\ Taken(s.buffer, s.name, s.args, ws, n, N)
    BY <2>7, <2>8 DEF Before
  <2>10. Parsed(N) = s
    BY <1>1, <1>4, <2>9 DEF AfterLoop, s
  <2> QED
    BY <1>1, <2>9, <2>10 DEF N
<1> QED
  BY <1>9, <1>10

-----------------------------------------------------------------------------
(* The evaluator reads what was written                                    *)

LEMMA WordListIs ==
    ASSUME NEW ws \in WordLists
    PROVE  \E n : IsWords(ws, n)
<1>1. PICK n \in 1..MaxWords : ws \in [1..n -> Words]
  BY DEF WordLists
<1>2. ws[1].text # <<>>
  BY DEF WordLists
<1>3. n \in Nat \ {0} /\ Len(ws) = n
  BY <1>1, CommandAssumption
<1> QED
  BY <1>1, <1>2, <1>3 DEF IsWords

(* With the words taken, and the line emptied, the evaluator reads them.   *)
LEMMA ReadsWords ==
    ASSUME NEW b \in Buffers, NEW ws, NEW n, IsWords(ws, n), NEW args \in Seq(Index \ {0}), NEW p,
           Taken(b, ws[1].text, args, ws, n, p)
    PROVE  LET c == [b EXCEPT ![0] = "NUL"]
           IN  <<ws[1].text>> \o [k \in DOMAIN args |-> CString(c, args[k])] = Texts(ws)
<1> DEFINE c == [b EXCEPT ![0] = "NUL"]
           tail == [k \in DOMAIN args |-> CString(c, args[k])]
           T == {ws[k].text : k \in 1..n}
           head == <<ws[1].text>>
<1>1. n \in Nat /\ n >= 1 /\ DOMAIN ws = 1..n
  BY DEF IsWords
<1>2. Len(args) = n - 1 /\ DOMAIN args = 1..n - 1
  <2>1. Len(args) = n - 1
    BY <1>1 DEF Taken
  <2> HIDE DEF Index
  <2> QED
    BY <2>1
<1>3. ASSUME NEW k \in 1..n - 1 PROVE CString(c, args[k]) = ws[k + 1].text
  <2> DEFINE t == ws[k + 1].text
             i == args[k]
  <2>1. k + 1 \in 1..n
    BY <1>1
  <2>2. t \in Seq(Letters) /\ Len(t) \in Nat
    BY <2>1, WordFacts
  <2>3. Holds(b, i, t)
    BY <1>1 DEF Taken
  <2>4. i \in Index \ {0}
    <3> HIDE DEF Index
    <3> QED
      BY <1>2
  <2> HIDE DEF t, i
  <2>5. 0 \in Index /\ 0 < i
    BY <2>4, SizeType
  <2>6. Holds(c, i, t)
    BY <2>2, <2>3, <2>5, HoldsKept
  <2>7. CString(c, i) = t
    BY <2>2, <2>6, HoldsString
  <2> QED
    BY <2>7 DEF t, i
<1> HIDE DEF c
<1>4. tail = [k \in 1..n - 1 |-> ws[k + 1].text]
  BY <1>2, <1>3
<1>5. tail \in Seq(T) /\ Len(tail) = n - 1
  <2>1. \A k \in 1..n - 1 : k + 1 \in 1..n
    BY <1>1
  <2>2. \A k \in 1..n - 1 : ws[k + 1].text \in T
    BY <2>1
  <2> HIDE DEF T
  <2> QED
    BY <1>1, <1>4, <2>2
<1>6. head \in Seq(T) /\ Len(head) = 1 /\ head[1] = ws[1].text
  <2>1. ws[1].text \in T
    BY <1>1
  <2> HIDE DEF T
  <2> QED
    BY <2>1
<1>7. Texts(ws) = [k \in 1..n |-> ws[k].text]
  BY <1>1 DEF Texts
<1> HIDE DEF T, head
<1>8. \A k \in 1..n - 1 : tail[k] = ws[k + 1].text
  BY <1>4
<1> HIDE DEF tail
<1> DEFINE r == head \o tail
<1>9. /\ r \in Seq(T) /\ Len(r) = 1 + (n - 1)
      /\ \A k \in 1..1 + (n - 1) : r[k] = IF k <= 1 THEN head[k] ELSE tail[k - 1]
  <2>1. /\ r \in Seq(T) /\ Len(r) = Len(head) + Len(tail)
        /\ \A k \in 1..Len(head) + Len(tail) :
              r[k] = IF k <= Len(head) THEN head[k] ELSE tail[k - Len(head)]
    BY <1>5, <1>6, ConcatProperties, Zenon
  <2> QED
    BY <1>5, <1>6, <2>1, Zenon
<1> HIDE DEF r
<1>10. ASSUME NEW k \in 1..n PROVE r[k] = ws[k].text
  <2>1. CASE k = 1
    BY <1>1, <1>6, <1>9, <2>1
  <2>2. CASE k # 1
    <3> DEFINE l == k - 1
    <3>1. l \in 1..n - 1 /\ l + 1 = k /\ k \in 1..1 + (n - 1) /\ ~(k <= 1)
      BY <1>1, <2>2
    <3> HIDE DEF l
    <3>2. tail[l] = ws[k].text
      BY <1>8, <3>1
    <3>3. r[k] = tail[l]
      BY <1>9, <3>1 DEF l
    <3> QED
      BY <3>2, <3>3
  <2> QED
    BY <2>1, <2>2
<1>11. r = [k \in 1..n |-> ws[k].text]
  <2>1. r \in Seq(T) /\ Len(r) = n
    BY <1>1, <1>9
  <2>2. r = [k \in 1..n |-> r[k]]
    BY <2>1
  <2> QED
    BY <1>10, <2>2
<1> QED
  BY <1>7, <1>11 DEF r, head, tail, c

(* Enter on a written line looks its first word up and hands over all words.*)
LEMMA RunLineFinds ==
    ASSUME ShellInv, NEW c \in Bytes, RunLine(c), NEW ws, NEW n, IsWords(ws, n),
           command' = Line(ws) \/ command' = Spaced(ws)
    PROVE  /\ Parsed(End(0)).name = ws[1].text
           /\ answer' \in Answers(ws[1].text)
           /\ evaluator' # <<>> => Read(Head(evaluator))' = Texts(ws)
<1> DEFINE r == Parsed(End(0))
           b == [r.buffer EXCEPT ![0] = "NUL"]
<1>1. r.buffer \in Buffers /\ r.args \in Seq(Index \ {0})
  BY ParsedType DEF ShellInv
<1>2. /\ command' = Text /\ serialCmd' = b /\ answer' \in Answers(r.name)
      /\ evaluator' = IF answer' = "launched"
                      THEN <<[name |-> r.name, args |-> r.args]>> ELSE <<>>
  BY Zenon DEF RunLine, EnterCutting
<1>3. PICK p \in Nat : Taken(r.buffer, r.name, r.args, ws, n, p)
  <2>1. LineInv /\ (Text = Line(ws) \/ Text = Spaced(ws))
    BY <1>2, Zenon DEF ShellInv
  <2> QED
    BY <2>1, ParsesWords, Zenon
<1> HIDE DEF r
<1>4. r.name = ws[1].text
  BY <1>3 DEF Taken, IsWords
<1>5. ASSUME evaluator' # <<>> PROVE Read(Head(evaluator))' = Texts(ws)
  <2> DEFINE bound == [name |-> r.name, args |-> r.args]
  <2>1. evaluator' = <<bound>>
    BY <1>2, <1>5, Zenon
  <2>2. Head(evaluator') = bound /\ bound.name = r.name /\ bound.args = r.args
    BY <2>1
  <2> HIDE DEF bound
  <2>3. Read(Head(evaluator))' = <<r.name>> \o [k \in DOMAIN r.args |-> CString(serialCmd', r.args[k])]
    BY <2>2 DEF Read
  <2>4. <<ws[1].text>> \o [k \in DOMAIN r.args |-> CString(b, r.args[k])] = Texts(ws)
    BY <1>1, <1>3, <1>4, ReadsWords
  <2> HIDE DEF b
  <2> QED
    BY <1>2, <1>4, <2>3, <2>4
<1> QED
  BY <1>2, <1>4, <1>5 DEF r

(* Nothing the host does without changing the text disturbs the words.     *)
LEMMA RunsStep ==
    ASSUME ShellInv \/ LostInv, RunsAsWritten, [ShellNext]_<<vars, shell>>
    PROVE  RunsAsWritten'
<1>1. CASE \E c \in Bytes : RunLine(c)
  <2>0. CASE LostInv
    <3>1. evaluator' = evaluator /\ command' = command /\ serialCmd' = serialCmd
      BY <2>0, LostStep DEF vars, shell
    <3> QED
      BY <3>1, Zenon DEF RunsAsWritten, Read
  <2>1. PICK c \in Bytes : RunLine(c)
    BY <1>1
  <2> SUFFICES ASSUME ShellInv PROVE RunsAsWritten'
    BY <2>0
  <2>2. ASSUME evaluator' # <<>>, NEW ws \in WordLists,
               command' = Line(ws) \/ command' = Spaced(ws)
        PROVE  Read(Head(evaluator))' = Texts(ws)
    <3>1. PICK n : IsWords(ws, n)
      BY WordListIs
    <3> QED
      BY <2>1, <2>2, <3>1, RunLineFinds, Zenon
  <2> QED
    BY <2>2, Zenon DEF RunsAsWritten, Spaced
<1>2. CASE \E c \in Bytes : EditLine(c)
  <2>1. PICK c \in Bytes : EditLine(c)
    BY <1>2
  <2>2. evaluator' = evaluator /\ Edit(c)
    BY <2>1 DEF EditLine
  <2>3. command' = <<>> \/ (command' = command /\ serialCmd' = serialCmd)
    BY <2>2 DEF Edit, Insert, Erase, Escape, EnterEmpty, Ignore, EscapeFirst, EscapeCollect,
                EscapeEnd, vars
  <2> QED
    BY <2>2, <2>3, Zenon DEF RunsAsWritten, Read
<1>3. CASE Evaluate
  <2>1. evaluator' = <<>>
    BY <1>3 DEF Evaluate
  <2> QED
    BY <2>1, Zenon DEF RunsAsWritten
<1>4. CASE Mount \/ Inserted \/ UNCHANGED <<vars, shell>> \/ (Overrun /\ UNCHANGED shell)
  <2>1. evaluator' = evaluator /\ command' = command /\ serialCmd' = serialCmd
    BY <1>4 DEF Mount, Inserted, Overrun, vars, shell
  <2> QED
    BY <2>1, Zenon DEF RunsAsWritten, Read
<1> QED
  BY <1>1, <1>2, <1>3, <1>4 DEF ShellNext

(* The evaluator reads the very words that the user wrote, whatever their  *)
(* number and length and whatever they are quoted for, and even though the *)
(* line is emptied before it runs and may be edited by keys that change no *)
(* text (state.cpp:82, 104-155).                                           *)
THEOREM EvaluatorReadsWords == ShellSpec => []RunsAsWritten
<1> DEFINE Inv == ShellInv \/ LostInv
<1>1. ShellInit => Inv /\ RunsAsWritten
  <2>1. ShellInit => ShellInv
    BY ShellInitInv
  <2>2. ShellInit => RunsAsWritten
    BY Zenon DEF ShellInit, RunsAsWritten
  <2> QED
    BY <2>1, <2>2
<1>2. Inv /\ RunsAsWritten /\ [ShellNext]_<<vars, shell>> => Inv' /\ RunsAsWritten'
  BY AnyStep, RunsStep
<1> QED
  BY <1>1, <1>2, PTL DEF ShellSpec

(* A written line is looked up under its first word: outside the moment    *)
(* when setup inserts the last command, it is unknown if and only if that  *)
(* word is not in the registry (state.cpp:144-153).                        *)
THEOREM LinesFindCommands == ShellSpec => FindsCommand
<1> DEFINE Finds == Terminated /\ (\E c \in Bytes : RunLine(c)) /\ setup # "inserting" =>
                       \A ws \in WordLists : command' = Line(ws) =>
                           (answer' # "unknown") = (ws[1].text \in registry)
<1>1. ShellInit => ShellInv \/ LostInv
  BY ShellInitInv
<1>2. (ShellInv \/ LostInv) /\ [ShellNext]_<<vars, shell>> => (ShellInv \/ LostInv)'
  BY AnyStep
<1>3. ASSUME ShellInv \/ LostInv PROVE Finds
  <2> SUFFICES ASSUME Terminated, NEW c \in Bytes, RunLine(c), setup # "inserting",
                      NEW ws \in WordLists, command' = Line(ws)
               PROVE  (answer' # "unknown") = (ws[1].text \in registry)
    BY Zenon
  <2>1. PICK n : IsWords(ws, n)
    BY WordListIs
  <2>0. ShellInv
    BY <1>3 DEF LostInv
  <2>2. answer' \in Answers(ws[1].text)
    BY <2>0, <2>1, RunLineFinds, Zenon
  <2>3. ASSUME NEW x PROVE Found(x) = {x \in registry}
    BY DEF Found
  <2> DEFINE known == ws[1].text \in registry
  <2>4. answer' \in IF known THEN {"launched", "failed"} ELSE {"unknown"}
    BY <2>2, <2>3, Zenon DEF Answers
  <2> QED
    BY <2>4
<1>4. ShellInv \/ LostInv => [Finds]_<<vars, shell>>
  BY <1>3
<1> QED
  BY <1>1, <1>2, <1>4, PTL DEF ShellSpec, FindsCommand
=============================================================================
