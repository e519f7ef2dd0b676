---------------------------- MODULE MarkupProofs ----------------------------
(***************************************************************************)
(* A page is read, cleaned, listed and shown as it was written, whatever   *)
(* is in it and whatever its scripts write into it:                        *)
(* theorems of Markup (src/src/3ml_parser.cpp, 3ml_cleaner.cpp,            *)
(* 3ml_renderer.cpp:27-44).  Trees and recursive functions are handled     *)
(* level by level, sequences prefix by prefix, by Induction!UpTo; what is  *)
(* true of any sequences and levels is in Induction.                       *)
(***************************************************************************)
EXTENDS Markup, Induction, FiniteSetTheorems, SequenceTheorems, TLAPS
-----------------------------------------------------------------------------
(* Wrapping is correct for every text and every width (3ml_cleaner.cpp:    *)
(* 137-163).  The lines come from a recursive function of the place in the *)
(* text where a line starts; what is said of it is shown from the end of   *)
(* the text backwards (Induction!FromAbove).                               *)

IsSpace(c) == c = " "

Wrapped(S) == [error : BOOLEAN, lines : Seq(Seq(S))]
NoLines == [error |-> FALSE, lines |-> <<>>]
NoBreak == [error |-> TRUE, lines |-> <<>>]

(* What Wrap computes for the place n from what it has for later places.   *)
From(text, width, n, f) ==
    LET rest == Rest(text, n)
        len == Break(rest, width)
    IN  CASE rest = <<>> -> NoLines
          [] rest # <<>> /\ len = 0 -> NoBreak
          [] OTHER -> LET tail == f[n + len]
                      IN  [tail EXCEPT !.lines = <<SubSeq(rest, 1, len)>> \o @]

-----------------------------------------------------------------------------
(* The length of a line                                                    *)

Spaces(rest, width) == {k \in 1..width : IsSpace(rest[k])}

(* A line takes all the rest if it fits, and otherwise ends with the last  *)
(* space that does.                                                        *)
LEMMA BreakIs ==
    ASSUME NEW S, NEW rest \in Seq(S), NEW width \in Nat \ {0}
    PROVE  /\ Break(rest, width) \in 0..Len(rest)
           /\ Break(rest, width) <= width
           /\ Len(rest) <= width => Break(rest, width) = Len(rest)
           /\ Len(rest) > width => /\ Break(rest, width) > 0 => IsSpace(rest[Break(rest, width)])
                                   /\ \A k \in 1..width : IsSpace(rest[k]) => k <= Break(rest, width)
<1> DEFINE T == {0} \cup Spaces(rest, width)
<1>1. Len(rest) \in Nat
  OBVIOUS
<1>2. Len(rest) <= width => Break(rest, width) = Len(rest)
  BY Zenon DEF Break
<1>3. ~(Len(rest) <= width) => Break(rest, width) = Max(T)
  BY Zenon DEF Break, Spaces, IsSpace
<1>4. T \in SUBSET (0..width) /\ T # {}
  BY DEF Spaces
<1>5. Max(T) \in T /\ \A k \in T : k <= Max(T)
  BY <1>4, MaxOf
<1>6. \A k \in T : k > 0 => IsSpace(rest[k])
  BY DEF Spaces
<1>7. \A k \in 1..width : IsSpace(rest[k]) => k \in T
  BY DEF Spaces
<1> HIDE DEF T
<1>8. Max(T) \in 0..width
  BY <1>4, <1>5
<1> QED
  BY <1>1, <1>2, <1>3, <1>5, <1>6, <1>7, <1>8

-----------------------------------------------------------------------------
(* The recursive function of Wrap                                          *)

(* v is what there is at the place n, by cases.                            *)
Placed(text, width, n, f, v) ==
    LET len == Break(Rest(text, n), width)
    IN  /\ Len(text) \in Nat /\ n \in Nat /\ len \in Nat /\ len <= width
        /\ n + len \in n..Len(text)
        /\ n = Len(text) => v = NoLines
        /\ n < Len(text) /\ len = 0 => v = NoBreak
        /\ len > 0 => /\ v.error = f[n + len].error
                      /\ v.lines = <<SubSeq(text, n + 1, n + len)>> \o f[n + len].lines

LEMMA FromIs ==
    ASSUME NEW S, NEW text \in Seq(S), NEW width \in Nat \ {0}, NEW n \in 0..Len(text),
           NEW f \in [0..Len(text) -> Wrapped(S)]
    PROVE  /\ Placed(text, width, n, f, From(text, width, n, f))
           /\ From(text, width, n, f) \in Wrapped(S)
<1> DEFINE len == Break(Rest(text, n), width)
<1> DEFINE rest == Rest(text, n)
<1>1. /\ rest \in Seq(S)
      /\ Len(rest) = Len(text) - n
      /\ \A k \in 1..Len(text) - n : rest[k] = text[n + k]
      /\ rest = <<>> <=> n = Len(text)
  BY RestIs
<1>2. len \in 0..Len(rest) /\ len <= width
  BY <1>1, BreakIs
<1>11. len = Break(rest, width)
  OBVIOUS
<1> HIDE DEF rest, len
<1>3. len \in Nat /\ n + len \in n..Len(text) /\ n + len \in 0..Len(text)
  BY <1>1, <1>2
<1>4. n < Len(text) => n # Len(text)
  OBVIOUS
<1>5. ASSUME n = Len(text) PROVE From(text, width, n, f) = NoLines
  BY <1>1, <1>5 DEF From, rest
<1>6. ASSUME n # Len(text), len = 0 PROVE From(text, width, n, f) = NoBreak
  BY <1>1, <1>6, <1>11 DEF From, rest
<1>7. ASSUME len > 0
      PROVE  /\ From(text, width, n, f) \in Wrapped(S)
             /\ From(text, width, n, f).error = f[n + len].error
             /\ From(text, width, n, f).lines = <<SubSeq(text, n + 1, n + len)>> \o f[n + len].lines
  <2> DEFINE tail == f[n + len]
             line == SubSeq(rest, 1, len)
             lines == <<line>> \o tail.lines
  <2>1. n # Len(text)
    BY <1>1, <1>2, <1>7
  <2>2. From(text, width, n, f) = [tail EXCEPT !.lines = <<line>> \o @]
    <3>1. rest # <<>> /\ len # 0
      BY <1>1, <1>7, <2>1
    <3> HIDE DEF tail
    <3>2. From(text, width, n, f)
              = CASE rest = <<>> -> NoLines
                  [] rest # <<>> /\ len = 0 -> NoBreak
                  [] OTHER -> [tail EXCEPT !.lines = <<line>> \o @]
      BY <1>11, Zenon DEF From, rest, tail
    <3> QED
      BY <3>1, <3>2
  <2>3. tail \in Wrapped(S)
    BY <1>3
  <2>4. line \in Seq(S) /\ line = SubSeq(text, n + 1, n + len)
    <3> DEFINE cut == SubSeq(text, n + 1, n + len)
    <3>1. \A i \in 1..len : rest[i] \in S /\ rest[i] = text[n + i]
      BY <1>1, <1>2, ElementOfSeq
    <3>2. line \in Seq(S) /\ Len(line) = len /\ \A i \in 1..len : line[i] = rest[i]
      BY <1>3, <1>7, <3>1, SubSeqProperties
    <3>3. \A i \in n + 1..n + len : text[i] \in S
      BY <1>3, ElementOfSeq
    <3>4. cut \in Seq(S) /\ Len(cut) = len /\ \A i \in 1..len : cut[i] = text[n + i]
      <4> DEFINE a == n + 1
                 b == n + len
      <4>1. a \in Int /\ b \in Int /\ \A i \in a..b : text[i] \in S
        BY <1>3, <3>3
      <4> HIDE DEF a, b
      <4>2. /\ SubSeq(text, a, b) \in Seq(S)
            /\ Len(SubSeq(text, a, b)) = IF a <= b THEN b - a + 1 ELSE 0
            /\ \A i \in 1..b - a + 1 : SubSeq(text, a, b)[i] = text[a + i - 1]
        BY <4>1, SubSeqProperties
      <4>3. a <= b /\ b - a + 1 = len /\ \A i \in 1..len : a + i - 1 = n + i
        BY <1>3, <1>7 DEF a, b
      <4> QED
        BY <4>2, <4>3 DEF a, b
    <3> HIDE DEF line, cut
    <3>5. \A i \in 1..Len(line) : line[i] = cut[i]
      BY <3>1, <3>2, <3>4
    <3>6. line = cut
      BY <3>2, <3>4, <3>5, SeqEqual
    <3> QED
      BY <3>2, <3>6 DEF cut
  <2>5. tail.lines \in Seq(Seq(S)) /\ <<line>> \in Seq(Seq(S))
    BY <2>3, <2>4 DEF Wrapped
  <2>6. lines \in Seq(Seq(S))
    BY <2>5, ConcatProperties
  <2> HIDE DEF tail, line
  <2>7. From(text, width, n, f) = [error |-> tail.error, lines |-> lines]
    BY <2>2, <2>3 DEF Wrapped
  <2> HIDE DEF lines
  <2>8. [error |-> tail.error, lines |-> lines] \in Wrapped(S)
    BY <2>3, <2>6 DEF Wrapped
  <2>9. From(text, width, n, f).error = tail.error /\ From(text, width, n, f).lines = lines
    BY <2>7
  <2>10. From(text, width, n, f) \in Wrapped(S)
    BY <2>7, <2>8
  <2>11. lines = <<SubSeq(text, n + 1, n + len)>> \o f[n + len].lines
    BY <2>4, Zenon DEF lines, tail
  <2> QED
    BY <2>9, <2>10, <2>11, Zenon DEF tail
<1>8. NoLines \in Wrapped(S) /\ NoBreak \in Wrapped(S)
  BY DEF NoLines, NoBreak, Wrapped
<1>9. From(text, width, n, f) \in Wrapped(S)
  <2>1. n = Len(text) \/ (n # Len(text) /\ len = 0) \/ len > 0
    BY <1>3
  <2> QED
    BY <1>5, <1>6, <1>7, <1>8, <2>1, Zenon
<1>10. n < Len(text) /\ len = 0 => From(text, width, n, f) = NoBreak
  BY <1>4, <1>6, Zenon
<1>12. Len(text) \in Nat /\ n \in Nat
  OBVIOUS
<1> QED
  BY <1>2, <1>3, <1>5, <1>7, <1>9, <1>10, <1>12, Zenon DEF Placed, len

(* There is such a function, and Wrap gives what it is at the beginning.   *)
LEMMA WrapIs ==
    ASSUME NEW S, NEW text \in Seq(S), NEW width \in Nat \ {0}
    PROVE  \E f \in [0..Len(text) -> Wrapped(S)] :
               /\ Wrap(text, width) = f[0]
               /\ \A n \in 0..Len(text) : Placed(text, width, n, f, f[n])
<1> DEFINE L == Len(text)
           G == [0..L -> Wrapped(S)]
           step == [n \in 0..L |-> [g \in G |-> From(text, width, n, g)]]
<1>1. ASSUME NEW n \in 0..L, NEW g \in G PROVE From(text, width, n, g) \in Wrapped(S)
  BY FromIs
<1>2. step \in [0..L -> [G -> Wrapped(S)]]
  <2> HIDE DEF G
  <2>1. ASSUME NEW n \in 0..L PROVE [g \in G |-> From(text, width, n, g)] \in [G -> Wrapped(S)]
    BY <1>1
  <2> QED
    BY <2>1
<1>3. ASSUME NEW n \in 0..L, NEW g \in G, NEW h, \A m \in n + 1..L : g[m] = h[m]
      PROVE  From(text, width, n, g) = From(text, width, n, h)
  <2> DEFINE rest == Rest(text, n)
             len == Break(rest, width)
  <2>1. n + len \in n..L /\ L \in Nat /\ n \in Nat /\ len \in Nat
    <3>1. n + len \in n..L
      BY FromIs, Zenon DEF Placed
    <3>2. rest \in Seq(S)
      BY RestIs
    <3> QED
      BY <3>1, <3>2, BreakIs
  <2> HIDE DEF len, L
  <2>2. ASSUME len # 0 PROVE g[n + len] = h[n + len]
    <3>1. n + len \in n + 1..L
      BY <2>1, <2>2
    <3> QED
      BY <1>3, <3>1
  <2>3. CASE rest = <<>>
    BY <2>3 DEF From, rest
  <2>4. CASE rest # <<>> /\ len = 0
    BY <2>4 DEF From, rest, len
  <2>5. CASE rest # <<>> /\ len # 0
    BY <2>2, <2>5, Zenon DEF From, rest, len
  <2> QED
    BY <2>3, <2>4, <2>5
<1>4. \A n \in 0..L : \A g \in G : step[n][g] = From(text, width, n, g)
  OBVIOUS
<1>5. L \in Nat /\ 0 \in Int /\ L \in Int /\ 0 <= L
  OBVIOUS
<1>6. NoLines \in Wrapped(S)
  BY DEF NoLines, Wrapped
<1> HIDE DEF step, L
<1>7. LooksAbove(step, Wrapped(S), 0, L)
  <2>1. ASSUME NEW n \in 0..L, NEW g \in G, NEW h \in G, \A m \in n + 1..L : g[m] = h[m]
        PROVE  step[n][g] = step[n][h]
    <3>1. From(text, width, n, g) = From(text, width, n, h)
      BY <1>3, <2>1
    <3>2. step[n][g] = From(text, width, n, g) /\ step[n][h] = From(text, width, n, h)
      BY <1>4
    <3> QED
      BY <3>1, <3>2
  <2> QED
    BY <1>2, <2>1, Zenon DEF LooksAbove
<1>8. PICK f \in G : \A n \in 0..L : f[n] = step[n][f]
  <2> DEFINE W == Wrapped(S)
             zero == 0
  <2>1. zero \in Int /\ L \in Int /\ zero <= L /\ NoLines \in W /\ LooksAbove(step, W, zero, L)
    BY <1>5, <1>6, <1>7
  <2> HIDE DEF W, zero, G
  <2>2. \E f \in [zero..L -> W] : FollowsAbove(f, step, zero, L)
    BY <2>1, RecursionAbove, Zenon
  <2> QED
    BY <2>2, Zenon DEF W, zero, G, FollowsAbove
<1>9. \A n \in 0..L : f[n] = From(text, width, n, f)
  BY <1>4, <1>8
<1> DEFINE from[start \in 0..Len(text)] ==
               LET rest == SubSeq(text, start + 1, Len(text))
                   len == Break(rest, width)
               IN  CASE rest = <<>> -> [error |-> FALSE, lines |-> <<>>]
                     [] rest # <<>> /\ len = 0 -> [error |-> TRUE, lines |-> <<>>]
                     [] OTHER -> LET tail == from[start + len]
                                 IN  [tail EXCEPT !.lines = <<SubSeq(rest, 1, len)>> \o @]
<1>10. f = [start \in 0..Len(text) |-> From(text, width, start, f)]
  BY <1>9 DEF L
<1>11. \E g : g = [start \in 0..Len(text) |-> From(text, width, start, g)]
  BY <1>10
<1>12. from = [start \in 0..Len(text) |-> From(text, width, start, from)]
  BY <1>11, Zenon DEF From, Rest, NoLines, NoBreak
<1>13. Wrap(text, width) = from[0]
  BY Zenon DEF Wrap
<1> HIDE DEF from
<1>14. \A n \in 0..L : from[n] = From(text, width, n, from)
  BY <1>12, Zenon DEF L
<1> DEFINE H == {n \in 0..L : f[n] = from[n]}
<1>15. ASSUME NEW n \in 0..L, \A m \in n + 1..L : m \in H PROVE n \in H
  <2>1. \A m \in n + 1..L : f[m] = from[m]
    BY <1>15
  <2>2. From(text, width, n, f) = From(text, width, n, from)
    BY <1>3, <2>1, Zenon
  <2>3. f[n] = from[n]
    BY <1>9, <1>14, <2>2, Zenon
  <2> QED
    BY <2>3
<1>16. Backward(H, 0, L)
  BY <1>15 DEF Backward
<1> HIDE DEF H
<1>17. 0 \in H
  BY <1>5, <1>16, FromAbove
<1>18. Wrap(text, width) = f[0]
  BY <1>13, <1>17 DEF H
<1>19. \A n \in 0..L : Placed(text, width, n, f, f[n])
  BY <1>9, FromIs, Zenon DEF L
<1> QED
  BY <1>18, <1>19 DEF L

-----------------------------------------------------------------------------
(* Where the lines end                                                     *)

(* c[k] characters of the text are in the first k lines and before them.   *)
Cut(c, text, width, n, lines) ==
    /\ c \in [0..Len(lines) -> n..Len(text)]
    /\ c[0] = n /\ c[Len(lines)] = Len(text)
    /\ \A k \in 1..Len(lines) :
           /\ c[k - 1] < c[k]
           /\ c[k] = c[k - 1] + Break(Rest(text, c[k - 1]), width)
           /\ lines[k] = SubSeq(text, c[k - 1] + 1, c[k])

(* One more line in front.                                                 *)
LEMMA CutBefore ==
    ASSUME NEW S, NEW text \in Seq(S), NEW width, NEW n \in 0..Len(text),
           NEW m \in n + 1..Len(text), NEW c, NEW tail \in Seq(Seq(S)), NEW line \in Seq(S),
           m = n + Break(Rest(text, n), width), line = SubSeq(text, n + 1, m),
           Cut(c, text, width, m, tail)
    PROVE  \E d : Cut(d, text, width, n, <<line>> \o tail)
<1> DEFINE lines == <<line>> \o tail
           L == Len(text)
           l == Len(tail)
           d == [k \in 0..l + 1 |-> IF k = 0 THEN n ELSE c[k - 1]]
<1>1. /\ c \in [0..l -> m..L]
      /\ c[0] = m /\ c[l] = L
      /\ \A k \in 1..l : /\ c[k - 1] < c[k]
                         /\ c[k] = c[k - 1] + Break(Rest(text, c[k - 1]), width)
                         /\ tail[k] = SubSeq(text, c[k - 1] + 1, c[k])
  BY Zenon DEF Cut
<1>2. L \in Nat /\ l \in Nat /\ m \in Nat /\ n \in Nat /\ n < m
  OBVIOUS
<1>3. Len(lines) = l + 1 /\ lines[1] = line /\ \A k \in 1..l : lines[k + 1] = tail[k]
  <2>1. <<line>> \in Seq(Seq(S)) /\ Len(<<line>>) = 1 /\ <<line>>[1] = line
    OBVIOUS
  <2>2. /\ Len(lines) = Len(<<line>>) + l
        /\ \A i \in 1..Len(<<line>>) + l :
               lines[i] = IF i <= Len(<<line>>) THEN <<line>>[i] ELSE tail[i - Len(<<line>>)]
    <3> DEFINE one == <<line>>
               T == Seq(S)
    <3>1. one \in Seq(T) /\ tail \in Seq(T)
      BY <2>1
    <3> HIDE DEF one, T
    <3>2. /\ Len(one \o tail) = Len(one) + Len(tail)
          /\ \A i \in 1..Len(one) + Len(tail) :
                 (one \o tail)[i] = IF i <= Len(one) THEN one[i] ELSE tail[i - Len(one)]
      BY <3>1, ConcatProperties
    <3> QED
      BY <3>2, Zenon DEF one
  <2> HIDE DEF lines
  <2>3. /\ Len(lines) = 1 + l
        /\ \A i \in 1..1 + l : lines[i] = IF i <= 1 THEN <<line>>[i] ELSE tail[i - 1]
    BY <2>1, <2>2
  <2>4. ASSUME NEW k \in 1..l PROVE lines[k + 1] = tail[k]
    <3>1. k + 1 \in 1..1 + l /\ ~(k + 1 <= 1) /\ (k + 1) - 1 = k
      BY <1>2
    <3> QED
      BY <2>3, <3>1
  <2>5. 1 \in 1..1 + l /\ 1 + l = l + 1
    BY <1>2
  <2> QED
    BY <2>1, <2>3, <2>4, <2>5, SMTT(30)
<1> HIDE DEF lines, L, l
<1>4. d[0] = n /\ \A k \in 0..l : d[k + 1] = c[k]
  <2>1. ASSUME NEW k \in 0..l PROVE d[k + 1] = c[k]
    <3>1. k + 1 \in 0..l + 1 /\ k + 1 # 0 /\ (k + 1) - 1 = k
      BY <1>2
    <3> QED
      BY <3>1
  <2> QED
    BY <1>2, <2>1
<1>5. d \in [0..l + 1 -> n..L]
  <2>1. ASSUME NEW k \in 1..l + 1 PROVE c[k - 1] \in n..L
    <3>1. k - 1 \in 0..l
      BY <1>2
    <3>2. c[k - 1] \in m..L
      BY <1>1, <3>1
    <3> QED
      BY <1>2, <3>2
  <2>2. n \in n..L
    BY <1>2 DEF L
  <2>3. \A k \in 0..l + 1 : k # 0 => k \in 1..l + 1
    BY <1>2
  <2> QED
    BY <2>1, <2>2, <2>3
<1> HIDE DEF d
<1>6. d[l + 1] = L
  BY <1>1, <1>2, <1>4
<1>7. ASSUME NEW k \in 1..l + 1
      PROVE  /\ d[k - 1] < d[k]
             /\ d[k] = d[k - 1] + Break(Rest(text, d[k - 1]), width)
             /\ lines[k] = SubSeq(text, d[k - 1] + 1, d[k])
  <2>1. CASE k = 1
    <3>1. d[k - 1] = n /\ d[k] = m
      <4>1. k - 1 = 0 /\ k = 0 + 1 /\ 0 \in 0..l
        BY <1>2, <2>1
      <4>2. d[0 + 1] = c[0]
        BY <1>4, <4>1
      <4> QED
        BY <1>1, <1>4, <4>1, <4>2
    <3> QED
      BY <1>2, <1>3, <2>1, <3>1
  <2>2. CASE k # 1
    <3> DEFINE j == k - 1
    <3>1. j \in 1..l /\ j \in 0..l /\ j - 1 \in 0..l /\ k = j + 1 /\ j = (j - 1) + 1
      BY <1>2, <2>2
    <3> HIDE DEF j
    <3>2. d[j] = c[j - 1] /\ d[k] = c[j] /\ lines[k] = tail[j]
      <4>1. d[(j - 1) + 1] = c[j - 1] /\ d[j + 1] = c[j] /\ lines[j + 1] = tail[j]
        BY <1>3, <1>4, <3>1
      <4> QED
        BY <3>1, <4>1
    <3>3. /\ c[j - 1] < c[j]
          /\ c[j] = c[j - 1] + Break(Rest(text, c[j - 1]), width)
          /\ tail[j] = SubSeq(text, c[j - 1] + 1, c[j])
      BY <1>1, <3>1
    <3>4. d[k - 1] = d[j]
      BY DEF j
    <3> QED
      BY <3>2, <3>3, <3>4
  <2> QED
    BY <2>1, <2>2
<1>8. Cut(d, text, width, n, lines)
  BY <1>3, <1>4, <1>5, <1>6, <1>7, Zenon DEF Cut, L
<1> QED
  BY <1>8 DEF lines

LEMMA CutsExist ==
    ASSUME NEW S, NEW text \in Seq(S), NEW width \in Nat \ {0},
           NEW f \in [0..Len(text) -> Wrapped(S)],
           \A n \in 0..Len(text) : Placed(text, width, n, f, f[n])
    PROVE  \A n \in 0..Len(text) : f[n].error \/ \E c : Cut(c, text, width, n, f[n].lines)
<1> DEFINE L == Len(text)
           H == {n \in 0..L : f[n].error \/ \E c : Cut(c, text, width, n, f[n].lines)}
<1>1. ASSUME NEW n \in 0..L, \A m \in n + 1..L : m \in H
      PROVE  f[n].error \/ \E c : Cut(c, text, width, n, f[n].lines)
  <2> DEFINE len == Break(Rest(text, n), width)
             m == n + len
  <2>1. /\ m \in n..L /\ L \in Nat /\ n \in Nat /\ len \in Nat
        /\ n = L => f[n] = NoLines
        /\ n < L /\ len = 0 => f[n] = NoBreak
        /\ len > 0 => /\ f[n].error = f[m].error
                      /\ f[n].lines = <<SubSeq(text, n + 1, m)>> \o f[m].lines
    BY Zenon DEF Placed
  <2>2. L \in Nat /\ n \in Nat /\ len \in Nat
    BY <2>1
  <2>3. CASE n = L
    <3> DEFINE c == [k \in 0..0 |-> n]
    <3>1. f[n].lines = <<>> /\ Len(<<>>) = 0
      BY <2>1, <2>3 DEF NoLines
    <3>2. c \in [0..0 -> n..L] /\ c[0] = n
      BY <2>2, <2>3
    <3>3. Cut(c, text, width, n, <<>>)
      <4>1. Len(<<>>) = 0 /\ \A k \in 1..0 : FALSE
        OBVIOUS
      <4> HIDE DEF c
      <4> QED
        BY <2>3, <3>2, <4>1, Zenon DEF Cut
    <3> QED
      BY <3>1, <3>3
  <2>4. CASE n # L /\ len = 0
    <3>1. f[n] = NoBreak
      BY <2>1, <2>2, <2>4
    <3> QED
      BY <3>1 DEF NoBreak
  <2>5. CASE n # L /\ len # 0
    <3>1. m \in n + 1..L /\ m \in 0..L /\ len > 0
      BY <2>1, <2>2, <2>5
    <3>2. f[m].error \/ \E c : Cut(c, text, width, m, f[m].lines)
      BY <1>1, <3>1
    <3>3. f[n].error = f[m].error /\ f[n].lines = <<SubSeq(text, n + 1, m)>> \o f[m].lines
      BY <2>1, <3>1
    <3>4. ASSUME NEW c, Cut(c, text, width, m, f[m].lines)
          PROVE  \E d : Cut(d, text, width, n, f[n].lines)
      <4> DEFINE line == SubSeq(text, n + 1, m)
                 tail == f[m].lines
      <4>1. \A i \in n + 1..m : text[i] \in S
        BY <2>2, <3>1, ElementOfSeq
      <4>2. m = n + Break(Rest(text, n), width)
        OBVIOUS
      <4> HIDE DEF m, len
      <4>3. m \in Int /\ n + 1 \in Int
        BY <2>2, <3>1
      <4>4. line \in Seq(S)
        BY <4>1, <4>3, SubSeqProperties
      <4>5. tail \in Seq(Seq(S))
        BY <3>1 DEF Wrapped
      <4>6. Cut(c, text, width, m, tail)
        BY <3>4
      <4>7. line = SubSeq(text, n + 1, m)
        OBVIOUS
      <4> HIDE DEF line, tail
      <4>8. \E d : Cut(d, text, width, n, <<line>> \o tail)
        BY <3>1, <4>2, <4>4, <4>5, <4>6, <4>7, CutBefore
      <4> QED
        BY <3>3, <4>8 DEF line, tail
    <3> QED
      BY <3>2, <3>3, <3>4
  <2> QED
    BY <2>3, <2>4, <2>5
<1>2. Backward(H, 0, L)
  BY <1>1, Zenon DEF Backward
<1>3. \A n \in 0..L : n \in H
  <2>1. L \in Int
    OBVIOUS
  <2> HIDE DEF H, L
  <2> QED
    BY <1>2, <2>1, FromAbove
<1> QED
  BY <1>3

-----------------------------------------------------------------------------
(* What wrapping promises                                                  *)

NoSpace(text, i, j) == \A k \in i..j : ~IsSpace(text[k])
Edge(text, j) == IF j = Len(text) THEN 1 ELSE 0

(* What follows the first n characters can be wrapped.                     *)
Fits(text, width, n) ==
    \A i \in n + 1..Len(text), j \in n + 1..Len(text) :
        NoSpace(text, i, j) => j - i + 1 < width + Edge(text, j)

LEMMA FitsIs ==
    ASSUME NEW S, NEW text \in Seq(S), NEW width
    PROVE  Fits(text, width, 0) <=> Wrappable(text, width)
<1>1. DOMAIN text = 0 + 1..Len(text)
  OBVIOUS
<1> QED
  BY <1>1, Zenon DEF Fits, Wrappable, NoSpace, Edge, IsSpace

(* A line that takes all the rest, or none.                                *)
LEMMA FitsLast ==
    ASSUME NEW S, NEW text \in Seq(S), NEW width \in Nat \ {0}, NEW n \in 0..Len(text),
           Len(text) - n <= width
    PROVE  Fits(text, width, n)
<1>1. ASSUME NEW i \in n + 1..Len(text), NEW j \in n + 1..Len(text)
      PROVE  j - i + 1 < width + Edge(text, j)
  <2>1. CASE j = Len(text)
    BY <2>1 DEF Edge
  <2>2. CASE j # Len(text)
    BY <2>2 DEF Edge
  <2> QED
    BY <2>1, <2>2
<1> QED
  BY <1>1 DEF Fits

LEMMA FitsNot ==
    ASSUME NEW S, NEW text \in Seq(S), NEW width \in Nat \ {0}, NEW n \in 0..Len(text),
           Len(text) - n > width, Break(Rest(text, n), width) = 0
    PROVE  ~Fits(text, width, n)
<1> DEFINE rest == Rest(text, n)
<1>1. /\ rest \in Seq(S) /\ Len(rest) = Len(text) - n
      /\ \A k \in 1..Len(text) - n : rest[k] = text[n + k]
  BY RestIs
<1>2. \A k \in 1..width : IsSpace(rest[k]) => k <= 0
  BY <1>1, BreakIs
<1>3. n \in Nat /\ Len(text) \in Nat
  OBVIOUS
<1> HIDE DEF rest
<1>4. ASSUME NEW k \in n + 1..n + width PROVE ~IsSpace(text[k])
  <2>1. k - n \in 1..width /\ k - n \in 1..Len(text) - n /\ n + (k - n) = k /\ ~(k - n <= 0)
    BY <1>3
  <2>2. rest[k - n] = text[k]
    BY <1>1, <2>1
  <2> QED
    BY <1>2, <2>1, <2>2
<1>5. NoSpace(text, n + 1, n + width)
  BY <1>4 DEF NoSpace
<1>6. n + 1 \in n + 1..Len(text) /\ n + width \in n + 1..Len(text) /\ n + width # Len(text)
  BY <1>3
<1>7. ~((n + width) - (n + 1) + 1 < width + Edge(text, n + width))
  BY <1>3, <1>6 DEF Edge
<1> QED
  BY <1>5, <1>6, <1>7, Zenon DEF Fits

(* A line that ends with a space leaves the rest as it is.                 *)
LEMMA FitsAfter ==
    ASSUME NEW S, NEW text \in Seq(S), NEW width \in Nat \ {0}, NEW n \in 0..Len(text),
           NEW m \in n + 1..Len(text), m - n <= width, IsSpace(text[m])
    PROVE  Fits(text, width, n) <=> Fits(text, width, m)
<1>1. ASSUME Fits(text, width, n) PROVE Fits(text, width, m)
  <2>1. \A i \in m + 1..Len(text) : i \in n + 1..Len(text)
    OBVIOUS
  <2> QED
    BY <1>1, <2>1, Zenon DEF Fits
<1>2. ASSUME Fits(text, width, m),
             NEW i \in n + 1..Len(text), NEW j \in n + 1..Len(text), NoSpace(text, i, j)
      PROVE  j - i + 1 < width + Edge(text, j)
  <2>1. ~(m \in i..j)
    BY <1>2, Zenon DEF NoSpace
  <2>2. CASE m < i /\ m < j
    <3>1. i \in m + 1..Len(text) /\ j \in m + 1..Len(text)
      BY <2>2
    <3> QED
      BY <1>2, <3>1, Zenon DEF Fits
  <2>3. CASE j < i
    BY <2>3 DEF Edge
  <2>4. CASE j < m /\ i <= j
    BY <2>4 DEF Edge
  <2> QED
    BY <2>1, <2>2, <2>3, <2>4
<1> QED
  BY <1>1, <1>2 DEF Fits

(* Wrap gives up exactly on a text with a word that does not go into a     *)
(* line together with the space after it: the page that stops the firmware *)
(* at 3ml_cleaner.cpp:158-159.                                             *)
THEOREM WrapFails ==
    ASSUME NEW S, NEW text \in Seq(S), NEW width \in Nat \ {0}
    PROVE  Wrap(text, width).error = ~Wrappable(text, width)
<1> DEFINE L == Len(text)
<1>1. PICK f \in [0..L -> Wrapped(S)] :
          /\ Wrap(text, width) = f[0]
          /\ \A n \in 0..L : Placed(text, width, n, f, f[n])
  BY WrapIs
<1> DEFINE H == {n \in 0..L : f[n].error = ~Fits(text, width, n)}
<1>2. ASSUME NEW n \in 0..L, \A m \in n + 1..L : m \in H
      PROVE  f[n].error = ~Fits(text, width, n)
  <2> DEFINE rest == Rest(text, n)
             len == Break(rest, width)
             m == n + len
  <2>0. Placed(text, width, n, f, f[n])
    BY <1>1
  <2>1. /\ m \in n..L /\ L \in Nat /\ n \in Nat /\ len \in Nat /\ len <= width
        /\ n = L => f[n] = NoLines
        /\ n < L /\ len = 0 => f[n] = NoBreak
        /\ len > 0 => f[n].error = f[m].error
    BY <2>0, Zenon DEF Placed
  <2>2. /\ rest \in Seq(S) /\ Len(rest) = L - n
        /\ \A k \in 1..L - n : rest[k] = text[n + k]
    BY RestIs
  <2>3. /\ Len(rest) <= width => len = Len(rest)
        /\ Len(rest) > width => (len > 0 => IsSpace(rest[len]))
    BY <2>2, BreakIs
  <2>4. CASE n = L
    <3>1. Fits(text, width, n)
      BY <2>1, <2>4, FitsLast
    <3> QED
      BY <2>1, <2>4, <3>1 DEF NoLines
  <2>5. CASE n # L /\ len = 0
    <3>1. n < L /\ L - n > width
      <4> HIDE DEF rest, len, L
      <4> QED
        BY <2>1, <2>2, <2>3, <2>5
    <3>2. ~Fits(text, width, n)
      BY <2>5, <3>1, FitsNot
    <3>3. f[n] = NoBreak
      BY <2>1, <2>5, <3>1
    <3> QED
      BY <3>2, <3>3 DEF NoBreak
  <2>6. CASE len # 0
    <3>1. m \in n + 1..L
      BY <2>1, <2>6
    <3>2. f[n].error = f[m].error /\ f[m].error = ~Fits(text, width, m)
      BY <1>2, <2>1, <2>6, <3>1
    <3>3. CASE L - n <= width
      <4>1. m = L
        <5> HIDE DEF rest, len, L
        <5> QED
          BY <2>1, <2>2, <2>3, <3>3
      <4>2. Fits(text, width, n) /\ Fits(text, width, m)
        <5>1. Fits(text, width, n)
          BY <3>3, FitsLast
        <5>2. m \in 0..L /\ L - m <= width
          BY <2>1, <4>1
        <5> HIDE DEF m
        <5>3. Fits(text, width, m)
          BY <5>2, FitsLast
        <5> QED
          BY <5>1, <5>3
      <4> QED
        BY <3>2, <4>2
    <3>4. CASE ~(L - n <= width)
      <4>1. IsSpace(text[m]) /\ m - n <= width
        <5>1. len \in 1..L - n /\ Len(rest) > width /\ len > 0
          <6> HIDE DEF rest, len, L
          <6> QED
            BY <2>1, <2>2, <2>6, <3>1, <3>4
        <5>2. rest[len] = text[m]
          BY <2>2, <5>1
        <5>3. m - n = len
          BY <2>1
        <5> QED
          BY <2>1, <2>3, <5>1, <5>2, <5>3
      <4> HIDE DEF m
      <4>2. Fits(text, width, n) <=> Fits(text, width, m)
        BY <3>1, <4>1, FitsAfter
      <4> QED
        BY <3>2, <4>2
    <3> QED
      BY <3>3, <3>4
  <2> QED
    BY <2>4, <2>5, <2>6
<1>3. Backward(H, 0, L)
  BY <1>2, Zenon DEF Backward
<1>4. 0 \in H
  <2>1. L \in Int /\ 0 \in 0..L
    OBVIOUS
  <2> HIDE DEF H, L
  <2> QED
    BY <1>3, <2>1, FromAbove
<1>5. f[0].error = ~Fits(text, width, 0)
  BY <1>4
<1> QED
  BY <1>1, <1>5, FitsIs

(* What is cut, without the recursive function.                            *)
LEMMA WrapCuts ==
    ASSUME NEW S, NEW text \in Seq(S), NEW width \in Nat \ {0}, Wrap(text, width).error = FALSE
    PROVE  /\ Wrap(text, width).lines \in Seq(Seq(S))
           /\ \E c : Cut(c, text, width, 0, Wrap(text, width).lines)
<1>1. PICK f \in [0..Len(text) -> Wrapped(S)] :
          /\ Wrap(text, width) = f[0]
          /\ \A n \in 0..Len(text) : Placed(text, width, n, f, f[n])
  BY WrapIs
<1>2. \A n \in 0..Len(text) : f[n].error \/ \E c : Cut(c, text, width, n, f[n].lines)
  BY <1>1, CutsExist
<1>3. 0 \in 0..Len(text) /\ f[0] \in Wrapped(S)
  OBVIOUS
<1>4. f[0].lines \in Seq(Seq(S))
  BY <1>3 DEF Wrapped
<1>5. \E c : Cut(c, text, width, 0, f[0].lines)
  BY <1>1, <1>2, <1>3, Zenon
<1> QED
  BY <1>1, <1>4, <1>5, Zenon

(* A text that is wrapped is neither shortened nor changed: its lines, one *)
(* after the other, are the text (3ml_cleaner.cpp:146-163).                *)
THEOREM WrapKeepsText ==
    ASSUME NEW S, NEW text \in Seq(S), NEW width \in Nat \ {0}, Wrap(text, width).error = FALSE
    PROVE  FlattenSeq(Wrap(text, width).lines) = text
<1> DEFINE seqs == Wrap(text, width).lines
           N == Len(seqs)
           L == Len(text)
<1>1. seqs \in Seq(Seq(S)) /\ \E c : Cut(c, text, width, 0, seqs)
  BY WrapCuts
<1>2. N \in Nat /\ L \in Nat
  BY <1>1
<1> HIDE DEF seqs
<1>3. PICK c : Cut(c, text, width, 0, seqs)
  BY <1>1
<1>4. /\ c \in [0..N -> 0..L] /\ c[0] = 0 /\ c[N] = L
      /\ \A k \in 1..N : c[k - 1] < c[k] /\ seqs[k] = SubSeq(text, c[k - 1] + 1, c[k])
  BY <1>3, Zenon DEF Cut
<1>5. CASE N = 0
  <2>1. FlattenSeq(seqs) = seqs
    BY <1>5, Zenon DEF FlattenSeq
  <2>2. seqs = <<>> /\ text = <<>>
    BY <1>1, <1>4, <1>5, EmptySeq
  <2> QED
    BY <2>1, <2>2 DEF seqs
<1>6. CASE N # 0
  <2> DEFINE g == [i \in 1..N |-> SubSeq(text, 1, c[i])]
             flatten[i \in 1..Len(seqs)] == IF i = 1 THEN seqs[i] ELSE flatten[i - 1] \o seqs[i]
             H == {i \in 1..N : flatten[i] = g[i]}
  <2>1. 1 \in 1..N /\ N \in 1..N
    BY <1>2, <1>6
  <2>2. \A i \in 1..N : g[i] = SubSeq(text, 1, c[i])
    OBVIOUS
  <2>3. seqs[1] = g[1]
    <3>1. seqs[1] = SubSeq(text, c[1 - 1] + 1, c[1])
      BY <1>4, <2>1
    <3>2. c[1 - 1] + 1 = 1
      BY <1>4
    <3> QED
      BY <2>1, <2>2, <3>1, <3>2
  <2>4. ASSUME NEW i \in 1..N, i # 1 PROVE i - 1 \in 1..N /\ g[i] = g[i - 1] \o seqs[i]
    <3>1. i - 1 \in 1..N /\ i \in 0..N /\ i - 1 \in 0..N
      BY <1>2, <2>4
    <3> DEFINE p == c[i - 1]
               q == c[i]
    <3>2. p \in 0..L /\ q \in 0..L /\ p < q /\ seqs[i] = SubSeq(text, p + 1, q)
      BY <1>4, <3>1
    <3>3. g[i] = SubSeq(text, 1, q) /\ g[i - 1] = SubSeq(text, 1, p)
      BY <2>2, <3>1
    <3> HIDE DEF p, q, g
    <3>4. 1 \in 1..L + 1 /\ p \in 1 - 1..L /\ q \in p..L
      BY <1>2, <3>2
    <3>5. SubSeq(text, 1, p) \o SubSeq(text, p + 1, q) = SubSeq(text, 1, q)
      BY <3>4, ConcatAdjacentSubSeq
    <3> QED
      BY <3>1, <3>2, <3>3, <3>5
  <2> HIDE DEF g
  <2>5. g = [i \in 1..Len(seqs) |-> IF i = 1 THEN seqs[i] ELSE g[i - 1] \o seqs[i]]
    <3>1. \A i \in 1..N : g[i] = IF i = 1 THEN seqs[i] ELSE g[i - 1] \o seqs[i]
      BY <2>3, <2>4
    <3>2. g = [i \in 1..N |-> g[i]]
      BY DEF g
    <3> QED
      BY <3>1, <3>2
  <2>6. \E h : h = [i \in 1..Len(seqs) |-> IF i = 1 THEN seqs[i] ELSE h[i - 1] \o seqs[i]]
    BY <2>5
  <2>7. flatten = [i \in 1..Len(seqs) |-> IF i = 1 THEN seqs[i] ELSE flatten[i - 1] \o seqs[i]]
    BY <2>6, Zenon
  <2>8. FlattenSeq(seqs) = flatten[N]
    BY <1>6, Zenon DEF FlattenSeq
  <2> HIDE DEF flatten
  <2>9. \A i \in 1..N : flatten[i] = IF i = 1 THEN seqs[i] ELSE flatten[i - 1] \o seqs[i]
    BY <2>7
  <2>10. 1 \in H
    BY <2>1, <2>3, <2>9
  <2>11. ASSUME NEW n \in 1..N - 1, n \in H PROVE n + 1 \in H
    <3>1. n + 1 \in 1..N /\ n + 1 # 1 /\ (n + 1) - 1 = n
      BY <1>2
    <3>2. flatten[n + 1] = flatten[n] \o seqs[n + 1] /\ g[n + 1] = g[n] \o seqs[n + 1]
      BY <2>4, <2>9, <3>1
    <3> QED
      BY <2>11, <3>1, <3>2
  <2>12. Inductive(H, 1, N)
    BY <2>11, Zenon DEF Inductive
  <2>13. flatten[N] = g[N]
    <3>1. 1 \in Int /\ N \in Int
      BY <1>2
    <3> HIDE DEF H, N
    <3>2. N \in H
      BY <2>1, <2>10, <2>12, <3>1, UpTo
    <3> QED
      BY <3>2 DEF H
  <2>14. g[N] = text
    BY <1>4, <2>1, <2>2, SubSeqFull
  <2> QED
    BY <2>8, <2>13, <2>14 DEF seqs
<1> QED
  BY <1>5, <1>6

(* No line is empty or too wide, and the text is broken only after a space *)
(* and as late as possible: what follows, up to its first space or the end *)
(* of the text, would not have gone into the line (3ml_cleaner.cpp:146-163).*)
THEOREM WrapFillsLines ==
    ASSUME NEW S, NEW text \in Seq(S), NEW width \in Nat \ {0}, Wrap(text, width).error = FALSE,
           NEW lines, lines = Wrap(text, width).lines, NEW k \in 1..Len(lines)
    PROVE  /\ Len(lines[k]) \in 1..width
           /\ k < Len(lines) =>
                  /\ lines[k][Len(lines[k])] = " "
                  /\ \A m \in 1..Len(lines[k + 1]) :
                         (lines[k + 1][m] = " " \/ (k + 1 = Len(lines) /\ m = Len(lines[k + 1])))
                             => Len(lines[k]) + m > width
<1> DEFINE N == Len(lines)
           L == Len(text)
<1>1. lines \in Seq(Seq(S)) /\ \E c : Cut(c, text, width, 0, lines)
  BY WrapCuts
<1>2. N \in Nat /\ L \in Nat
  BY <1>1
<1>3. PICK c : Cut(c, text, width, 0, lines)
  BY <1>1
<1>4. /\ c \in [0..N -> 0..L] /\ c[N] = L
      /\ \A i \in 1..N : /\ c[i - 1] < c[i]
                         /\ c[i] = c[i - 1] + Break(Rest(text, c[i - 1]), width)
                         /\ lines[i] = SubSeq(text, c[i - 1] + 1, c[i])
  BY <1>3, Zenon DEF Cut
<1> DEFINE p == c[k - 1]
           q == c[k]
           r == c[k + 1]
           rest == Rest(text, p)
<1>5. /\ p \in 0..L /\ q \in 0..L /\ p < q /\ q = p + Break(rest, width)
      /\ lines[k] = SubSeq(text, p + 1, q)
  <2>1. k - 1 \in 0..N /\ k \in 0..N
    BY <1>2
  <2> QED
    BY <1>4, <2>1
<1>6. k < N => /\ r \in 0..L /\ q < r
               /\ lines[k + 1] = SubSeq(text, q + 1, r)
               /\ k + 1 = N => r = L
  <2>1. k < N => k + 1 \in 0..N /\ k + 1 \in 1..N /\ (k + 1) - 1 = k
    BY <1>2
  <2> QED
    BY <1>4, <2>1
<1> DEFINE l == Len(lines[k])
<1> HIDE DEF N, L, p, q, r
<1>7. /\ rest \in Seq(S) /\ Len(rest) = L - p
      /\ \A i \in 1..L - p : rest[i] = text[p + i]
  BY <1>5, RestIs DEF L
<1>8. /\ l = q - p
      /\ \A i \in 1..q - p : lines[k][i] = text[p + i]
  BY <1>5, PieceIs DEF L
<1>9. Break(rest, width) = l
  <2>1. Break(rest, width) \in Int
    BY <1>7, BreakIs
  <2> HIDE DEF rest, l
  <2> QED
    BY <1>2, <1>5, <1>8, <2>1
<1>10. /\ l <= width
       /\ L - p <= width => l = L - p
       /\ L - p > width => /\ l > 0 => IsSpace(rest[l])
                           /\ \A i \in 1..width : IsSpace(rest[i]) => i <= l
  <2> DEFINE b == Break(rest, width)
  <2>1. /\ b <= width
        /\ Len(rest) <= width => b = Len(rest)
        /\ Len(rest) > width => /\ b > 0 => IsSpace(rest[b])
                                /\ \A i \in 1..width : IsSpace(rest[i]) => i <= b
    BY <1>7, BreakIs
  <2>2. Len(rest) = L - p /\ b = l
    BY <1>7, <1>9
  <2> HIDE DEF rest, l, b
  <2> QED
    BY <2>1, <2>2, Zenon
<1> HIDE DEF rest, l
<1>11. l \in 1..width
  BY <1>2, <1>5, <1>8, <1>10
<1>12. ASSUME k < N
       PROVE  /\ IsSpace(lines[k][l])
              /\ \A m \in 1..Len(lines[k + 1]) :
                     (IsSpace(lines[k + 1][m]) \/ (k + 1 = N /\ m = Len(lines[k + 1])))
                         => l + m > width
  <2>1. /\ r \in 0..L /\ q < r /\ lines[k + 1] = SubSeq(text, q + 1, r)
        /\ k + 1 = N => r = L
    BY <1>6, <1>12
  <2>2. L - p > width
    BY <1>2, <1>5, <1>8, <1>10, <2>1
  <2>3. /\ Len(lines[k + 1]) = r - q
        /\ \A m \in 1..r - q : lines[k + 1][m] = text[q + m]
    <3> DEFINE next == lines[k + 1]
    <3>1. r \in 0..Len(text) /\ q \in 0..Len(text) /\ q <= r /\ next = SubSeq(text, q + 1, r)
      BY <1>2, <1>5, <2>1 DEF L
    <3> HIDE DEF next
    <3>2. Len(next) = r - q /\ \A m \in 1..r - q : next[m] = text[q + m]
      BY <3>1, PieceIs
    <3> QED
      BY <3>2 DEF next
  <2>4. IsSpace(lines[k][l])
    <3>1. l \in 1..q - p /\ l \in 1..L - p /\ l > 0
      BY <1>2, <1>5, <1>8, <1>11
    <3>2. lines[k][l] = text[p + l] /\ rest[l] = text[p + l]
      BY <1>7, <1>8, <3>1
    <3>3. IsSpace(rest[l])
      BY <1>10, <2>2, <3>1
    <3> QED
      BY <3>2, <3>3
  <2>5. ASSUME NEW m \in 1..Len(lines[k + 1]),
               IsSpace(lines[k + 1][m]), ~(l + m > width)
        PROVE  FALSE
    <3>0. m \in 1..r - q
      BY <2>3
    <3>1. m \in 1..r - q /\ l + m \in 1..width /\ l + m \in 1..L - p /\ p + (l + m) = q + m
      <4>1. ~(l + m > width)
        BY <2>5
      <4>2. l \in 1..width /\ l = q - p /\ p \in 0..L /\ q \in 0..L /\ r \in 0..L
        BY <1>5, <1>8, <1>11, <2>1
      <4>3. L \in Nat
        BY <1>2
      <4> QED
        BY <3>0, <4>1, <4>2, <4>3
    <3>2. lines[k + 1][m] = text[q + m] /\ rest[l + m] = text[p + (l + m)]
      BY <1>7, <2>3, <3>1
    <3>3. IsSpace(rest[l + m])
      BY <2>5, <3>1, <3>2
    <3>4. l + m <= l
      BY <1>10, <2>2, <3>1, <3>3
    <3> QED
      BY <1>11, <3>1, <3>4
  <2>6. ASSUME k + 1 = N PROVE l + Len(lines[k + 1]) > width
    <3>1. r = L /\ Len(lines[k + 1]) = r - q /\ l = q - p
      BY <1>8, <2>1, <2>3, <2>6
    <3>2. L \in Nat /\ p \in 0..L /\ q \in 0..L
      BY <1>2, <1>5
    <3>3. l + Len(lines[k + 1]) = L - p
      BY <3>1, <3>2
    <3> QED
      BY <2>2, <3>3
  <2>7. \A m \in 1..Len(lines[k + 1]) : IsSpace(lines[k + 1][m]) => l + m > width
    BY <2>5
  <2> HIDE DEF l
  <2> QED
    BY <2>4, <2>6, <2>7, Zenon
<1>13. k < Len(lines) =>
           /\ IsSpace(lines[k][l])
           /\ \A m \in 1..Len(lines[k + 1]) :
                  (IsSpace(lines[k + 1][m]) \/ (k + 1 = Len(lines) /\ m = Len(lines[k + 1])))
                      => l + m > width
  BY <1>12, Zenon DEF N
<1> QED
  BY <1>11, <1>13, Zenon DEF l, IsSpace

-----------------------------------------------------------------------------
(* The trees of the parser                                                 *)

TextNodesOnly == [text : Texts]
ElementsOf(forests) == [name : STRING, attributes : Attributes, children : forests]

NodesStep(nodes, depth) ==
    TextNodesOnly \cup IF depth = 0 THEN {} ELSE ElementsOf(Seq(nodes[depth - 1]))

LEMMA NodesIs == Nodes = [depth \in 0..MaxDepth |-> NodesStep(Nodes, depth)]
<1> DEFINE Good(f, n) == f = [depth \in 0..n |-> NodesStep(f, depth)]
           H == {n \in 0..MaxDepth : \E f : Good(f, n)}
<1>1. MaxDepth \in Nat /\ 0 \in Int /\ MaxDepth \in Int /\ 0 \in 0..MaxDepth /\ MaxDepth \in 0..MaxDepth
  BY CleanerAssumption
<1>2. 0 \in H
  <2> DEFINE f == [depth \in 0..0 |-> TextNodesOnly]
  <2>1. Good(f, 0)
    BY DEF NodesStep
  <2> HIDE DEF f
  <2> QED
    BY <1>1, <2>1
<1>3. ASSUME NEW n \in 0..MaxDepth - 1, n \in H PROVE n + 1 \in H
  <2>1. PICK f : Good(f, n)
    BY <1>3
  <2> DEFINE g == [depth \in 0..n + 1 |-> IF depth <= n THEN f[depth] ELSE NodesStep(f, depth)]
  <2>2. \A depth \in 0..n : g[depth] = f[depth]
    OBVIOUS
  <2>3. \A depth \in 0..n : f[depth] = NodesStep(f, depth)
    BY <2>1
  <2>4. ASSUME NEW depth \in 0..n + 1 PROVE g[depth] = NodesStep(f, depth)
    BY <2>3
  <2>5. g = [depth \in 0..n + 1 |-> g[depth]]
    OBVIOUS
  <2> HIDE DEF g
  <2>6. ASSUME NEW depth \in 0..n + 1 PROVE NodesStep(f, depth) = NodesStep(g, depth)
    <3>1. CASE depth = 0
      BY <3>1 DEF NodesStep
    <3>2. CASE depth # 0
      <4>1. depth - 1 \in 0..n
        BY <3>2
      <4>2. f[depth - 1] = g[depth - 1]
        BY <2>2, <4>1
      <4> QED
        BY <4>2, Zenon DEF NodesStep
    <3> QED
      BY <3>1, <3>2
  <2>7. Good(g, n + 1)
    <3>1. \A depth \in 0..n + 1 : g[depth] = NodesStep(g, depth)
      BY <2>4, <2>6
    <3> QED
      BY <2>5, <3>1
  <2>8. n + 1 \in 0..MaxDepth
    BY <1>1
  <2> QED
    BY <2>7, <2>8
<1>4. Inductive(H, 0, MaxDepth)
  BY <1>3, Zenon DEF Inductive
<1> HIDE DEF H
<1>5. MaxDepth \in H
  BY <1>1, <1>2, <1>4, UpTo
<1>6. \E f : f = [depth \in 0..MaxDepth |-> NodesStep(f, depth)]
  BY <1>5 DEF H
<1> QED
  BY <1>6, Zenon DEF Nodes, NodesStep, TextNodesOnly, ElementsOf

(* Any forest of nodes nested less deep makes an element.                  *)
LEMMA NodeIs ==
    ASSUME NEW depth \in 0..MaxDepth
    PROVE  /\ depth = 0 => Nodes[depth] = TextNodesOnly
           /\ depth # 0 => /\ depth - 1 \in 0..MaxDepth
                           /\ Nodes[depth] = TextNodesOnly \cup ElementsOf(Seq(Nodes[depth - 1]))
<1>1. Nodes[depth] = NodesStep(Nodes, depth)
  BY NodesIs
<1>2. depth # 0 => depth - 1 \in 0..MaxDepth
  BY CleanerAssumption
<1> QED
  BY <1>1, <1>2 DEF NodesStep

LEMMA NodesGrow ==
    ASSUME NEW low \in 0..MaxDepth, NEW high \in low..MaxDepth
    PROVE  Nodes[low] \subseteq Nodes[high]
<1> DEFINE G == {d \in 0..MaxDepth : d > 0 => Nodes[d - 1] \subseteq Nodes[d]}
           H == {d \in low..MaxDepth : Nodes[low] \subseteq Nodes[d]}
<1>1. MaxDepth \in Nat /\ 0 \in Int /\ MaxDepth \in Int /\ 0 \in 0..MaxDepth /\ low \in Int /\ low \in low..MaxDepth
  BY CleanerAssumption
<1>2. ASSUME NEW d \in 0..MaxDepth - 1, d \in G PROVE d + 1 \in G
  <2>1. d + 1 \in 0..MaxDepth /\ d + 1 # 0 /\ (d + 1) - 1 = d /\ d \in 0..MaxDepth
    BY <1>1
  <2>2. Nodes[d + 1] = TextNodesOnly \cup ElementsOf(Seq(Nodes[d]))
    <3> DEFINE e == d + 1
    <3>1. e \in 0..MaxDepth /\ e # 0 /\ e - 1 = d
      BY <2>1
    <3> HIDE DEF e
    <3>2. Nodes[e] = TextNodesOnly \cup ElementsOf(Seq(Nodes[e - 1]))
      BY <3>1, NodeIs
    <3> QED
      BY <3>1, <3>2 DEF e
  <2>3. CASE d = 0
    BY <2>1, <2>2, <2>3, NodeIs
  <2>4. CASE d # 0
    <3>1. Nodes[d] = TextNodesOnly \cup ElementsOf(Seq(Nodes[d - 1]))
      BY <2>1, <2>4, NodeIs
    <3>2. Nodes[d - 1] \subseteq Nodes[d]
      BY <1>1, <1>2, <2>4
    <3> DEFINE S == Nodes[d - 1]
               T == Nodes[d]
    <3> HIDE DEF S, T
    <3>3. Seq(S) \subseteq Seq(T)
      BY <3>2 DEF S, T
    <3>4. ElementsOf(Seq(S)) \subseteq ElementsOf(Seq(T))
      BY <3>3 DEF ElementsOf
    <3>5. Nodes[d] \subseteq Nodes[d + 1]
      BY <2>2, <3>1, <3>4, Zenon DEF S, T
    <3> QED
      BY <2>1, <3>5
  <2> QED
    BY <2>3, <2>4
<1>3. \A d \in 0..MaxDepth : d \in G
  <2>1. 0 \in G
    BY <1>1
  <2>2. Inductive(G, 0, MaxDepth)
    BY <1>2, Zenon DEF Inductive
  <2> HIDE DEF G
  <2> QED
    BY <1>1, <2>1, <2>2, UpTo
<1>4. ASSUME NEW d \in low..MaxDepth - 1, d \in H PROVE d + 1 \in H
  <2>1. d + 1 \in 0..MaxDepth /\ d + 1 > 0 /\ (d + 1) - 1 = d /\ d + 1 \in low..MaxDepth
    BY <1>1
  <2>2. Nodes[d] \subseteq Nodes[d + 1]
    <3> DEFINE e == d + 1
    <3>1. e \in 0..MaxDepth /\ e > 0 /\ e - 1 = d
      BY <2>1
    <3> HIDE DEF e
    <3>2. Nodes[e - 1] \subseteq Nodes[e]
      BY <1>3, <3>1
    <3> QED
      BY <3>1, <3>2 DEF e
  <2>3. Nodes[low] \subseteq Nodes[d]
    BY <1>4
  <2> QED
    BY <2>1, <2>2, <2>3
<1>5. low \in H
  BY <1>1
<1>6. Inductive(H, low, MaxDepth)
  BY <1>4, Zenon DEF Inductive
<1> HIDE DEF H
<1>7. high \in H
  BY <1>1, <1>5, <1>6, UpTo
<1> QED
  BY <1>7 DEF H

(* A text, or an element with the nodes in it.                             *)
LEMMA NodeCases ==
    ASSUME NEW depth \in 0..MaxDepth, NEW node \in Nodes[depth]
    PROVE  /\ IsText(node) => node \in TextNodesOnly /\ node.text \in Texts
           /\ ~IsText(node) => /\ depth > 0 /\ depth - 1 \in 0..MaxDepth
                               /\ node \in ElementsOf(Seq(Nodes[depth - 1]))
                               /\ node.name \in STRING /\ node.attributes \in Attributes
                               /\ node.children \in Seq(Nodes[depth - 1])
<1>1. \A x \in TextNodesOnly : IsText(x) /\ x.text \in Texts
  BY DEF TextNodesOnly, IsText
<1>2. \A f : \A x \in ElementsOf(f) : /\ ~IsText(x) /\ x.name \in STRING
                                      /\ x.attributes \in Attributes /\ x.children \in f
  BY DEF ElementsOf, IsText
<1>3. depth # 0 => depth > 0
  BY CleanerAssumption
<1>4. CASE depth = 0
  BY <1>1, <1>4, NodeIs
<1>5. CASE depth # 0
  <2>1. depth - 1 \in 0..MaxDepth /\ Nodes[depth] = TextNodesOnly \cup ElementsOf(Seq(Nodes[depth - 1]))
    BY <1>5, NodeIs
  <2> QED
    BY <1>1, <1>2, <1>3, <1>5, <2>1
<1> QED
  BY <1>4, <1>5

(* H contains every node whose parts it contains.                          *)
Closed(H) ==
    \A node \in Nodes[MaxDepth] :
        (IsText(node) \/ \A i \in 1..Len(node.children) : node.children[i] \in H) => node \in H

LEMMA TreeInduction ==
    ASSUME NEW H, Closed(H)
    PROVE  Nodes[MaxDepth] \subseteq H
<1> DEFINE K == {d \in 0..MaxDepth : Nodes[d] \subseteq H}
<1>1. MaxDepth \in Nat /\ 0 \in Int /\ MaxDepth \in Int /\ 0 \in 0..MaxDepth /\ MaxDepth \in 0..MaxDepth
  BY CleanerAssumption
<1>2. ASSUME NEW d \in 0..MaxDepth, NEW node \in Nodes[d] PROVE node \in Nodes[MaxDepth]
  <2>1. MaxDepth \in d..MaxDepth
    BY <1>1
  <2> QED
    BY <2>1, NodesGrow
<1>3. 0 \in K
  <2>1. ASSUME NEW node \in Nodes[0] PROVE node \in H
    <3>1. IsText(node)
      BY <1>1, NodeCases
    <3> QED
      BY <1>1, <1>2, <3>1, Zenon DEF Closed
  <2> QED
    BY <1>1, <2>1
<1>4. ASSUME NEW d \in 0..MaxDepth - 1, d \in K PROVE d + 1 \in K
  <2> DEFINE e == d + 1
  <2>1. e \in 0..MaxDepth /\ e - 1 = d
    BY <1>1
  <2> HIDE DEF e
  <2>2. ASSUME NEW node \in Nodes[e] PROVE node \in H
    <3>1. node \in Nodes[MaxDepth]
      BY <1>2, <2>1
    <3>2. CASE IsText(node)
      BY <3>1, <3>2, Zenon DEF Closed
    <3>3. CASE ~IsText(node)
      <4>1. node.children \in Seq(Nodes[d])
        BY <2>1, <3>3, NodeCases
      <4>2. ASSUME NEW i \in 1..Len(node.children) PROVE node.children[i] \in H
        <5>1. node.children[i] \in Nodes[d]
          BY <4>1, ElementOfSeq
        <5>2. Nodes[d] \subseteq H
          BY <1>4
        <5> QED
          BY <5>1, <5>2
      <4> QED
        BY <3>1, <4>2, Zenon DEF Closed
    <3> QED
      BY <3>2, <3>3
  <2>3. e \in K
    BY <2>1, <2>2
  <2> QED
    BY <2>3 DEF e
<1>5. Inductive(K, 0, MaxDepth)
  BY <1>4, Zenon DEF Inductive
<1> HIDE DEF K
<1>6. MaxDepth \in K
  BY <1>1, <1>3, <1>5, UpTo
<1> QED
  BY <1>6 DEF K

(* What is known of a node wherever it is in a tree.                       *)
LEMMA NodeParts ==
    ASSUME NEW node \in Nodes[MaxDepth]
    PROVE  /\ IsText(node) => node.text \in Texts
           /\ ~IsText(node) => /\ node \in Elements
                               /\ node.name \in STRING /\ node.attributes \in Attributes
                               /\ node.children \in Seq(Nodes[MaxDepth])
                               /\ node.children \in Seq(Nodes[MaxDepth - 1])
<1>1. MaxDepth \in 0..MaxDepth /\ MaxDepth \in Nat \ {0}
  BY CleanerAssumption
<1>2. MaxDepth - 1 \in 0..MaxDepth /\ MaxDepth \in MaxDepth - 1..MaxDepth
  BY <1>1
<1>3. Nodes[MaxDepth - 1] \subseteq Nodes[MaxDepth]
  BY <1>2, NodesGrow
<1>4. ~IsText(node) => node.children \in Seq(Nodes[MaxDepth - 1])
  BY <1>1, NodeCases
<1>5. Seq(Nodes[MaxDepth - 1]) \subseteq Seq(Nodes[MaxDepth])
  BY <1>3
<1>6. /\ IsText(node) => node.text \in Texts
      /\ ~IsText(node) => node.name \in STRING /\ node.attributes \in Attributes
  BY <1>1, NodeCases
<1> QED
  BY <1>4, <1>5, <1>6 DEF Elements

-----------------------------------------------------------------------------
(* The tokens of a tree                                                    *)

Token == ({"text"} \X Texts) \cup ({"open", "close"} \X STRING)

Opens(node) == <<<<"open", node.name>>>>
Closes(node) == <<<<"close", node.name>>>>

TokensStep(f, node) ==
    IF IsText(node) THEN <<<<"text", node.text>>>>
    ELSE Opens(node) \o FlattenSeq(Map(f, node.children)) \o Closes(node)

LEMMA TokensIs ==
    \A node \in Nodes[MaxDepth] : TokensOf[node] = TokensStep(TokensOf, node)
<1> DEFINE Good(f, d) == \A node \in Nodes[d] : f[node] = TokensStep(f, node)
           H == {d \in 0..MaxDepth : \E f : Good(f, d)}
<1>1. MaxDepth \in Nat /\ 0 \in Int /\ MaxDepth \in Int /\ 0 \in 0..MaxDepth
  BY CleanerAssumption
<1>2. ASSUME NEW d \in 0..MaxDepth, NEW f, NEW g, NEW node \in Nodes[d],
             d > 0 => \A x \in Nodes[d - 1] : f[x] = g[x]
      PROVE  TokensStep(f, node) = TokensStep(g, node)
  <2>1. CASE IsText(node)
    BY <2>1, Zenon DEF TokensStep
  <2>2. CASE ~IsText(node)
    <3>1. d > 0 /\ node.children \in Seq(Nodes[d - 1])
      BY <2>2, NodeCases
    <3>2. Map(f, node.children) = Map(g, node.children)
      BY <1>2, <3>1, MapSame
    <3> QED
      BY <3>2, Zenon DEF TokensStep
  <2> QED
    BY <2>1, <2>2
<1>3. 0 \in H
  <2> DEFINE f == [node \in Nodes[0] |-> TokensStep(<<>>, node)]
  <2>1. \A node \in Nodes[0] : f[node] = TokensStep(<<>>, node)
    OBVIOUS
  <2> HIDE DEF f
  <2>2. \A node \in Nodes[0] : TokensStep(<<>>, node) = TokensStep(f, node)
    BY <1>1, <1>2
  <2>3. Good(f, 0)
    BY <2>1, <2>2
  <2> HIDE DEF Good
  <2> QED
    BY <1>1, <2>3
<1>4. ASSUME NEW d \in 0..MaxDepth - 1, d \in H PROVE d + 1 \in H
  <2> DEFINE e == d + 1
  <2>1. e \in 0..MaxDepth /\ e - 1 = d /\ d \in 0..MaxDepth /\ e \in d..MaxDepth
    BY <1>1
  <2> HIDE DEF e
  <2>2. PICK f : Good(f, d)
    BY <1>4
  <2> DEFINE g == [node \in Nodes[e] |-> TokensStep(f, node)]
  <2>3. \A node \in Nodes[e] : g[node] = TokensStep(f, node)
    OBVIOUS
  <2> HIDE DEF g
  <2>4. \A node \in Nodes[d] : f[node] = g[node]
    <3>1. Nodes[d] \subseteq Nodes[e]
      BY <2>1, NodesGrow
    <3> QED
      BY <2>2, <2>3, <3>1
  <2>5. \A node \in Nodes[e] : TokensStep(f, node) = TokensStep(g, node)
    BY <1>2, <2>1, <2>4
  <2>6. Good(g, e)
    BY <2>3, <2>5
  <2> HIDE DEF Good
  <2>7. e \in H
    BY <2>1, <2>6
  <2> QED
    BY <2>7 DEF e
<1>5. Inductive(H, 0, MaxDepth)
  BY <1>4, Zenon DEF Inductive
<1>6. \E f : f = [node \in Nodes[MaxDepth] |-> TokensStep(f, node)]
  <2>1. \E f : Good(f, MaxDepth)
    <3> HIDE DEF H
    <3>1. MaxDepth \in H
      BY <1>1, <1>3, <1>5, UpTo
    <3> QED
      BY <3>1 DEF H
  <2>2. PICK f : Good(f, MaxDepth)
    BY <2>1
  <2> DEFINE g == [node \in Nodes[MaxDepth] |-> f[node]]
  <2>3. \A node \in Nodes[MaxDepth] : f[node] = g[node]
    OBVIOUS
  <2>4. g = [node \in Nodes[MaxDepth] |-> g[node]]
    OBVIOUS
  <2> HIDE DEF g
  <2>5. \A node \in Nodes[MaxDepth] : TokensStep(f, node) = TokensStep(g, node)
    <3>1. MaxDepth > 0 => MaxDepth - 1 \in 0..MaxDepth /\ MaxDepth \in MaxDepth - 1..MaxDepth
      BY <1>1
    <3>2. MaxDepth > 0 => Nodes[MaxDepth - 1] \subseteq Nodes[MaxDepth]
      BY <3>1, NodesGrow
    <3>3. MaxDepth \in 0..MaxDepth
      BY <1>1
    <3>4. MaxDepth > 0 => \A x \in Nodes[MaxDepth - 1] : f[x] = g[x]
      BY <2>3, <3>2
    <3> QED
      BY <1>2, <3>3, <3>4
  <2>6. \A node \in Nodes[MaxDepth] : g[node] = TokensStep(g, node)
    BY <2>2, <2>3, <2>5
  <2>7. g = [node \in Nodes[MaxDepth] |-> TokensStep(g, node)]
    BY <2>4, <2>6
  <2> QED
    BY <2>7
<1>7. TokensOf = [node \in Nodes[MaxDepth] |-> TokensStep(TokensOf, node)]
  BY <1>6, Zenon DEF TokensOf, TokensStep, Map, Opens, Closes
<1> QED
  BY <1>7

LEMMA TokensTyped ==
    \A node \in Nodes[MaxDepth] : TokensOf[node] \in Seq(Token)
<1> DEFINE H == {node \in Nodes[MaxDepth] : TokensOf[node] \in Seq(Token)}
<1>1. ASSUME NEW node \in Nodes[MaxDepth],
             IsText(node) \/ \A i \in 1..Len(node.children) : node.children[i] \in H
      PROVE  TokensOf[node] \in Seq(Token)
  <2>1. CASE IsText(node)
    <3>1. TokensOf[node] = <<<<"text", node.text>>>>
      BY <2>1, TokensIs DEF TokensStep
    <3>2. <<"text", node.text>> \in Token
      BY <2>1, NodeParts DEF Token
    <3> QED
      BY <3>1, <3>2
  <2>2. CASE ~IsText(node)
    <3> DEFINE inner == Map(TokensOf, node.children)
               a == Opens(node)
               b == FlattenSeq(inner)
               c == Closes(node)
    <3>1. TokensOf[node] = a \o b \o c
      BY <2>2, TokensIs DEF TokensStep
    <3>2. node.children \in Seq(Nodes[MaxDepth]) /\ node.name \in STRING
      BY <2>2, NodeParts
    <3>3. node.children \in Seq(H)
      BY <1>1, <2>2, <3>2
    <3>4. inner \in Seq(Seq(Token))
      <4>1. Into(TokensOf, H, Seq(Token))
        BY DEF Into
      <4> HIDE DEF H
      <4> QED
        BY <3>3, <4>1, MapType
    <3> HIDE DEF inner
    <3>5. b \in Seq(Token)
      BY <3>4, FlattenType
    <3>6. a \in Seq(Token) /\ c \in Seq(Token)
      BY <3>2 DEF Opens, Closes, Token
    <3> HIDE DEF a, b, c
    <3>7. a \o b \in Seq(Token)
      BY <3>5, <3>6, ConcatProperties
    <3>8. (a \o b) \o c \in Seq(Token)
      BY <3>6, <3>7, ConcatProperties
    <3> QED
      BY <3>1, <3>8
  <2> QED
    BY <2>1, <2>2
<1>2. Closed(H)
  BY <1>1, Zenon DEF Closed
<1> HIDE DEF H
<1>3. Nodes[MaxDepth] \subseteq H
  BY <1>2, TreeInduction
<1> QED
  BY <1>3 DEF H

LEMMA TokensInto == Into(TokensOf, Nodes[MaxDepth], Seq(Token))
  BY TokensTyped DEF Into

LEMMA TokensMap == ASSUME NEW nodes PROVE Tokens(nodes) = FlattenSeq(Map(TokensOf, nodes))
  BY DEF Tokens, Map

LEMMA ForestTokens ==
    ASSUME NEW nodes \in Seq(Nodes[MaxDepth])
    PROVE  Tokens(nodes) \in Seq(Token)
<1>1. Map(TokensOf, nodes) \in Seq(Seq(Token))
  BY TokensInto, MapType
<1> QED
  BY <1>1, FlattenType, TokensMap

LEMMA NoTokens == Tokens(<<>>) = <<>>
<1>1. Map(TokensOf, <<>>) = <<>>
  BY DEF Map
<1> QED
  BY <1>1, FlattenEmpty, TokensMap

LEMMA ElementTokens ==
    ASSUME NEW node \in Nodes[MaxDepth], ~IsText(node)
    PROVE  TokensOf[node] = (Opens(node) \o Tokens(node.children)) \o Closes(node)
  BY TokensIs, TokensMap DEF TokensStep

(* A node more in a forest is read after the others.                       *)
LEMMA TokensAppend ==
    ASSUME NEW nodes \in Seq(Nodes[MaxDepth]), NEW node \in Nodes[MaxDepth]
    PROVE  Tokens(Append(nodes, node)) = Tokens(nodes) \o TokensOf[node]
<1> DEFINE m == Map(TokensOf, nodes)
           t == TokensOf[node]
<1>1. m \in Seq(Seq(Token)) /\ t \in Seq(Token)
  BY TokensInto, TokensTyped, MapType
<1>2. Map(TokensOf, Append(nodes, node)) = Append(m, t)
  BY MapAppend
<1>3. FlattenSeq(Append(m, t)) = FlattenSeq(m) \o t
  BY <1>1, FlattenAppend
<1> QED
  BY <1>2, <1>3, TokensMap

-----------------------------------------------------------------------------
(* The stack of open tags                                                  *)

StackTokens(open) ==
    FlattenSeq([i \in DOMAIN open |-> <<<<"open", open[i].name>>>> \o Tokens(open[i].children)])

OpenTokens(tag) == Opens(tag) \o Tokens(tag.children)

(* How deep the nodes in the k-th open tag may be nested.                  *)
Below(k) == Nodes[MaxDepth - k]

Opened == ElementsOf(Seq(Nodes[MaxDepth]))

StackOK(open) ==
    /\ open \in Seq(Opened) /\ Len(open) <= MaxDepth
    /\ \A k \in 1..Len(open) : open[k].children \in Seq(Below(k))

LEMMA BelowIs ==
    ASSUME NEW k \in 0..MaxDepth
    PROVE  /\ Below(k) \subseteq Nodes[MaxDepth]
           /\ TextNodesOnly \subseteq Below(k)
           /\ k < MaxDepth => ElementsOf(Seq(Below(k + 1))) \subseteq Below(k)
<1> DEFINE d == MaxDepth - k
<1>1. d \in 0..MaxDepth /\ MaxDepth \in d..MaxDepth
  BY CleanerAssumption
<1>2. k < MaxDepth => d # 0 /\ d - 1 = MaxDepth - (k + 1)
  BY CleanerAssumption
<1> HIDE DEF d
<1>3. Nodes[d] \subseteq Nodes[MaxDepth]
  BY <1>1, NodesGrow
<1>4. TextNodesOnly \subseteq Nodes[d]
  BY <1>1, NodeIs
<1>5. ASSUME k < MaxDepth PROVE ElementsOf(Seq(Nodes[MaxDepth - (k + 1)])) \subseteq Nodes[d]
  <2>1. Nodes[d] = TextNodesOnly \cup ElementsOf(Seq(Nodes[d - 1]))
    BY <1>1, <1>2, <1>5, NodeIs
  <2>2. d - 1 = MaxDepth - (k + 1)
    BY <1>2, <1>5
  <2> QED
    BY <2>1, <2>2
<1> QED
  BY <1>3, <1>4, <1>5, Zenon DEF d, Below

LEMMA OpenTokensTyped ==
    ASSUME NEW tag \in Opened
    PROVE  OpenTokens(tag) \in Seq(Token) /\ Opens(tag) \in Seq(Token) /\ Tokens(tag.children) \in Seq(Token)
<1> DEFINE a == Opens(tag)
           b == Tokens(tag.children)
<1>1. tag.children \in Seq(Nodes[MaxDepth]) /\ tag.name \in STRING
  BY DEF Opened, ElementsOf
<1>2. a \in Seq(Token)
  BY <1>1 DEF Opens, Token
<1>3. b \in Seq(Token)
  BY <1>1, ForestTokens
<1> HIDE DEF a, b
<1>4. a \o b \in Seq(Token)
  BY <1>2, <1>3, ConcatProperties
<1> QED
  BY <1>2, <1>3, <1>4 DEF OpenTokens, a, b

LEMMA StackTokensIs ==
    ASSUME NEW open
    PROVE  StackTokens(open) = FlattenSeq(Map([tag \in Opened |-> OpenTokens(tag)], open))
                \/ open \notin Seq(Opened)
<1>1. ASSUME open \in Seq(Opened)
      PROVE  [i \in DOMAIN open |-> <<<<"open", open[i].name>>>> \o Tokens(open[i].children)]
                 = [i \in DOMAIN open |-> [tag \in Opened |-> OpenTokens(tag)][open[i]]]
  <2>1. \A i \in DOMAIN open : open[i] \in Opened
    BY <1>1
  <2>2. ASSUME NEW i \in DOMAIN open
        PROVE  <<<<"open", open[i].name>>>> \o Tokens(open[i].children)
                   = [tag \in Opened |-> OpenTokens(tag)][open[i]]
    BY <2>1 DEF OpenTokens, Opens
  <2> QED
    BY <2>2
<1> QED
  BY <1>1, Zenon DEF StackTokens, Map

(* One more open tag.                                                      *)
LEMMA StackAppend ==
    ASSUME NEW open \in Seq(Opened), NEW tag \in Opened
    PROVE  /\ StackTokens(open) \in Seq(Token)
           /\ StackTokens(Append(open, tag)) = StackTokens(open) \o OpenTokens(tag)
<1> DEFINE f == [x \in Opened |-> OpenTokens(x)]
           m == Map(f, open)
           t == OpenTokens(tag)
<1>1. Into(f, Opened, Seq(Token))
  BY OpenTokensTyped DEF Into
<1>2. f[tag] = t /\ t \in Seq(Token)
  BY OpenTokensTyped
<1>3. StackTokens(open) = FlattenSeq(m)
  BY StackTokensIs
<1>4. StackTokens(Append(open, tag)) = FlattenSeq(Map(f, Append(open, tag)))
  <2>1. Append(open, tag) \in Seq(Opened)
    OBVIOUS
  <2> QED
    BY <2>1, StackTokensIs
<1> HIDE DEF f, t
<1>5. m \in Seq(Seq(Token))
  BY <1>1, MapType
<1>6. Map(f, Append(open, tag)) = Append(m, t)
  BY <1>2, MapAppend
<1> HIDE DEF m
<1>7. FlattenSeq(Append(m, t)) = FlattenSeq(m) \o t /\ FlattenSeq(m) \in Seq(Token)
  BY <1>2, <1>5, FlattenAppend, FlattenType
<1> QED
  BY <1>3, <1>4, <1>6, <1>7 DEF t

LEMMA NoStack == StackTokens(<<>>) = <<>> /\ StackOK(<<>>)
<1>1. [i \in DOMAIN <<>> |-> <<<<"open", <<>>[i].name>>>> \o Tokens(<<>>[i].children)] = <<>>
  OBVIOUS
<1>2. StackTokens(<<>>) = <<>>
  BY <1>1, FlattenEmpty, Zenon DEF StackTokens
<1>3. StackOK(<<>>)
  BY CleanerAssumption DEF StackOK
<1> QED
  BY <1>2, <1>3

-----------------------------------------------------------------------------
(* Escape codes                                                            *)

Start == [in_escape_code |-> FALSE, expect_hashtag |-> FALSE, num |-> 0,
          result |-> <<>>, error |-> FALSE]

(* f[n] is what has come of the first n characters.                        *)
Runs(f, s) ==
    /\ f[0] = Start
    /\ \A n \in 1..Len(s) : f[n] = Unescape(f[n - 1], s[n])

LEMMA RunIs ==
    ASSUME NEW S, NEW s \in Seq(S)
    PROVE  \E f : Runs(f, s) /\ RemoveEscapeCodes(s) = f[Len(s)]
<1> DEFINE L == Len(s)
           Step(f, n) == IF n = 0 THEN Start ELSE Unescape(f[n - 1], s[n])
           Good(f, n) == \A i \in 0..n : f[i] = Step(f, i)
           H == {n \in 0..L : \E f : Good(f, n)}
<1>1. L \in Nat /\ 0 \in Int /\ L \in Int /\ 0 \in 0..L /\ L \in 0..L
  OBVIOUS
<1>2. 0 \in H
  <2> DEFINE f == [i \in 0..0 |-> Start]
  <2>1. Good(f, 0)
    OBVIOUS
  <2> HIDE DEF Good
  <2> QED
    BY <1>1, <2>1
<1>3. ASSUME NEW n \in 0..L - 1, n \in H PROVE n + 1 \in H
  <2>1. PICK f : Good(f, n)
    BY <1>3
  <2> DEFINE g == [i \in 0..n + 1 |-> IF i <= n THEN f[i] ELSE Step(f, i)]
  <2>2. ASSUME NEW i \in 0..n + 1 PROVE g[i] = Step(f, i)
    BY <2>1
  <2>3. \A i \in 0..n : g[i] = f[i]
    OBVIOUS
  <2> HIDE DEF g
  <2>4. ASSUME NEW i \in 0..n + 1 PROVE Step(f, i) = Step(g, i)
    <3>1. i # 0 => i - 1 \in 0..n
      OBVIOUS
    <3> QED
      BY <2>3, <3>1
  <2>5. Good(g, n + 1)
    BY <2>2, <2>4
  <2>6. n + 1 \in 0..L
    BY <1>1
  <2> HIDE DEF Good
  <2> QED
    BY <2>5, <2>6
<1>4. Inductive(H, 0, L)
  BY <1>3, Zenon DEF Inductive
<1>5. \E f : Good(f, L)
  <2> HIDE DEF H, L
  <2>1. L \in H
    BY <1>1, <1>2, <1>4, UpTo
  <2> QED
    BY <2>1 DEF H
<1>6. PICK f : Good(f, L)
  BY <1>5
<1> DEFINE h == [i \in 0..Len(s) |-> f[i]]
<1>7. h = [i \in 0..Len(s) |-> Step(h, i)]
  <2>1. \A i \in 0..L : h[i] = f[i]
    OBVIOUS
  <2>2. h = [i \in 0..Len(s) |-> h[i]]
    OBVIOUS
  <2> HIDE DEF h
  <2>3. ASSUME NEW i \in 0..L PROVE h[i] = Step(h, i)
    <3>1. i # 0 => i - 1 \in 0..L
      BY <1>1
    <3>2. f[i] = Step(f, i)
      BY <1>6
    <3> QED
      BY <2>1, <3>1, <3>2
  <2> QED
    BY <2>2, <2>3
<1> DEFINE after[n \in 0..Len(s)] == IF n = 0 THEN Start ELSE Unescape(after[n - 1], s[n])
<1>8. \E g : g = [i \in 0..Len(s) |-> Step(g, i)]
  BY <1>7
<1>9. after = [i \in 0..Len(s) |-> Step(after, i)]
  BY <1>8, Zenon
<1>10. RemoveEscapeCodes(s) = after[Len(s)]
  BY Zenon DEF RemoveEscapeCodes, Start
<1> HIDE DEF after
<1>11. \A i \in 0..L : after[i] = Step(after, i)
  BY <1>9
<1>12. after[0] = Start
  BY <1>1, <1>11
<1>13. ASSUME NEW i \in 1..L PROVE after[i] = Unescape(after[i - 1], s[i])
  <2>1. i \in 0..L /\ i # 0
    BY <1>1
  <2> QED
    BY <1>11, <2>1
<1>14. Runs(after, s)
  BY <1>12, <1>13 DEF Runs
<1> QED
  BY <1>10, <1>14

(* The codes are removed one character after the other.                    *)
LEMMA RunAppend ==
    ASSUME NEW S, NEW s \in Seq(S), NEW c \in S
    PROVE  RemoveEscapeCodes(Append(s, c)) = Unescape(RemoveEscapeCodes(s), c)
<1> DEFINE t == Append(s, c)
           n == Len(s)
<1>1. t \in Seq(S) /\ Len(t) = n + 1 /\ t[n + 1] = c /\ \A i \in 1..n : t[i] = s[i]
  BY AppendProperties
<1> HIDE DEF t
<1>2. PICK f : Runs(f, s) /\ RemoveEscapeCodes(s) = f[n]
  BY RunIs
<1>3. PICK g : Runs(g, t) /\ RemoveEscapeCodes(t) = g[n + 1]
  BY <1>1, RunIs
<1>4. n \in Nat /\ 0 \in Int /\ n \in Int /\ 0 \in 0..n /\ n \in 0..n
  OBVIOUS
<1> DEFINE H == {i \in 0..n : f[i] = g[i]}
<1>5. 0 \in H
  BY <1>2, <1>3, <1>4 DEF Runs
<1>6. ASSUME NEW i \in 0..n - 1, i \in H PROVE i + 1 \in H
  <2>1. i + 1 \in 1..n /\ i + 1 \in 1..n + 1 /\ (i + 1) - 1 = i /\ i + 1 \in 0..n
    BY <1>4
  <2>2. f[i + 1] = Unescape(f[i], s[i + 1])
    BY <1>2, <2>1 DEF Runs
  <2>3. g[i + 1] = Unescape(g[i], t[i + 1])
    BY <1>1, <1>3, <2>1 DEF Runs
  <2> QED
    BY <1>1, <1>6, <2>1, <2>2, <2>3
<1>7. Inductive(H, 0, n)
  BY <1>6, Zenon DEF Inductive
<1>8. f[n] = g[n]
  <2> HIDE DEF H, n
  <2>1. n \in H
    BY <1>4, <1>5, <1>7, UpTo
  <2> QED
    BY <2>1 DEF H
<1>9. g[n + 1] = Unescape(g[n], c)
  <2>1. n + 1 \in 1..n + 1 /\ (n + 1) - 1 = n
    BY <1>4
  <2> QED
    BY <1>1, <1>3, <2>1 DEF Runs
<1> QED
  BY <1>2, <1>3, <1>8, <1>9 DEF t

LEMMA RunEmpty == RemoveEscapeCodes(<<>>) = Start
<1>1. PICK f : Runs(f, <<>>) /\ RemoveEscapeCodes(<<>>) = f[Len(<<>>)]
  <2>1. <<>> \in Seq({})
    OBVIOUS
  <2> QED
    BY <2>1, RunIs
<1> QED
  BY <1>1 DEF Runs

-----------------------------------------------------------------------------
(* Digits                                                                  *)

DigitOf(c) == SelectInSeq(Digits, LAMBDA d : d = c) - 1

LEMMA DigitsAre ==
    /\ DOMAIN Digits = 1..10 /\ Len(Digits) = 10
    /\ \A i, k \in 1..10 : Digits[i] = Digits[k] => i = k
    /\ \A i \in 1..10 : Digits[i] \notin {"&", "#", ";"}
<1>1. DOMAIN Digits = 1..10 /\ Len(Digits) = 10
  BY DEF Digits
<1>2. \A i, k \in 1..10 : Digits[i] = Digits[k] => i = k
  BY DEF Digits
<1>3. \A i \in 1..10 : Digits[i] \in {"0", "1", "2", "3", "4", "5", "6", "7", "8", "9"}
  BY DEF Digits
<1>4. \A d \in {"0", "1", "2", "3", "4", "5", "6", "7", "8", "9"} : d \notin {"&", "#", ";"}
  OBVIOUS
<1> QED
  BY <1>1, <1>2, <1>3, <1>4

LEMMA DigitIs ==
    ASSUME NEW n \in 0..9
    PROVE  /\ IsDigit(Digit(n)) /\ DigitOf(Digit(n)) = n
           /\ Digit(n) \notin {"&", "#", ";"}
<1>1. n + 1 \in 1..10 /\ Digit(n) = Digits[n + 1]
  BY DEF Digit
<1> DEFINE I == {i \in 1..Len(Digits) : Digits[i] = Digit(n)}
<1>4. I = {n + 1}
  BY <1>1, DigitsAre
<1>5. Min(I) = n + 1
  <2>1. \E x \in I : \A y \in I : x <= y
    BY <1>1, <1>4
  <2>2. Min(I) \in I
    BY <2>1, Zenon DEF Min
  <2> QED
    BY <1>4, <2>2
<1>6. DigitOf(Digit(n)) = n
  <2>1. SelectInSeq(Digits, LAMBDA d : d = Digit(n)) = Min(I)
    <3>1. I # {}
      BY <1>4
    <3> QED
      BY <3>1, Zenon DEF SelectInSeq
  <2> QED
    BY <1>5, <2>1 DEF DigitOf
<1>7. IsDigit(Digit(n))
  BY <1>1, DigitsAre DEF IsDigit, ToSet
<1>8. Digit(n) \notin {"&", "#", ";"}
  BY <1>1, DigitsAre
<1> QED
  BY <1>6, <1>7, <1>8

LEMMA NoDigit == ~IsDigit("#") /\ ~IsDigit(";") /\ ~IsDigit("&")
<1>1. ASSUME NEW c \in {"&", "#", ";"}, IsDigit(c) PROVE FALSE
  <2>1. PICK i \in 1..10 : Digits[i] = c
    BY <1>1, DigitsAre DEF IsDigit, ToSet
  <2> QED
    BY <2>1, DigitsAre
<1> QED
  BY <1>1

LEMMA OneAndTwo ==
    ASSUME NEW x, NEW y, NEW z
    PROVE  <<x>> \o <<y, z>> = <<x, y, z>>
<1> DEFINE s == <<x>> \o <<y, z>>
           t == <<x, y, z>>
           S == {x, y, z}
<1>1. s \in Seq(S) /\ t \in Seq(S)
  OBVIOUS
<1>2. \A i \in 1..3 : s[i] = t[i]
  OBVIOUS
<1>3. Len(s) = 3 /\ Len(t) = 3
  OBVIOUS
<1> HIDE DEF s, t
<1>4. s = t
  BY <1>1, <1>2, <1>3, SeqEqual
<1> QED
  BY <1>4 DEF s, t

LEMMA DecimalIs ==
    ASSUME NEW code \in 0..999
    PROVE  \E a \in 0..9, b \in 0..9, c \in 0..9 :
               /\ code = a * 100 + (b * 10 + c)
               /\ Decimal(code) = IF code >= 100 THEN <<Digit(a), Digit(b), Digit(c)>>
                                  ELSE <<Digit(b), Digit(c)>>
               /\ code < 100 => a = 0
<1> DEFINE a == code \div 100
           r == code % 100
           b == r \div 10
           c == code % 10
<1>1. a \in 0..9 /\ r \in 0..99 /\ code = a * 100 + r
  OBVIOUS
<1>2. b \in 0..9 /\ (r % 10) \in 0..9 /\ r = b * 10 + (r % 10)
  BY <1>1
<1>3. c = r % 10
  OBVIOUS
<1>4. code < 100 => a = 0
  OBVIOUS
<1>5. Decimal(code) = (IF code >= 100 THEN <<Digit(a)>> ELSE <<>>) \o <<Digit(b), Digit(c)>>
  BY Zenon DEF Decimal
<1> HIDE DEF a, b, c, r
<1>6. <<Digit(a)>> \o <<Digit(b), Digit(c)>> = <<Digit(a), Digit(b), Digit(c)>>
  BY OneAndTwo
<1>7. <<>> \o <<Digit(b), Digit(c)>> = <<Digit(b), Digit(c)>>
  OBVIOUS
<1>8. Decimal(code) = IF code >= 100 THEN <<Digit(a), Digit(b), Digit(c)>>
                                  ELSE <<Digit(b), Digit(c)>>
  BY <1>5, <1>6, <1>7
<1>9. code = a * 100 + (b * 10 + c) /\ c \in 0..9
  BY <1>1, <1>2, <1>3
<1>10. b \in 0..9 /\ a \in 0..9
  BY <1>1, <1>2
<1> QED
  <2> DEFINE Q(x, y, z) ==
               /\ code = x * 100 + (y * 10 + z)
               /\ Decimal(code) = IF code >= 100 THEN <<Digit(x), Digit(y), Digit(z)>>
                                  ELSE <<Digit(y), Digit(z)>>
               /\ code < 100 => x = 0
  <2>1. Q(a, b, c)
    BY <1>4, <1>8, <1>9
  <2> HIDE DEF Q
  <2>2. \E x \in 0..9, y \in 0..9, z \in 0..9 : Q(x, y, z)
    BY <1>9, <1>10, <2>1, ZenonT(60)
  <2> QED
    BY <2>2 DEF Q

-----------------------------------------------------------------------------
(* A run over what is written for a letter or a code                       *)

Plain(R, n) == [in_escape_code |-> FALSE, expect_hashtag |-> FALSE, num |-> n,
                result |-> R, error |-> FALSE]
AfterAmpersand(R, n) == [in_escape_code |-> TRUE, expect_hashtag |-> TRUE, num |-> n,
                         result |-> R, error |-> FALSE]
InCode(R, n) == [in_escape_code |-> TRUE, expect_hashtag |-> FALSE, num |-> n,
                 result |-> R, error |-> FALSE]

LEMMA StepLetter ==
    ASSUME NEW R, NEW n, NEW c, c # "&"
    PROVE  Unescape(Plain(R, n), c) = Plain(Append(R, c), n)
  BY DEF Unescape, Plain

LEMMA StepAmpersand ==
    ASSUME NEW R, NEW n
    PROVE  Unescape(Plain(R, n), "&") = AfterAmpersand(R, n)
  BY DEF Unescape, Plain, AfterAmpersand

LEMMA StepHashtag ==
    ASSUME NEW R, NEW n
    PROVE  Unescape(AfterAmpersand(R, n), "#") = InCode(R, n)
  BY NoDigit DEF Unescape, AfterAmpersand, InCode

LEMMA StepError ==
    ASSUME NEW s, s.error = TRUE, NEW c
    PROVE  Unescape(s, c) = s
  BY DEF Unescape

LEMMA StepDigit ==
    ASSUME NEW R, NEW n \in Nat, NEW d \in 0..9
    PROVE  /\ n * 10 + d \in Nat
           /\ \/ Unescape(InCode(R, n), Digit(d)).error = TRUE
              \/ Unescape(InCode(R, n), Digit(d)) = InCode(R, n * 10 + d)
<1> DEFINE s == InCode(R, n)
<1>1. IsDigit(Digit(d)) /\ DigitOf(Digit(d)) = d /\ Digit(d) # "#" /\ Digit(d) # ";"
  BY DigitIs
<1>2. s.error = FALSE /\ s.in_escape_code = TRUE /\ s.num = n /\ s.expect_hashtag = FALSE
  BY DEF InCode
<1>3. Unescape(s, Digit(d)) = EscapeDigit(s, DigitOf(Digit(d)))
  <2> HIDE DEF s
  <2> QED
    BY <1>1, <1>2 DEF Unescape, DigitOf
<1> DEFINE m == s.num * 10 + d
           e == s.expect_hashtag \/ m >= 256
<1>4. Unescape(s, Digit(d)) = [s EXCEPT !.num = m, !.error = e]
  BY <1>1, <1>3, Zenon DEF EscapeDigit
<1>5. m = n * 10 + d /\ m \in Nat
  BY <1>2
<1>6. CASE m >= 256
  <2>1. e = TRUE
    BY <1>2, <1>6
  <2> HIDE DEF e, m
  <2> QED
    BY <1>4, <1>5, <2>1 DEF InCode
<1>7. CASE ~(m >= 256)
  <2>1. e = FALSE
    BY <1>2, <1>7
  <2> HIDE DEF e, m
  <2>2. Unescape(s, Digit(d)) = InCode(R, m)
    BY <1>4, <2>1 DEF InCode
  <2> QED
    BY <1>5, <2>2
<1> HIDE DEF e, m, s
<1> QED
  BY <1>5, <1>6, <1>7 DEF s

LEMMA StepEnd ==
    ASSUME NEW R, NEW n \in Nat
    PROVE  \/ Unescape(InCode(R, n), ";").error = TRUE
           \/ Unescape(InCode(R, n), ";") = Plain(Append(R, Ascii(n)), n)
<1>1. Unescape(InCode(R, n), ";") = EscapeEnd(InCode(R, n))
  BY NoDigit DEF Unescape, InCode
<1>2. CASE IsPrintable(n)
  BY <1>1, <1>2 DEF EscapeEnd, InCode, Plain
<1>3. CASE ~IsPrintable(n)
  BY <1>1, <1>3 DEF EscapeEnd, InCode, Plain
<1> QED
  BY <1>2, <1>3

(* & # a b ; and & # a b c ;                                               *)
Run(r, a, b, c) == Unescape(Unescape(Unescape(r, a), b), c)

LEMMA AppendedRun ==
    ASSUME NEW S, NEW s \in Seq(S), NEW a \in S, NEW b \in S, NEW c \in S
    PROVE  RemoveEscapeCodes(Appended(s, a, b, c)) = Run(RemoveEscapeCodes(s), a, b, c)
<1> DEFINE s1 == Append(s, a)
           s2 == Append(s1, b)
<1>1. s1 \in Seq(S) /\ RemoveEscapeCodes(s1) = Unescape(RemoveEscapeCodes(s), a)
  BY RunAppend
<1> HIDE DEF s1
<1>2. s2 \in Seq(S) /\ RemoveEscapeCodes(s2) = Unescape(RemoveEscapeCodes(s1), b)
  BY <1>1, RunAppend
<1> HIDE DEF s2
<1>3. RemoveEscapeCodes(Append(s2, c)) = Unescape(RemoveEscapeCodes(s2), c)
  BY <1>2, RunAppend
<1>4. Appended(s, a, b, c) = Append(s2, c)
  BY Zenon DEF Appended, s1, s2
<1> QED
  BY <1>1, <1>2, <1>3, <1>4, Zenon DEF Run

LEMMA RunTwo ==
    ASSUME NEW S, NEW s \in Seq(S), NEW p \in S, NEW q \in S, NEW z \in S,
           NEW a \in S, NEW b \in S
    PROVE  RemoveEscapeCodes(s \o <<p, q, a, b, z>>)
               = Unescape(Unescape(Run(RemoveEscapeCodes(s), p, q, a), b), z)
<1> DEFINE t == Appended(s, p, q, a)
           v == s \o <<p, q, a, b, z>>
           n == Len(s)
<1>1. n \in Nat
  OBVIOUS
<1>2. /\ t \in Seq(S) /\ Len(t) = n + 3 /\ \A i \in 1..n : t[i] = s[i]
      /\ t[n + 1] = p /\ t[n + 2] = q /\ t[n + 3] = a
      /\ RemoveEscapeCodes(t) = Run(RemoveEscapeCodes(s), p, q, a)
  <2>1. RemoveEscapeCodes(t) = Run(RemoveEscapeCodes(s), p, q, a)
    BY AppendedRun
  <2>2. Longer(t, s, p, q, a, S)
    BY AppendedIs
  <2> HIDE DEF t
  <2> QED
    BY <2>1, <2>2 DEF Longer
<1> HIDE DEF t
<1> DEFINE t1 == Append(t, b)
<1>3. /\ t1 \in Seq(S) /\ Len(t1) = n + 4 /\ \A i \in 1..n + 3 : t1[i] = t[i]
      /\ t1[n + 4] = b
      /\ RemoveEscapeCodes(t1) = Unescape(RemoveEscapeCodes(t), b)
  BY <1>1, <1>2, RunAppend, AppendProperties
<1> HIDE DEF t1
<1> DEFINE u == Append(t1, z)
<1>4. /\ u \in Seq(S) /\ Len(u) = n + 5 /\ \A i \in 1..n + 4 : u[i] = t1[i]
      /\ u[n + 5] = z
      /\ RemoveEscapeCodes(u) = Unescape(RemoveEscapeCodes(t1), z)
  BY <1>1, <1>3, RunAppend, AppendProperties
<1> HIDE DEF u
<1>5. v \in Seq(S) /\ Len(v) = n + 5
  BY <1>1
<1>6. /\ \A i \in 1..n : v[i] = s[i]
      /\ v[n + 1] = p /\ v[n + 2] = q /\ v[n + 3] = a /\ v[n + 4] = b /\ v[n + 5] = z
  BY <1>1
<1> HIDE DEF v, n
<1>7. ASSUME NEW i \in 1..n + 5 PROVE u[i] = v[i]
  <2>1. i \in 1..n \/ i = n + 1 \/ i = n + 2 \/ i = n + 3 \/ i = n + 4 \/ i = n + 5
    BY <1>1
  <2>2. CASE i \in 1..n
    BY <1>1, <1>2, <1>3, <1>4, <1>6, <2>2
  <2>3. CASE i = n + 4
    BY <1>1, <1>3, <1>4, <1>6, <2>3
  <2>4. CASE i = n + 5
    BY <1>1, <1>4, <1>6, <2>4
  <2>5. CASE i \in {n + 1, n + 2, n + 3}
    BY <1>1, <1>2, <1>3, <1>4, <1>6, <2>5
  <2> QED
    BY <2>1, <2>2, <2>3, <2>4, <2>5
<1>8. u = v
  BY <1>4, <1>5, <1>7, SeqEqual
<1> QED
  BY <1>2, <1>3, <1>4, <1>8 DEF v

LEMMA RunThree ==
    ASSUME NEW S, NEW s \in Seq(S), NEW p \in S, NEW q \in S, NEW z \in S,
           NEW a \in S, NEW b \in S, NEW c \in S
    PROVE  RemoveEscapeCodes(s \o <<p, q, a, b, c, z>>)
               = Run(Run(RemoveEscapeCodes(s), p, q, a), b, c, z)
<1> DEFINE t == Appended(s, p, q, a)
           u == Appended(t, b, c, z)
           v == s \o <<p, q, a, b, c, z>>
           n == Len(s)
<1>1. n \in Nat
  OBVIOUS
<1>2. /\ t \in Seq(S) /\ Len(t) = n + 3 /\ \A i \in 1..n : t[i] = s[i]
      /\ t[n + 1] = p /\ t[n + 2] = q /\ t[n + 3] = a
      /\ RemoveEscapeCodes(t) = Run(RemoveEscapeCodes(s), p, q, a)
  <2>1. RemoveEscapeCodes(t) = Run(RemoveEscapeCodes(s), p, q, a)
    BY AppendedRun
  <2>2. Longer(t, s, p, q, a, S)
    BY AppendedIs
  <2> HIDE DEF t
  <2> QED
    BY <2>1, <2>2 DEF Longer
<1> HIDE DEF t
<1>3. /\ u \in Seq(S) /\ Len(u) = n + 6 /\ \A i \in 1..n + 3 : u[i] = t[i]
      /\ u[n + 4] = b /\ u[n + 5] = c /\ u[n + 6] = z
      /\ RemoveEscapeCodes(u) = Run(RemoveEscapeCodes(t), b, c, z)
  <2>1. RemoveEscapeCodes(u) = Run(RemoveEscapeCodes(t), b, c, z)
    BY <1>1, <1>2, AppendedRun
  <2>2. /\ u \in Seq(S) /\ Len(u) = Len(t) + 3 /\ \A i \in 1..Len(t) : u[i] = t[i]
        /\ u[Len(t) + 1] = b /\ u[Len(t) + 2] = c /\ u[Len(t) + 3] = z
    <3>1. t \in Seq(S)
      BY <1>2
    <3>2. Longer(u, t, b, c, z, S)
      BY <3>1, AppendedIs
    <3> QED
      BY <3>2, Zenon DEF Longer
  <2> HIDE DEF u, n
  <2> QED
    BY <1>1, <1>2, <2>1, <2>2
<1> HIDE DEF u
<1>4. v \in Seq(S) /\ Len(v) = n + 6
  BY <1>1
<1>5. /\ \A i \in 1..n : v[i] = s[i]
      /\ v[n + 1] = p /\ v[n + 2] = q /\ v[n + 3] = a /\ v[n + 4] = b /\ v[n + 5] = c
      /\ v[n + 6] = z
  BY <1>1
<1> HIDE DEF v, n
<1>6. ASSUME NEW i \in 1..n + 6 PROVE u[i] = v[i]
  <2>1. i \in 1..n \/ i = n + 1 \/ i = n + 2 \/ i = n + 3 \/ i = n + 4 \/ i = n + 5 \/ i = n + 6
    BY <1>1
  <2>2. CASE i \in 1..n
    BY <1>1, <1>2, <1>3, <1>5, <2>2
  <2> QED
    BY <1>1, <1>2, <1>3, <1>5, <2>1, <2>2
<1>7. u = v
  BY <1>3, <1>4, <1>6, SeqEqual
<1> QED
  BY <1>2, <1>3, <1>7 DEF v

Chars == STRING \cup {"&", "#", ";"} \cup {Digits[i] : i \in 1..10}

LEMMA CharsAre ==
    /\ "&" \in Chars /\ "#" \in Chars /\ ";" \in Chars
    /\ \A n \in 0..9 : Digit(n) \in Chars
    /\ \A c \in STRING : c \in Chars
<1>1. "&" \in Chars /\ "#" \in Chars /\ ";" \in Chars
  BY Zenon DEF Chars
<1>2. ASSUME NEW n \in 0..9 PROVE Digit(n) \in Chars
  <2>1. n + 1 \in 1..10
    OBVIOUS
  <2> QED
    BY <2>1, Zenon DEF Chars, Digit
<1>3. \A c \in STRING : c \in Chars
  BY Zenon DEF Chars
<1> QED
  BY <1>1, <1>2, <1>3

LetterPieces == [letter : STRING \ {"&"}]
CodePieces == [code : 0..999]
Pieces == LetterPieces \cup CodePieces

LEMMA LetterPieceIs ==
    ASSUME NEW piece \in LetterPieces
    PROVE  /\ ~IsCode(piece) /\ piece.letter \in STRING /\ piece.letter # "&"
           /\ Written(piece) = <<piece.letter>> /\ Letter(piece) = piece.letter
<1>1. ~IsCode(piece)
  BY DEF LetterPieces, IsCode
<1>2. piece.letter \in STRING /\ piece.letter # "&"
  BY DEF LetterPieces
<1> QED
  BY <1>1, <1>2 DEF Written, Letter

LEMMA CodePieceIs ==
    ASSUME NEW piece \in CodePieces
    PROVE  /\ IsCode(piece) /\ piece.code \in 0..999 /\ Letter(piece) = Ascii(piece.code)
           /\ Written(piece) = (<<"&", "#">> \o Decimal(piece.code)) \o <<";">>
<1>1. IsCode(piece) /\ piece.code \in 0..999
  BY DEF CodePieces, IsCode
<1>2. Written(piece) = (<<"&", "#">> \o Decimal(piece.code)) \o <<";">>
  BY <1>1, ZenonT(60) DEF Written
<1>3. Letter(piece) = Ascii(piece.code)
  BY <1>1, ZenonT(60) DEF Letter
<1> QED
  BY <1>1, <1>2, <1>3, Zenon

(* The run over a code.                                                    *)
Ran(r, R, n, code) ==
    \/ r.error = TRUE
    \/ \E m \in Nat : r = Plain(Append(R, Ascii(m)), m) /\ (n = 0 => m = code)

LEMMA DigitsRun ==
    ASSUME NEW R, NEW n \in Nat, NEW r, NEW d \in 0..9, r = InCode(R, n) \/ r.error = TRUE
    PROVE  /\ n * 10 + d \in Nat
           /\ LET u == Unescape(r, Digit(d)) IN u = InCode(R, n * 10 + d) \/ u.error = TRUE
<1>1. CASE r = InCode(R, n)
  BY <1>1, StepDigit
<1>2. CASE r.error = TRUE
  <2>1. Unescape(r, Digit(d)).error = TRUE
    BY <1>2, StepError
  <2>2. n * 10 + d \in Nat
    OBVIOUS
  <2> QED
    BY <2>1, <2>2
<1> QED
  BY <1>1, <1>2

LEMMA EndRun ==
    ASSUME NEW R, NEW n \in Nat, NEW m \in Nat, NEW code, m = 0 => n = code,
           NEW r, r = InCode(R, n) \/ r.error = TRUE
    PROVE  Ran(Unescape(r, ";"), R, m, code)
<1>1. CASE r = InCode(R, n)
  BY <1>1, StepEnd DEF Ran
<1>2. CASE r.error = TRUE
  BY <1>2, StepError DEF Ran
<1> QED
  BY <1>1, <1>2

LEMMA CodeRun ==
    ASSUME NEW s \in Seq(Chars), NEW R, NEW n \in Nat, RemoveEscapeCodes(s) = Plain(R, n),
           NEW code \in 0..999
    PROVE  Ran(RemoveEscapeCodes(s \o ((<<"&", "#">> \o Decimal(code)) \o <<";">>)), R, n, code)
<1>1. PICK a \in 0..9, b \in 0..9, c \in 0..9 :
               /\ code = a * 100 + (b * 10 + c)
               /\ Decimal(code) = IF code >= 100 THEN <<Digit(a), Digit(b), Digit(c)>>
                                  ELSE <<Digit(b), Digit(c)>>
               /\ code < 100 => a = 0
  BY DecimalIs, ZenonT(60)
<1> DEFINE p == "&"
           q == "#"
           z == ";"
           w == (<<p, q>> \o Decimal(code)) \o <<z>>
<1>2. /\ p \in Chars /\ q \in Chars /\ z \in Chars
      /\ Digit(a) \in Chars /\ Digit(b) \in Chars /\ Digit(c) \in Chars
  BY CharsAre, ZenonT(60)
<1>3. Unescape(Unescape(RemoveEscapeCodes(s), p), q) = InCode(R, n)
  BY StepAmpersand, StepHashtag
<1>6. ASSUME NEW r, NEW m \in Nat, r = InCode(R, m) \/ r.error = TRUE, n = 0 => m = code
      PROVE  Ran(Unescape(r, z), R, n, code)
  BY <1>6, EndRun
<1>7. Ran(RemoveEscapeCodes(s \o w), R, n, code)
        => Ran(RemoveEscapeCodes(s \o ((<<"&", "#">> \o Decimal(code)) \o <<";">>)), R, n, code)
  BY Zenon
<1> HIDE DEF p, q, z, w
<1>4. ASSUME code >= 100 PROVE Ran(RemoveEscapeCodes(s \o w), R, n, code)
  <2>1. w = <<p, q, Digit(a), Digit(b), Digit(c), z>>
    <3>1. Decimal(code) = <<Digit(a), Digit(b), Digit(c)>>
      BY <1>1, <1>4
    <3> DEFINE da == Digit(a)
               db == Digit(b)
               dc == Digit(c)
               dd == Decimal(code)
    <3>2. dd = <<da, db, dc>>
      BY <3>1
    <3> HIDE DEF da, db, dc, dd
    <3>3. (<<p, q>> \o dd) \o <<z>> = <<p, q, da, db, dc, z>>
      BY <3>2, JoinThree
    <3> QED
      BY <3>3, Zenon DEF w, da, db, dc, dd
  <2> DEFINE r1 == Unescape(InCode(R, n), Digit(a))
             r2 == Unescape(r1, Digit(b))
             r3 == Unescape(r2, Digit(c))
             n1 == n * 10 + a
             n2 == n1 * 10 + b
             n3 == n2 * 10 + c
  <2>2. RemoveEscapeCodes(s \o w) = Unescape(r3, z)
    <3>1. RemoveEscapeCodes(s \o w)
              = Run(Run(RemoveEscapeCodes(s), p, q, Digit(a)), Digit(b), Digit(c), z)
        BY <1>2, <2>1, RunThree
    <3> QED
      BY <1>3, <3>1, Zenon DEF Run
  <2>3. n1 \in Nat /\ (r1 = InCode(R, n1) \/ r1.error = TRUE)
    BY DigitsRun, ZenonT(60)
  <2>0. n = 0 => n1 = a
    OBVIOUS
  <2> HIDE DEF r1, n1
  <2>4. n2 \in Nat /\ (r2 = InCode(R, n2) \/ r2.error = TRUE)
    BY <2>3, DigitsRun
  <2>5. n = 0 => n2 = a * 10 + b
    BY <2>0
  <2> HIDE DEF r2, n2
  <2>6. n3 \in Nat /\ (r3 = InCode(R, n3) \/ r3.error = TRUE)
    BY <2>4, DigitsRun
  <2>7. n = 0 => n3 = code
    BY <1>1, <2>5
  <2> HIDE DEF r3, n3
  <2>8. Ran(Unescape(r3, z), R, n, code)
    BY <1>6, <2>6, <2>7
  <2> QED
    BY <2>2, <2>8, Zenon
<1>5. ASSUME ~(code >= 100) PROVE Ran(RemoveEscapeCodes(s \o w), R, n, code)
  <2>1. w = <<p, q, Digit(b), Digit(c), z>>
    <3>1. Decimal(code) = <<Digit(b), Digit(c)>>
      BY <1>1, <1>5
    <3> DEFINE db == Digit(b)
               dc == Digit(c)
               dd == Decimal(code)
    <3>2. dd = <<db, dc>>
      BY <3>1
    <3> HIDE DEF db, dc, dd
    <3>3. (<<p, q>> \o dd) \o <<z>> = <<p, q, db, dc, z>>
      BY <3>2, JoinTwo, ZenonT(60)
    <3> QED
      BY <3>3, Zenon DEF w, db, dc, dd
  <2> DEFINE r1 == Unescape(InCode(R, n), Digit(b))
             r2 == Unescape(r1, Digit(c))
             n1 == n * 10 + b
             n2 == n1 * 10 + c
  <2>2. RemoveEscapeCodes(s \o w) = Unescape(r2, z)
    <3>1. RemoveEscapeCodes(s \o w)
              = Unescape(Unescape(Run(RemoveEscapeCodes(s), p, q, Digit(b)), Digit(c)), z)
        BY <1>2, <2>1, RunTwo
    <3> QED
      BY <1>3, <3>1, ZenonT(60) DEF Run
  <2>3. n1 \in Nat /\ (r1 = InCode(R, n1) \/ r1.error = TRUE)
    BY DigitsRun
  <2>0. n = 0 => n1 = b
    OBVIOUS
  <2> HIDE DEF r1, n1
  <2>4. n2 \in Nat /\ (r2 = InCode(R, n2) \/ r2.error = TRUE)
    BY <2>3, DigitsRun
  <2>5. n = 0 => n2 = code
    BY <1>1, <1>5, <2>0
  <2> HIDE DEF r2, n2
  <2>6. Ran(Unescape(r2, z), R, n, code)
    BY <1>6, <2>4, <2>5
  <2> QED
    BY <2>2, <2>6, Zenon
<1> QED
  BY <1>4, <1>5, <1>7, Zenon

LEMMA LetterRun ==
    ASSUME NEW s \in Seq(Chars), NEW R, NEW n, RemoveEscapeCodes(s) = Plain(R, n),
           NEW c \in STRING, c # "&"
    PROVE  RemoveEscapeCodes(s \o <<c>>) = Plain(Append(R, c), n)
<1>1. c \in Chars
  BY CharsAre
<1>2. s \o <<c>> = Append(s, c)
  BY <1>1, AppendIs
<1>3. RemoveEscapeCodes(Append(s, c)) = Unescape(RemoveEscapeCodes(s), c)
  BY <1>1, RunAppend
<1> QED
  BY <1>2, <1>3, StepLetter

LEMMA AsciiIs == \A code : Ascii(code) \in STRING
<1>1. " " \in STRING /\ "<" \in STRING /\ "?" \in STRING
  BY PlainTextAssumption, Zenon
<1> QED
  BY <1>1, Zenon DEF Ascii

LEMMA LetterIs ==
    ASSUME NEW piece \in Pieces
    PROVE  Letter(piece) \in STRING
<1>1. CASE piece \in LetterPieces
  BY <1>1, LetterPieceIs, Zenon
<1>2. CASE piece \in CodePieces
  BY <1>2, CodePieceIs, AsciiIs, ZenonT(60)
<1> QED
  BY <1>1, <1>2 DEF Pieces

LEMMA WrittenChars ==
    ASSUME NEW piece \in Pieces
    PROVE  Written(piece) \in Seq(Chars)
<1>1. CASE piece \in LetterPieces
  <2>1. piece.letter \in STRING /\ Written(piece) = <<piece.letter>>
    BY <1>1, LetterPieceIs
  <2>2. piece.letter \in Chars
    BY <2>1, CharsAre
  <2> QED
    BY <2>1, <2>2
<1>2. CASE piece \in CodePieces
  <2> DEFINE p == "&"
             q == "#"
             z == ";"
             d == Decimal(piece.code)
  <2>1. /\ p \in Chars /\ q \in Chars /\ z \in Chars
        /\ Written(piece) = (<<p, q>> \o d) \o <<z>> /\ piece.code \in 0..999
    <3>1. p \in Chars /\ q \in Chars /\ z \in Chars
      BY CharsAre
    <3>3. Written(piece) = (<<p, q>> \o d) \o <<z>> /\ piece.code \in 0..999
      BY <1>2, CodePieceIs, ZenonT(60)
    <3> QED
      BY <3>1, <3>3, Zenon
  <2>2. d \in Seq(Chars)
    <3>0. piece.code \in 0..999
      BY <2>1, ZenonT(60)
    <3>1. PICK a \in 0..9, b \in 0..9, c \in 0..9 :
            /\ piece.code = a * 100 + (b * 10 + c)
            /\ d = IF piece.code >= 100 THEN <<Digit(a), Digit(b), Digit(c)>>
                                        ELSE <<Digit(b), Digit(c)>>
            /\ piece.code < 100 => a = 0
      BY <3>0, DecimalIs, ZenonT(60)
    <3>2. Digit(a) \in Chars /\ Digit(b) \in Chars /\ Digit(c) \in Chars
      BY CharsAre
    <3> DEFINE da == Digit(a)
               db == Digit(b)
               dc == Digit(c)
    <3>3. d = IF piece.code >= 100 THEN <<da, db, dc>> ELSE <<db, dc>>
      BY <3>1, Zenon
    <3>4. da \in Chars /\ db \in Chars /\ dc \in Chars
      BY <3>2
    <3> HIDE DEF da, db, dc, d, p, q, z
    <3> QED
      BY <3>3, <3>4
  <2> HIDE DEF d, p, q, z
  <2> QED
    BY <2>1, <2>2
<1> QED
  BY <1>1, <1>2 DEF Pieces

LEMMA ErrorStays ==
    ASSUME NEW S, NEW s \in Seq(S), NEW t \in Seq(S), RemoveEscapeCodes(s).error = TRUE
    PROVE  RemoveEscapeCodes(s \o t).error = TRUE
<1> DEFINE n == Len(t)
           H == {k \in 0..n : RemoveEscapeCodes(s \o Prefix(t, k)).error = TRUE}
<1>1. n \in Nat /\ 0 \in Int /\ n \in Int /\ 0 \in 0..n /\ n \in 0..n
  OBVIOUS
<1>2. 0 \in H
  <2>1. Prefix(t, 0) = <<>>
    BY PrefixAll
  <2>2. s \o <<>> = s
    OBVIOUS
  <2> QED
    BY <1>1, <2>1, <2>2
<1>3. ASSUME NEW k \in 0..n - 1, k \in H PROVE k + 1 \in H
  <2> DEFINE e == k + 1
             p == Prefix(t, k)
             x == t[e]
  <2>1. e \in 1..Len(t) /\ e - 1 = k /\ e \in 0..n /\ k \in 0..Len(t)
    BY <1>1
  <2> HIDE DEF e
  <2>2. Prefix(t, e) = Append(p, x)
    BY <2>1, PrefixNext
  <2>3. x \in S /\ p \in Seq(S)
    BY <2>1, PrefixIs
  <2>4. RemoveEscapeCodes(s \o p).error = TRUE
    BY <1>3
  <2> HIDE DEF p, x
  <2>5. s \o Append(p, x) = Append(s \o p, x) /\ s \o p \in Seq(S)
    <3> DEFINE u == s \o Append(p, x)
               v == Append(s \o p, x)
               m == Len(s) + Len(p) + 1
    <3>1. u \in Seq(S) /\ v \in Seq(S) /\ Len(u) = m /\ Len(v) = m /\ s \o p \in Seq(S)
      BY <2>3
    <3>2. \A i \in 1..m : u[i] = v[i]
      BY <2>3
    <3> HIDE DEF u, v, m
    <3>3. u = v
      BY <3>1, <3>2, SeqEqual
    <3> QED
      BY <3>1, <3>3 DEF u, v
  <2> DEFINE w == s \o p
  <2>6. w \in Seq(S) /\ RemoveEscapeCodes(w).error = TRUE
    BY <2>4, <2>5
  <2> HIDE DEF w
  <2>7. RemoveEscapeCodes(Append(w, x)).error = TRUE
    <3>1. RemoveEscapeCodes(Append(w, x)) = Unescape(RemoveEscapeCodes(w), x)
      BY <2>3, <2>6, RunAppend
    <3> QED
      BY <2>6, <3>1, StepError
  <2>8. e \in H
    BY <2>1, <2>2, <2>5, <2>7, Zenon DEF w
  <2> QED
    BY <2>8 DEF e
<1>4. Inductive(H, 0, n)
  BY <1>3, Zenon DEF Inductive
<1>5. n \in H
  <2> HIDE DEF H, n
  <2> QED
    BY <1>1, <1>2, <1>4, UpTo
<1>6. Prefix(t, n) = t
  BY PrefixAll
<1> QED
  BY <1>5, <1>6

-----------------------------------------------------------------------------
(* A text as it is read                                                    *)

Letters(pieces) == [i \in DOMAIN pieces |-> Letter(pieces[i])]

(* What has come of the first k pieces, and where a code may be among them.*)
CodeBefore(pieces, k) == \E i \in 1..k : IsCode(pieces[i])

AsMeant(pieces, k, R, n) ==
    OneCode(pieces) => R = Prefix(Letters(pieces), k) /\ (n = 0 \/ CodeBefore(pieces, k))

ReadTo(pieces, k, r) ==
    \/ r.error = TRUE
    \/ \E R \in Seq(STRING), n \in Nat : r = Plain(R, n) /\ AsMeant(pieces, k, R, n)

LEMMA LettersAre ==
    ASSUME NEW pieces \in Seq(Pieces)
    PROVE  /\ Letters(pieces) \in Seq(STRING) /\ Len(Letters(pieces)) = Len(pieces)
           /\ \A i \in 1..Len(pieces) : Letters(pieces)[i] = Letter(pieces[i])
<1>1. \A i \in 1..Len(pieces) : pieces[i] \in Pieces
  OBVIOUS
<1>2. \A i \in 1..Len(pieces) : Letter(pieces[i]) \in STRING
  BY <1>1, LetterIs
<1> QED
  BY <1>2 DEF Letters

LEMMA LettersNext ==
    ASSUME NEW pieces \in Seq(Pieces), NEW k \in 1..Len(pieces)
    PROVE  Prefix(Letters(pieces), k) = Append(Prefix(Letters(pieces), k - 1), Letter(pieces[k]))
<1> DEFINE s == Letters(pieces)
<1>1. s \in Seq(STRING) /\ k \in 1..Len(s) /\ s[k] = Letter(pieces[k])
  BY LettersAre
<1> HIDE DEF s
<1>2. Prefix(s, k) = Append(Prefix(s, k - 1), s[k])
  BY <1>1, PrefixNext
<1> QED
  BY <1>1, <1>2 DEF s

LEMMA ReadNext ==
    ASSUME NEW pieces \in Seq(Pieces), NEW k \in 1..Len(pieces), NEW s \in Seq(Chars),
           ReadTo(pieces, k - 1, RemoveEscapeCodes(s))
    PROVE  ReadTo(pieces, k, RemoveEscapeCodes(s \o Written(pieces[k])))
<1> DEFINE piece == pieces[k]
           w == Written(piece)
           r == RemoveEscapeCodes(s)
           q == RemoveEscapeCodes(s \o w)
<1>1. piece \in Pieces /\ w \in Seq(Chars)
  <2>1. piece \in Pieces
    OBVIOUS
  <2> QED
    BY <2>1, WrittenChars
<1>2. CASE r.error = TRUE
  BY <1>1, <1>2, ErrorStays DEF ReadTo
<1>3. CASE ~(r.error = TRUE)
  <2>1. PICK R \in Seq(STRING), n \in Nat : r = Plain(R, n) /\ AsMeant(pieces, k - 1, R, n)
    BY <1>3 DEF ReadTo
  <2>2. CASE piece \in LetterPieces
    <3> DEFINE c == piece.letter
    <3>1. ~IsCode(piece) /\ c \in STRING /\ c # "&" /\ w = <<c>> /\ Letter(piece) = c
      BY <2>2, LetterPieceIs
    <3>2. q = Plain(Append(R, c), n)
      BY <2>1, <3>1, LetterRun, ZenonT(60)
    <3>3. AsMeant(pieces, k, Append(R, c), n)
      <4>1. CodeBefore(pieces, k - 1) => CodeBefore(pieces, k)
        BY DEF CodeBefore
      <4> QED
        BY <2>1, <3>1, <4>1, LettersNext, Zenon DEF AsMeant
    <3>4. Append(R, c) \in Seq(STRING)
      BY <3>1
    <3> HIDE DEF c, piece, r, q, w
    <3> QED
      BY <3>2, <3>3, <3>4 DEF ReadTo, q, w, piece
  <2>3. CASE piece \in CodePieces
    <3> DEFINE code == piece.code
    <3>1. IsCode(piece) /\ code \in 0..999 /\ Letter(piece) = Ascii(code)
          /\ w = (<<"&", "#">> \o Decimal(code)) \o <<";">>
      BY <2>3, CodePieceIs, ZenonT(60)
    <3>2. Ran(q, R, n, code)
      BY <2>1, <3>1, CodeRun, ZenonT(60)
    <3>3. CASE q.error = TRUE
      BY <3>3 DEF ReadTo
    <3>4. CASE ~(q.error = TRUE)
      <4>1. PICK m \in Nat : q = Plain(Append(R, Ascii(m)), m) /\ (n = 0 => m = code)
        BY <3>2, <3>4 DEF Ran
      <4>2. Append(R, Ascii(m)) \in Seq(STRING)
        BY AsciiIs
      <4>3. AsMeant(pieces, k, Append(R, Ascii(m)), m)
        <5> SUFFICES ASSUME OneCode(pieces)
                     PROVE  /\ Append(R, Ascii(m)) = Prefix(Letters(pieces), k)
                            /\ CodeBefore(pieces, k)
          BY Zenon DEF AsMeant
        <5>1. CodeBefore(pieces, k)
          <6>1. k \in 1..k
            OBVIOUS
          <6> QED
            BY <3>1, <6>1, ZenonT(60) DEF CodeBefore
        <5>2. ~CodeBefore(pieces, k - 1)
          <6> SUFFICES ASSUME NEW i \in 1..k - 1, IsCode(pieces[i]) PROVE FALSE
            BY DEF CodeBefore
          <6>1. i \in DOMAIN pieces /\ k \in DOMAIN pieces /\ i # k
            OBVIOUS
          <6> QED
            BY <3>1, <6>1, ZenonT(60) DEF OneCode
        <5>3. R = Prefix(Letters(pieces), k - 1) /\ n = 0
          BY <2>1, <5>2, Zenon DEF AsMeant
        <5> QED
          BY <3>1, <4>1, <5>1, <5>3, LettersNext, ZenonT(60)
      <4> QED
        BY <4>1, <4>2, <4>3, Zenon DEF ReadTo
    <3> QED
      BY <3>3, <3>4
  <2> QED
    BY <1>1, <2>2, <2>3 DEF Pieces
<1> QED
  BY <1>2, <1>3

LEMMA SourceRead ==
    ASSUME NEW pieces \in Seq(Pieces)
    PROVE  ReadTo(pieces, Len(pieces), RemoveEscapeCodes(Source(pieces)))
<1> DEFINE seqs == [i \in DOMAIN pieces |-> Written(pieces[i])]
           n == Len(pieces)
<1>1. seqs \in Seq(Seq(Chars)) /\ Len(seqs) = n /\ \A i \in 1..n : seqs[i] = Written(pieces[i])
  <2>1. \A i \in 1..n : pieces[i] \in Pieces
    OBVIOUS
  <2>2. \A i \in 1..n : Written(pieces[i]) \in Seq(Chars)
    BY <2>1, WrittenChars
  <2> QED
    BY <2>2
<1>2. Source(pieces) = FlattenSeq(seqs)
  BY Zenon DEF Source
<1> HIDE DEF seqs
<1>3. PICK g \in [0..Len(seqs) -> Seq(Chars)] :
          Joins(g, seqs) /\ FlattenSeq(seqs) = g[Len(seqs)]
  BY <1>1, FlattenIs
<1>4. n \in Nat /\ 0 \in Int /\ n \in Int /\ 0 \in 0..n /\ n \in 0..n
  OBVIOUS
<1> DEFINE H == {k \in 0..n : ReadTo(pieces, k, RemoveEscapeCodes(g[k]))}
<1>5. 0 \in H
  <2>1. g[0] = <<>>
    BY <1>3 DEF Joins
  <2>2. RemoveEscapeCodes(g[0]) = Plain(<<>>, 0)
    BY <2>1, RunEmpty DEF Start, Plain
  <2>3. AsMeant(pieces, 0, <<>>, 0)
    <3>1. Prefix(Letters(pieces), 0) = <<>>
      BY LettersAre, PrefixAll
    <3> QED
      BY <3>1 DEF AsMeant
  <2>4. <<>> \in Seq(STRING) /\ 0 \in Nat
    OBVIOUS
  <2> QED
    BY <1>4, <2>2, <2>3, <2>4, Zenon DEF ReadTo
<1>6. ASSUME NEW k \in 0..n - 1, k \in H PROVE k + 1 \in H
  <2> DEFINE e == k + 1
  <2>1. e \in 1..n /\ e \in 1..Len(seqs) /\ e \in 0..n /\ e - 1 = k /\ k \in 0..Len(seqs)
    BY <1>1, <1>4
  <2> HIDE DEF e
  <2>2. g[e] = g[k] \o Written(pieces[e])
    BY <1>1, <1>3, <2>1 DEF Joins
  <2>3. g[k] \in Seq(Chars)
    BY <1>3, <2>1
  <2>4. ReadTo(pieces, e - 1, RemoveEscapeCodes(g[k]))
    BY <1>6, <2>1
  <2> DEFINE s == g[k]
  <2> HIDE DEF s, H
  <2>5. ReadTo(pieces, e, RemoveEscapeCodes(s \o Written(pieces[e])))
    BY <2>1, <2>3, <2>4, ReadNext, Zenon DEF s
  <2>6. e \in H
    BY <2>1, <2>2, <2>5, Zenon DEF H, s
  <2> QED
    BY <2>6 DEF e
<1>7. Inductive(H, 0, n)
  BY <1>6, Zenon DEF Inductive
<1>8. n \in H
  <2> HIDE DEF H, n
  <2> QED
    BY <1>4, <1>5, <1>7, UpTo
<1> QED
  BY <1>1, <1>2, <1>3, <1>8

(* A text that is read without an error is one; with at most one code in   *)
(* it, the one that was meant.                                             *)
LEMMA SourceIs ==
    ASSUME NEW pieces \in Seq(Pieces), ~RemoveEscapeCodes(Source(pieces)).error
    PROVE  /\ RemoveEscapeCodes(Source(pieces)).result \in Seq(STRING)
           /\ OneCode(pieces) => Meant(pieces) = Trim(RemoveEscapeCodes(Source(pieces)).result)
<1> DEFINE r == RemoveEscapeCodes(Source(pieces))
<1>1. PICK R \in Seq(STRING), n \in Nat : r = Plain(R, n) /\ AsMeant(pieces, Len(pieces), R, n)
  BY SourceRead DEF ReadTo
<1>2. r.result = R
  BY <1>1 DEF Plain
<1>3. Prefix(Letters(pieces), Len(pieces)) = Letters(pieces)
  BY LettersAre, PrefixAll
<1>4. Meant(pieces) = Trim(Letters(pieces))
  BY Zenon DEF Meant, Letters
<1> QED
  BY <1>1, <1>2, <1>3, <1>4, Zenon DEF AsMeant

LEMMA TrimIs ==
    ASSUME NEW S, NEW text \in Seq(S)
    PROVE  Trim(text) \in Seq(S)
<1> DEFINE solid == {i \in DOMAIN text : ~IsSpace(text[i])}
           a == Min(solid)
           b == Max(solid)
<1>1. CASE solid = {}
  <2>1. Trim(text) = <<>>
    BY <1>1, Zenon DEF Trim, IsSpace
  <2> QED
    BY <2>1
<1>2. CASE solid # {}
  <2>1. Trim(text) = SubSeq(text, a, b)
    BY <1>2, Zenon DEF Trim, IsSpace
  <2>2. solid \subseteq 1..Len(text) /\ Len(text) \in Nat
    OBVIOUS
  <2>3. solid \in SUBSET Nat /\ solid \in SUBSET (0..Len(text))
    BY <2>2
  <2> HIDE DEF solid
  <2>4. b \in solid /\ \A k \in solid : k <= b
    BY <1>2, <2>2, <2>3, MaxOf
  <2>5. a \in solid
    <3>1. \E x \in solid : \A y \in solid : x <= y
      BY <1>2, <2>3, LeastElement
    <3> QED
      BY <3>1, Zenon DEF Min
  <2>6. a \in 1..Len(text) /\ b \in 1..Len(text) /\ a <= b
    BY <2>2, <2>4, <2>5
  <2> HIDE DEF a, b
  <2>7. a - 1 \in 0..Len(text) /\ b \in 0..Len(text) /\ a - 1 <= b /\ (a - 1) + 1 = a
    BY <2>6, <2>2
  <2> DEFINE c == a - 1
  <2>8. c \in 0..Len(text) /\ b \in 0..Len(text) /\ c <= b /\ c + 1 = a
    BY <2>7
  <2> HIDE DEF c
  <2>9. SubSeq(text, c + 1, b) \in Seq(S)
    BY <2>8, PieceIs
  <2> QED
    BY <2>1, <2>8, <2>9
<1> QED
  BY <1>1, <1>2

-----------------------------------------------------------------------------
(* Adding to the tree                                                      *)

(* What the nodes and the open tags stand for.                             *)
All(nodes, open) == Tokens(nodes) \o StackTokens(open)

LEMMA StackTyped ==
    ASSUME NEW open, StackOK(open)
    PROVE  StackTokens(open) \in Seq(Token) /\ open \in Seq(Opened)
<1>1. open \in Seq(Opened)
  BY DEF StackOK
<1> DEFINE tag == CHOOSE tag : tag \in Opened
<1>2. CASE Opened = {}
  <2>1. open = <<>>
    BY <1>1, <1>2
  <2>2. StackTokens(open) = <<>>
    BY <2>1, NoStack
  <2> QED
    BY <1>1, <2>2
<1>3. CASE Opened # {}
  <2>1. PICK x : x \in Opened
    BY <1>3
  <2> QED
    BY <1>1, <2>1, StackAppend
<1> QED
  BY <1>2, <1>3

LEMMA AttachTop ==
    ASSUME NEW nodes \in Seq(Nodes[MaxDepth]), NEW node \in Nodes[MaxDepth]
    PROVE  /\ Append(nodes, node) \in Seq(Nodes[MaxDepth])
           /\ All(Append(nodes, node), <<>>) = All(nodes, <<>>) \o TokensOf[node]
<1> DEFINE a == Tokens(nodes)
           b == TokensOf[node]
<1>1. a \in Seq(Token) /\ b \in Seq(Token)
  BY ForestTokens, TokensTyped
<1>2. Tokens(Append(nodes, node)) = a \o b
  BY TokensAppend
<1> HIDE DEF a, b
<1>3. a \o b \in Seq(Token)
  BY <1>1, ConcatProperties
<1>4. (a \o b) \o <<>> = a \o b /\ a \o <<>> = a
  BY <1>1, <1>3, ConcatEmptySeq
<1>5. Append(nodes, node) \in Seq(Nodes[MaxDepth])
  BY AppendProperties
<1> QED
  BY <1>2, <1>4, <1>5, NoStack DEF All, a, b

(* An open tag with a node more.                                           *)
With(tag, node) == [tag EXCEPT !.children = Append(@, node)]

LEMMA WithIs ==
    ASSUME NEW tag \in Opened, NEW S, S \subseteq Nodes[MaxDepth], tag.children \in Seq(S),
           NEW node \in S
    PROVE  /\ With(tag, node) \in Opened
           /\ With(tag, node).children \in Seq(S)
           /\ OpenTokens(With(tag, node)) = OpenTokens(tag) \o TokensOf[node]
<1> DEFINE new == With(tag, node)
           children == tag.children
           more == Append(children, node)
<1>1. more \in Seq(S) /\ children \in Seq(S)
  BY AppendProperties
<1>2. more \in Seq(Nodes[MaxDepth]) /\ children \in Seq(Nodes[MaxDepth])
  BY <1>1, SeqMonotonic
<1>3. new.children = more /\ new.name = tag.name /\ new \in Opened
  BY <1>2 DEF With, Opened, ElementsOf
<1> DEFINE a == Opens(tag)
           b == Tokens(children)
           c == TokensOf[node]
<1>4. a \in Seq(Token) /\ b \in Seq(Token) /\ c \in Seq(Token)
  BY OpenTokensTyped, TokensTyped
<1>5. Tokens(more) = b \o c
  BY <1>2, TokensAppend
<1>6. OpenTokens(new) = Opens(new) \o Tokens(more) /\ Opens(new) = a /\ OpenTokens(tag) = a \o b
  BY <1>3 DEF OpenTokens, Opens
<1> HIDE DEF a, b, c, new, more, children
<1>7. (a \o b) \o c = a \o (b \o c)
  BY <1>4, ConcatAssociative
<1> QED
  BY <1>1, <1>3, <1>5, <1>6, <1>7 DEF new, c

LEMMA AttachStack ==
    ASSUME NEW nodes \in Seq(Nodes[MaxDepth]), NEW open, StackOK(open), open # <<>>,
           NEW node \in Below(Len(open)),
           NEW new, new = [open EXCEPT ![Len(open)].children = Append(@, node)]
    PROVE  /\ StackOK(new) /\ All(nodes, new) = All(nodes, open) \o TokensOf[node]
           /\ Len(new) = Len(open)
<1> DEFINE n == Len(open)
           under == Front(open)
           tag == Last(open)
           tag2 == With(tag, node)
<1>1. open \in Seq(Opened) /\ n <= MaxDepth
  BY DEF StackOK
<1>2. /\ under \in Seq(Opened) /\ tag \in Opened /\ n \in Nat \ {0}
      /\ Len(under) = n - 1
      /\ \A i \in 1..n - 1 : under[i] = open[i]
      /\ open = Append(under, tag)
  BY <1>1, TopIs
<1>3. tag = open[n] /\ n \in 1..n
  BY <1>2 DEF Last
<1>4. tag.children \in Seq(Below(n))
  BY <1>3 DEF StackOK
<1>0. n = Len(open)
  OBVIOUS
<1>5. n \in 0..MaxDepth
  <2>1. MaxDepth \in Nat
    BY CleanerAssumption
  <2> HIDE DEF n
  <2> QED
    BY <1>1, <1>2, <2>1
<1>6. Below(n) \subseteq Nodes[MaxDepth]
  BY <1>5, BelowIs
<1>7. /\ tag2 \in Opened /\ tag2.children \in Seq(Below(n))
      /\ OpenTokens(tag2) = OpenTokens(tag) \o TokensOf[node]
  BY <1>2, <1>4, <1>6, WithIs
<1>8. new = [open EXCEPT ![n] = tag2]
  <2>1. new = [open EXCEPT ![n] = [open[n] EXCEPT !.children = Append(@, node)]]
    BY Zenon
  <2> QED
    BY <1>3, <2>1 DEF With
<1> HIDE DEF n, under, tag, tag2
<1>9. new \in Seq(Opened) /\ Len(new) = n /\ \A j \in 1..n : new[j] = IF j = n THEN tag2 ELSE open[j]
  <2>1. n \in 1..Len(open) /\ tag2 \in Opened /\ open \in Seq(Opened)
    BY <1>0, <1>1, <1>2, <1>7
  <2>2. /\ [open EXCEPT ![n] = tag2] \in Seq(Opened)
        /\ Len([open EXCEPT ![n] = tag2]) = Len(open)
        /\ \A j \in 1..Len(open) : [open EXCEPT ![n] = tag2][j] = IF j = n THEN tag2 ELSE open[j]
    BY <2>1, ExceptSeq
  <2> QED
    BY <1>0, <1>8, <2>2
<1>10. StackOK(new)
  <2>1. ASSUME NEW k \in 1..n PROVE new[k].children \in Seq(Below(k))
    <3>1. CASE k = n
      BY <1>3, <1>7, <1>9, <3>1
    <3>2. CASE k # n
      BY <1>9, <3>2 DEF StackOK, n
    <3> QED
      BY <3>1, <3>2
  <2> QED
    BY <1>1, <1>9, <2>1 DEF StackOK
<1>11. new = Append(under, tag2)
  <2> DEFINE s == Append(under, tag2)
  <2>1. s \in Seq(Opened) /\ Len(s) = (n - 1) + 1 /\ s[(n - 1) + 1] = tag2
        /\ \A i \in 1..n - 1 : s[i] = under[i]
    BY <1>2, <1>7, AppendProperties
  <2>2. (n - 1) + 1 = n
    BY <1>2
  <2> HIDE DEF s
  <2>3. ASSUME NEW i \in 1..n PROVE new[i] = s[i]
    <3>1. i = n \/ i \in 1..n - 1
      BY <1>2
    <3>2. CASE i = n
      BY <1>3, <1>9, <2>1, <2>2, <3>2
    <3>3. CASE i \in 1..n - 1
      BY <1>2, <1>9, <2>1, <3>3
    <3> QED
      BY <3>1, <3>2, <3>3
  <2>4. new = s
    BY <1>9, <2>1, <2>2, <2>3, SeqEqual
  <2> QED
    BY <2>4 DEF s
<1> DEFINE a == Tokens(nodes)
           b == StackTokens(under)
           c == OpenTokens(tag)
           d == TokensOf[node]
<1>12. a \in Seq(Token) /\ b \in Seq(Token) /\ c \in Seq(Token) /\ d \in Seq(Token)
  <2>1. node \in Nodes[MaxDepth]
    BY <1>6 DEF n
  <2>2. d \in Seq(Token)
    BY <2>1, TokensTyped
  <2>3. c \in Seq(Token)
    BY <1>2, OpenTokensTyped
  <2>4. b \in Seq(Token)
    BY <1>2, StackAppend
  <2>5. a \in Seq(Token)
    BY ForestTokens
  <2> QED
    BY <2>2, <2>3, <2>4, <2>5
<1>13. StackTokens(open) = b \o c
  BY <1>2, StackAppend
<1>14. StackTokens(new) = b \o (c \o d)
  <2>1. StackTokens(Append(under, tag2)) = b \o OpenTokens(tag2)
    BY <1>2, <1>7, StackAppend
  <2> QED
    BY <1>7, <1>11, <2>1, Zenon
<1> HIDE DEF a, b, c, d
<1>15. a \o (b \o (c \o d)) = (a \o (b \o c)) \o d
  <2>1. b \o c \in Seq(Token) /\ b \o (c \o d) = (b \o c) \o d
    BY <1>12, ConcatProperties, ConcatAssociative, SMTT(30)
  <2> DEFINE e == b \o c
  <2>2. e \in Seq(Token)
    BY <2>1
  <2> HIDE DEF e
  <2>3. (a \o e) \o d = a \o (e \o d)
    BY <1>12, <2>2, ConcatAssociative, SMTT(30)
  <2> QED
    BY <2>1, <2>3 DEF e
<1> QED
  BY <1>9, <1>10, <1>13, <1>14, <1>15 DEF All, a, d, n

Attached(nodes, open, node, nodes2, open2) ==
    IF open = <<>> THEN nodes2 = Append(nodes, node) /\ open2 = <<>>
    ELSE /\ open2 = [open EXCEPT ![Len(open)].children = Append(@, node)]
         /\ nodes2 = nodes

LEMMA AttachIs ==
    ASSUME NEW nodes \in Seq(Nodes[MaxDepth]), NEW open, StackOK(open),
           NEW node \in Below(Len(open)), NEW nodes2, NEW open2,
           Attached(nodes, open, node, nodes2, open2)
    PROVE  /\ nodes2 \in Seq(Nodes[MaxDepth]) /\ StackOK(open2)
           /\ All(nodes2, open2) = All(nodes, open) \o TokensOf[node]
<1>1. CASE open = <<>>
  <2>1. nodes2 = Append(nodes, node) /\ open2 = <<>>
    BY <1>1 DEF Attached
  <2>2. node \in Nodes[MaxDepth]
    <3>1. MaxDepth - 0 = MaxDepth
      <4>1. MaxDepth \in Nat
        BY CleanerAssumption
      <4> QED
        BY <4>1
    <3>2. Len(open) = 0
      BY <1>1
    <3> QED
      BY <3>1, <3>2 DEF Below
  <2>3. /\ Append(nodes, node) \in Seq(Nodes[MaxDepth])
        /\ All(Append(nodes, node), <<>>) = All(nodes, <<>>) \o TokensOf[node]
    BY <2>2, AttachTop
  <2> QED
    BY <1>1, <2>1, <2>3, NoStack
<1>2. CASE open # <<>>
  <2>1. open2 = [open EXCEPT ![Len(open)].children = Append(@, node)] /\ nodes2 = nodes
    BY <1>2 DEF Attached
  <2>2. StackOK(open2) /\ All(nodes, open2) = All(nodes, open) \o TokensOf[node]
    BY <1>2, <2>1, AttachStack
  <2> QED
    BY <2>1, <2>2
<1> QED
  BY <1>1, <1>2

LEMMA AllTyped ==
    ASSUME NEW nodes \in Seq(Nodes[MaxDepth]), NEW open, StackOK(open)
    PROVE  All(nodes, open) \in Seq(Token)
<1> DEFINE a == Tokens(nodes)
           b == StackTokens(open)
<1>1. a \in Seq(Token) /\ b \in Seq(Token)
  BY ForestTokens, StackTyped
<1> HIDE DEF a, b
<1>2. a \o b \in Seq(Token)
  BY <1>1, ConcatProperties
<1> QED
  BY <1>2 DEF All, a, b

-----------------------------------------------------------------------------
(* What is read in one step                                                *)

(* A text.                                                                 *)
LEMMA TextAttached ==
    ASSUME NEW nodes \in Seq(Nodes[MaxDepth]), NEW open, StackOK(open), NEW text \in Texts,
           NEW nodes2, NEW open2, Attached(nodes, open, [text |-> text], nodes2, open2)
    PROVE  /\ nodes2 \in Seq(Nodes[MaxDepth]) /\ StackOK(open2)
           /\ <<"text", text>> \in Token
           /\ All(nodes2, open2) = Append(All(nodes, open), <<"text", text>>)
<1> DEFINE node == [text |-> text]
           token == <<"text", text>>
           n == Len(open)
           all == All(nodes, open)
<1>1. n \in 0..MaxDepth
  <2>1. open \in Seq(Opened) /\ n <= MaxDepth
    BY DEF StackOK
  <2>2. n \in Nat
    BY <2>1
  <2>3. MaxDepth \in Nat
    BY CleanerAssumption
  <2> HIDE DEF n
  <2> QED
    BY <2>1, <2>2, <2>3
<1>2. node \in TextNodesOnly /\ IsText(node) /\ node.text = text
  BY DEF TextNodesOnly, IsText
<1> HIDE DEF node
<1>3. node \in Below(n) /\ node \in Nodes[MaxDepth]
  BY <1>1, <1>2, BelowIs
<1>4. TokensOf[node] = <<token>>
  BY <1>2, <1>3, TokensIs DEF TokensStep
<1>5. token \in Token
  BY DEF Token
<1>6. /\ nodes2 \in Seq(Nodes[MaxDepth]) /\ StackOK(open2)
      /\ All(nodes2, open2) = all \o TokensOf[node]
  BY <1>3, AttachIs, SMTT(30) DEF node
<1>7. all \in Seq(Token)
  BY AllTyped
<1> HIDE DEF all, token
<1>8. all \o <<token>> = Append(all, token)
  BY <1>5, <1>7, AppendIs
<1> QED
  BY <1>4, <1>5, <1>6, <1>8 DEF all, token

NewElement(node) == node \in ElementsOf({<<>>})

LEMMA NewElementIs ==
    ASSUME NEW node, NewElement(node)
    PROVE  /\ node \in Opened /\ node.children = <<>> /\ ~IsText(node) /\ node.name \in STRING
           /\ \A S : node \in ElementsOf(Seq(S))
           /\ OpenTokens(node) = <<<<"open", node.name>>>>
           /\ <<"open", node.name>> \in Token /\ <<"close", node.name>> \in Token
<1>1. node.children = <<>> /\ ~IsText(node) /\ node.name \in STRING
  BY DEF NewElement, ElementsOf, IsText
<1>2. ASSUME NEW S PROVE node \in ElementsOf(Seq(S))
  <2>1. <<>> \in Seq(S)
    OBVIOUS
  <2> QED
    BY <2>1 DEF NewElement, ElementsOf
<1>3. node \in Opened
  BY <1>2 DEF Opened
<1>4. OpenTokens(node) = Opens(node) \o <<>>
  BY <1>1, NoTokens DEF OpenTokens
<1>5. Opens(node) \in Seq(Token) /\ <<"open", node.name>> \in Token /\ <<"close", node.name>> \in Token
  BY <1>1 DEF Opens, Token
<1>6. Opens(node) \o <<>> = Opens(node)
  BY <1>5, ConcatEmptySeq
<1> QED
  BY <1>1, <1>2, <1>3, <1>4, <1>5, <1>6 DEF Opens

(* An opening tag.                                                         *)
LEMMA TagOpened ==
    ASSUME NEW nodes \in Seq(Nodes[MaxDepth]), NEW open, StackOK(open), Len(open) < MaxDepth,
           NEW node, NewElement(node)
    PROVE  /\ StackOK(Append(open, node))
           /\ All(nodes, Append(open, node)) = Append(All(nodes, open), <<"open", node.name>>)
<1> DEFINE n == Len(open)
           new == Append(open, node)
           token == <<"open", node.name>>
<1>1. open \in Seq(Opened) /\ n < MaxDepth /\ n \in Nat /\ MaxDepth \in Nat
  <2>1. open \in Seq(Opened)
    BY DEF StackOK
  <2>2. MaxDepth \in Nat
    BY CleanerAssumption
  <2> QED
    BY <2>1, <2>2
<1>2. node \in Opened /\ node.children = <<>> /\ OpenTokens(node) = <<token>> /\ token \in Token
  BY NewElementIs
<1>3. new \in Seq(Opened) /\ Len(new) = n + 1 /\ new[n + 1] = node
      /\ \A i \in 1..n : new[i] = open[i]
  BY <1>1, <1>2, AppendProperties
<1>4. StackTokens(new) = StackTokens(open) \o <<token>> /\ StackTokens(open) \in Seq(Token)
  BY <1>1, <1>2, StackAppend
<1>5. \A k \in 1..n : open[k].children \in Seq(Below(k))
  BY DEF StackOK
<1> HIDE DEF n, new, token
<1>6. ASSUME NEW k \in 1..n + 1 PROVE new[k].children \in Seq(Below(k))
  <2>1. CASE k = n + 1
    <3>1. new[k].children = <<>>
      BY <1>2, <1>3, <2>1
    <3> QED
      BY <3>1
  <2>2. CASE k \in 1..n
    BY <1>3, <1>5, <2>2
  <2> QED
    BY <1>1, <2>1, <2>2
<1>7. StackOK(new)
  <2>1. n + 1 <= MaxDepth
    BY <1>1
  <2> QED
    BY <1>3, <1>6, <2>1 DEF StackOK
<1> DEFINE a == Tokens(nodes)
           b == StackTokens(open)
<1>8. a \in Seq(Token) /\ b \in Seq(Token)
  BY <1>4, ForestTokens
<1>9. StackTokens(new) = b \o <<token>>
  BY <1>4
<1>10. All(nodes, open) = a \o b /\ All(nodes, new) = a \o StackTokens(new)
  BY DEF All
<1> HIDE DEF a, b
<1>11. <<token>> \in Seq(Token)
  BY <1>2
<1>12. a \o (b \o <<token>>) = (a \o b) \o <<token>> /\ a \o b \in Seq(Token)
  BY <1>8, <1>11, ConcatAssociative, ConcatProperties
<1> DEFINE ab == a \o b
<1>13. ab \in Seq(Token)
  BY <1>12
<1> HIDE DEF ab
<1>14. ab \o <<token>> = Append(ab, token)
  BY <1>2, <1>13, AppendIs
<1> QED
  BY <1>7, <1>9, <1>10, <1>12, <1>14 DEF ab, new, token

(* A tag that closes itself.                                               *)
LEMMA TagAttached ==
    ASSUME NEW nodes \in Seq(Nodes[MaxDepth]), NEW open, StackOK(open), Len(open) < MaxDepth,
           NEW node, NewElement(node), NEW nodes2, NEW open2,
           Attached(nodes, open, node, nodes2, open2)
    PROVE  /\ nodes2 \in Seq(Nodes[MaxDepth]) /\ StackOK(open2)
           /\ All(nodes2, open2)
                  = All(nodes, open) \o <<<<"open", node.name>>, <<"close", node.name>>>>
<1> DEFINE n == Len(open)
           first == <<"open", node.name>>
           second == <<"close", node.name>>
<1>1. n \in 0..MaxDepth /\ n < MaxDepth
  <2>1. open \in Seq(Opened)
    BY DEF StackOK
  <2>2. n \in Nat
    BY <2>1
  <2>3. MaxDepth \in Nat
    BY CleanerAssumption
  <2> HIDE DEF n
  <2>4. n < MaxDepth
    BY DEF n
  <2> QED
    BY <2>2, <2>3, <2>4
<1>2. node \in Below(n) /\ node \in Nodes[MaxDepth]
  BY <1>1, BelowIs, NewElementIs
<1>3. node.children = <<>> /\ ~IsText(node) /\ first \in Token /\ second \in Token
      /\ OpenTokens(node) = <<first>>
  BY NewElementIs
<1>4. TokensOf[node] = OpenTokens(node) \o Closes(node)
  BY <1>2, <1>3, ElementTokens DEF OpenTokens
<1>5. Closes(node) = <<second>>
  BY DEF Closes
<1> HIDE DEF first, second
<1>6. <<first>> \o <<second>> = <<first, second>>
  <2> DEFINE s == <<first>> \o <<second>>
             t == <<first, second>>
  <2>1. s \in Seq(Token) /\ t \in Seq(Token) /\ Len(s) = 2 /\ Len(t) = 2
    BY <1>3
  <2>2. \A i \in 1..2 : s[i] = t[i]
    BY <1>3
  <2> HIDE DEF s, t
  <2>3. s = t
    BY <2>1, <2>2, SeqEqual
  <2> QED
    BY <2>3 DEF s, t
<1>7. TokensOf[node] = <<first, second>>
  BY <1>3, <1>4, <1>5, <1>6
<1>8. /\ nodes2 \in Seq(Nodes[MaxDepth]) /\ StackOK(open2)
      /\ All(nodes2, open2) = All(nodes, open) \o TokensOf[node]
  BY <1>2, AttachIs
<1> QED
  BY <1>7, <1>8 DEF first, second

(* A closing tag.                                                          *)
LEMMA TagClosed ==
    ASSUME NEW nodes \in Seq(Nodes[MaxDepth]), NEW open, StackOK(open), open # <<>>,
           NEW nodes2, NEW open2, Attached(nodes, Front(open), Last(open), nodes2, open2)
    PROVE  /\ nodes2 \in Seq(Nodes[MaxDepth]) /\ StackOK(open2)
           /\ <<"close", Last(open).name>> \in Token
           /\ All(nodes2, open2) = Append(All(nodes, open), <<"close", Last(open).name>>)
<1> DEFINE n == Len(open)
           under == Front(open)
           tag == Last(open)
           token == <<"close", tag.name>>
<1>1. open \in Seq(Opened) /\ n <= MaxDepth /\ \A k \in 1..n : open[k].children \in Seq(Below(k))
  BY DEF StackOK
<1>2. /\ under \in Seq(Opened) /\ tag \in Opened /\ n \in Nat \ {0}
      /\ Len(under) = n - 1
      /\ \A i \in 1..n - 1 : under[i] = open[i]
      /\ open = Append(under, tag)
  BY <1>1, TopIs
<1>3. tag = open[n]
  BY DEF Last
<1> HIDE DEF n, under, tag
<1>4. MaxDepth \in Nat
  BY CleanerAssumption
<1>5. n - 1 \in 0..MaxDepth /\ n - 1 < MaxDepth /\ (n - 1) + 1 = n
  BY <1>1, <1>2, <1>4
<1>6. StackOK(under)
  <2>1. ASSUME NEW k \in 1..n - 1 PROVE under[k].children \in Seq(Below(k))
    <3>1. k \in 1..n
      BY <1>2
    <3> QED
      BY <1>1, <1>2, <3>1
  <2> QED
    BY <1>2, <1>5, <2>1 DEF StackOK
<1> DEFINE m == n - 1
<1>7. m \in 0..MaxDepth /\ m < MaxDepth /\ m + 1 = n /\ m = Len(under)
  BY <1>2, <1>5
<1> HIDE DEF m
<1>8. tag \in ElementsOf(Seq(Below(n)))
  <2>1. tag.children \in Seq(Below(n))
    BY <1>1, <1>2, <1>3
  <2> QED
    BY <1>2, <2>1 DEF Opened, ElementsOf
<1>9. tag \in Below(m) /\ tag \in Nodes[MaxDepth]
  BY <1>7, <1>8, BelowIs
<1>10. ~IsText(tag) /\ tag.name \in STRING
  BY <1>2 DEF Opened, ElementsOf, IsText
<1>11. TokensOf[tag] = OpenTokens(tag) \o <<token>>
  BY <1>9, <1>10, ElementTokens DEF OpenTokens, Closes
<1>12. token \in Token
  BY <1>10 DEF Token
<1> DEFINE all == All(nodes, under)
           c == OpenTokens(tag)
<1>13. /\ nodes2 \in Seq(Nodes[MaxDepth]) /\ StackOK(open2)
       /\ All(nodes2, open2) = all \o TokensOf[tag]
  <2>1. tag \in Below(Len(under))
    BY <1>7, <1>9
  <2>2. Attached(nodes, under, tag, nodes2, open2)
    BY DEF under, tag
  <2> QED
    BY <1>6, <2>1, <2>2, AttachIs
<1>14. All(nodes, open) = all \o c
  <2> DEFINE a == Tokens(nodes)
             b == StackTokens(under)
  <2>1. a \in Seq(Token) /\ b \in Seq(Token) /\ c \in Seq(Token)
    BY <1>2, <1>6, ForestTokens, StackTyped, OpenTokensTyped
  <2>2. StackTokens(open) = b \o c
    BY <1>2, StackAppend
  <2> HIDE DEF a, b, c
  <2>3. a \o (b \o c) = (a \o b) \o c
    BY <2>1, ConcatAssociative, SMTT(30)
  <2> QED
    BY <2>2, <2>3 DEF All, a, b
<1>15. all \in Seq(Token) /\ c \in Seq(Token)
  BY <1>2, <1>6, AllTyped, OpenTokensTyped
<1> HIDE DEF all, c, token
<1>16. all \o (c \o <<token>>) = Append(all \o c, token)
  <2>1. <<token>> \in Seq(Token)
    BY <1>12
  <2>2. (all \o c) \o <<token>> = all \o (c \o <<token>>) /\ all \o c \in Seq(Token)
    BY <1>15, <2>1, ConcatAssociative, ConcatProperties
  <2> DEFINE e == all \o c
  <2>3. e \in Seq(Token)
    BY <2>2
  <2> HIDE DEF e
  <2>4. e \o <<token>> = Append(e, token)
    BY <1>12, <2>3, AppendIs
  <2> QED
    BY <2>2, <2>4 DEF e
<1> QED
  BY <1>11, <1>12, <1>13, <1>14, <1>16 DEF token, c, tag

-----------------------------------------------------------------------------
(* The tree                                                                *)

IsTree(nodes, open, tokens) ==
    /\ nodes \in Seq(Nodes[MaxDepth]) /\ StackOK(open) /\ tokens \in Seq(Token)
    /\ tokens = All(nodes, open)

TreeOK == IsTree(top, stack, read)

EndsWithText(tokens) == tokens # <<>> /\ Last(tokens)[1] = "text"

ModeOK == mode \in {"text", "tag"} /\ (mode = "tag" <=> EndsWithText(read))

LEMMA NoTree == IsTree(<<>>, <<>>, <<>>) /\ ~EndsWithText(<<>>)
<1>1. All(<<>>, <<>>) = <<>>
  <2>1. <<>> \in Seq(Token)
    OBVIOUS
  <2> QED
    BY <2>1, NoTokens, NoStack, ConcatEmptySeq DEF All
<1> QED
  BY <1>1, NoStack DEF IsTree, EndsWithText

LEMMA NewTagIs ==
    ASSUME NEW t \in Tags
    PROVE  NewElement(NewTag(t)) /\ NewTag(t).name = t.name /\ t.name \in STRING
<1>1. t \in [name : STRING, attributes : Attributes, is_closing : BOOLEAN, is_self_closing : BOOLEAN]
  BY MarkupAssumption, ZenonT(60)
<1> QED
  BY <1>1 DEF NewElement, NewTag, ElementsOf

LEMMA TextResult ==
    ASSUME NEW pieces \in TextPieces, ~RemoveEscapeCodes(Source(pieces)).error
    PROVE  /\ Trim(RemoveEscapeCodes(Source(pieces)).result) \in Texts
           /\ (IF OneCode(pieces) THEN Meant(pieces)
               ELSE Trim(RemoveEscapeCodes(Source(pieces)).result))
                  = Trim(RemoveEscapeCodes(Source(pieces)).result)
<1>1. pieces \in Seq(Pieces)
  BY MarkupAssumption, ZenonT(60) DEF Pieces, LetterPieces, CodePieces
<1> DEFINE R == RemoveEscapeCodes(Source(pieces)).result
<1>2. R \in Seq(STRING) /\ (OneCode(pieces) => Meant(pieces) = Trim(R))
  BY <1>1, SourceIs
<1> HIDE DEF R
<1>3. Trim(R) \in Texts
  BY <1>2, TrimIs DEF Texts
<1> QED
  BY <1>2, <1>3 DEF R

(* Every step keeps the tree.                                              *)
LEMMA AttachDef ==
    ASSUME NEW STATE node, NEW STATE open, Attach(node, open)
    PROVE  Attached(top, open, node, top', stack')
  BY DEF Attach, Attached

LEMMA TreeStops ==
    ASSUME NEW how, Stops(how)
    PROVE  TreeOK' /\ ModeOK'
<1>1. top' = <<>> /\ stack' = <<>> /\ read' = <<>> /\ mode' = "text"
  BY DEF Stops
<1> QED
  BY <1>1, NoTree DEF TreeOK, ModeOK

LEMMA TreeText ==
    ASSUME TreeOK, NEW pieces \in TextPieces, ReadText(pieces)
    PROVE  TreeOK' /\ ModeOK'
<1> DEFINE text == RemoveEscapeCodes(Source(pieces))
           result == Trim(text.result)
           token == <<"text", IF OneCode(pieces) THEN Meant(pieces) ELSE result>>
           bad == Unprintable \in ToSet(Source(pieces)) \/ text.error
<1>1. CASE bad
  <2>1. Stops("hung")
    BY <1>1, Zenon DEF ReadText
  <2> QED
    BY <2>1, TreeStops
<1>2. CASE ~bad
  <2>1. Attach([text |-> result], stack) /\ read' = Append(read, token) /\ mode' = "tag"
    BY <1>2, Zenon DEF ReadText
  <2>2. result \in Texts /\ token = <<"text", result>>
    BY <1>2, TextResult, Zenon
  <2> HIDE DEF text, result, token
  <2>3. Attached(top, stack, [text |-> result], top', stack')
    BY <2>1, AttachDef
  <2> DEFINE nodes2 == top'
             open2 == stack'
             all == All(top, stack)
  <2>4. /\ top \in Seq(Nodes[MaxDepth]) /\ StackOK(stack) /\ all \in Seq(Token) /\ read = all
    BY DEF TreeOK, IsTree
  <2>5. /\ nodes2 \in Seq(Nodes[MaxDepth]) /\ StackOK(open2)
        /\ token \in Token /\ All(nodes2, open2) = Append(all, token)
    BY <2>2, <2>3, <2>4, TextAttached
  <2> HIDE DEF all
  <2>6. Append(all, token) \in Seq(Token) /\ EndsWithText(Append(all, token))
    <3>1. Append(all, token) \in Seq(Token) /\ Append(all, token) # <<>>
          /\ Last(Append(all, token)) = token
      BY <2>4, <2>5, LastIs
    <3>2. token[1] = "text"
      BY <2>2
    <3> QED
      BY <3>1, <3>2 DEF EndsWithText
  <2>7. IsTree(top', stack', read')
    BY <2>1, <2>4, <2>5, <2>6 DEF IsTree
  <2>8. ModeOK'
    BY <2>1, <2>4, <2>6 DEF ModeOK
  <2> QED
    BY <2>7, <2>8 DEF TreeOK
<1> QED
  BY <1>1, <1>2

LEMMA TreeOpen ==
    ASSUME TreeOK, NEW t \in Tags, OpenTag(t)
    PROVE  TreeOK' /\ ModeOK'
<1> DEFINE node == NewTag(t)
           token == <<"open", t.name>>
           all == All(top, stack)
<1>1. /\ stack' = Append(stack, node) /\ read' = Append(read, token) /\ mode' = "text"
      /\ top' = top /\ Len(stack) < MaxDepth
  BY DEF OpenTag
<1>2. /\ top \in Seq(Nodes[MaxDepth]) /\ StackOK(stack) /\ all \in Seq(Token) /\ read = all
  BY DEF TreeOK, IsTree
<1>3. NewElement(node) /\ node.name = t.name /\ t.name \in STRING
  BY NewTagIs
<1> HIDE DEF node
<1>4. token \in Token /\ token[1] # "text"
  BY <1>3 DEF Token
<1>5. StackOK(Append(stack, node)) /\ All(top, Append(stack, node)) = Append(all, token)
  BY <1>1, <1>2, <1>3, TagOpened
<1> HIDE DEF all, token
<1>6. Append(all, token) \in Seq(Token) /\ Append(all, token) # <<>>
      /\ Last(Append(all, token)) = token
  BY <1>2, <1>4, LastIs
<1>7. IsTree(top', stack', read')
  BY <1>1, <1>2, <1>5, <1>6 DEF IsTree
<1>8. ModeOK'
  BY <1>1, <1>2, <1>4, <1>6 DEF ModeOK, EndsWithText
<1> QED
  BY <1>7, <1>8 DEF TreeOK

LEMMA TreeSelfClosing ==
    ASSUME TreeOK, NEW t \in Tags, SelfClosingTag(t)
    PROVE  TreeOK' /\ ModeOK'
<1> DEFINE node == NewTag(t)
           first == <<"open", t.name>>
           second == <<"close", t.name>>
           all == All(top, stack)
<1>1. /\ Attach(node, stack) /\ read' = read \o <<first, second>> /\ mode' = "text"
      /\ Len(stack) < MaxDepth
  BY DEF SelfClosingTag
<1>2. /\ top \in Seq(Nodes[MaxDepth]) /\ StackOK(stack) /\ all \in Seq(Token) /\ read = all
  BY DEF TreeOK, IsTree
<1>3. NewElement(node) /\ node.name = t.name /\ t.name \in STRING
  BY NewTagIs
<1>4. Attached(top, stack, node, top', stack')
  BY <1>1, AttachDef
<1> HIDE DEF node
<1>5. first \in Token /\ second \in Token /\ second[1] # "text"
  BY <1>3 DEF Token
<1> DEFINE nodes2 == top'
           open2 == stack'
<1>6. /\ nodes2 \in Seq(Nodes[MaxDepth]) /\ StackOK(open2)
      /\ All(nodes2, open2) = all \o <<<<"open", node.name>>, <<"close", node.name>>>>
  BY <1>1, <1>2, <1>3, <1>4, TagAttached
<1>7. All(nodes2, open2) = all \o <<first, second>>
  BY <1>3, <1>6
<1> HIDE DEF all, first, second
<1>8. all \o <<first, second>> \in Seq(Token) /\ ~EndsWithText(all \o <<first, second>>)
  <2> DEFINE two == <<first, second>>
             s == all \o two
             n == Len(all) + 2
  <2>1. two \in Seq(Token) /\ Len(two) = 2 /\ two[2] = second
    BY <1>5
  <2>2. s \in Seq(Token) /\ Len(s) = n /\ s[n] = second
    <3>1. Len(all) \in Nat
      BY <1>2
    <3> HIDE DEF two
    <3>2. s \in Seq(Token) /\ Len(s) = Len(all) + Len(two)
          /\ \A i \in 1..Len(all) + Len(two) :
                 s[i] = IF i <= Len(all) THEN all[i] ELSE two[i - Len(all)]
      BY <1>2, <2>1, ConcatProperties
    <3> HIDE DEF s
    <3>3. n \in 1..Len(all) + Len(two) /\ ~(n <= Len(all)) /\ n - Len(all) = 2
      BY <2>1, <3>1
    <3> QED
      BY <2>1, <3>2, <3>3
  <2> HIDE DEF s, n
  <2>3. Last(s) = second
    BY <2>2 DEF Last
  <2> QED
    BY <1>5, <2>2, <2>3 DEF EndsWithText, s
<1>9. IsTree(top', stack', read')
  BY <1>1, <1>2, <1>6, <1>7, <1>8 DEF IsTree
<1>10. ModeOK'
  BY <1>1, <1>2, <1>8 DEF ModeOK
<1> QED
  BY <1>9, <1>10 DEF TreeOK

LEMMA TreeClose ==
    ASSUME TreeOK, NEW t \in Tags, CloseTag(t)
    PROVE  TreeOK' /\ ModeOK'
<1> DEFINE tag == Last(stack)
           token == <<"close", t.name>>
           all == All(top, stack)
<1>1. CASE stack = <<>>
  <2>1. Stops("fault")
    BY <1>1 DEF CloseTag
  <2> QED
    BY <2>1, TreeStops
<1>2. CASE stack # <<>> /\ tag.name # t.name
  <2>1. Stops("hung")
    BY <1>2 DEF CloseTag
  <2> QED
    BY <2>1, TreeStops
<1>3. CASE stack # <<>> /\ tag.name = t.name
  <2>1. Attach(tag, Front(stack)) /\ read' = Append(read, token) /\ mode' = "text"
    BY <1>3 DEF CloseTag
  <2>2. /\ top \in Seq(Nodes[MaxDepth]) /\ StackOK(stack) /\ all \in Seq(Token) /\ read = all
    BY DEF TreeOK, IsTree
  <2>3. Attached(top, Front(stack), tag, top', stack')
    BY <2>1, AttachDef
  <2> DEFINE nodes2 == top'
             open2 == stack'
  <2>4. /\ nodes2 \in Seq(Nodes[MaxDepth]) /\ StackOK(open2)
        /\ <<"close", tag.name>> \in Token
        /\ All(nodes2, open2) = Append(all, <<"close", tag.name>>)
    BY <1>3, <2>2, <2>3, TagClosed
  <2>5. token \in Token /\ token[1] # "text" /\ All(nodes2, open2) = Append(all, token)
    BY <1>3, <2>4
  <2> HIDE DEF all, token, tag
  <2>6. Append(all, token) \in Seq(Token) /\ Append(all, token) # <<>>
        /\ Last(Append(all, token)) = token
    BY <2>2, <2>5, LastIs
  <2>7. IsTree(top', stack', read')
    BY <2>1, <2>2, <2>4, <2>5, <2>6 DEF IsTree
  <2>8. ModeOK'
    BY <2>1, <2>2, <2>5, <2>6 DEF ModeOK, EndsWithText
  <2> QED
    BY <2>7, <2>8 DEF TreeOK
<1> QED
  BY <1>1, <1>2, <1>3

LEMMA TreeStep ==
    ASSUME TreeOK, ModeOK, [Next]_vars
    PROVE  TreeOK' /\ ModeOK'
<1>1. ASSUME NEW pieces \in TextPieces, ReadText(pieces) PROVE TreeOK' /\ ModeOK'
  BY <1>1, TreeText
<1>2. ASSUME NEW t \in Tags, OpenTag(t) PROVE TreeOK' /\ ModeOK'
  BY <1>2, TreeOpen
<1>3. ASSUME NEW t \in Tags, SelfClosingTag(t) PROVE TreeOK' /\ ModeOK'
  BY <1>3, TreeSelfClosing
<1>4. ASSUME NEW t \in Tags, CloseTag(t) PROVE TreeOK' /\ ModeOK'
  BY <1>4, TreeClose
<1>5. CASE ReadBadTag
  BY <1>5, TreeStops DEF ReadBadTag
<1>6. ASSUME UNCHANGED parser PROVE TreeOK' /\ ModeOK'
  BY <1>6 DEF parser, TreeOK, ModeOK
<1>7. CASE EndOfFile
  <2>1. (\E how : Stops(how)) \/ UNCHANGED parser
    BY <1>7, Zenon DEF EndOfFile
  <2> QED
    BY <1>6, <2>1, TreeStops
<1>8. ASSUME NEW id \in Ids, NEW forest \in Inner3ML, SetInner3ML(id, forest)
      PROVE  TreeOK' /\ ModeOK'
  <2>1. (\E how : Stops(how)) \/ UNCHANGED parser
    BY <1>8, Zenon DEF SetInner3ML
  <2> QED
    BY <1>6, <2>1, TreeStops
<1>9. CASE UNCHANGED vars
  BY <1>6, <1>9 DEF vars
<1> QED
  BY <1>1, <1>2, <1>3, <1>4, <1>5, <1>7, <1>8, <1>9 DEF Next

(* The nodes and the open tags are exactly what was read (parse_string,    *)
(* 3ml_parser.cpp:163-191), whatever the page, its tags and its texts.     *)
THEOREM TreeIsRead == Spec => []ReadsAll
<1>1. Init => TreeOK /\ ModeOK
  BY NoTree DEF Init, TreeOK, ModeOK
<1>2. TreeOK /\ ModeOK /\ [Next]_vars => TreeOK' /\ ModeOK'
  BY TreeStep
<1>3. TreeOK => ReadsAll
  BY Zenon DEF TreeOK, IsTree, All, StackTokens, ReadsAll
<1> QED
  BY <1>1, <1>2, <1>3, PTL DEF Spec

-----------------------------------------------------------------------------
(* The trees of the DOM                                                    *)

DomTypes == Types \cup {"PLAINTEXT"}

DomOf(forests) ==
    [type : DomTypes, id : STRING, lines : Seq(Texts), children : forests,
     num_selectable_children : Nat, selectable : BOOLEAN]

DomStep(nodes, depth) == DomOf(IF depth = 0 THEN {<<>>} ELSE Seq(nodes[depth - 1]))

LEMMA DomNodesIs == DomNodes = [depth \in 0..MaxDepth |-> DomStep(DomNodes, depth)]
<1> DEFINE Good(f, n) == f = [depth \in 0..n |-> DomStep(f, depth)]
           H == {n \in 0..MaxDepth : \E f : Good(f, n)}
<1>1. MaxDepth \in Nat /\ 0 \in Int /\ MaxDepth \in Int /\ 0 \in 0..MaxDepth /\ MaxDepth \in 0..MaxDepth
  BY CleanerAssumption
<1>2. 0 \in H
  <2> DEFINE f == [depth \in 0..0 |-> DomOf({<<>>})]
  <2>1. Good(f, 0)
    BY DEF DomStep
  <2> HIDE DEF f
  <2> QED
    BY <1>1, <2>1
<1>3. ASSUME NEW n \in 0..MaxDepth - 1, n \in H PROVE n + 1 \in H
  <2>1. PICK f : Good(f, n)
    BY <1>3
  <2> DEFINE g == [depth \in 0..n + 1 |-> IF depth <= n THEN f[depth] ELSE DomStep(f, depth)]
  <2>2. \A depth \in 0..n : g[depth] = f[depth]
    OBVIOUS
  <2>3. \A depth \in 0..n : f[depth] = DomStep(f, depth)
    BY <2>1
  <2>4. ASSUME NEW depth \in 0..n + 1 PROVE g[depth] = DomStep(f, depth)
    BY <2>3
  <2>5. g = [depth \in 0..n + 1 |-> g[depth]]
    OBVIOUS
  <2> HIDE DEF g
  <2>6. ASSUME NEW depth \in 0..n + 1 PROVE DomStep(f, depth) = DomStep(g, depth)
    <3>1. CASE depth = 0
      BY <3>1 DEF DomStep
    <3>2. CASE depth # 0
      <4>1. depth - 1 \in 0..n
        BY <3>2
      <4>2. f[depth - 1] = g[depth - 1]
        BY <2>2, <4>1
      <4> QED
        BY <4>2, Zenon DEF DomStep
    <3> QED
      BY <3>1, <3>2
  <2>7. Good(g, n + 1)
    <3>1. \A depth \in 0..n + 1 : g[depth] = DomStep(g, depth)
      BY <2>4, <2>6
    <3> QED
      BY <2>5, <3>1
  <2>8. n + 1 \in 0..MaxDepth
    BY <1>1
  <2> QED
    BY <2>7, <2>8
<1>4. Inductive(H, 0, MaxDepth)
  BY <1>3, Zenon DEF Inductive
<1> HIDE DEF H
<1>5. MaxDepth \in H
  BY <1>1, <1>2, <1>4, UpTo
<1>6. \E f : f = [depth \in 0..MaxDepth |-> DomStep(f, depth)]
  BY <1>5 DEF H
<1> QED
  BY <1>6, Zenon DEF DomNodes, DomStep, DomOf, DomTypes

LEMMA DomIs ==
    ASSUME NEW depth \in 0..MaxDepth
    PROVE  /\ depth = 0 => DomNodes[depth] = DomOf({<<>>})
           /\ depth # 0 => /\ depth - 1 \in 0..MaxDepth
                           /\ DomNodes[depth] = DomOf(Seq(DomNodes[depth - 1]))
<1>1. DomNodes[depth] = DomStep(DomNodes, depth)
  BY DomNodesIs
<1>2. MaxDepth \in Nat
  BY CleanerAssumption
<1>3. depth # 0 => depth - 1 \in 0..MaxDepth
  BY <1>2
<1> QED
  BY <1>1, <1>3 DEF DomStep

LEMMA DomGrow ==
    ASSUME NEW low \in 0..MaxDepth, NEW high \in low..MaxDepth
    PROVE  DomNodes[low] \subseteq DomNodes[high]
<1> DEFINE G == {d \in 0..MaxDepth : d > 0 => DomNodes[d - 1] \subseteq DomNodes[d]}
           H == {d \in low..MaxDepth : DomNodes[low] \subseteq DomNodes[d]}
<1>1. MaxDepth \in Nat /\ 0 \in Int /\ MaxDepth \in Int /\ 0 \in 0..MaxDepth /\ low \in Int /\ low \in low..MaxDepth
  BY CleanerAssumption
<1>2. ASSUME NEW d \in 0..MaxDepth - 1, d \in G PROVE d + 1 \in G
  <2>1. d + 1 \in 0..MaxDepth /\ d + 1 # 0 /\ (d + 1) - 1 = d /\ d \in 0..MaxDepth
    BY <1>1
  <2>2. DomNodes[d + 1] = DomOf(Seq(DomNodes[d]))
    <3> DEFINE e == d + 1
    <3>1. e \in 0..MaxDepth /\ e # 0 /\ e - 1 = d
      BY <2>1
    <3> HIDE DEF e
    <3>2. DomNodes[e] = DomOf(Seq(DomNodes[e - 1]))
      BY <3>1, DomIs
    <3> QED
      BY <3>1, <3>2 DEF e
  <2>3. CASE d = 0
    <3>1. DomNodes[d] = DomOf({<<>>})
      BY <2>1, <2>3, DomIs
    <3> DEFINE S == Seq(DomNodes[d])
    <3>3. <<>> \in S
      OBVIOUS
    <3> HIDE DEF S
    <3>4. DomOf({<<>>}) \subseteq DomOf(S)
      BY <3>3 DEF DomOf
    <3>2. DomOf({<<>>}) \subseteq DomOf(Seq(DomNodes[d]))
      BY <3>4 DEF S
    <3> QED
      BY <2>1, <2>2, <3>1, <3>2, Zenon
  <2>4. CASE d # 0
    <3>1. DomNodes[d] = DomOf(Seq(DomNodes[d - 1]))
      BY <2>1, <2>4, DomIs
    <3>2. DomNodes[d - 1] \subseteq DomNodes[d]
      BY <1>1, <1>2, <2>4
    <3> DEFINE S == DomNodes[d - 1]
               T == DomNodes[d]
    <3> HIDE DEF S, T
    <3>3. Seq(S) \subseteq Seq(T)
      BY <3>2 DEF S, T
    <3>4. DomOf(Seq(S)) \subseteq DomOf(Seq(T))
      BY <3>3 DEF DomOf
    <3>5. DomNodes[d] \subseteq DomNodes[d + 1]
      BY <2>2, <3>1, <3>4, Zenon DEF S, T
    <3> QED
      BY <2>1, <3>5
  <2> QED
    BY <2>3, <2>4
<1>3. \A d \in 0..MaxDepth : d \in G
  <2>1. 0 \in G
    BY <1>1
  <2>2. Inductive(G, 0, MaxDepth)
    BY <1>2, Zenon DEF Inductive
  <2> HIDE DEF G
  <2> QED
    BY <1>1, <2>1, <2>2, UpTo
<1>4. ASSUME NEW d \in low..MaxDepth - 1, d \in H PROVE d + 1 \in H
  <2>1. d + 1 \in 0..MaxDepth /\ d + 1 > 0 /\ (d + 1) - 1 = d /\ d + 1 \in low..MaxDepth
    BY <1>1
  <2>2. DomNodes[d] \subseteq DomNodes[d + 1]
    <3> DEFINE e == d + 1
    <3>1. e \in 0..MaxDepth /\ e > 0 /\ e - 1 = d
      BY <2>1
    <3> HIDE DEF e
    <3>2. DomNodes[e - 1] \subseteq DomNodes[e]
      BY <1>3, <3>1
    <3> QED
      BY <3>1, <3>2 DEF e
  <2>3. DomNodes[low] \subseteq DomNodes[d]
    BY <1>4
  <2> QED
    BY <2>1, <2>2, <2>3
<1>5. low \in H
  BY <1>1
<1>6. Inductive(H, low, MaxDepth)
  BY <1>4, Zenon DEF Inductive
<1> HIDE DEF H
<1>7. high \in H
  BY <1>1, <1>5, <1>6, UpTo
<1> QED
  BY <1>7 DEF H

LEMMA DomCases ==
    ASSUME NEW depth \in 0..MaxDepth, NEW node \in DomNodes[depth]
    PROVE  /\ node \in DomOf({<<>>}) \/ depth > 0
           /\ depth > 0 => /\ depth - 1 \in 0..MaxDepth
                           /\ node \in DomOf(Seq(DomNodes[depth - 1]))
                           /\ node.children \in Seq(DomNodes[depth - 1])
           /\ depth = 0 => node.children = <<>>
           /\ node.type \in DomTypes /\ node.id \in STRING /\ node.lines \in Seq(Texts)
           /\ node.num_selectable_children \in Nat /\ node.selectable \in BOOLEAN
           /\ ~Failed(node)
<1>1. ASSUME NEW f, NEW x \in DomOf(f)
      PROVE  /\ x.children \in f /\ x.type \in DomTypes /\ x.id \in STRING
             /\ x.lines \in Seq(Texts)
             /\ x.num_selectable_children \in Nat /\ x.selectable \in BOOLEAN
             /\ ~Failed(x)
  BY DEF DomOf, Failed
<1>2. CASE depth = 0
  BY <1>1, <1>2, DomIs
<1>3. CASE depth # 0
  <2>1. depth > 0
    BY <1>3
  <2>2. depth - 1 \in 0..MaxDepth /\ node \in DomOf(Seq(DomNodes[depth - 1]))
    BY <1>3, DomIs
  <2> QED
    BY <1>1, <2>1, <2>2
<1> QED
  BY <1>2, <1>3

DomClosed(H) ==
    \A node \in DomNodes[MaxDepth] :
        (\A i \in 1..Len(node.children) : node.children[i] \in H) => node \in H

LEMMA DomInduction ==
    ASSUME NEW H, DomClosed(H)
    PROVE  DomNodes[MaxDepth] \subseteq H
<1> DEFINE K == {d \in 0..MaxDepth : DomNodes[d] \subseteq H}
<1>1. MaxDepth \in Nat /\ 0 \in Int /\ MaxDepth \in Int /\ 0 \in 0..MaxDepth /\ MaxDepth \in 0..MaxDepth
  BY CleanerAssumption
<1>2. ASSUME NEW d \in 0..MaxDepth, NEW node \in DomNodes[d] PROVE node \in DomNodes[MaxDepth]
  <2>1. MaxDepth \in d..MaxDepth
    BY <1>1
  <2> QED
    BY <2>1, DomGrow
<1>3. 0 \in K
  <2>1. ASSUME NEW node \in DomNodes[0] PROVE node \in H
    <3>1. node.children = <<>>
      BY <1>1, DomCases
    <3>2. \A i \in 1..Len(node.children) : node.children[i] \in H
      BY <3>1
    <3> QED
      BY <1>1, <1>2, <3>2, Zenon DEF DomClosed
  <2> QED
    BY <1>1, <2>1
<1>4. ASSUME NEW d \in 0..MaxDepth - 1, d \in K PROVE d + 1 \in K
  <2> DEFINE e == d + 1
  <2>1. e \in 0..MaxDepth /\ e - 1 = d /\ e > 0
    BY <1>1
  <2> HIDE DEF e
  <2>2. ASSUME NEW node \in DomNodes[e] PROVE node \in H
    <3>1. node \in DomNodes[MaxDepth]
      BY <1>2, <2>1
    <3>2. node.children \in Seq(DomNodes[d])
      BY <2>1, DomCases
    <3>3. ASSUME NEW i \in 1..Len(node.children) PROVE node.children[i] \in H
      <4>1. node.children[i] \in DomNodes[d]
        BY <3>2, ElementOfSeq
      <4>2. DomNodes[d] \subseteq H
        BY <1>4
      <4> QED
        BY <4>1, <4>2
    <3> QED
      BY <3>1, <3>3, Zenon DEF DomClosed
  <2>3. e \in K
    BY <2>1, <2>2
  <2> QED
    BY <2>3 DEF e
<1>5. Inductive(K, 0, MaxDepth)
  BY <1>4, Zenon DEF Inductive
<1> HIDE DEF K
<1>6. MaxDepth \in K
  BY <1>1, <1>3, <1>5, UpTo
<1> QED
  BY <1>6 DEF K

(* What is known of a node wherever it is in the DOM.                      *)
LEMMA DomParts ==
    ASSUME NEW node \in DomNodes[MaxDepth]
    PROVE  /\ node.children \in Seq(DomNodes[MaxDepth])
           /\ node.children \in Seq(DomNodes[MaxDepth - 1])
           /\ node.type \in DomTypes /\ node.id \in STRING /\ node.lines \in Seq(Texts)
           /\ node.num_selectable_children \in Nat /\ node.selectable \in BOOLEAN
           /\ ~Failed(node)
<1>1. MaxDepth \in 0..MaxDepth /\ MaxDepth > 0
  BY CleanerAssumption
<1>2. MaxDepth - 1 \in 0..MaxDepth /\ MaxDepth \in MaxDepth - 1..MaxDepth
  <2>1. MaxDepth \in Nat /\ MaxDepth > 0
    BY CleanerAssumption
  <2> QED
    BY <2>1
<1>3. DomNodes[MaxDepth - 1] \subseteq DomNodes[MaxDepth]
  BY <1>2, DomGrow
<1>4. node.children \in Seq(DomNodes[MaxDepth - 1])
  BY <1>1, DomCases
<1>5. node.children \in Seq(DomNodes[MaxDepth])
  BY <1>3, <1>4, SeqMonotonic
<1> QED
  BY <1>1, <1>4, <1>5, DomCases

-----------------------------------------------------------------------------
(* Cleaning one node                                                       *)

Failures == {Hang, Fault}

LEMMA FailuresFail == \A x \in Failures : Failed(x)
  BY DEF Failures, Hang, Fault, Failed

(* The attributes of a name.                                               *)
Named(attributes, name) == Filter(attributes, LAMBDA attr : attr[1] = name)

LEMMA NamedIs ==
    ASSUME NEW S, NEW attributes \in Seq(S), NEW name
    PROVE  Named(attributes, name) \in Seq({attr \in S : attr[1] = name})
<1> DEFINE T == {attr \in S : attr[1] = name}
           seqs == [i \in DOMAIN attributes |->
                      IF attributes[i][1] = name THEN <<attributes[i]>> ELSE <<>>]
<1>1. seqs \in Seq(Seq(T))
  <2>1. ASSUME NEW i \in 1..Len(attributes)
        PROVE  (IF attributes[i][1] = name THEN <<attributes[i]>> ELSE <<>>) \in Seq(T)
    <3> DEFINE x == attributes[i]
    <3>1. x \in S
      OBVIOUS
    <3> HIDE DEF x
    <3>2. CASE x[1] = name
      <4>1. x \in T
        BY <3>1, <3>2
      <4> HIDE DEF T
      <4> QED
        BY <3>2, <4>1 DEF x
    <3>3. CASE x[1] # name
      <4> HIDE DEF T
      <4> QED
        BY <3>3 DEF x
    <3> QED
      BY <3>2, <3>3
  <2>2. \A i \in 1..Len(attributes) : seqs[i] \in Seq(T)
    <3> HIDE DEF T
    <3> QED
      BY <2>1
  <2>3. seqs = [i \in 1..Len(attributes) |-> seqs[i]] /\ Len(attributes) \in Nat
    OBVIOUS
  <2> HIDE DEF T, seqs
  <2> QED
    BY <2>2, <2>3
<1>2. Named(attributes, name) = FlattenSeq(seqs)
  BY Zenon DEF Named, Filter
<1> HIDE DEF seqs, T
<1>3. FlattenSeq(seqs) \in Seq(T)
  BY <1>1, FlattenType
<1> QED
  BY <1>2, <1>3 DEF T

AreValues(values, attributes, name) ==
    \A i \in 1..Len(values) :
        \E k \in DOMAIN attributes : attributes[k][1] = name /\ values[i] = attributes[k][2]

LEMMA ValuesAre ==
    ASSUME NEW attributes \in Attributes, NEW name
    PROVE  /\ Values(attributes, name) \in Seq({attr[2] : attr \in ToSet(attributes)})
           /\ AreValues(Values(attributes, name), attributes, name)
<1> DEFINE S == ToSet(attributes)
           T == {attr \in S : attr[1] = name}
           named == Named(attributes, name)
           U == {attr[2] : attr \in S}
<1>1. attributes \in Seq(S)
  BY CleanerAssumption
<1>2. named \in Seq(T)
  BY <1>1, NamedIs
<1>3. Values(attributes, name) = [i \in DOMAIN named |-> named[i][2]]
  BY Zenon DEF Values, Named
<1> HIDE DEF named
<1>4. \A i \in 1..Len(named) : named[i] \in T
  BY <1>2
<1>5. \A i \in 1..Len(named) : named[i][2] \in U /\ named[i] \in S /\ named[i][1] = name
  BY <1>4
<1> DEFINE values == [i \in DOMAIN named |-> named[i][2]]
<1>6. values \in Seq(U) /\ Len(values) = Len(named) /\ \A i \in 1..Len(named) : values[i] = named[i][2]
  <2> HIDE DEF T, U, S
  <2> QED
    BY <1>2, <1>5
<1>7. \A x \in S : \E k \in DOMAIN attributes : attributes[k] = x
  BY DEF ToSet
<1> HIDE DEF values, U
<1>8. \A i \in 1..Len(values) :
          \E k \in DOMAIN attributes : attributes[k][1] = name /\ values[i] = attributes[k][2]
  BY <1>5, <1>6, <1>7
<1>9. Values(attributes, name) = values
  BY <1>3 DEF values
<1>10. AreValues(values, attributes, name)
  BY <1>8 DEF AreValues
<1> QED
  BY <1>6, <1>9, <1>10 DEF U

LEMMA IdIs ==
    ASSUME NEW dirty, dirty.attributes \in Attributes
    PROVE  Id(dirty) \in STRING
<1> DEFINE ids == Values(dirty.attributes, "id")
<1>1. CASE ids = <<>>
  BY <1>1, PlainTextAssumption, Zenon DEF Id
<1>2. CASE ids # <<>>
  <2>1. ids \in Seq({attr[2] : attr \in ToSet(dirty.attributes)})
    BY ValuesAre
  <2>2. \A i \in 1..Len(ids) : \E k \in DOMAIN dirty.attributes :
            dirty.attributes[k][1] = "id" /\ ids[i] = dirty.attributes[k][2]
    <3> DEFINE n == "id"
    <3> HIDE DEF n
    <3>1. AreValues(Values(dirty.attributes, n), dirty.attributes, n)
      BY ValuesAre
    <3> QED
      BY <3>1, Zenon DEF n, AreValues
  <2>3. Id(dirty) = Head(ids)
    BY <1>2, Zenon DEF Id
  <2>4. \A k \in DOMAIN dirty.attributes :
            dirty.attributes[k][1] = "id" => dirty.attributes[k][2] \in STRING
    BY CleanerAssumption, Zenon
  <2>5. \A i \in 1..Len(ids) : ids[i] \in STRING
    BY <2>2, <2>4, Zenon
  <2> HIDE DEF ids
  <2>6. 1 \in 1..Len(ids) /\ Head(ids) = ids[1]
    BY <1>2, <2>1
  <2> QED
    BY <2>3, <2>5, <2>6
<1> QED
  BY <1>1, <1>2

LEMMA InputTypeIs ==
    ASSUME NEW S, NEW types \in Seq(S)
    PROVE  InputType(types) \in Types \cup {"invalid"}
<1>1. "A" \in Types /\ "TEXT_INPUT" \in Types /\ "SLIDER" \in Types
  <2>1. TagTypes["a"] = "A" /\ "a" \in DOMAIN TagTypes
    BY DEF TagTypes
  <2> QED
    BY <2>1, Zenon DEF Types
<1>2. CASE \E i \in DOMAIN types : types[i] \notin {"text", "range"}
  BY <1>2, Zenon DEF InputType
<1>3. CASE types = <<>>
  <2>1. ~\E i \in DOMAIN types : types[i] \notin {"text", "range"}
    BY <1>3
  <2> QED
    BY <1>1, <1>3, <2>1, Zenon DEF InputType
<1>4. CASE types # <<>> /\ ~\E i \in DOMAIN types : types[i] \notin {"text", "range"}
  <2>1. Len(types) \in DOMAIN types
    BY <1>4
  <2>2. Last(types) \in {"text", "range"}
    BY <1>4, <2>1, Zenon DEF Last
  <2>3. "text" # "range"
    OBVIOUS
  <2> QED
    BY <1>1, <1>4, <2>2, <2>3, Zenon DEF InputType
<1> QED
  BY <1>2, <1>3, <1>4

LEMMA NodeTypeIs ==
    ASSUME NEW dirty \in Elements
    PROVE  NodeType(dirty) \in Types \cup {"invalid"}
<1>1. dirty.attributes \in Attributes
  BY NodeParts DEF Elements
<1>2. CASE dirty.name = "input"
  <2>1. NodeType(dirty) = InputType(Values(dirty.attributes, "type"))
    <3>1. "input" \notin DOMAIN TagTypes
      BY DEF TagTypes
    <3> QED
      BY <1>2, <3>1, Zenon DEF NodeType
  <2> QED
    BY <1>1, <2>1, ValuesAre, InputTypeIs
<1>3. CASE dirty.name # "input" /\ dirty.name \in DOMAIN TagTypes
  BY <1>3, Zenon DEF NodeType, Types
<1>4. CASE dirty.name # "input" /\ dirty.name \notin DOMAIN TagTypes
  BY <1>4, Zenon DEF NodeType
<1> QED
  BY <1>2, <1>3, <1>4

(* A new element is a leaf of its type, or the firmware hangs.             *)
NewElementNode(node, type, id) ==
    node = [type |-> type, id |-> id, lines |-> <<>>, children |-> <<>>,
            num_selectable_children |-> 0,
            selectable |-> type \in {"A", "BUTTON", "SLIDER", "TEXT_INPUT"}]

MayBe(dirty) == NodeType(dirty) # "invalid" /\ HasAttributes(NodeType(dirty), dirty.attributes)

LEMMA NewNodeIs ==
    ASSUME NEW dirty \in Elements
    PROVE  /\ ~MayBe(dirty) => NewNode(dirty) = Hang
           /\ MayBe(dirty) => /\ NewElementNode(NewNode(dirty), NodeType(dirty), Id(dirty))
                              /\ NewNode(dirty) \in DomOf({<<>>})
                              /\ NewNode(dirty).type = NodeType(dirty)
                              /\ NodeType(dirty) \in Types
                              /\ NewNode(dirty).children = <<>>
                              /\ NewNode(dirty).num_selectable_children = 0
                              /\ ~Failed(NewNode(dirty))
<1>1. ASSUME ~MayBe(dirty) PROVE NewNode(dirty) = Hang
  BY <1>1, Zenon DEF NewNode, MayBe
<1>2. ASSUME MayBe(dirty)
      PROVE  NewElementNode(NewNode(dirty), NodeType(dirty), Id(dirty)) /\ NodeType(dirty) \in Types
  <2>1. NewElementNode(NewNode(dirty), NodeType(dirty), Id(dirty))
    BY <1>2, Zenon DEF NewNode, MayBe, NewElementNode
  <2>2. NodeType(dirty) \in Types
    BY <1>2, NodeTypeIs, Zenon DEF MayBe
  <2> QED
    BY <2>1, <2>2
<1>3. dirty.attributes \in Attributes
  BY NodeParts DEF Elements
<1>4. Id(dirty) \in STRING
  BY <1>3, IdIs
<1>5. ASSUME NEW node, NEW type \in Types, NEW id \in STRING, NewElementNode(node, type, id)
      PROVE  /\ node \in DomOf({<<>>}) /\ node.type = type /\ node.children = <<>>
             /\ node.num_selectable_children = 0 /\ ~Failed(node)
  <2> DEFINE b == type \in {"A", "BUTTON", "SLIDER", "TEXT_INPUT"}
  <2>1. b \in BOOLEAN
    OBVIOUS
  <2>2. node = [type |-> type, id |-> id, lines |-> <<>>, children |-> <<>>,
                num_selectable_children |-> 0, selectable |-> b]
    BY <1>5, Zenon DEF NewElementNode
  <2> HIDE DEF b
  <2>3. type \in DomTypes
    BY Zenon DEF DomTypes
  <2> QED
    BY <2>1, <2>2, <2>3 DEF DomOf, Failed
<1> DEFINE node == NewNode(dirty)
           type == NodeType(dirty)
           id == Id(dirty)
<1> HIDE DEF node, type, id
<1>6. ASSUME type \in Types, id \in STRING, NewElementNode(node, type, id)
      PROVE  /\ node \in DomOf({<<>>}) /\ node.type = type /\ node.children = <<>>
             /\ node.num_selectable_children = 0 /\ ~Failed(node)
  BY <1>5, <1>6
<1> QED
  BY <1>1, <1>2, <1>4, <1>6, Zenon DEF node, type, id

LEMMA WidthIs ==
    ASSUME NEW type \in Types
    PROVE  Columns[type] \in Nat \ {0}
  BY CleanerAssumption, Zenon

LEMMA NotNone == "none" \notin Types /\ "invalid" \notin Types /\ "PLAINTEXT" \notin Types
<1>1. ASSUME NEW type \in Types
      PROVE  type \in {"TITLE", "DIV", "HEAD", "BODY", "SCRIPT", "H1", "A", "BUTTON",
                       "SLIDER", "TEXT_INPUT"}
  <2>1. CASE type \in {"SLIDER", "TEXT_INPUT"}
    BY <2>1
  <2>2. CASE \E name \in DOMAIN TagTypes : type = TagTypes[name]
    BY <2>2 DEF TagTypes
  <2> QED
    BY <2>1, <2>2, Zenon DEF Types
<1>2. \A type \in {"TITLE", "DIV", "HEAD", "BODY", "SCRIPT", "H1", "A", "BUTTON",
                       "SLIDER", "TEXT_INPUT"} : type \notin {"none", "invalid", "PLAINTEXT"}
  OBVIOUS
<1> QED
  BY <1>1, <1>2, Zenon

(* A text is a leaf of the lines it is wrapped into.                       *)
NewTextNode(node, lines) ==
    node = [type |-> "PLAINTEXT", id |-> "", lines |-> lines, children |-> <<>>,
            num_selectable_children |-> 0, selectable |-> FALSE]

LEMMA NewTextIs ==
    ASSUME NEW text \in Texts, NEW type \in Types
    PROVE  LET wrapped == Wrap(text, Columns[type])
               node == NewText(text, type)
           IN  /\ wrapped.error => node = Hang
               /\ ~wrapped.error => /\ NewTextNode(node, wrapped.lines)
                                    /\ node \in DomOf({<<>>}) /\ node.type = "PLAINTEXT"
                                    /\ node.lines = wrapped.lines
                                    /\ node.children = <<>> /\ ~Failed(node)
                                    /\ node.num_selectable_children = 0 /\ node.selectable = FALSE
<1> DEFINE wrapped == Wrap(text, Columns[type])
           node == NewText(text, type)
           lines == wrapped.lines
<1>1. type # "none"
  BY NotNone
<1>2. ASSUME wrapped.error PROVE node = Hang
  BY <1>1, <1>2, Zenon DEF NewText
<1>3. ASSUME ~wrapped.error PROVE NewTextNode(node, lines) /\ lines \in Seq(Texts)
  <2>1. NewTextNode(node, lines)
    BY <1>1, <1>3, Zenon DEF NewText, NewTextNode
  <2>2. text \in Seq(STRING)
    BY DEF Texts
  <2>3. wrapped.error = FALSE
    BY <1>3, <2>2, WidthIs, WrapFails
  <2>4. lines \in Seq(Seq(STRING))
    BY <2>2, <2>3, WidthIs, WrapCuts
  <2> QED
    BY <2>1, <2>4 DEF Texts
<1>4. ASSUME NEW x, NEW ls \in Seq(Texts), NewTextNode(x, ls)
      PROVE  /\ x \in DomOf({<<>>}) /\ x.type = "PLAINTEXT" /\ x.lines = ls
             /\ x.children = <<>> /\ ~Failed(x)
             /\ x.num_selectable_children = 0 /\ x.selectable = FALSE
  <2> DEFINE plain == "PLAINTEXT"
             none == ""
  <2>1. plain \in DomTypes /\ none \in STRING
    BY PlainTextAssumption, Zenon DEF DomTypes
  <2>2. x = [type |-> plain, id |-> none, lines |-> ls, children |-> <<>>,
             num_selectable_children |-> 0, selectable |-> FALSE]
    BY <1>4, Zenon DEF NewTextNode
  <2> SUFFICES /\ x \in DomOf({<<>>}) /\ x.type = plain /\ x.lines = ls
               /\ x.children = <<>> /\ ~Failed(x)
               /\ x.num_selectable_children = 0 /\ x.selectable = FALSE
    BY Zenon
  <2> HIDE DEF plain, none
  <2> QED
    BY <2>1, <2>2 DEF DomOf, Failed
<1> HIDE DEF node, lines, wrapped
<1>5. ASSUME NewTextNode(node, lines), lines \in Seq(Texts)
      PROVE  /\ node \in DomOf({<<>>}) /\ node.type = "PLAINTEXT" /\ node.lines = lines
             /\ node.children = <<>> /\ ~Failed(node)
             /\ node.num_selectable_children = 0 /\ node.selectable = FALSE
  BY <1>4, <1>5
<1> QED
  BY <1>2, <1>3, <1>5, Zenon DEF node, lines, wrapped

-----------------------------------------------------------------------------
(* Adding the children                                                     *)

(* The nodes of the DOM, as far as adding them goes.                       *)
AreNodes(S) ==
    \A x \in S : ~Failed(x) /\ x.num_selectable_children \in Nat /\ x.selectable \in BOOLEAN

LEMMA DomAreNodes ==
    ASSUME NEW d \in 0..MaxDepth
    PROVE  AreNodes(DomNodes[d])
  BY DomCases DEF AreNodes

Grown(node, child) ==
    [node EXCEPT !.children = Append(@, child),
                 !.num_selectable_children = @ + Selectables(child)]

LEMMA GrownIs ==
    ASSUME NEW S, AreNodes(S), NEW node \in DomOf(Seq(S)), NEW child \in S
    PROVE  /\ Selectables(child) \in Nat
           /\ Grown(node, child) \in DomOf(Seq(S))
           /\ Grown(node, child).children = Append(node.children, child)
           /\ Grown(node, child).num_selectable_children
                  = node.num_selectable_children + Selectables(child)
           /\ Grown(node, child).type = node.type
           /\ Grown(node, child).id = node.id
           /\ Grown(node, child).selectable = node.selectable
           /\ Grown(node, child).lines = node.lines
<1>1. Selectables(child) \in Nat
  <2>1. child.num_selectable_children \in Nat /\ child.selectable \in BOOLEAN
    BY DEF AreNodes
  <2> QED
    BY <2>1 DEF Selectables
<1> DEFINE n == Selectables(child)
<1> HIDE DEF n
<1>2. n \in Nat
  BY <1>1 DEF n
<1>3. Grown(node, child) = [node EXCEPT !.children = Append(@, child),
                                        !.num_selectable_children = @ + n]
  BY Zenon DEF Grown, n
<1>4. node.children \in Seq(S) /\ node.num_selectable_children \in Nat
  BY DEF DomOf
<1>5. Append(node.children, child) \in Seq(S) /\ node.num_selectable_children + n \in Nat
  BY <1>2, <1>4
<1> QED
  BY <1>1, <1>3, <1>4, <1>5 DEF DomOf, n

AddOne(parent, child) == IF Failed(parent) THEN parent ELSE AddChild(parent, child)

LEMMA AddOneIs ==
    ASSUME NEW S, AreNodes(S), NEW T, T = DomOf(Seq(S)) \cup Failures,
           NEW parent \in T, NEW child \in S \cup Failures
    PROVE  AddOne(parent, child) \in T
<1>1. CASE Failed(parent)
  BY <1>1 DEF AddOne
<1>2. CASE ~Failed(parent)
  <2>1. AddOne(parent, child) = AddChild(parent, child)
    BY <1>2 DEF AddOne
  <2>2. parent \in DomOf(Seq(S))
    BY <1>2, FailuresFail
  <2>3. CASE Failed(child)
    <3>1. child \in Failures
      BY <2>3 DEF AreNodes
    <3> QED
      BY <2>1, <2>3, <3>1 DEF AddChild
  <2>4. CASE ~Failed(child)
    <3>1. child \in S
      BY <2>4, FailuresFail
    <3>2. Grown(parent, child) \in DomOf(Seq(S))
      BY <2>2, <3>1, GrownIs
    <3>3. AddChild(parent, child) \in {parent, Hang, Grown(parent, child)}
      BY <2>4, Zenon DEF AddChild, Grown
    <3>4. Hang \in Failures
      BY DEF Failures
    <3> QED
      BY <2>1, <3>2, <3>3, <3>4
  <2> QED
    BY <2>3, <2>4
<1> QED
  BY <1>1, <1>2

(* f[i] is what has come of a node with the first i of its children.       *)
Adding(f, node, children) ==
    /\ f[0] = node
    /\ \A i \in 1..Len(children) : f[i] = AddOne(f[i - 1], children[i])

LEMMA AddChildrenIs ==
    ASSUME NEW S, AreNodes(S), NEW node \in DomOf(Seq(S)), NEW children \in Seq(S \cup Failures)
    PROVE  \E f \in [0..Len(children) -> DomOf(Seq(S)) \cup Failures] :
               Adding(f, node, children) /\ AddChildren(node, children) = f[Len(children)]
<1> DEFINE T == DomOf(Seq(S)) \cup Failures
           n == Len(children)
           step == [i \in 0 + 1..n |-> [x \in T |-> AddOne(x, children[i])]]
<1>1. n \in Nat /\ 0 \in Int /\ n \in Int /\ 0 <= n /\ node \in T
  OBVIOUS
<1>2. step \in [0 + 1..n -> [T -> T]]
  <2>1. ASSUME NEW i \in 0 + 1..n, NEW x \in T PROVE AddOne(x, children[i]) \in T
    <3>1. children[i] \in S \cup Failures
      OBVIOUS
    <3> QED
      BY <3>1, AddOneIs
  <2> HIDE DEF T
  <2> QED
    BY <2>1
<1>3. \A i \in 0 + 1..n, x \in T : step[i][x] = AddOne(x, children[i])
  OBVIOUS
<1> HIDE DEF step, T
<1>4. PICK f \in [0..n -> T] : f[0] = node /\ Follows(f, step, 0, n)
  BY <1>1, <1>2, Recursion
<1>5. ASSUME NEW i \in 1..n PROVE f[i] = AddOne(f[i - 1], children[i])
  <2>1. i \in 0 + 1..n /\ i - 1 \in 0..n
    BY <1>1
  <2>2. f[i] = step[i][f[i - 1]]
    BY <1>4, <2>1 DEF Follows
  <2> QED
    BY <1>3, <2>1, <2>2
<1> DEFINE Step(g, i) == IF i = 0 THEN node ELSE AddOne(g[i - 1], children[i])
           added[i \in 0..Len(children)] ==
               IF i = 0 THEN node
               ELSE LET parent == added[i - 1]
                    IN  IF Failed(parent) THEN parent ELSE AddChild(parent, children[i])
<1>6. f = [i \in 0..n |-> Step(f, i)]
  <2>1. ASSUME NEW i \in 0..n PROVE f[i] = Step(f, i)
    <3>1. i = 0 \/ i \in 1..n
      BY <1>1
    <3> QED
      BY <1>1, <1>4, <1>5, <3>1
  <2>2. f = [i \in 0..n |-> f[i]]
    OBVIOUS
  <2> QED
    BY <2>1, <2>2
<1>7. \E g : g = [i \in 0..n |-> Step(g, i)]
  BY <1>6
<1>8. added = [i \in 0..n |-> Step(added, i)]
  BY <1>7, Zenon DEF AddOne
<1>9. AddChildren(node, children) = added[n]
  BY Zenon DEF AddChildren
<1> HIDE DEF added
<1>10. \A i \in 0..n : added[i] = Step(added, i)
  BY <1>8
<1> DEFINE H == {i \in 0..n : added[i] = f[i]}
<1>11. 0 \in H
  BY <1>1, <1>4, <1>10
<1>12. ASSUME NEW i \in 0..n - 1, i \in H PROVE i + 1 \in H
  <2> DEFINE e == i + 1
  <2>1. e \in 0..n /\ e \in 1..n /\ e # 0 /\ e - 1 = i
    BY <1>1
  <2> HIDE DEF e
  <2>2. added[e] = AddOne(added[e - 1], children[e])
    BY <1>10, <2>1
  <2>3. f[e] = AddOne(f[e - 1], children[e])
    BY <1>5, <2>1
  <2>4. e \in H
    BY <1>12, <2>1, <2>2, <2>3
  <2> QED
    BY <2>4 DEF e
<1>13. Inductive(H, 0, n)
  BY <1>12, Zenon DEF Inductive
<1>14. added[n] = f[n]
  <2> HIDE DEF H, n
  <2>1. \A i \in 0..n : i \in H
    BY <1>1, <1>11, <1>13, UpTo
  <2>2. n \in 0..n
    BY <1>1
  <2> QED
    BY <2>1, <2>2 DEF H
<1>15. Adding(f, node, children)
  BY <1>4, <1>5 DEF Adding
<1> QED
  BY <1>9, <1>14, <1>15 DEF T

-----------------------------------------------------------------------------
(* Cleaning a tree                                                         *)

CleanOne(f, child, type) == IF IsText(child) THEN NewText(child.text, type) ELSE f[child]

CleanChildren(f, dirty) ==
    [i \in DOMAIN dirty.children |-> CleanOne(f, dirty.children[i], NewNode(dirty).type)]

CleanStep(f, dirty) ==
    IF Failed(NewNode(dirty)) THEN NewNode(dirty)
    ELSE AddChildren(NewNode(dirty), CleanChildren(f, dirty))

CleanOrText(f, node) == IF IsText(node) THEN <<>> ELSE CleanStep(f, node)

LEMMA CleanIs ==
    \A dirty \in Elements : CleanElement[dirty] = CleanStep(CleanElement, dirty)
<1> DEFINE Good(f, d) == \A node \in Nodes[d] : f[node] = CleanOrText(f, node)
           H == {d \in 0..MaxDepth : \E f : Good(f, d)}
<1>1. MaxDepth \in Nat /\ 0 \in Int /\ MaxDepth \in Int /\ 0 \in 0..MaxDepth
  BY CleanerAssumption
<1>2. ASSUME NEW d \in 0..MaxDepth, NEW f, NEW g, NEW node \in Nodes[d],
             d > 0 => \A x \in Nodes[d - 1] : f[x] = g[x]
      PROVE  CleanOrText(f, node) = CleanOrText(g, node)
  <2>0. CASE IsText(node)
    BY <2>0, Zenon DEF CleanOrText
  <2>9. CASE ~IsText(node)
    <3>1. d > 0 /\ node.children \in Seq(Nodes[d - 1])
      BY <2>9, NodeCases
    <3>2. ASSUME NEW i \in DOMAIN node.children
          PROVE  CleanOne(f, node.children[i], NewNode(node).type)
                     = CleanOne(g, node.children[i], NewNode(node).type)
      <4>1. node.children[i] \in Nodes[d - 1]
        BY <3>1
      <4> QED
        BY <1>2, <3>1, <4>1, Zenon DEF CleanOne
    <3>3. CleanChildren(f, node) = CleanChildren(g, node)
      BY <3>2, Zenon DEF CleanChildren
    <3> QED
      BY <3>3, Zenon DEF CleanStep, CleanOrText
  <2> QED
    BY <2>0, <2>9
<1>3. 0 \in H
  <2> DEFINE f == [node \in Nodes[0] |-> CleanOrText(<<>>, node)]
  <2>1. \A node \in Nodes[0] : f[node] = CleanOrText(<<>>, node)
    OBVIOUS
  <2> HIDE DEF f
  <2>2. \A node \in Nodes[0] : CleanOrText(<<>>, node) = CleanOrText(f, node)
    BY <1>1, <1>2
  <2>3. Good(f, 0)
    BY <2>1, <2>2
  <2> HIDE DEF Good
  <2> QED
    BY <1>1, <2>3
<1>4. ASSUME NEW d \in 0..MaxDepth - 1, d \in H PROVE d + 1 \in H
  <2> DEFINE e == d + 1
  <2>1. e \in 0..MaxDepth /\ e - 1 = d /\ d \in 0..MaxDepth /\ e \in d..MaxDepth
    BY <1>1
  <2> HIDE DEF e
  <2>2. PICK f : Good(f, d)
    BY <1>4
  <2> DEFINE g == [node \in Nodes[e] |-> CleanOrText(f, node)]
  <2>3. \A node \in Nodes[e] : g[node] = CleanOrText(f, node)
    OBVIOUS
  <2> HIDE DEF g
  <2>4. \A node \in Nodes[d] : f[node] = g[node]
    <3>1. Nodes[d] \subseteq Nodes[e]
      BY <2>1, NodesGrow
    <3> QED
      BY <2>2, <2>3, <3>1
  <2>5. \A node \in Nodes[e] : CleanOrText(f, node) = CleanOrText(g, node)
    BY <1>2, <2>1, <2>4
  <2>6. Good(g, e)
    BY <2>3, <2>5
  <2> HIDE DEF Good
  <2>7. e \in H
    BY <2>1, <2>6
  <2> QED
    BY <2>7 DEF e
<1>5. Inductive(H, 0, MaxDepth)
  BY <1>4, Zenon DEF Inductive
<1>6. \E f : f = [node \in Nodes[MaxDepth] |-> CleanOrText(f, node)]
  <2>1. \E f : Good(f, MaxDepth)
    <3> HIDE DEF H
    <3>1. MaxDepth \in H
      BY <1>1, <1>3, <1>5, UpTo
    <3> QED
      BY <3>1 DEF H
  <2>2. PICK f : Good(f, MaxDepth)
    BY <2>1
  <2> DEFINE g == [node \in Nodes[MaxDepth] |-> f[node]]
  <2>3. \A node \in Nodes[MaxDepth] : f[node] = g[node]
    OBVIOUS
  <2>4. g = [node \in Nodes[MaxDepth] |-> g[node]]
    OBVIOUS
  <2> HIDE DEF g
  <2>5. \A node \in Nodes[MaxDepth] : CleanOrText(f, node) = CleanOrText(g, node)
    <3>1. MaxDepth > 0 => MaxDepth - 1 \in 0..MaxDepth /\ MaxDepth \in MaxDepth - 1..MaxDepth
      BY <1>1
    <3>2. MaxDepth > 0 => Nodes[MaxDepth - 1] \subseteq Nodes[MaxDepth]
      BY <3>1, NodesGrow
    <3>3. MaxDepth \in 0..MaxDepth
      BY <1>1
    <3>4. MaxDepth > 0 => \A x \in Nodes[MaxDepth - 1] : f[x] = g[x]
      BY <2>3, <3>2
    <3> QED
      BY <1>2, <3>3, <3>4
  <2>6. \A node \in Nodes[MaxDepth] : g[node] = CleanOrText(g, node)
    BY <2>2, <2>3, <2>5
  <2>7. g = [node \in Nodes[MaxDepth] |-> CleanOrText(g, node)]
    BY <2>4, <2>6
  <2> QED
    BY <2>7
<1>7. PICK f : f = [node \in Nodes[MaxDepth] |-> CleanOrText(f, node)]
  BY <1>6
<1> DEFINE g == [dirty \in Elements |-> f[dirty]]
<1>8. \A dirty \in Elements : g[dirty] = f[dirty]
  OBVIOUS
<1>9. g = [dirty \in Elements |-> g[dirty]]
  OBVIOUS
<1> HIDE DEF g
<1>10. ASSUME NEW dirty \in Elements PROVE g[dirty] = CleanStep(g, dirty)
  <2>1. dirty \in Nodes[MaxDepth] /\ ~IsText(dirty)
    BY DEF Elements
  <2>2. dirty.children \in Seq(Nodes[MaxDepth])
    BY <2>1, NodeParts
  <2>3. ASSUME NEW i \in DOMAIN dirty.children
        PROVE  CleanOne(f, dirty.children[i], NewNode(dirty).type)
                   = CleanOne(g, dirty.children[i], NewNode(dirty).type)
    <3>1. dirty.children[i] \in Nodes[MaxDepth]
      BY <2>2
    <3>2. ~IsText(dirty.children[i]) => dirty.children[i] \in Elements
      BY <3>1 DEF Elements
    <3> QED
      BY <1>8, <3>2, Zenon DEF CleanOne
  <2>4. CleanChildren(f, dirty) = CleanChildren(g, dirty)
    BY <2>3, Zenon DEF CleanChildren
  <2>5. f[dirty] = CleanStep(f, dirty)
    <3>1. f[dirty] = CleanOrText(f, dirty)
      BY <1>7, <2>1
    <3> QED
      BY <2>1, <3>1, Zenon DEF CleanOrText
  <2>6. CleanStep(f, dirty) = CleanStep(g, dirty)
    BY <2>4, Zenon DEF CleanStep
  <2> QED
    BY <1>8, <2>5, <2>6
<1>11. \E h : h = [dirty \in Elements |-> CleanStep(h, dirty)]
  <2>1. g = [dirty \in Elements |-> CleanStep(g, dirty)]
    BY <1>9, <1>10
  <2> QED
    BY <2>1
<1>12. CleanElement = [dirty \in Elements |-> CleanStep(CleanElement, dirty)]
  BY <1>11, Zenon DEF CleanElement, CleanStep, CleanChildren, CleanOne
<1> QED
  BY <1>12

Holds(f, n, T) == f = [i \in 1..n |-> f[i]] /\ \A i \in 1..n : f[i] \in T

LEMMA MakeSeq ==
    ASSUME NEW f, NEW n \in Nat, NEW T, Holds(f, n, T)
    PROVE  f \in Seq(T) /\ Len(f) = n
  BY DEF Holds

(* What cleaning an element comes to is nested no deeper.                  *)
LEMMA CleanTyped ==
    ASSUME NEW d \in 0..MaxDepth, NEW dirty \in Nodes[d], ~IsText(dirty)
    PROVE  /\ CleanElement[dirty] \in DomNodes[d] \cup Failures
           /\ ~Failed(NewNode(dirty)) =>
                  /\ d - 1 \in 0..MaxDepth
                  /\ CleanChildren(CleanElement, dirty) \in Seq(DomNodes[d - 1] \cup Failures)
                  /\ NewNode(dirty) \in DomOf(Seq(DomNodes[d - 1]))
<1> DEFINE Good(n) == \A x \in Nodes[n] : ~IsText(x) =>
               /\ CleanElement[x] \in DomNodes[n] \cup Failures
               /\ ~Failed(NewNode(x)) =>
                      /\ n - 1 \in 0..MaxDepth
                      /\ CleanChildren(CleanElement, x) \in Seq(DomNodes[n - 1] \cup Failures)
                      /\ NewNode(x) \in DomOf(Seq(DomNodes[n - 1]))
           H == {n \in 0..MaxDepth : Good(n)}
<1>1. MaxDepth \in Nat /\ 0 \in Int /\ MaxDepth \in Int /\ 0 \in 0..MaxDepth
  BY CleanerAssumption
<1>2. 0 \in H
  <2>1. \A x \in Nodes[0] : IsText(x)
    BY <1>1, NodeCases
  <2> QED
    BY <1>1, <2>1
<1>3. ASSUME NEW k \in 0..MaxDepth - 1, k \in H PROVE k + 1 \in H
  <2> DEFINE e == k + 1
  <2>1. e \in 0..MaxDepth /\ e # 0 /\ e - 1 = k /\ k \in 0..MaxDepth
    BY <1>1
  <2> HIDE DEF e
  <2>2. ASSUME NEW x \in Nodes[e], ~IsText(x)
        PROVE  /\ CleanElement[x] \in DomNodes[e] \cup Failures
               /\ ~Failed(NewNode(x)) =>
                      /\ CleanChildren(CleanElement, x) \in Seq(DomNodes[k] \cup Failures)
                      /\ NewNode(x) \in DomOf(Seq(DomNodes[k]))
    <3> DEFINE node == NewNode(x)
               clean == CleanChildren(CleanElement, x)
               S == DomNodes[k]
    <3>1. x.children \in Seq(Nodes[k])
      BY <2>1, <2>2, NodeCases
    <3>2. x \in Elements
      <4>1. MaxDepth \in e..MaxDepth
        BY <1>1, <2>1
      <4>2. x \in Nodes[MaxDepth]
        BY <2>1, <4>1, NodesGrow
      <4> QED
        BY <2>2, <4>2 DEF Elements
    <3>3. CleanElement[x] = CleanStep(CleanElement, x)
      BY <3>2, CleanIs
    <3>4. CASE Failed(node)
      <4>1. node = Hang
        BY <3>2, <3>4, NewNodeIs
      <4>2. Hang \in Failures
        BY DEF Failures
      <4> QED
        BY <3>3, <3>4, <4>1, <4>2 DEF CleanStep
    <3>5. CASE ~Failed(node)
      <4>1. node \in DomOf({<<>>}) /\ node.type \in Types
        <5>1. MayBe(x)
          <6>1. Hang \in Failures
            BY DEF Failures
          <6> QED
            BY <3>2, <3>5, <6>1, NewNodeIs, FailuresFail
        <5> QED
          BY <3>2, <5>1, NewNodeIs
      <4>2. ASSUME NEW i \in DOMAIN x.children
            PROVE  CleanOne(CleanElement, x.children[i], node.type) \in S \cup Failures
        <5> DEFINE child == x.children[i]
        <5>1. child \in Nodes[k]
          BY <3>1
        <5> HIDE DEF child
        <5>2. ASSUME IsText(child) PROVE CleanOne(CleanElement, child, node.type) \in S \cup Failures
          <6>1. child.text \in Texts
            BY <2>1, <5>1, <5>2, NodeCases
          <6>2. NewText(child.text, node.type) \in DomOf({<<>>}) \cup {Hang}
            <7> DEFINE type == node.type
            <7>1. type \in Types
              BY <4>1
            <7> HIDE DEF type
            <7>2. NewText(child.text, type) = Hang \/ NewText(child.text, type) \in DomOf({<<>>})
              BY <6>1, <7>1, NewTextIs, Zenon
            <7> QED
              BY <7>2 DEF type
          <6>3. DomOf({<<>>}) \subseteq S
            <7>1. 0 \in 0..MaxDepth /\ k \in 0..MaxDepth
              BY <1>1, <2>1
            <7>2. DomNodes[0] \subseteq DomNodes[k]
              BY <7>1, DomGrow
            <7> QED
              BY <7>1, <7>2, DomIs
          <6>4. Hang \in Failures
            BY DEF Failures
          <6>5. CleanOne(CleanElement, child, node.type) = NewText(child.text, node.type)
            BY <5>2, Zenon DEF CleanOne
          <6> HIDE DEF S, node
          <6> QED
            BY <6>2, <6>3, <6>4, <6>5
        <5>3. ASSUME ~IsText(child) PROVE CleanOne(CleanElement, child, node.type) \in S \cup Failures
          <6>1. CleanElement[child] \in S \cup Failures
            BY <1>3, <5>1, <5>3
          <6>2. CleanOne(CleanElement, child, node.type) = CleanElement[child]
            BY <5>3, Zenon DEF CleanOne
          <6> QED
            BY <6>1, <6>2
        <5>4. CleanOne(CleanElement, child, node.type) \in S \cup Failures
          <6> HIDE DEF S, node
          <6> QED
            BY <5>2, <5>3
        <5> HIDE DEF S, node
        <5> QED
          BY <5>4, Zenon DEF child
      <4>3. clean \in Seq(S \cup Failures)
        <5> DEFINE U == S \cup Failures
                   one == [i \in DOMAIN x.children |-> CleanOne(CleanElement, x.children[i], node.type)]
        <5>1. \A i \in DOMAIN x.children : one[i] \in U
          BY <4>2, Zenon
        <5>2. clean = one
          BY Zenon DEF CleanChildren
        <5>3. one = [i \in 1..Len(x.children) |-> one[i]] /\ Len(x.children) \in Nat
              /\ DOMAIN x.children = 1..Len(x.children)
          BY <3>1
        <5> HIDE DEF U, one
        <5>4. Holds(one, Len(x.children), U)
          BY <5>1, <5>3 DEF Holds
        <5>5. one \in Seq(U)
          BY <5>3, <5>4, MakeSeq
        <5> QED
          BY <5>2, <5>5 DEF U
      <4>4. node \in DomOf(Seq(S))
        <5> DEFINE T == Seq(S)
        <5>1. <<>> \in T
          OBVIOUS
        <5> HIDE DEF T
        <5>2. DomOf({<<>>}) \subseteq DomOf(T)
          BY <5>1 DEF DomOf
        <5> QED
          BY <4>1, <5>2 DEF T
      <4>5. AreNodes(S)
        BY <2>1, DomAreNodes
      <4>6. CleanElement[x] = AddChildren(node, clean)
        BY <3>3, <3>5, Zenon DEF CleanStep
      <4>7. AddChildren(node, clean) \in DomOf(Seq(S)) \cup Failures
        <5> HIDE DEF S, node, clean
        <5>1. PICK f \in [0..Len(clean) -> DomOf(Seq(S)) \cup Failures] :
                  Adding(f, node, clean) /\ AddChildren(node, clean) = f[Len(clean)]
          BY <4>3, <4>4, <4>5, AddChildrenIs
        <5>2. Len(clean) \in 0..Len(clean)
          BY <4>3
        <5> QED
          BY <5>1, <5>2
      <4>8. DomNodes[e] = DomOf(Seq(S))
        BY <2>1, DomIs
      <4> QED
        BY <4>3, <4>4, <4>6, <4>7, <4>8
    <3> QED
      BY <3>4, <3>5
  <2>3. Good(e)
    BY <2>1, <2>2
  <2> HIDE DEF Good
  <2>4. e \in H
    BY <2>1, <2>3
  <2> QED
    BY <2>4 DEF e
<1>4. Inductive(H, 0, MaxDepth)
  BY <1>3, Zenon DEF Inductive
<1>5. d \in H
  <2> HIDE DEF H
  <2> QED
    BY <1>1, <1>2, <1>4, UpTo
<1> QED
  BY <1>5

-----------------------------------------------------------------------------
(* The DOM                                                                 *)

Doms(S) == [top_level_nodes : Seq(S), num_selectable_nodes : Nat]

LEMMA DomsFail ==
    ASSUME NEW S, NEW x \in Doms(S)
    PROVE  /\ ~Failed(x) /\ x \notin Failures
           /\ x.top_level_nodes \in Seq(S) /\ x.num_selectable_nodes \in Nat
  BY FailuresFail DEF Doms, Failed

LEMMA NoDomIs ==
    ASSUME NEW S
    PROVE  NoDom \in Doms(S)
<1>1. <<>> \in Seq(S)
  OBVIOUS
<1> QED
  BY <1>1 DEF NoDom, Doms

Topped(d, node) ==
    [d EXCEPT !.top_level_nodes = Append(@, node),
              !.num_selectable_nodes = @ + node.num_selectable_children]

LEMMA ToppedIs ==
    ASSUME NEW S, AreNodes(S), NEW d \in Doms(S), NEW node \in S
    PROVE  /\ Topped(d, node) \in Doms(S)
           /\ Topped(d, node).top_level_nodes = Append(d.top_level_nodes, node)
           /\ Topped(d, node).num_selectable_nodes
                  = d.num_selectable_nodes + node.num_selectable_children
<1> DEFINE n == node.num_selectable_children
<1>1. n \in Nat
  BY DEF AreNodes
<1> HIDE DEF n
<1>2. d.top_level_nodes \in Seq(S) /\ d.num_selectable_nodes \in Nat
  BY DomsFail
<1>3. Append(d.top_level_nodes, node) \in Seq(S) /\ d.num_selectable_nodes + n \in Nat
  BY <1>1, <1>2
<1>4. Topped(d, node) = [d EXCEPT !.top_level_nodes = Append(@, node), !.num_selectable_nodes = @ + n]
  BY Zenon DEF Topped, n
<1> QED
  BY <1>3, <1>4 DEF Doms, n

IsEmpty(dirty) == IsText(dirty) /\ dirty.text = <<>>

TopOne(d, dirty) ==
    IF Failed(d) \/ IsEmpty(dirty) THEN d ELSE AddTopLevel(d, CleanNode(dirty, "none"))

LEMMA TopTextIs ==
    ASSUME NEW S, NEW d \in Doms(S), NEW dirty, IsText(dirty), ~IsEmpty(dirty)
    PROVE  TopOne(d, dirty) = Fault
<1>1. ~Failed(d)
  BY DomsFail
<1>2. CleanNode(dirty, "none") = Fault
  BY DEF CleanNode, NewText
<1>3. Fault \in Failures /\ Failed(Fault)
  BY DEF Failures, Fault, Failed
<1>4. TopOne(d, dirty) = AddTopLevel(d, Fault)
  BY <1>1, <1>2, Zenon DEF TopOne
<1> QED
  BY <1>3, <1>4, Zenon DEF AddTopLevel

LEMMA TopElementIs ==
    ASSUME NEW S, AreNodes(S), NEW d \in Doms(S), NEW dirty, ~IsText(dirty),
           CleanElement[dirty] \in S \cup Failures
    PROVE  /\ CleanElement[dirty] \in Failures => TopOne(d, dirty) = CleanElement[dirty]
           /\ CleanElement[dirty] \notin Failures =>
                  /\ CleanElement[dirty] \in S
                  /\ CleanElement[dirty].type \in {"HEAD", "BODY"} =>
                         TopOne(d, dirty) = Topped(d, CleanElement[dirty])
                  /\ CleanElement[dirty].type \notin {"HEAD", "BODY"} => TopOne(d, dirty) = Hang
<1> DEFINE node == CleanElement[dirty]
<1>1. ~Failed(d) /\ ~IsEmpty(dirty)
  BY DomsFail DEF IsEmpty
<1>2. CleanNode(dirty, "none") = node
  BY Zenon DEF CleanNode
<1>3. TopOne(d, dirty) = AddTopLevel(d, node)
  BY <1>1, <1>2, Zenon DEF TopOne
<1>4. node \in Failures <=> Failed(node)
  BY FailuresFail DEF AreNodes
<1> HIDE DEF node
<1>5. CASE node \in Failures
  BY <1>3, <1>4, <1>5, Zenon DEF AddTopLevel, node
<1>6. CASE node \notin Failures
  <2>1. node \in S
    BY <1>6 DEF node
  <2>2. node.type \in {"HEAD", "BODY"} => TopOne(d, dirty) = Topped(d, node)
    BY <1>3, <1>4, <1>6, Zenon DEF AddTopLevel, Topped
  <2>3. node.type \notin {"HEAD", "BODY"} => TopOne(d, dirty) = Hang
    BY <1>3, <1>4, <1>6, Zenon DEF AddTopLevel
  <2> QED
    BY <1>6, <2>1, <2>2, <2>3 DEF node
<1> QED
  BY <1>5, <1>6

CleansInto(S) == \A x \in Elements : CleanElement[x] \in S \cup Failures

LEMMA TopOneIs ==
    ASSUME NEW S, AreNodes(S), CleansInto(S), NEW T, T = Doms(S) \cup Failures,
           NEW d \in T, NEW dirty \in Nodes[MaxDepth]
    PROVE  TopOne(d, dirty) \in T
<1>1. CASE Failed(d) \/ IsEmpty(dirty)
  BY <1>1, Zenon DEF TopOne
<1>2. CASE ~Failed(d) /\ ~IsEmpty(dirty)
  <2>1. d \in Doms(S)
    BY <1>2, FailuresFail
  <2>2. Hang \in Failures /\ Fault \in Failures
    BY DEF Failures
  <2>3. CASE IsText(dirty)
    <3>1. TopOne(d, dirty) = Fault
      BY <1>2, <2>1, <2>3, TopTextIs
    <3> QED
      BY <2>2, <3>1
  <2>4. CASE ~IsText(dirty)
    <3>1. CleanElement[dirty] \in S \cup Failures
      BY <2>4, NodeParts DEF CleansInto
    <3> DEFINE node == CleanElement[dirty]
               more == Topped(d, node)
    <3>2. node \in S => more \in Doms(S)
      BY <2>1, ToppedIs
    <3> HIDE DEF more
    <3>3. TopOne(d, dirty) \in {Hang, more} \cup Failures /\ (node \notin S => TopOne(d, dirty) \in Failures)
      BY <2>1, <2>2, <2>4, <3>1, TopElementIs, ZenonT(60) DEF more
    <3> QED
      BY <2>2, <3>2, <3>3
  <2> QED
    BY <2>3, <2>4
<1> QED
  BY <1>1, <1>2

(* f[i] is what has come of the DOM with the first i of the nodes.         *)
Topping(f, nodes) ==
    /\ f[0] = NoDom
    /\ \A i \in 1..Len(nodes) : f[i] = TopOne(f[i - 1], nodes[i])

LEMMA CleanDomIs ==
    ASSUME NEW S, AreNodes(S), CleansInto(S), NEW nodes \in Seq(Nodes[MaxDepth])
    PROVE  \E f \in [0..Len(nodes) -> Doms(S) \cup Failures] :
               Topping(f, nodes) /\ CleanDom(nodes) = f[Len(nodes)]
<1> DEFINE T == Doms(S) \cup Failures
           n == Len(nodes)
           step == [i \in 0 + 1..n |-> [x \in T |-> TopOne(x, nodes[i])]]
<1>1. n \in Nat /\ 0 \in Int /\ n \in Int /\ 0 <= n /\ NoDom \in T
  BY NoDomIs
<1>2. step \in [0 + 1..n -> [T -> T]]
  <2>1. ASSUME NEW i \in 0 + 1..n, NEW x \in T PROVE TopOne(x, nodes[i]) \in T
    <3>1. nodes[i] \in Nodes[MaxDepth]
      OBVIOUS
    <3> QED
      BY <3>1, TopOneIs
  <2> HIDE DEF T
  <2> QED
    BY <2>1
<1>3. \A i \in 0 + 1..n, x \in T : step[i][x] = TopOne(x, nodes[i])
  OBVIOUS
<1> HIDE DEF step, T
<1>4. PICK f \in [0..n -> T] : f[0] = NoDom /\ Follows(f, step, 0, n)
  BY <1>1, <1>2, Recursion
<1>5. ASSUME NEW i \in 1..n PROVE f[i] = TopOne(f[i - 1], nodes[i])
  <2>1. i \in 0 + 1..n /\ i - 1 \in 0..n
    BY <1>1
  <2>2. f[i] = step[i][f[i - 1]]
    BY <1>4, <2>1 DEF Follows
  <2> QED
    BY <1>3, <2>1, <2>2
<1> DEFINE Step(g, i) == IF i = 0 THEN NoDom ELSE TopOne(g[i - 1], nodes[i])
           added[i \in 0..Len(nodes)] ==
               IF i = 0 THEN NoDom
               ELSE LET d == added[i - 1]
                        dirty == nodes[i]
                    IN  IF Failed(d) \/ (IsText(dirty) /\ dirty.text = <<>>) THEN d
                        ELSE AddTopLevel(d, CleanNode(dirty, "none"))
<1>6. f = [i \in 0..n |-> Step(f, i)]
  <2>1. ASSUME NEW i \in 0..n PROVE f[i] = Step(f, i)
    <3>1. i = 0 \/ i \in 1..n
      BY <1>1
    <3> QED
      BY <1>1, <1>4, <1>5, <3>1
  <2>2. f = [i \in 0..n |-> f[i]]
    OBVIOUS
  <2> QED
    BY <2>1, <2>2
<1>7. \E g : g = [i \in 0..n |-> Step(g, i)]
  BY <1>6
<1>8. added = [i \in 0..n |-> Step(added, i)]
  BY <1>7, Zenon DEF TopOne, IsEmpty
<1>9. CleanDom(nodes) = added[n]
  BY Zenon DEF CleanDom
<1> HIDE DEF added
<1>10. \A i \in 0..n : added[i] = Step(added, i)
  BY <1>8
<1> DEFINE H == {i \in 0..n : added[i] = f[i]}
<1>11. 0 \in H
  BY <1>1, <1>4, <1>10
<1>12. ASSUME NEW i \in 0..n - 1, i \in H PROVE i + 1 \in H
  <2> DEFINE e == i + 1
  <2>1. e \in 0..n /\ e \in 1..n /\ e # 0 /\ e - 1 = i
    BY <1>1
  <2> HIDE DEF e
  <2>2. added[e] = TopOne(added[e - 1], nodes[e])
    BY <1>10, <2>1
  <2>3. f[e] = TopOne(f[e - 1], nodes[e])
    BY <1>5, <2>1
  <2>4. e \in H
    BY <1>12, <2>1, <2>2, <2>3
  <2> QED
    BY <2>4 DEF e
<1>13. Inductive(H, 0, n)
  BY <1>12, Zenon DEF Inductive
<1>14. added[n] = f[n]
  <2> HIDE DEF H, n
  <2>1. \A i \in 0..n : i \in H
    BY <1>1, <1>11, <1>13, UpTo
  <2>2. n \in 0..n
    BY <1>1
  <2> QED
    BY <2>1, <2>2 DEF H
<1>15. Topping(f, nodes)
  BY <1>4, <1>5 DEF Topping
<1> QED
  BY <1>9, <1>14, <1>15 DEF T

LEMMA CleansTyped == CleansInto(DomNodes[MaxDepth])
<1>1. MaxDepth \in 0..MaxDepth
  BY CleanerAssumption
<1>2. ASSUME NEW x \in Elements PROVE CleanElement[x] \in DomNodes[MaxDepth] \cup Failures
  <2>1. x \in Nodes[MaxDepth] /\ ~IsText(x)
    BY DEF Elements
  <2> QED
    BY <1>1, <2>1, CleanTyped
<1> QED
  BY <1>2 DEF CleansInto

LEMMA CleanDomTyped ==
    ASSUME NEW nodes \in Seq(Nodes[MaxDepth])
    PROVE  CleanDom(nodes) \in Doms(DomNodes[MaxDepth]) \cup Failures
<1> DEFINE S == DomNodes[MaxDepth]
<1>1. MaxDepth \in 0..MaxDepth
  BY CleanerAssumption
<1>2. AreNodes(S) /\ CleansInto(S)
  BY <1>1, DomAreNodes, CleansTyped
<1> HIDE DEF S
<1>3. PICK f \in [0..Len(nodes) -> Doms(S) \cup Failures] : CleanDom(nodes) = f[Len(nodes)]
  BY <1>2, CleanDomIs
<1>4. Len(nodes) \in 0..Len(nodes)
  OBVIOUS
<1> QED
  BY <1>3, <1>4 DEF S

-----------------------------------------------------------------------------
(* The types                                                               *)

IsDom(d) ==
    /\ d = [top_level_nodes |-> d.top_level_nodes, num_selectable_nodes |-> d.num_selectable_nodes]
    /\ d.num_selectable_nodes \in Nat

LEMMA DomsAre ==
    ASSUME NEW S, NEW d \in Doms(S)
    PROVE  IsDom(d)
  BY DEF Doms, IsDom

(* What comes of a page at its end.                                        *)
LEMMA PageEnds ==
    ASSUME TreeOK, EndOfFile
    PROVE  \/ \E how \in {"hung", "fault"} : Stops(how)
           \/ /\ CleanDom(top) \in Doms(DomNodes[MaxDepth]) /\ ~Failed(CleanDom(top))
              /\ status' = "cleaned" /\ dom' = CleanDom(top)
              /\ list' = SelectableNodes(CleanDom(top)) /\ page' = Filter(AllPruned(top), IsContent)
              /\ UNCHANGED <<parser, written>>
<1> DEFINE cleaned == CleanDom(top)
<1>1. cleaned \in Doms(DomNodes[MaxDepth]) \cup Failures
  BY CleanDomTyped DEF TreeOK, IsTree
<1>2. CASE Failed(cleaned)
  <2>1. Stops(cleaned.failure)
    BY <1>2, Zenon DEF EndOfFile
  <2>2. cleaned \in Failures
    BY <1>1, <1>2, DomsFail
  <2>3. cleaned.failure \in {"hung", "fault"}
    <3> HIDE DEF cleaned
    <3> QED
      BY <2>2 DEF Failures, Hang, Fault
  <2> QED
    BY <2>1, <2>3
<1>3. CASE ~Failed(cleaned)
  <2>1. /\ status' = "cleaned" /\ dom' = cleaned
        /\ list' = SelectableNodes(cleaned) /\ page' = Filter(AllPruned(top), IsContent)
        /\ UNCHANGED <<parser, written>>
    BY <1>3, Zenon DEF EndOfFile
  <2>2. cleaned \in Doms(DomNodes[MaxDepth])
    BY <1>1, <1>3, FailuresFail
  <2> QED
    BY <1>3, <2>1, <2>2
<1> QED
  BY <1>2, <1>3

(* What a script changes of the DOM.                                       *)
LEMMA ScriptWrites ==
    ASSUME NEW id \in Ids, NEW forest \in Inner3ML, SetInner3ML(id, forest)
    PROVE  LET path == GetElementById(dom, id)
               inner == Inner(forest, NodeAt(dom.top_level_nodes, path))
           IN  \/ Stops("hung")
               \/ /\ path # <<>> /\ forest \in Seq(Nodes[MaxDepth - Len(path)])
                  /\ ~\E i \in DOMAIN inner : Failed(inner[i])
                  /\ dom' = [dom EXCEPT !.top_level_nodes = WithChildren(@, path, inner)]
                  /\ page' = WithChildren(page, path, AllPruned(forest))
                  /\ status = "cleaned" /\ UNCHANGED <<parser, list, status>>
  BY Zenon DEF SetInner3ML

DomOK ==
    /\ status \in {"reading", "cleaned", "hung", "fault"}
    /\ dom # NoDom => status = "cleaned"
    /\ IsDom(dom)

LEMMA NoDomIsDom == IsDom(NoDom)
  BY DEF IsDom, NoDom

LEMMA DomStops ==
    ASSUME NEW how \in {"hung", "fault"}, Stops(how)
    PROVE  DomOK'
<1>1. status' = how /\ dom' = NoDom
  BY DEF Stops
<1> QED
  BY <1>1, NoDomIsDom DEF DomOK

LEMMA DomKept ==
    ASSUME DomOK, UNCHANGED <<dom, status>>
    PROVE  DomOK'
  BY DEF DomOK

LEMMA DomStepIs ==
    ASSUME TreeOK, DomOK, [Next]_vars
    PROVE  DomOK'
<1> DEFINE hung == "hung"
           fault == "fault"
<1>1. hung \in {"hung", "fault"} /\ fault \in {"hung", "fault"}
  OBVIOUS
<1> HIDE DEF hung, fault
<1>2. ASSUME NEW pieces \in TextPieces, ReadText(pieces) PROVE DomOK'
  <2>1. Stops(hung) \/ UNCHANGED <<dom, status>>
    BY <1>2, Zenon DEF ReadText, hung
  <2> QED
    BY <1>1, <2>1, DomStops, DomKept
<1>3. ASSUME NEW t \in Tags, OpenTag(t) PROVE DomOK'
  BY <1>3, DomKept DEF OpenTag
<1>4. ASSUME NEW t \in Tags, SelfClosingTag(t) PROVE DomOK'
  BY <1>4, DomKept DEF SelfClosingTag
<1>5. ASSUME NEW t \in Tags, CloseTag(t) PROVE DomOK'
  <2>1. Stops(hung) \/ Stops(fault) \/ UNCHANGED <<dom, status>>
    <3>1. CASE stack = <<>>
      BY <1>5, <3>1, Zenon DEF CloseTag, fault
    <3>2. CASE stack # <<>> /\ Last(stack).name # t.name
      BY <1>5, <3>2, Zenon DEF CloseTag, hung
    <3>3. CASE stack # <<>> /\ Last(stack).name = t.name
      BY <1>5, <3>3, Zenon DEF CloseTag
    <3> QED
      BY <3>1, <3>2, <3>3, Zenon
  <2> QED
    BY <1>1, <2>1, DomStops, DomKept
<1>6. CASE ReadBadTag
  <2>1. Stops(hung)
    BY <1>6, Zenon DEF ReadBadTag, hung
  <2> QED
    BY <1>1, <2>1, DomStops
<1>7. CASE EndOfFile
  <2>1. CASE \E how \in {"hung", "fault"} : Stops(how)
    BY <2>1, DomStops
  <2>2. CASE /\ CleanDom(top) \in Doms(DomNodes[MaxDepth])
             /\ status' = "cleaned" /\ dom' = CleanDom(top)
    <3> DEFINE d == CleanDom(top)
    <3>1. IsDom(d)
      BY <2>2, DomsAre
    <3> HIDE DEF d
    <3> QED
      BY <2>2, <3>1 DEF DomOK, d
  <2> QED
    BY <1>7, <2>1, <2>2, PageEnds
<1>8. ASSUME NEW id \in Ids, NEW forest \in Inner3ML, SetInner3ML(id, forest) PROVE DomOK'
  <2>1. CASE Stops(hung)
    BY <1>1, <2>1, DomStops
  <2>2. ASSUME NEW nodes, dom' = [dom EXCEPT !.top_level_nodes = nodes],
               status = "cleaned", UNCHANGED status
        PROVE  DomOK'
    <3>1. IsDom(dom)
      BY DEF DomOK
    <3> DEFINE num == dom.num_selectable_nodes
               d == [dom EXCEPT !.top_level_nodes = nodes]
    <3>2. num \in Nat /\ d = [top_level_nodes |-> nodes, num_selectable_nodes |-> num]
      BY <3>1 DEF IsDom
    <3> HIDE DEF d, num
    <3>3. IsDom(d)
      BY <3>2 DEF IsDom
    <3> QED
      BY <2>2, <3>3 DEF DomOK, d
  <2>3. Stops(hung) \/ \E nodes : /\ dom' = [dom EXCEPT !.top_level_nodes = nodes]
                                  /\ status = "cleaned" /\ UNCHANGED status
    BY <1>8, ScriptWrites, Zenon DEF hung
  <2> QED
    BY <2>1, <2>2, <2>3
<1>9. CASE UNCHANGED vars
  BY <1>9, DomKept DEF vars
<1> QED
  BY <1>2, <1>3, <1>4, <1>5, <1>6, <1>7, <1>8, <1>9, Zenon DEF Next

(* Every variable holds values of its type (3ml_parser.cpp:13-93, 141-194, *)
(* 3ml_cleaner.cpp): texts and tags alternate, only elements are open, and *)
(* there is no DOM before the page is cleaned nor after it has failed.     *)
THEOREM MarkupTypes == Spec => []TypeOK
<1>1. Init => TreeOK /\ ModeOK /\ DomOK
  <2>1. ASSUME Init PROVE TreeOK /\ ModeOK
    BY <2>1, NoTree DEF Init, TreeOK, ModeOK
  <2>2. ASSUME Init PROVE DomOK
    BY <2>2, NoDomIsDom DEF Init, DomOK
  <2> QED
    BY <2>1, <2>2
<1>2. TreeOK /\ ModeOK /\ DomOK /\ [Next]_vars => TreeOK' /\ ModeOK' /\ DomOK'
  BY TreeStep, DomStepIs
<1>3. TreeOK /\ ModeOK /\ DomOK => TypeOK
  <2> SUFFICES ASSUME TreeOK, ModeOK, DomOK PROVE TypeOK
    OBVIOUS
  <2>1. mode \in {"text", "tag"} /\ (mode = "tag" <=> read # <<>> /\ Last(read)[1] = "text")
    BY DEF ModeOK, EndsWithText
  <2>2. \A i \in DOMAIN stack : ~IsText(stack[i])
    <3>1. stack \in Seq(Opened)
      BY DEF TreeOK, IsTree, StackOK
    <3>2. \A x \in Opened : ~IsText(x)
      BY DEF Opened, ElementsOf, IsText
    <3> QED
      BY <3>1, <3>2
  <2>3. /\ status \in {"reading", "cleaned", "hung", "fault"}
        /\ dom.num_selectable_nodes \in Nat /\ (dom # NoDom => status = "cleaned")
    BY DEF DomOK, IsDom
  <2> QED
    BY <2>1, <2>2, <2>3, Zenon DEF TypeOK
<1> QED
  BY <1>1, <1>2, <1>3, PTL DEF Spec

-----------------------------------------------------------------------------
(* Recursive functions over trees: every step that looks only at what it   *)
(* has made of the levels below defines one.                               *)

LooksAtChildren(step, F, N) ==
    \A f, g \in F : \A x \in N :
        (\A i \in 1..Len(x.children) : f[x.children[i]] = g[x.children[i]]) => step[f][x] = step[g][x]

LEMMA DomRecursion ==
    ASSUME NEW R, NEW z \in R, NEW F, Functions(F, DomNodes[MaxDepth], R),
           NEW step, IsStep(step, F), LooksAtChildren(step, F, DomNodes[MaxDepth])
    PROVE  \E f \in F : f = step[f]
<1> DEFINE N == DomNodes[MaxDepth]
<1>1. MaxDepth \in Nat
  BY CleanerAssumption
<1>2. Under(DomNodes, MaxDepth, N)
  <2>1. ASSUME NEW d \in 0..MaxDepth PROVE DomNodes[d] \subseteq N
    <3>1. MaxDepth \in d..MaxDepth
      BY <1>1
    <3> QED
      BY <3>1, DomGrow
  <2> QED
    BY <2>1 DEF Under
<1>3. LooksBelow(step, F, DomNodes, MaxDepth)
  <2>1. ASSUME NEW d \in 0..MaxDepth, NEW f \in F, NEW g \in F, NEW x \in DomNodes[d],
               d > 0 => AgreeOn(f, g, DomNodes[d - 1])
        PROVE  step[f][x] = step[g][x]
    <3>1. x \in N
      BY <1>2 DEF Under
    <3>2. ASSUME NEW i \in 1..Len(x.children) PROVE f[x.children[i]] = g[x.children[i]]
      <4>1. CASE d = 0
        <5>1. x.children = <<>>
          BY <4>1, DomCases
        <5> QED
          BY <5>1
      <4>2. CASE d # 0
        <5>1. d > 0
          BY <4>2
        <5>2. x.children \in Seq(DomNodes[d - 1])
          BY <5>1, DomCases
        <5>3. x.children[i] \in DomNodes[d - 1]
          BY <5>2, ElementOfSeq
        <5> QED
          BY <2>1, <5>1, <5>3 DEF AgreeOn
      <4> QED
        BY <4>1, <4>2
    <3> HIDE DEF N
    <3> QED
      BY <3>1, <3>2, Zenon DEF LooksAtChildren, N
  <2> QED
    BY <2>1, Zenon DEF LooksBelow
<1>4. Same(F, N)
  <2> HIDE DEF N
  <2>1. F = [N -> R]
    BY DEF N, Functions
  <2> QED
    BY <2>1 DEF AgreeOn, Same
<1> DEFINE h == [x \in N |-> z]
<1>5. h \in F
  BY DEF Functions
<1> DEFINE m == MaxDepth
           L == DomNodes
<1>6. m \in Nat /\ N = L[m] /\ Under(L, m, N) /\ LooksBelow(step, F, L, m)
  BY <1>1, <1>2, <1>3
<1> HIDE DEF N, h, m, L
<1> QED
  BY <1>4, <1>5, <1>6, LevelRecursion

LooksAtParts(step, F, N) ==
    \A f, g \in F : \A x \in N :
        (IsText(x) \/ \A i \in 1..Len(x.children) : f[x.children[i]] = g[x.children[i]])
            => step[f][x] = step[g][x]

LEMMA TreeRecursion ==
    ASSUME NEW R, NEW z \in R, NEW F, Functions(F, Nodes[MaxDepth], R),
           NEW step, IsStep(step, F), LooksAtParts(step, F, Nodes[MaxDepth])
    PROVE  \E f \in F : f = step[f]
<1> DEFINE N == Nodes[MaxDepth]
<1>1. MaxDepth \in Nat
  BY CleanerAssumption
<1>2. Under(Nodes, MaxDepth, N)
  <2>1. ASSUME NEW d \in 0..MaxDepth PROVE Nodes[d] \subseteq N
    <3>1. MaxDepth \in d..MaxDepth
      BY <1>1
    <3> QED
      BY <3>1, NodesGrow
  <2> QED
    BY <2>1 DEF Under
<1>3. LooksBelow(step, F, Nodes, MaxDepth)
  <2>1. ASSUME NEW d \in 0..MaxDepth, NEW f \in F, NEW g \in F, NEW x \in Nodes[d],
               d > 0 => AgreeOn(f, g, Nodes[d - 1])
        PROVE  step[f][x] = step[g][x]
    <3>1. x \in N
      BY <1>2 DEF Under
    <3>2. ASSUME ~IsText(x), NEW i \in 1..Len(x.children) PROVE f[x.children[i]] = g[x.children[i]]
      <4>1. d > 0 /\ x.children \in Seq(Nodes[d - 1])
        BY <3>2, NodeCases
      <4>2. x.children[i] \in Nodes[d - 1]
        BY <4>1, ElementOfSeq
      <4> QED
        BY <2>1, <4>1, <4>2 DEF AgreeOn
    <3> HIDE DEF N
    <3> QED
      BY <3>1, <3>2, Zenon DEF LooksAtParts, N
  <2> QED
    BY <2>1, Zenon DEF LooksBelow
<1>4. Same(F, N)
  <2> HIDE DEF N
  <2>1. F = [N -> R]
    BY DEF N, Functions
  <2> QED
    BY <2>1 DEF AgreeOn, Same
<1> DEFINE h == [x \in N |-> z]
<1>5. h \in F
  BY DEF Functions
<1> DEFINE m == MaxDepth
           L == Nodes
<1>6. m \in Nat /\ N = L[m] /\ Under(L, m, N) /\ LooksBelow(step, F, L, m)
  BY <1>1, <1>2, <1>3
<1> HIDE DEF N, h, m, L
<1> QED
  BY <1>4, <1>5, <1>6, LevelRecursion

-----------------------------------------------------------------------------
(* What explore_dom finds                                                  *)

Found == [path : Seq(Nat), drawn : BOOLEAN, text : BOOLEAN]

Self(node) == [path |-> <<>>, drawn |-> node.type = "A", text |-> node.children # <<>>]
Own(node) == IF node.selectable THEN <<Self(node)>> ELSE <<>>

InChildren(f, children, reached) ==
    FlattenSeq([i \in DOMAIN children |-> InChild(f[children[i]], i, reached)])

Reached(node) == node.type \in {"DIV", "BODY"}

ExploreStep(f, node) == Own(node) \o InChildren(f, node.children, Reached(node))

LEMMA SelfIs ==
    ASSUME NEW node
    PROVE  Self(node) \in Found
<1> DEFINE a == node.type = "A"
           b == node.children # <<>>
<1>1. a \in BOOLEAN /\ b \in BOOLEAN
  OBVIOUS
<1>2. Self(node) = [path |-> <<>>, drawn |-> a, text |-> b]
  BY Zenon DEF Self
<1>3. <<>> \in Seq(Nat)
  OBVIOUS
<1> HIDE DEF a, b
<1> QED
  BY <1>1, <1>2, <1>3 DEF Found

LEMMA InChildIs ==
    ASSUME NEW found \in Seq(Found), NEW i \in Nat, NEW drawn \in BOOLEAN
    PROVE  InChild(found, i, drawn) \in Seq(Found) /\ Len(InChild(found, i, drawn)) = Len(found)
<1> DEFINE n == Len(found)
           r == InChild(found, i, drawn)
<1>1. n \in Nat /\ DOMAIN found = 1..n
  OBVIOUS
<1>2. ASSUME NEW x \in Found
      PROVE  [x EXCEPT !.path = <<i>> \o @, !.drawn = @ /\ drawn] \in Found
  <2> DEFINE p == <<i>> \o x.path
             b == x.drawn /\ drawn
  <2>1. p \in Seq(Nat)
    <3>1. x.path \in Seq(Nat) /\ <<i>> \in Seq(Nat)
      BY DEF Found
    <3> QED
      BY <3>1, ConcatProperties
  <2>2. b \in BOOLEAN
    OBVIOUS
  <2>3. [x EXCEPT !.path = <<i>> \o @, !.drawn = @ /\ drawn] = [x EXCEPT !.path = p, !.drawn = b]
    BY Zenon
  <2> HIDE DEF p, b
  <2>4. [x EXCEPT !.path = p, !.drawn = b] \in Found
    BY <2>1, <2>2 DEF Found
  <2> QED
    BY <2>3, <2>4
<1>3. ASSUME NEW k \in 1..n PROVE r[k] \in Found
  <2> DEFINE x == found[k]
  <2>1. x \in Found
    BY ElementOfSeq
  <2>2. r[k] = [x EXCEPT !.path = <<i>> \o @, !.drawn = @ /\ drawn]
    BY <1>1, Zenon DEF InChild
  <2> HIDE DEF x, r
  <2>3. [x EXCEPT !.path = <<i>> \o @, !.drawn = @ /\ drawn] \in Found
    BY <1>2, <2>1
  <2> QED
    BY <2>2, <2>3
<1>4. r = [k \in 1..n |-> r[k]]
  BY <1>1, Zenon DEF InChild
<1> HIDE DEF n, r
<1>5. Holds(r, n, Found)
  BY <1>3, <1>4 DEF Holds
<1>6. r \in Seq(Found) /\ Len(r) = n
  BY <1>1, <1>5, MakeSeq
<1> QED
  BY <1>6 DEF n, r

(* The sequences that InChildren joins.                                    *)
Inside(f, children, reached) == [i \in DOMAIN children |-> InChild(f[children[i]], i, reached)]

FindsIn(f, children) == \A i \in 1..Len(children) : f[children[i]] \in Seq(Found)

LEMMA InsideIs ==
    ASSUME NEW S, NEW children \in Seq(S), NEW f, FindsIn(f, children), NEW reached \in BOOLEAN
    PROVE  /\ Inside(f, children, reached) \in Seq(Seq(Found))
           /\ Len(Inside(f, children, reached)) = Len(children)
           /\ \A i \in 1..Len(children) :
                  Inside(f, children, reached)[i] = InChild(f[children[i]], i, reached)
           /\ InChildren(f, children, reached) \in Seq(Found)
<1> DEFINE n == Len(children)
           r == Inside(f, children, reached)
<1>1. n \in Nat /\ DOMAIN children = 1..n
  OBVIOUS
<1>2. r = [i \in 1..n |-> r[i]] /\ \A i \in 1..n : r[i] = InChild(f[children[i]], i, reached)
  BY <1>1, Zenon DEF Inside
<1> HIDE DEF r
<1>3. ASSUME NEW i \in 1..n PROVE r[i] \in Seq(Found)
  <2> DEFINE found == f[children[i]]
  <2>1. found \in Seq(Found) /\ i \in Nat
    BY DEF FindsIn
  <2> HIDE DEF found
  <2>2. InChild(found, i, reached) \in Seq(Found)
    BY <2>1, InChildIs
  <2> QED
    BY <1>2, <2>2 DEF found
<1> HIDE DEF n
<1> DEFINE Q == Seq(Found)
<1> HIDE DEF Q
<1>4. Holds(r, n, Q)
  BY <1>2, <1>3 DEF Holds, Q
<1>5. r \in Seq(Q) /\ Len(r) = n
  BY <1>1, <1>4, MakeSeq
<1>6. FlattenSeq(r) \in Seq(Found)
  BY <1>5, FlattenType DEF Q
<1>7. InChildren(f, children, reached) = FlattenSeq(r)
  BY Zenon DEF InChildren, r, Inside
<1> QED
  BY <1>2, <1>5, <1>6, <1>7 DEF n, r, Q

LEMMA ExploreTypes ==
    ASSUME NEW node \in DomNodes[MaxDepth], NEW f, FindsIn(f, node.children)
    PROVE  ExploreStep(f, node) \in Seq(Found)
<1> DEFINE own == Own(node)
           inside == InChildren(f, node.children, Reached(node))
<1>1. own \in Seq(Found)
  <2> DEFINE self == Self(node)
  <2>1. self \in Found
    BY SelfIs
  <2> HIDE DEF self
  <2>2. <<self>> \in Seq(Found) /\ <<>> \in Seq(Found)
    BY <2>1
  <2> QED
    BY <2>2, Zenon DEF Own, self
<1>2. inside \in Seq(Found)
  <2> DEFINE reached == Reached(node)
             children == node.children
  <2>1. reached \in BOOLEAN
    BY DEF Reached
  <2>2. children \in Seq(DomNodes[MaxDepth])
    BY DomParts
  <2> HIDE DEF reached, children
  <2>3. FindsIn(f, children)
    BY DEF children
  <2>4. InChildren(f, children, reached) \in Seq(Found)
    BY <2>1, <2>2, <2>3, InsideIs
  <2> QED
    BY <2>4 DEF reached, children
<1> HIDE DEF own, inside
<1>3. own \o inside \in Seq(Found)
  BY <1>1, <1>2, ConcatProperties
<1> QED
  BY <1>3 DEF ExploreStep, own, inside

LEMMA ExploreIs ==
    ASSUME NEW node \in DomNodes[MaxDepth]
    PROVE  Explore[node] = ExploreStep(Explore, node) /\ Explore[node] \in Seq(Found)
<1> DEFINE N == DomNodes[MaxDepth]
           R == Seq(Found)
           F == [N -> R]
           step == [f \in F |-> [x \in N |-> ExploreStep(f, x)]]
<1>1. ASSUME NEW f, NEW x \in N, \A y \in N : f[y] \in R
      PROVE  FindsIn(f, x.children)
  <2>1. x.children \in Seq(N)
    BY DomParts
  <2> HIDE DEF N
  <2>2. \A i \in 1..Len(x.children) : x.children[i] \in N
    BY <2>1
  <2> QED
    BY <1>1, <2>2, Zenon DEF FindsIn
<1>2. ASSUME NEW f \in F, NEW x \in N PROVE ExploreStep(f, x) \in R
  <2>1. FindsIn(f, x.children)
    BY <1>1
  <2> QED
    BY <2>1, ExploreTypes
<1>3. IsStep(step, F)
  <2> HIDE DEF N, R
  <2> QED
    BY <1>2 DEF IsStep
<1>4. \A f \in F : \A x \in N : step[f][x] = ExploreStep(f, x)
  <2> HIDE DEF N, R
  <2> QED
    OBVIOUS
<1>5. LooksAtChildren(step, F, N)
  <2>1. ASSUME NEW f \in F, NEW g \in F, NEW x \in N,
               \A i \in 1..Len(x.children) : f[x.children[i]] = g[x.children[i]]
        PROVE  step[f][x] = step[g][x]
    <3>1. DOMAIN x.children = 1..Len(x.children)
      BY DomParts
    <3>2. \A reached : InChildren(f, x.children, reached) = InChildren(g, x.children, reached)
      BY <2>1, <3>1, Zenon DEF InChildren
    <3>3. ExploreStep(f, x) = ExploreStep(g, x)
      BY <3>2, Zenon DEF ExploreStep
    <3> HIDE DEF N, F, step
    <3> QED
      BY <1>4, <3>3
  <2> HIDE DEF N, F, step
  <2> QED
    BY <2>1, Zenon DEF LooksAtChildren
<1>6. \E f \in F : f = step[f]
  <2>1. <<>> \in R
    OBVIOUS
  <2>2. Functions(F, DomNodes[MaxDepth], R)
    BY DEF Functions
  <2>3. LooksAtChildren(step, F, DomNodes[MaxDepth])
    BY <1>5
  <2> HIDE DEF N, R, F, step
  <2> QED
    BY <1>3, <2>1, <2>2, <2>3, DomRecursion
<1>7. \E f : f = [x \in N |-> ExploreStep(f, x)]
  <2>1. PICK f \in F : f = step[f]
    BY <1>6
  <2>2. step[f] = [x \in N |-> ExploreStep(f, x)]
    <3> HIDE DEF N, R
    <3> QED
      OBVIOUS
  <2> HIDE DEF N, F, step
  <2> QED
    BY <2>1, <2>2
<1>8. Explore = [x \in N |-> ExploreStep(Explore, x)]
  BY <1>7, Zenon DEF Explore, DomTrees, ExploreStep, Own, Self, InChildren, Reached
<1>9. \A x \in N : Explore[x] = ExploreStep(Explore, x)
  <2> HIDE DEF N
  <2> QED
    BY <1>8
<1> DEFINE H == {x \in N : Explore[x] \in R}
<1>10. DomClosed(H)
  <2>1. ASSUME NEW x \in N, \A i \in 1..Len(x.children) : x.children[i] \in H PROVE x \in H
    <3>1. FindsIn(Explore, x.children)
      BY <2>1 DEF FindsIn
    <3>2. ExploreStep(Explore, x) \in R
      BY <3>1, ExploreTypes
    <3> HIDE DEF R, N
    <3> QED
      BY <1>9, <3>2
  <2> HIDE DEF H
  <2> QED
    BY <2>1, Zenon DEF DomClosed
<1>11. N \subseteq H
  <2> HIDE DEF H
  <2> QED
    BY <1>10, DomInduction
<1> QED
  BY <1>9, <1>11

-----------------------------------------------------------------------------
(* The number of selectable nodes                                          *)

LEMMA InsideAppend ==
    ASSUME NEW S, NEW children \in Seq(S), NEW child \in S, NEW f,
           Into(f, S, Seq(Found)), NEW reached \in BOOLEAN
    PROVE  Len(InChildren(f, Append(children, child), reached))
               = Len(InChildren(f, children, reached)) + Len(f[child])
<1> DEFINE n == Len(children)
           m == n + 1
           more == Append(children, child)
           r == Inside(f, children, reached)
           last == InChild(f[child], m, reached)
           q == Append(r, last)
           s == Inside(f, more, reached)
           Q == Seq(Found)
<1>1. n \in Nat /\ m \in Nat /\ m \in 1..m /\ m = n + 1
  OBVIOUS
<1>2. more \in Seq(S) /\ Len(more) = m /\ more[m] = child /\ \A i \in 1..n : more[i] = children[i]
  BY AppendProperties
<1>3. FindsIn(f, children) /\ FindsIn(f, more) /\ f[child] \in Seq(Found)
  <2>1. \A i \in 1..Len(children) : children[i] \in S
    OBVIOUS
  <2> HIDE DEF more
  <2>2. \A i \in 1..Len(more) : more[i] \in S
    BY <1>2
  <2> QED
    BY <2>1, <2>2 DEF FindsIn, Into
<1> HIDE DEF more, m
<1>4. /\ r \in Seq(Seq(Found)) /\ Len(r) = Len(children)
      /\ \A i \in 1..Len(children) : r[i] = InChild(f[children[i]], i, reached)
      /\ InChildren(f, children, reached) \in Seq(Found)
  BY <1>3, InsideIs
<1>5. /\ s \in Seq(Seq(Found)) /\ Len(s) = Len(more)
      /\ \A i \in 1..Len(more) : s[i] = InChild(f[more[i]], i, reached)
  BY <1>2, <1>3, InsideIs
<1>6. last \in Q /\ Len(last) = Len(f[child])
  BY <1>1, <1>3, InChildIs
<1>7. InChildren(f, children, reached) = FlattenSeq(r) /\ InChildren(f, more, reached) = FlattenSeq(s)
  BY Zenon DEF InChildren, r, s, Inside
<1> HIDE DEF r, s, last, n
<1>8. /\ q \in Seq(Q) /\ Len(q) = Len(r) + 1 /\ \A i \in 1..Len(r) : q[i] = r[i]
      /\ q[Len(r) + 1] = last
  <2>1. r \in Seq(Q)
    BY <1>4
  <2> HIDE DEF Q
  <2> QED
    BY <1>6, <2>1, AppendProperties
<1>9. s = q
  <2>1. ASSUME NEW i \in 1..m PROVE s[i] = q[i]
    <3>1. CASE i = m
      <4>1. Len(r) + 1 = m
        BY <1>1, <1>4 DEF n
      <4>2. q[i] = last
        BY <1>8, <3>1, <4>1
      <4>3. s[i] = InChild(f[child], m, reached)
        BY <1>1, <1>2, <1>5, <3>1
      <4> QED
        BY <4>2, <4>3 DEF last
    <3>2. CASE i # m
      <4>1. i \in 1..n
        BY <1>1, <3>2
      <4>2. s[i] = InChild(f[children[i]], i, reached)
        BY <1>2, <1>5, <4>1
      <4>3. q[i] = r[i] /\ r[i] = InChild(f[children[i]], i, reached)
        BY <1>4, <1>8, <4>1 DEF n
      <4> QED
        BY <4>2, <4>3
    <3> QED
      BY <3>1, <3>2
  <2>2. s \in Seq(Q) /\ Len(s) = m
    BY <1>2, <1>5
  <2>3. Len(q) = m
    BY <1>1, <1>4, <1>8 DEF n
  <2> HIDE DEF q, Q
  <2> QED
    BY <1>8, <2>1, <2>2, <2>3, SeqEqual
<1>10. FlattenSeq(q) = FlattenSeq(r) \o last
  BY <1>4, <1>6, FlattenAppend
<1> DEFINE a == FlattenSeq(r)
<1>11. a \in Seq(Found)
  BY <1>4, <1>7
<1> HIDE DEF a, q
<1>12. Len(a \o last) = Len(a) + Len(last)
  BY <1>6, <1>11, ConcatProperties
<1> QED
  BY <1>6, <1>7, <1>9, <1>10, <1>12 DEF a, more

LEMMA InsideNone == \A f, reached : InChildren(f, <<>>, reached) = <<>>
<1>1. ASSUME NEW f, NEW reached PROVE InChildren(f, <<>>, reached) = <<>>
  <2>1. [i \in DOMAIN <<>> |-> InChild(f[<<>>[i]], i, reached)] = <<>>
    OBVIOUS
  <2> QED
    BY <2>1, FlattenEmpty, Zenon DEF InChildren
<1> QED
  BY <1>1

(* A node that counts right what is found in it.                           *)
IsAtTop(node) == node.type \in {"HEAD", "BODY"}

Counts(node) ==
    /\ IsAtTop(node) => node.selectable = FALSE
    /\ \A reached \in BOOLEAN :
           node.num_selectable_children = Len(InChildren(Explore, node.children, reached))

Counted == {node \in DomNodes[MaxDepth] : Counts(node)}

LEMMA CountedFinds ==
    ASSUME NEW node \in Counted
    PROVE  Len(Explore[node]) = Selectables(node) /\ Explore[node] \in Seq(Found)
<1> DEFINE own == Own(node)
           inside == InChildren(Explore, node.children, Reached(node))
           num == node.num_selectable_children
<1>1. node \in DomNodes[MaxDepth]
  BY DEF Counted
<1>2. Explore[node] = own \o inside /\ Explore[node] \in Seq(Found)
  BY <1>1, ExploreIs DEF ExploreStep
<1>3. num \in Nat /\ num = Len(inside) /\ node.selectable \in BOOLEAN
  <2>1. num \in Nat /\ node.selectable \in BOOLEAN
    BY <1>1, DomParts
  <2>2. Reached(node) \in BOOLEAN
    BY DEF Reached
  <2>3. Counts(node)
    BY DEF Counted
  <2>4. num = Len(inside)
    BY <2>2, <2>3, Zenon DEF Counts
  <2> QED
    BY <2>1, <2>4
<1>4. inside \in Seq(Found)
  <2> DEFINE reached == Reached(node)
             children == node.children
  <2>1. reached \in BOOLEAN /\ children \in Seq(DomNodes[MaxDepth])
    BY <1>1, DomParts DEF Reached
  <2> HIDE DEF reached, children
  <2>2. FindsIn(Explore, children)
    <3>1. \A i \in 1..Len(children) : children[i] \in DomNodes[MaxDepth]
      BY <2>1
    <3> QED
      BY <3>1, ExploreIs DEF FindsIn
  <2>3. InChildren(Explore, children, reached) \in Seq(Found)
    BY <2>1, <2>2, InsideIs
  <2> QED
    BY <2>3 DEF reached, children
<1> DEFINE self == Self(node)
<1>5. self \in Found
  BY SelfIs
<1>6. own = IF node.selectable THEN <<self>> ELSE <<>>
  BY Zenon DEF Own
<1> HIDE DEF own, inside, self, num
<1>7. CASE node.selectable
  <2>1. own \in Seq(Found) /\ Len(own) = 1
    BY <1>5, <1>6, <1>7
  <2>2. Len(own \o inside) = 1 + Len(inside)
    BY <1>4, <2>1, ConcatProperties, ZenonT(60)
  <2>3. Selectables(node) = num + 1
    BY <1>7, Zenon DEF Selectables, num
  <2> QED
    BY <1>2, <1>3, <2>2, <2>3
<1>8. CASE ~node.selectable
  <2>1. own = <<>>
    BY <1>6, <1>8
  <2>2. own \o inside = inside
    BY <1>4, <2>1, ConcatEmptySeq
  <2>3. Selectables(node) = num + 0
    BY <1>8, Zenon DEF Selectables, num
  <2> QED
    BY <1>2, <1>3, <2>2, <2>3
<1> QED
  BY <1>7, <1>8

(* Adding a child keeps the count of its parent.                           *)
LEMMA GrownCounts ==
    ASSUME NEW node \in DomOf(Seq(Counted)), NEW child \in Counted, Counts(node)
    PROVE  Counts(Grown(node, child))
<1>1. AreNodes(Counted)
  BY DomParts DEF AreNodes, Counted
<1>2. node.children \in Seq(Counted)
  BY DEF DomOf
<1> DEFINE children == node.children
           num == node.num_selectable_children
           more == Append(children, child)
           f == Explore
<1>3. /\ Grown(node, child).children = more
      /\ Grown(node, child).num_selectable_children = num + Selectables(child)
      /\ Grown(node, child).type = node.type /\ Grown(node, child).selectable = node.selectable
  BY <1>1, GrownIs
<1>4. Into(f, Counted, Seq(Found))
  BY CountedFinds DEF Into
<1>5. ASSUME NEW reached \in BOOLEAN
      PROVE  num + Selectables(child) = Len(InChildren(f, more, reached))
  <2> HIDE DEF children, f
  <2>1. Len(InChildren(f, more, reached)) = Len(InChildren(f, children, reached)) + Len(f[child])
    <3>1. children \in Seq(Counted) /\ Into(f, Counted, Seq(Found))
      BY <1>2, <1>4 DEF children, f
    <3> DEFINE S == Counted
    <3>2. children \in Seq(S) /\ Into(f, S, Seq(Found)) /\ child \in S
      BY <3>1
    <3> HIDE DEF S, more
    <3>3. Len(InChildren(f, Append(children, child), reached))
              = Len(InChildren(f, children, reached)) + Len(f[child])
      BY <3>2, InsideAppend
    <3> QED
      BY <3>3 DEF more
  <2>2. num = Len(InChildren(f, children, reached))
    BY DEF Counts, children, f
  <2>3. Len(f[child]) = Selectables(child)
    BY CountedFinds DEF f
  <2> QED
    BY <2>1, <2>2, <2>3
<1>6. IsAtTop(Grown(node, child)) => Grown(node, child).selectable = FALSE
  BY <1>3 DEF Counts, IsAtTop
<1> HIDE DEF children, f, num, more
<1> QED
  BY <1>3, <1>5, <1>6 DEF Counts, more, children, num, f

(* What becomes of a child.                                                *)
LEMMA AddOneCases ==
    ASSUME NEW S, AreNodes(S), NEW parent \in DomOf(Seq(S)), NEW child \in S \cup Failures
    PROVE  /\ child \in Failures => AddOne(parent, child) \in Failures
           /\ child \notin Failures =>
                  /\ child \in S
                  /\ IsEmptyText(child) => AddOne(parent, child) = parent
                  /\ ~IsEmptyText(child) /\ MayHave(parent, child) =>
                         AddOne(parent, child) = Grown(parent, child)
                  /\ ~IsEmptyText(child) /\ ~MayHave(parent, child) =>
                         AddOne(parent, child) \in Failures
<1>1. ~Failed(parent)
  BY DEF DomOf, Failed
<1>2. AddOne(parent, child) = AddChild(parent, child)
  BY <1>1, Zenon DEF AddOne
<1>3. CASE child \in Failures
  <2>1. Failed(child)
    BY <1>3, FailuresFail
  <2> QED
    BY <1>2, <1>3, <2>1, Zenon DEF AddChild
<1>4. CASE child \notin Failures
  <2>1. child \in S /\ ~Failed(child)
    BY <1>4 DEF AreNodes
  <2>2. Hang \in Failures
    BY DEF Failures
  <2> QED
    BY <1>2, <1>4, <2>1, <2>2, Zenon DEF AddChild, Grown
<1> QED
  BY <1>3, <1>4

LEMMA FailedStay ==
    ASSUME NEW parent \in Failures, NEW child
    PROVE  AddOne(parent, child) = parent
  BY FailuresFail, Zenon DEF AddOne

LEMMA CountedNodes == AreNodes(Counted)
  BY DomParts DEF AreNodes, Counted

(* A leaf has nothing to count.                                            *)
LEMMA LeafCounts ==
    ASSUME NEW node, node.children = <<>>, node.num_selectable_children = 0,
           IsAtTop(node) => node.selectable = FALSE
    PROVE  Counts(node)
<1>1. ASSUME NEW reached PROVE InChildren(Explore, node.children, reached) = <<>>
  BY InsideNone
<1>2. Len(<<>>) = 0
  OBVIOUS
<1> QED
  BY <1>1, <1>2 DEF Counts

LEMMA TopIsNotSelectable ==
    ASSUME NEW node, NEW type, NEW id, NewElementNode(node, type, id)
    PROVE  IsAtTop(node) => node.selectable = FALSE
<1> DEFINE b == type \in {"A", "BUTTON", "SLIDER", "TEXT_INPUT"}
<1>1. node = [type |-> type, id |-> id, lines |-> <<>>, children |-> <<>>,
              num_selectable_children |-> 0, selectable |-> b]
  BY Zenon DEF NewElementNode
<1>2. type \in {"HEAD", "BODY"} => b = FALSE
  OBVIOUS
<1> HIDE DEF b
<1>3. node.type = type /\ node.selectable = b
  BY <1>1
<1> QED
  BY <1>2, <1>3 DEF IsAtTop

LEMMA LeafIs ==
    ASSUME NEW node \in DomOf({<<>>})
    PROVE  node \in DomNodes[MaxDepth] /\ \A S : node \in DomOf(Seq(S))
<1>1. MaxDepth \in Nat
  BY CleanerAssumption
<1>2. 0 \in 0..MaxDepth /\ MaxDepth \in 0..MaxDepth
  BY <1>1
<1>3. DomNodes[0] \subseteq DomNodes[MaxDepth] /\ DomNodes[0] = DomOf({<<>>})
  BY <1>2, DomGrow, DomIs
<1>4. ASSUME NEW S PROVE node \in DomOf(Seq(S))
  <2> DEFINE Q == Seq(S)
  <2>1. <<>> \in Q
    OBVIOUS
  <2> HIDE DEF Q
  <2>2. node \in DomOf(Q)
    BY <2>1 DEF DomOf
  <2> QED
    BY <2>2 DEF Q
<1> QED
  BY <1>3, <1>4

LEMMA CountsAdded ==
    ASSUME NEW node \in DomOf(Seq(Counted)), Counts(node), NEW children \in Seq(Counted \cup Failures)
    PROVE  AddChildren(node, children) \in Failures \/ Counts(AddChildren(node, children))
<1> DEFINE S == Counted
           n == Len(children)
<1>1. AreNodes(S) /\ node \in DomOf(Seq(S)) /\ children \in Seq(S \cup Failures)
  BY CountedNodes
<1>2. n \in Nat /\ n \in 0..n /\ 0 \in 0..n /\ 0 \in Int /\ n \in Int
  OBVIOUS
<1>3. PICK f \in [0..n -> DomOf(Seq(S)) \cup Failures] :
          Adding(f, node, children) /\ AddChildren(node, children) = f[n]
  <2> HIDE DEF S
  <2> QED
    BY <1>1, AddChildrenIs
<1> DEFINE H == {i \in 0..n : f[i] \in Failures \/ Counts(f[i])}
<1>4. 0 \in H
  BY <1>2, <1>3 DEF Adding
<1>5. ASSUME NEW i \in 0..n - 1, i \in H PROVE i + 1 \in H
  <2> DEFINE e == i + 1
             parent == f[i]
             child == children[e]
             T == DomOf(Seq(S))
  <2>1. e \in 0..n /\ e \in 1..n /\ e - 1 = i /\ i \in 0..n
    BY <1>2
  <2> HIDE DEF e
  <2>2. f[e] = AddOne(parent, child)
    BY <1>3, <2>1 DEF Adding
  <2>3. child \in S \cup Failures
    BY <1>1, <2>1
  <2> HIDE DEF T
  <2>4. parent \in T \cup Failures
    BY <1>3, <2>1 DEF T
  <2> HIDE DEF parent, child, S
  <2>5. CASE parent \in Failures
    BY <2>1, <2>2, <2>5, FailedStay
  <2>6. CASE parent \notin Failures
    <3>1. Counts(parent)
      BY <1>5, <2>6 DEF parent
    <3>2. parent \in DomOf(Seq(S))
      BY <2>4, <2>6 DEF T
    <3>3. child \in S => Counts(Grown(parent, child))
      BY <3>1, <3>2, GrownCounts DEF S
    <3>4. AddOne(parent, child) \in Failures \/ Counts(AddOne(parent, child))
      BY <1>1, <2>3, <3>1, <3>2, <3>3, AddOneCases
    <3> QED
      BY <2>1, <2>2, <3>4
  <2>7. e \in H
    BY <2>5, <2>6
  <2> QED
    BY <2>7 DEF e
<1>6. Inductive(H, 0, n)
  BY <1>5, Zenon DEF Inductive
<1>7. n \in H
  <2> HIDE DEF H, n
  <2> QED
    BY <1>2, <1>4, <1>6, UpTo
<1> QED
  BY <1>3, <1>7

LEMMA CleansCounted == CleansInto(Counted)
<1> DEFINE H == {x \in Nodes[MaxDepth] : IsText(x) \/ CleanElement[x] \in Counted \cup Failures}
<1>1. ASSUME NEW x \in Nodes[MaxDepth], ~IsText(x),
             \A i \in 1..Len(x.children) : x.children[i] \in H
      PROVE  CleanElement[x] \in Counted \cup Failures
  <2> DEFINE node == NewNode(x)
             clean == CleanChildren(CleanElement, x)
  <2>1. MaxDepth \in 0..MaxDepth
    BY CleanerAssumption
  <2>2. x \in Elements /\ x.children \in Seq(Nodes[MaxDepth])
    BY <1>1, NodeParts
  <2>3. CleanElement[x] = CleanStep(CleanElement, x)
    BY <2>2, CleanIs
  <2>4. CleanElement[x] \in DomNodes[MaxDepth] \cup Failures
    BY <2>2, CleansTyped DEF CleansInto
  <2>5. CASE Failed(node)
    <3>1. node = Hang /\ Hang \in Failures
      BY <2>2, <2>5, NewNodeIs DEF Failures
    <3> QED
      BY <2>3, <2>5, <3>1, Zenon DEF CleanStep
  <2>6. CASE ~Failed(node)
    <3>1. MayBe(x)
      <4>1. Failed(Hang)
        BY DEF Hang, Failed
      <4> QED
        BY <2>2, <2>6, <4>1, NewNodeIs
    <3>2. /\ node \in DomOf({<<>>}) /\ node.type \in Types
          /\ node.children = <<>> /\ node.num_selectable_children = 0
      BY <2>2, <3>1, NewNodeIs
    <3> DEFINE type == node.type
               N == DomOf(Seq(Counted))
    <3>3. node \in N /\ Counts(node)
      <4>1. NewElementNode(node, NodeType(x), Id(x))
        BY <2>2, <3>1, NewNodeIs
      <4>2. IsAtTop(node) => node.selectable = FALSE
        BY <4>1, TopIsNotSelectable
      <4> HIDE DEF node
      <4> QED
        BY <3>2, <4>2, LeafCounts, LeafIs
    <3>4. ASSUME NEW text \in Texts PROVE NewText(text, type) \in Counted \cup Failures
      <4> HIDE DEF type
      <4>1. type \in Types
        BY <3>2 DEF type
      <4> DEFINE t == NewText(text, type)
      <4>2. t = Hang \/ (/\ t \in DomOf({<<>>}) /\ t.children = <<>>
                         /\ t.num_selectable_children = 0 /\ t.selectable = FALSE)
        BY <4>1, NewTextIs, Zenon
      <4> HIDE DEF t
      <4>3. Hang \in Failures
        BY DEF Failures
      <4> QED
        BY <4>2, <4>3, LeafCounts, LeafIs DEF Counted, t
    <3>5. ASSUME NEW i \in DOMAIN x.children
          PROVE  CleanOne(CleanElement, x.children[i], type) \in Counted \cup Failures
      <4> DEFINE child == x.children[i]
      <4>1. child \in Nodes[MaxDepth] /\ child \in H
        BY <1>1, <2>2
      <4>2. IsText(child) => child.text \in Texts
        BY <4>1, NodeParts
      <4> HIDE DEF child, type, node
      <4>3. CleanOne(CleanElement, child, type) \in Counted \cup Failures
        BY <3>4, <4>1, <4>2, Zenon DEF CleanOne
      <4> QED
        BY <4>3 DEF child
    <3>6. clean \in Seq(Counted \cup Failures)
      <4> DEFINE U == Counted \cup Failures
                 n == Len(x.children)
                 one == [i \in DOMAIN x.children |-> CleanOne(CleanElement, x.children[i], type)]
      <4>1. n \in Nat /\ DOMAIN x.children = 1..n
        BY <2>2
      <4>2. one = [i \in 1..n |-> one[i]]
        BY <4>1
      <4>3. \A i \in 1..n : one[i] \in U
        BY <3>5, <4>1, Zenon
      <4>4. clean = one
        BY Zenon DEF CleanChildren
      <4> HIDE DEF U, one, n
      <4>5. Holds(one, n, U)
        BY <4>2, <4>3 DEF Holds
      <4>6. one \in Seq(U)
        BY <4>1, <4>5, MakeSeq
      <4> QED
        BY <4>4, <4>6 DEF U
    <3>7. CleanElement[x] = AddChildren(node, clean)
      BY <2>3, <2>6, Zenon DEF CleanStep
    <3> HIDE DEF node, clean
    <3>8. CleanElement[x] \in Failures \/ Counts(CleanElement[x])
      BY <3>3, <3>6, <3>7, CountsAdded
    <3> QED
      BY <2>4, <3>8 DEF Counted
  <2> QED
    BY <2>5, <2>6
<1>2. Closed(H)
  <2> HIDE DEF H
  <2>1. ASSUME NEW x \in Nodes[MaxDepth],
               IsText(x) \/ \A i \in 1..Len(x.children) : x.children[i] \in H
        PROVE  x \in H
    BY <1>1, <2>1 DEF H
  <2> QED
    BY <2>1, Zenon DEF Closed
<1>3. Nodes[MaxDepth] \subseteq H
  <2> HIDE DEF H
  <2> QED
    BY <1>2, TreeInduction
<1> QED
  BY <1>3 DEF CleansInto, Elements

Finds(d) == d.num_selectable_nodes = Len(InChildren(Explore, d.top_level_nodes, TRUE))

LEMMA ToppedFinds ==
    ASSUME NEW d \in Doms(Counted), Finds(d), NEW node \in Counted, IsAtTop(node)
    PROVE  Finds(Topped(d, node))
<1> DEFINE S == Counted
           children == d.top_level_nodes
           num == d.num_selectable_nodes
           more == Append(children, node)
           f == Explore
           drawn == TRUE
<1>1. /\ Topped(d, node).top_level_nodes = more
      /\ Topped(d, node).num_selectable_nodes = num + node.num_selectable_children
  BY CountedNodes, ToppedIs
<1>2. children \in Seq(S) /\ num \in Nat
  BY DomsFail
<1>3. Into(f, S, Seq(Found))
  BY CountedFinds DEF Into
<1>4. num = Len(InChildren(f, children, drawn))
  BY DEF Finds
<1>5. Len(f[node]) = node.num_selectable_children
  <2>1. node.selectable = FALSE
    BY DEF Counted, Counts
  <2>2. Selectables(node) = node.num_selectable_children + 0
    BY <2>1, Zenon DEF Selectables
  <2>3. node.num_selectable_children \in Nat
    BY DomParts DEF Counted
  <2> QED
    BY <2>2, <2>3, CountedFinds
<1>6. node \in S /\ drawn \in BOOLEAN
  OBVIOUS
<1> HIDE DEF S, children, num, f, drawn
<1>7. Len(InChildren(f, Append(children, node), drawn))
          = Len(InChildren(f, children, drawn)) + Len(f[node])
  <2> HIDE DEF more
  <2> QED
    BY <1>2, <1>3, <1>6, InsideAppend
<1> QED
  BY <1>1, <1>4, <1>5, <1>7 DEF Finds, f, drawn

LEMMA NoDomFinds == Finds(NoDom)
<1>1. NoDom.top_level_nodes = <<>> /\ NoDom.num_selectable_nodes = 0
  BY DEF NoDom
<1>2. InChildren(Explore, <<>>, TRUE) = <<>>
  BY InsideNone
<1>3. Len(<<>>) = 0
  OBVIOUS
<1> QED
  BY <1>1, <1>2, <1>3, Zenon DEF Finds

(* What becomes of the DOM with a node more.                               *)
LEMMA TopOneCases ==
    ASSUME NEW S, AreNodes(S), CleansInto(S), NEW d \in Doms(S), NEW dirty \in Nodes[MaxDepth]
    PROVE  \/ IsEmpty(dirty) /\ TopOne(d, dirty) = d
           \/ ~IsEmpty(dirty) /\ TopOne(d, dirty) \in Failures
           \/ /\ ~IsText(dirty) /\ CleanElement[dirty] \in S /\ IsAtTop(CleanElement[dirty])
              /\ TopOne(d, dirty) = Topped(d, CleanElement[dirty])
<1>1. Hang \in Failures /\ Fault \in Failures
  BY DEF Failures
<1>2. CASE IsEmpty(dirty)
  BY <1>2, Zenon DEF TopOne
<1>3. CASE ~IsEmpty(dirty) /\ IsText(dirty)
  BY <1>1, <1>3, TopTextIs
<1>4. CASE ~IsText(dirty)
  <2>1. CleanElement[dirty] \in S \cup Failures
    BY <1>4, NodeParts DEF CleansInto
  <2>2. ~IsEmpty(dirty)
    BY <1>4 DEF IsEmpty
  <2> DEFINE node == CleanElement[dirty]
             more == TopOne(d, dirty)
             one == Topped(d, node)
  <2>3. node \in Failures => more = node
    BY <1>4, <2>1, TopElementIs, Zenon
  <2>4. node \notin Failures => /\ node \in S
                                /\ IsAtTop(node) => more = one
                                /\ ~IsAtTop(node) => more = Hang
    <3>1. CleanElement[dirty] \notin Failures =>
              /\ CleanElement[dirty] \in S
              /\ CleanElement[dirty].type \in {"HEAD", "BODY"} =>
                     TopOne(d, dirty) = Topped(d, CleanElement[dirty])
              /\ CleanElement[dirty].type \notin {"HEAD", "BODY"} => TopOne(d, dirty) = Hang
      BY <1>4, <2>1, TopElementIs
    <3> QED
      BY <3>1, Zenon DEF IsAtTop
  <2> HIDE DEF node, more, one
  <2>5. more \in Failures \/ (node \in S /\ IsAtTop(node) /\ more = one)
    BY <1>1, <2>3, <2>4
  <2> QED
    BY <1>4, <2>2, <2>5 DEF node, more, one
<1> QED
  BY <1>2, <1>3, <1>4

LEMMA FailedDomStays ==
    ASSUME NEW d \in Failures, NEW dirty
    PROVE  TopOne(d, dirty) = d
  BY FailuresFail, Zenon DEF TopOne

LEMMA CleanDomFinds ==
    ASSUME NEW nodes \in Seq(Nodes[MaxDepth])
    PROVE  CleanDom(nodes) \in Failures \/ Finds(CleanDom(nodes))
<1> DEFINE S == Counted
           D == Doms(S)
           n == Len(nodes)
<1>1. AreNodes(S) /\ CleansInto(S)
  BY CountedNodes, CleansCounted
<1>2. n \in Nat /\ n \in 0..n /\ 0 \in 0..n /\ 0 \in Int /\ n \in Int
  OBVIOUS
<1>3. PICK f \in [0..n -> D \cup Failures] : Topping(f, nodes) /\ CleanDom(nodes) = f[n]
  <2> HIDE DEF S
  <2> QED
    BY <1>1, CleanDomIs
<1> DEFINE H == {i \in 0..n : f[i] \in Failures \/ Finds(f[i])}
<1>4. 0 \in H
  BY <1>2, <1>3, NoDomFinds DEF Topping
<1>5. ASSUME NEW i \in 0..n - 1, i \in H PROVE i + 1 \in H
  <2> DEFINE e == i + 1
             d == f[i]
             dirty == nodes[e]
  <2>1. e \in 0..n /\ e \in 1..n /\ e - 1 = i /\ i \in 0..n
    BY <1>2
  <2> HIDE DEF e
  <2>2. f[e] = TopOne(d, dirty)
    BY <1>3, <2>1 DEF Topping
  <2>3. dirty \in Nodes[MaxDepth]
    BY <2>1
  <2> HIDE DEF D
  <2>4. d \in D \cup Failures
    BY <1>3, <2>1
  <2> HIDE DEF d, dirty
  <2>5. CASE d \in Failures
    BY <2>1, <2>2, <2>5, FailedDomStays
  <2>6. CASE d \notin Failures
    <3>1. Finds(d) /\ d \in Doms(S)
      BY <1>5, <2>4, <2>6 DEF d, D
    <3> DEFINE node == CleanElement[dirty]
    <3>2. node \in S /\ IsAtTop(node) => Finds(Topped(d, node))
      <4> HIDE DEF node
      <4> QED
        BY <3>1, ToppedFinds
    <3>3. \/ TopOne(d, dirty) = d
          \/ TopOne(d, dirty) \in Failures
          \/ node \in S /\ IsAtTop(node) /\ TopOne(d, dirty) = Topped(d, node)
      <4> HIDE DEF S
      <4> QED
        BY <1>1, <2>3, <3>1, TopOneCases
    <3> HIDE DEF node
    <3>4. f[e] \in Failures \/ Finds(f[e])
      BY <2>2, <3>1, <3>2, <3>3
    <3> QED
      BY <2>1, <3>4
  <2>7. e \in H
    BY <2>5, <2>6
  <2> QED
    BY <2>7 DEF e
<1>6. Inductive(H, 0, n)
  BY <1>5, Zenon DEF Inductive
<1>7. n \in H
  <2> HIDE DEF H, n
  <2> QED
    BY <1>2, <1>4, <1>6, UpTo
<1> QED
  BY <1>3, <1>7

LEMMA CountStops ==
    ASSUME NEW how, Stops(how)
    PROVE  CountsSelectable'
<1>1. dom' = NoDom /\ list' = <<>>
  BY DEF Stops
<1>2. NoDom.num_selectable_nodes = 0 /\ Len(<<>>) = 0
  BY DEF NoDom
<1> QED
  BY <1>1, <1>2 DEF CountsSelectable

LEMMA CountKept ==
    ASSUME CountsSelectable, UNCHANGED <<dom, list>>
    PROVE  CountsSelectable'
  BY DEF CountsSelectable

LEMMA CountStep ==
    ASSUME TreeOK, DomOK, CountsSelectable, [Next]_vars
    PROVE  CountsSelectable'
<1>1. ASSUME NEW pieces \in TextPieces, ReadText(pieces) PROVE CountsSelectable'
  <2>1. (\E how : Stops(how)) \/ UNCHANGED <<dom, list>>
    BY <1>1, Zenon DEF ReadText
  <2> QED
    BY <2>1, CountStops, CountKept
<1>2. ASSUME NEW t \in Tags, OpenTag(t) PROVE CountsSelectable'
  BY <1>2, CountKept DEF OpenTag
<1>3. ASSUME NEW t \in Tags, SelfClosingTag(t) PROVE CountsSelectable'
  BY <1>3, CountKept DEF SelfClosingTag
<1>4. ASSUME NEW t \in Tags, CloseTag(t) PROVE CountsSelectable'
  <2>1. (\E how : Stops(how)) \/ UNCHANGED <<dom, list>>
    <3>1. CASE stack = <<>>
      BY <1>4, <3>1, Zenon DEF CloseTag
    <3>2. CASE stack # <<>> /\ Last(stack).name # t.name
      BY <1>4, <3>2, Zenon DEF CloseTag
    <3>3. CASE stack # <<>> /\ Last(stack).name = t.name
      BY <1>4, <3>3, Zenon DEF CloseTag
    <3> QED
      BY <3>1, <3>2, <3>3, Zenon
  <2> QED
    BY <2>1, CountStops, CountKept
<1>5. CASE ReadBadTag
  BY <1>5, CountStops DEF ReadBadTag
<1>6. CASE EndOfFile
  <2> DEFINE d == CleanDom(top)
  <2>1. CASE \E how \in {"hung", "fault"} : Stops(how)
    BY <2>1, CountStops
  <2>2. CASE ~Failed(d) /\ dom' = d /\ list' = SelectableNodes(d)
    <3>1. top \in Seq(Nodes[MaxDepth])
      BY DEF TreeOK, IsTree
    <3>2. d \in Failures \/ Finds(d)
      BY <3>1, CleanDomFinds
    <3> HIDE DEF d
    <3>3. Finds(d)
      BY <2>2, <3>2, FailuresFail
    <3>4. SelectableNodes(d) = InChildren(Explore, d.top_level_nodes, TRUE)
      BY Zenon DEF SelectableNodes, InChildren
    <3> QED
      BY <2>2, <3>3, <3>4 DEF CountsSelectable, Finds
  <2> QED
    BY <1>6, <2>1, <2>2, PageEnds
<1>7. ASSUME NEW id \in Ids, NEW forest \in Inner3ML, SetInner3ML(id, forest)
      PROVE  CountsSelectable'
  <2>1. ASSUME NEW nodes, dom' = [dom EXCEPT !.top_level_nodes = nodes], UNCHANGED list
        PROVE  CountsSelectable'
    <3> DEFINE num == dom.num_selectable_nodes
               old == dom.top_level_nodes
               d == [dom EXCEPT !.top_level_nodes = nodes]
    <3>1. dom = [top_level_nodes |-> old, num_selectable_nodes |-> num]
      BY DEF DomOK, IsDom
    <3> HIDE DEF num, old
    <3>2. d.num_selectable_nodes = num
      BY <3>1
    <3> HIDE DEF d
    <3> QED
      BY <2>1, <3>2 DEF CountsSelectable, num, d
  <2>2. (\E how : Stops(how)) \/
            \E nodes : dom' = [dom EXCEPT !.top_level_nodes = nodes] /\ UNCHANGED list
    BY <1>7, ScriptWrites, Zenon
  <2> QED
    BY <2>1, <2>2, CountStops
<1>8. CASE UNCHANGED vars
  BY <1>8, CountKept DEF vars
<1> QED
  BY <1>1, <1>2, <1>3, <1>4, <1>5, <1>6, <1>7, <1>8, Zenon DEF Next

(* The number of selectable nodes that add_child and add_top_level_node    *)
(* have counted is the length of the list explore_dom makes for the        *)
(* renderer (3ml_cleaner.cpp:129-134, 203-216; 3ml_renderer.cpp:27-44),    *)
(* whatever the page, and scripts change neither.                          *)
THEOREM SelectableCounted == Spec => []CountsSelectable
<1>1. Init => TreeOK /\ ModeOK /\ DomOK /\ CountsSelectable
  <2>1. ASSUME Init PROVE TreeOK /\ ModeOK
    BY <2>1, NoTree DEF Init, TreeOK, ModeOK
  <2>2. ASSUME Init PROVE DomOK
    BY <2>2, NoDomIsDom DEF Init, DomOK
  <2>3. ASSUME Init PROVE CountsSelectable
    BY <2>3 DEF Init, CountsSelectable, NoDom
  <2> QED
    BY <2>1, <2>2, <2>3
<1>2. TreeOK /\ ModeOK /\ DomOK /\ CountsSelectable /\ [Next]_vars
          => TreeOK' /\ ModeOK' /\ DomOK' /\ CountsSelectable'
  BY TreeStep, DomStepIs, CountStep
<1> QED
  BY <1>1, <1>2, PTL DEF Spec

-----------------------------------------------------------------------------
(* The members of a sequence that are in a set                             *)

(* The nodes that are not empty texts.                                     *)
Contents == {node \in Nodes[MaxDepth] : IsContent(node)}

LEMMA ContentChosen ==
    ASSUME NEW nodes \in Seq(Nodes[MaxDepth])
    PROVE  Filter(nodes, IsContent) = Chosen(nodes, Contents)
<1>1. \A i \in DOMAIN nodes : nodes[i] \in Nodes[MaxDepth]
  OBVIOUS
<1>2. \A i \in DOMAIN nodes :
          (IF IsContent(nodes[i]) THEN <<nodes[i]>> ELSE <<>>) = Pick(Contents, nodes[i])
  BY <1>1, Zenon DEF Pick, Contents
<1>3. [i \in DOMAIN nodes |-> IF IsContent(nodes[i]) THEN <<nodes[i]>> ELSE <<>>]
          = [i \in DOMAIN nodes |-> Pick(Contents, nodes[i])]
  BY <1>2, Zenon
<1> QED
  BY <1>3, Zenon DEF Filter, Chosen

-----------------------------------------------------------------------------
(* Valid pages                                                             *)

TypeOf(child) == IF IsText(child) THEN "PLAINTEXT" ELSE NodeType(child)

GoodChild(f, type, child) ==
    IF IsText(child) THEN Wrappable(child.text, Columns[type]) ELSE f[child]

Allows(type, content) ==
    LET types == {TypeOf(child) : child \in ToSet(content)}
    IN  /\ type \in {"TITLE", "H1", "A", "BUTTON"} =>
               Len(content) <= 1 /\ types \subseteq {"PLAINTEXT"}
        /\ type = "SCRIPT" => types = {}
        /\ type = "HEAD" => types \subseteq {"SCRIPT", "TITLE"}
        /\ type = "BODY" => {"SCRIPT", "TITLE"} \cap types = {}

AllGood(f, type, content) == \A child \in ToSet(content) : GoodChild(f, type, child)

ValidStep(f, dirty) ==
    /\ MayBe(dirty)
    /\ Allows(NodeType(dirty), Content(dirty))
    /\ AllGood(f, NodeType(dirty), Content(dirty))

LEMMA ContentInside ==
    ASSUME NEW dirty \in Elements, NEW child \in ToSet(Content(dirty))
    PROVE  \E i \in 1..Len(dirty.children) : child = dirty.children[i]
<1> DEFINE s == dirty.children
           S == ToSet(s)
           c == Chosen(s, Contents)
<1>1. s \in Seq(Nodes[MaxDepth])
  BY NodeParts DEF Elements
<1>2. Content(dirty) = c
  BY <1>1, ContentChosen DEF Content
<1>3. DOMAIN s = 1..Len(s)
  BY <1>1
<1>4. \A x \in S : \E i \in 1..Len(s) : x = s[i]
  BY <1>3 DEF ToSet
<1>5. s \in Seq(S)
  <2>1. \A i \in 1..Len(s) : s[i] \in S
    BY <1>3 DEF ToSet
  <2>2. s = [i \in 1..Len(s) |-> s[i]] /\ Len(s) \in Nat
    BY <1>1
  <2> HIDE DEF s, S
  <2>3. Holds(s, Len(s), S)
    BY <2>1, <2>2 DEF Holds
  <2> QED
    BY <2>2, <2>3, MakeSeq
<1> HIDE DEF s, S
<1>6. c \in Seq(S)
  BY <1>5, ChosenType
<1> HIDE DEF c
<1>7. child \in S
  BY <1>2, <1>6 DEF ToSet
<1> QED
  BY <1>4, <1>7 DEF s

LEMMA ValidIs ==
    ASSUME NEW dirty \in Elements
    PROVE  Valid[dirty] = ValidStep(Valid, dirty)
<1> DEFINE N == Nodes[MaxDepth]
           F == [N -> BOOLEAN]
           Step(f, x) == ~IsText(x) /\ ValidStep(f, x)
           step == [f \in F |-> [x \in N |-> Step(f, x)]]
<1>1. \A f \in F : \A x \in N : step[f][x] = Step(f, x)
  <2> HIDE DEF N, Step
  <2> QED
    OBVIOUS
<1>2. IsStep(step, F)
  <2>1. \A f, x : Step(f, x) \in BOOLEAN
    OBVIOUS
  <2> HIDE DEF N, Step
  <2> QED
    BY <2>1 DEF IsStep
<1>3. ASSUME NEW x \in Elements, NEW f, NEW g,
             \A i \in 1..Len(x.children) : ~IsText(x.children[i]) => f[x.children[i]] = g[x.children[i]]
      PROVE  ValidStep(f, x) = ValidStep(g, x)
  <2> DEFINE type == NodeType(x)
             content == Content(x)
  <2>1. ASSUME NEW child \in ToSet(content) PROVE GoodChild(f, type, child) = GoodChild(g, type, child)
    <3>1. PICK i \in 1..Len(x.children) : child = x.children[i]
      BY <2>1, ContentInside
    <3> QED
      BY <1>3, <3>1, Zenon DEF GoodChild
  <2>2. AllGood(f, type, content) = AllGood(g, type, content)
    <3> HIDE DEF type, content
    <3> QED
      BY <2>1, Zenon DEF AllGood
  <2> QED
    BY <2>2, Zenon DEF ValidStep
<1>4. LooksAtParts(step, F, N)
  <2>1. ASSUME NEW f \in F, NEW g \in F, NEW x \in N,
               IsText(x) \/ \A i \in 1..Len(x.children) : f[x.children[i]] = g[x.children[i]]
        PROVE  step[f][x] = step[g][x]
    <3>1. ~IsText(x) => x \in Elements
      BY DEF Elements
    <3>2. Step(f, x) = Step(g, x)
      BY <1>3, <2>1, <3>1
    <3> HIDE DEF N, F, Step, step
    <3> QED
      BY <1>1, <3>2
  <2> HIDE DEF N, F, Step, step
  <2> QED
    BY <2>1, Zenon DEF LooksAtParts
<1>5. PICK f \in F : f = step[f]
  <2> DEFINE R == BOOLEAN
             z == TRUE
  <2>1. z \in R
    OBVIOUS
  <2>2. Functions(F, Nodes[MaxDepth], R)
    BY DEF Functions
  <2>3. LooksAtParts(step, F, Nodes[MaxDepth])
    BY <1>4
  <2> HIDE DEF N, R, F, step, z
  <2> QED
    BY <1>2, <2>1, <2>2, <2>3, TreeRecursion
<1> DEFINE g == [x \in Elements |-> f[x]]
<1>6. \A x \in Elements : g[x] = f[x] /\ x \in N /\ ~IsText(x)
  BY DEF Elements
<1>7. g = [x \in Elements |-> g[x]]
  OBVIOUS
<1> HIDE DEF g
<1>8. ASSUME NEW x \in Elements PROVE g[x] = ValidStep(g, x)
  <2>1. f[x] = ValidStep(f, x)
    <3>1. f[x] = step[f][x]
      BY <1>5
    <3>2. step[f][x] = Step(f, x)
      BY <1>1, <1>6
    <3>3. Step(f, x) = ValidStep(f, x)
      <4> DEFINE a == IsText(x)
                 b == ValidStep(f, x)
      <4>1. ~a /\ b \in BOOLEAN
        BY <1>6 DEF ValidStep
      <4> HIDE DEF a, b
      <4>2. (~a /\ b) = b
        BY <4>1
      <4> QED
        BY <4>2 DEF a, b
    <3> HIDE DEF step, Step
    <3> QED
      BY <3>1, <3>2, <3>3
  <2>2. x.children \in Seq(N)
    BY <1>6, NodeParts
  <2>3. ASSUME NEW i \in 1..Len(x.children), ~IsText(x.children[i])
        PROVE  f[x.children[i]] = g[x.children[i]]
    <3>1. x.children[i] \in Elements
      BY <2>2, <2>3 DEF Elements
    <3> QED
      BY <1>6, <3>1
  <2>4. ValidStep(f, x) = ValidStep(g, x)
    BY <1>3, <2>3
  <2> QED
    BY <1>6, <2>1, <2>4
<1> DEFINE Body(h, x) ==
               LET type == NodeType(x)
                   types == TypesIn(x)
               IN  /\ type # "invalid" /\ HasAttributes(type, x.attributes)
                   /\ type \in {"TITLE", "H1", "A", "BUTTON"} =>
                          Len(Content(x)) <= 1 /\ types \subseteq {"PLAINTEXT"}
                   /\ type = "SCRIPT" => types = {}
                   /\ type = "HEAD" => types \subseteq {"SCRIPT", "TITLE"}
                   /\ type = "BODY" => {"SCRIPT", "TITLE"} \cap types = {}
                   /\ \A child \in ToSet(Content(x)) :
                          IF IsText(child) THEN Wrappable(child.text, Columns[type]) ELSE h[child]
<1>9. ASSUME NEW h, NEW x PROVE Body(h, x) = ValidStep(h, x)
  <2>1. Body(h, x) <=> ValidStep(h, x)
    BY Zenon DEF ValidStep, MayBe, Allows, AllGood, GoodChild, TypesIn, TypeOf
  <2>2. Body(h, x) \in BOOLEAN /\ ValidStep(h, x) \in BOOLEAN
    BY Zenon DEF ValidStep
  <2> HIDE DEF Body
  <2> QED
    BY <2>1, <2>2
<1>10. \E h : h = [x \in Elements |-> Body(h, x)]
  <2> HIDE DEF Body
  <2>1. \A x \in Elements : g[x] = Body(g, x)
    BY <1>8, <1>9
  <2>2. g = [x \in Elements |-> Body(g, x)]
    BY <1>7, <2>1
  <2> QED
    BY <2>2
<1>11. Valid = [x \in Elements |-> Body(Valid, x)]
  BY <1>10, Zenon DEF Valid
<1>12. Valid[dirty] = Body(Valid, dirty)
  <2> HIDE DEF Body
  <2> QED
    BY <1>11
<1> QED
  BY <1>9, <1>12

(* A text without letters, and no other, has no lines.                     *)
LEMMA WrapEmpty ==
    ASSUME NEW S, NEW text \in Seq(S), NEW width \in Nat \ {0}
    PROVE  /\ text = <<>> => Wrap(text, width).error = FALSE
           /\ Wrap(text, width).error = FALSE =>
                  (Wrap(text, width).lines = <<>> <=> text = <<>>)
<1> DEFINE L == Len(text)
           w == Wrap(text, width)
<1>1. PICK f \in [0..L -> Wrapped(S)] :
          /\ w = f[0]
          /\ \A n \in 0..L : Placed(text, width, n, f, f[n])
  BY WrapIs
<1>2. L \in Nat /\ (text = <<>> <=> L = 0) /\ 0 \in 0..L
  BY EmptySeq
<1>3. Placed(text, width, 0, f, f[0])
  BY <1>1, <1>2
<1>4. CASE text = <<>>
  <2>1. f[0] = NoLines
    BY <1>2, <1>3, <1>4, Zenon DEF Placed
  <2> QED
    BY <1>1, <1>4, <2>1 DEF NoLines
<1>5. CASE text # <<>>
  <2>1. w.error = FALSE => FlattenSeq(w.lines) = text
    BY WrapKeepsText
  <2> HIDE DEF w
  <2>2. w.lines = <<>> => FlattenSeq(w.lines) = <<>>
    BY FlattenEmpty
  <2> QED
    BY <1>5, <2>1, <2>2 DEF w
<1> QED
  BY <1>4, <1>5

-----------------------------------------------------------------------------
(* Which children a node takes                                             *)

Takes(type, first, t) ==
    /\ type # "SCRIPT"
    /\ type \in {"TITLE", "H1", "A", "BUTTON"} => first /\ t = "PLAINTEXT"
    /\ type = "HEAD" => t \in {"SCRIPT", "TITLE"}
    /\ type = "BODY" => t \notin {"SCRIPT", "TITLE"}

LEMMA MayHaveIs ==
    ASSUME NEW node, NEW child
    PROVE  MayHave(node, child) <=> Takes(node.type, node.children = <<>>, child.type)
<1> DEFINE type == node.type
           first == node.children = <<>>
           t == child.type
<1> HIDE DEF type, t, first
<1>1. CASE type = "SCRIPT"
  BY <1>1, Zenon DEF MayHave, Takes, type
<1>2. CASE type \in {"TITLE", "H1", "A", "BUTTON"}
  <2>1. type # "SCRIPT" /\ type # "HEAD" /\ type # "BODY"
    BY <1>2
  <2> QED
    BY <1>2, <2>1, Zenon DEF MayHave, Takes, type, t, first
<1>3. CASE type = "HEAD"
  <2>1. type # "SCRIPT" /\ type \notin {"TITLE", "H1", "A", "BUTTON"} /\ type # "BODY"
    BY <1>3
  <2> QED
    BY <1>3, <2>1, Zenon DEF MayHave, Takes, type, t, first
<1>4. CASE type = "BODY"
  <2>1. type # "SCRIPT" /\ type \notin {"TITLE", "H1", "A", "BUTTON"} /\ type # "HEAD"
    BY <1>4
  <2> QED
    BY <1>4, <2>1, Zenon DEF MayHave, Takes, type, t, first
<1>5. CASE type \notin {"SCRIPT", "TITLE", "H1", "A", "BUTTON", "HEAD", "BODY"}
  <2>1. /\ type # "SCRIPT" /\ type \notin {"TITLE", "H1", "A", "BUTTON"}
        /\ type # "HEAD" /\ type # "BODY"
    BY <1>5
  <2> QED
    BY <2>1, Zenon DEF MayHave, Takes, type
<1> QED
  BY <1>1, <1>2, <1>3, <1>4, <1>5

AllowsIn(type, n, ts) ==
    /\ type \in {"TITLE", "H1", "A", "BUTTON"} => n <= 1 /\ ts \subseteq {"PLAINTEXT"}
    /\ type = "SCRIPT" => ts = {}
    /\ type = "HEAD" => ts \subseteq {"SCRIPT", "TITLE"}
    /\ type = "BODY" => {"SCRIPT", "TITLE"} \cap ts = {}

LEMMA AllowsMore ==
    ASSUME NEW type, NEW n \in Nat, NEW ts, NEW t
    PROVE  AllowsIn(type, n + 1, ts \cup {t}) <=> AllowsIn(type, n, ts) /\ Takes(type, n = 0, t)
<1> DEFINE p == "PLAINTEXT"
           s == "SCRIPT"
           i == "TITLE"
           single == type \in {"TITLE", "H1", "A", "BUTTON"}
<1>1. CASE type = "SCRIPT"
  BY <1>1 DEF AllowsIn, Takes
<1>2. CASE type \in {"TITLE", "H1", "A", "BUTTON"}
  <2>1. type # "SCRIPT" /\ type # "HEAD" /\ type # "BODY"
    BY <1>2
  <2> HIDE DEF p
  <2>2. AllowsIn(type, n + 1, ts \cup {t}) <=> n + 1 <= 1 /\ ts \cup {t} \subseteq {p}
    BY <1>2, <2>1, Zenon DEF AllowsIn, p
  <2>3. AllowsIn(type, n, ts) <=> n <= 1 /\ ts \subseteq {p}
    BY <1>2, <2>1, Zenon DEF AllowsIn, p
  <2>4. Takes(type, n = 0, t) <=> n = 0 /\ t = p
    BY <1>2, <2>1, Zenon DEF Takes, p
  <2>5. (n + 1 <= 1 <=> n = 0) /\ (n = 0 => n <= 1)
    OBVIOUS
  <2> QED
    BY <2>2, <2>3, <2>4, <2>5
<1>3. CASE type = "HEAD"
  <2>1. type # "SCRIPT" /\ type \notin {"TITLE", "H1", "A", "BUTTON"} /\ type # "BODY"
    BY <1>3
  <2> HIDE DEF s, i
  <2>2. AllowsIn(type, n + 1, ts \cup {t}) <=> ts \cup {t} \subseteq {s, i}
    BY <1>3, <2>1, Zenon DEF AllowsIn, s, i
  <2>3. AllowsIn(type, n, ts) <=> ts \subseteq {s, i}
    BY <1>3, <2>1, Zenon DEF AllowsIn, s, i
  <2>4. Takes(type, n = 0, t) <=> t \in {s, i}
    BY <1>3, <2>1, Zenon DEF Takes, s, i
  <2> QED
    BY <2>2, <2>3, <2>4
<1>4. CASE type = "BODY"
  <2>1. type # "SCRIPT" /\ type \notin {"TITLE", "H1", "A", "BUTTON"} /\ type # "HEAD"
    BY <1>4
  <2> HIDE DEF s, i
  <2>2. AllowsIn(type, n + 1, ts \cup {t}) <=> {s, i} \cap (ts \cup {t}) = {}
    BY <1>4, <2>1, Zenon DEF AllowsIn, s, i
  <2>3. AllowsIn(type, n, ts) <=> {s, i} \cap ts = {}
    BY <1>4, <2>1, Zenon DEF AllowsIn, s, i
  <2>4. Takes(type, n = 0, t) <=> t \notin {s, i}
    BY <1>4, <2>1, Zenon DEF Takes, s, i
  <2> QED
    BY <2>2, <2>3, <2>4
<1>5. CASE type \notin {"SCRIPT", "TITLE", "H1", "A", "BUTTON", "HEAD", "BODY"}
  <2>1. /\ type # "SCRIPT" /\ type \notin {"TITLE", "H1", "A", "BUTTON"}
        /\ type # "HEAD" /\ type # "BODY"
    BY <1>5
  <2> QED
    BY <2>1, Zenon DEF AllowsIn, Takes
<1> QED
  BY <1>1, <1>2, <1>3, <1>4, <1>5

LEMMA AllowsAppend ==
    ASSUME NEW S, NEW content \in Seq(S), NEW child \in S, NEW type, NEW f
    PROVE  /\ Allows(type, Append(content, child)) <=>
                  Allows(type, content) /\ Takes(type, content = <<>>, TypeOf(child))
           /\ AllGood(f, type, Append(content, child)) <=>
                  AllGood(f, type, content) /\ GoodChild(f, type, child)
<1> DEFINE more == Append(content, child)
           n == Len(content)
           t == TypeOf(child)
           ts == {TypeOf(x) : x \in ToSet(content)}
<1>1. ToSet(more) = ToSet(content) \cup {child}
  <2>1. /\ DOMAIN more = 1..n + 1 /\ DOMAIN content = 1..n /\ n \in Nat /\ more[n + 1] = child
        /\ \A i \in 1..n : more[i] = content[i]
    BY AppendProperties
  <2> HIDE DEF more
  <2>2. \A x : x \in ToSet(more) <=> \E i \in 1..n + 1 : x = more[i]
    BY <2>1 DEF ToSet
  <2>3. \A x : x \in ToSet(content) <=> \E i \in 1..n : x = content[i]
    BY <2>1 DEF ToSet
  <2> HIDE DEF n
  <2>4. \A i \in 1..n + 1 : i \in 1..n \/ i = n + 1
    BY <2>1
  <2>5. n + 1 \in 1..n + 1 /\ \A i \in 1..n : i \in 1..n + 1
    BY <2>1
  <2>6. ASSUME NEW x PROVE x \in ToSet(more) <=> x \in ToSet(content) \/ x = child
    BY <2>1, <2>2, <2>3, <2>4, <2>5
  <2> QED
    BY <2>6
<1>2. n \in Nat /\ Len(more) = n + 1 /\ (n = 0 <=> content = <<>>)
  BY EmptySeq
<1> HIDE DEF more
<1>3. {TypeOf(x) : x \in ToSet(more)} = ts \cup {t}
  BY <1>1
<1>4. Allows(type, more) <=> AllowsIn(type, n + 1, ts \cup {t})
  BY <1>2, <1>3, Zenon DEF Allows, AllowsIn
<1>5. Allows(type, content) <=> AllowsIn(type, n, ts)
  BY Zenon DEF Allows, AllowsIn
<1>6. AllGood(f, type, more) <=> AllGood(f, type, content) /\ GoodChild(f, type, child)
  BY <1>1, Zenon DEF AllGood
<1> DEFINE first == content = <<>>
           zero == n = 0
<1>7. Takes(type, first, t) <=> Takes(type, zero, t)
  <2>1. first <=> zero
    BY <1>2
  <2> HIDE DEF first, zero, t
  <2> QED
    BY <2>1, Zenon DEF Takes
<1> HIDE DEF n, ts, t, first
<1>8. AllowsIn(type, n + 1, ts \cup {t}) <=> AllowsIn(type, n, ts) /\ Takes(type, zero, t)
  BY <1>2, AllowsMore
<1> QED
  BY <1>4, <1>5, <1>6, <1>7, <1>8 DEF more, t, first

LEMMA AllowsNone ==
    ASSUME NEW type, NEW f
    PROVE  Allows(type, <<>>) /\ AllGood(f, type, <<>>)
<1>1. ToSet(<<>>) = {}
  BY DEF ToSet
<1>2. Len(<<>>) <= 1
  OBVIOUS
<1> QED
  BY <1>1, <1>2 DEF Allows, AllGood

-----------------------------------------------------------------------------
(* Whether a page is cleaned                                               *)

Acceptable(type, content) == Allows(type, content) /\ AllGood(Valid, type, content)

(* What cleaning a child comes to, and what a parent with its first        *)
(* children, tell of whether the page is valid.                            *)
Judged(clean, dirty, good) ==
    /\ clean \in Failures <=> ~good
    /\ clean \notin Failures => /\ clean.type = TypeOf(dirty)
                                /\ IsEmptyText(clean) <=> ~IsContent(dirty)
    /\ ~IsContent(dirty) => good

Accepted(parent, type, content) ==
    /\ parent \in Failures <=> ~Acceptable(type, content)
    /\ parent \notin Failures => /\ parent.type = type
                                 /\ parent.children = <<>> <=> content = <<>>

LEMMA AcceptedStep ==
    ASSUME NEW S, AreNodes(S), NEW parent \in DomOf(Seq(S)) \cup Failures,
           NEW child \in S \cup Failures, NEW dirty \in Nodes[MaxDepth],
           NEW content \in Seq(Nodes[MaxDepth]), NEW type,
           Accepted(parent, type, content),
           Judged(child, dirty, GoodChild(Valid, type, dirty))
    PROVE  /\ dirty \in Contents => Accepted(AddOne(parent, child), type, Append(content, dirty))
           /\ dirty \notin Contents => Accepted(AddOne(parent, child), type, content)
<1> DEFINE more == Append(content, dirty)
           next == AddOne(parent, child)
           good == GoodChild(Valid, type, dirty)
           takes == Takes(type, content = <<>>, TypeOf(dirty))
           ok == Acceptable(type, content)
           moreOk == Acceptable(type, more)
<1>1. moreOk <=> ok /\ takes /\ good
  BY AllowsAppend DEF Acceptable
<1>2. more # <<>>
  BY AppendNotEmpty
<1>3. dirty \in Contents <=> IsContent(dirty)
  BY DEF Contents
<1>4. /\ parent \in Failures <=> ~ok
      /\ parent \notin Failures => /\ parent.type = type
                                   /\ parent.children = <<>> <=> content = <<>>
  BY Zenon DEF Accepted
<1>5. /\ child \in Failures <=> ~good
      /\ child \notin Failures => /\ child.type = TypeOf(dirty)
                                  /\ IsEmptyText(child) <=> ~IsContent(dirty)
      /\ ~IsContent(dirty) => good
  BY Zenon DEF Judged
<1>6. CASE parent \in Failures
  <2>1. next = parent
    BY <1>6, FailedStay
  <2>2. ~ok /\ ~moreOk
    BY <1>1, <1>4, <1>6
  <2> HIDE DEF next, more
  <2>3. Accepted(next, type, content) /\ Accepted(next, type, more)
    BY <1>6, <2>1, <2>2, Zenon DEF Accepted
  <2> QED
    BY <2>3 DEF next, more
<1>7. CASE parent \notin Failures /\ child \in Failures
  <2>1. parent \in DomOf(Seq(S))
    BY <1>7
  <2>2. next \in Failures
    BY <1>7, <2>1, AddOneCases
  <2>3. ~moreOk /\ dirty \in Contents
    BY <1>1, <1>3, <1>5, <1>7
  <2> HIDE DEF next, more
  <2>4. Accepted(next, type, more)
    BY <2>2, <2>3, Zenon DEF Accepted
  <2> QED
    BY <2>3, <2>4 DEF next, more
<1>8. CASE parent \notin Failures /\ child \notin Failures /\ dirty \notin Contents
  <2>1. parent \in DomOf(Seq(S)) /\ IsEmptyText(child)
    BY <1>3, <1>5, <1>8
  <2>2. next = parent
    BY <1>8, <2>1, AddOneCases
  <2> QED
    BY <1>8, <2>2
<1>9. CASE parent \notin Failures /\ child \notin Failures /\ dirty \in Contents
  <2>1. parent \in DomOf(Seq(S)) /\ ~IsEmptyText(child) /\ child \in S
    BY <1>3, <1>5, <1>9
  <2>2. MayHave(parent, child) <=> takes
    <3>1. MayHave(parent, child) <=> Takes(parent.type, parent.children = <<>>, child.type)
      BY MayHaveIs
    <3> DEFINE t == child.type
               u == TypeOf(dirty)
               a == parent.children = <<>>
               b == content = <<>>
    <3>2. parent.type = type /\ t = u /\ (a <=> b)
      BY <1>4, <1>5, <1>9
    <3>3. a \in BOOLEAN /\ b \in BOOLEAN
      OBVIOUS
    <3> HIDE DEF a, b, t, u
    <3>4. a = b
      BY <3>2, <3>3
    <3> QED
      BY <3>1, <3>2, <3>4, Zenon DEF a, b, t, u
  <2>3. CASE takes
    <3>1. next = Grown(parent, child)
      BY <1>9, <2>1, <2>2, <2>3, AddOneCases
    <3>2. next \notin Failures /\ next.type = type /\ next.children # <<>>
      <4>1. /\ next \in DomOf(Seq(S)) /\ next.type = parent.type
            /\ next.children = Append(parent.children, child)
        BY <2>1, <3>1, GrownIs
      <4>2. ASSUME NEW x \in DomOf(Seq(S)) PROVE x \notin Failures /\ x.children \in Seq(S)
        <5>1. ~Failed(x) /\ x.children \in Seq(S)
          BY DEF DomOf, Failed
        <5> QED
          BY <5>1, FailuresFail
      <4>3. parent.children \in Seq(S)
        BY <2>1, <4>2
      <4>4. Append(parent.children, child) # <<>>
        BY <2>1, <4>3, AppendNotEmpty
      <4>5. parent.type = type
        BY <1>4, <1>9
      <4> HIDE DEF next
      <4> QED
        BY <4>1, <4>2, <4>4, <4>5
    <3>3. moreOk
      BY <1>1, <1>4, <1>5, <1>9, <2>3
    <3> HIDE DEF next, more
    <3>4. Accepted(next, type, more)
      BY <1>2, <3>2, <3>3, Zenon DEF Accepted
    <3> QED
      BY <1>9, <3>4 DEF next, more
  <2>4. CASE ~takes
    <3>1. next \in Failures
      BY <1>9, <2>1, <2>2, <2>4, AddOneCases
    <3>2. ~moreOk
      BY <1>1, <2>4
    <3> HIDE DEF next, more
    <3>3. Accepted(next, type, more)
      BY <3>1, <3>2, Zenon DEF Accepted
    <3> QED
      BY <1>9, <3>3 DEF next, more
  <2> QED
    BY <2>3, <2>4
<1> QED
  BY <1>6, <1>7, <1>8, <1>9

JudgedAll(children, dirties, type) ==
    /\ Len(children) = Len(dirties)
    /\ \A i \in 1..Len(dirties) :
           Judged(children[i], dirties[i], GoodChild(Valid, type, dirties[i]))

LEMMA AddsAccepted ==
    ASSUME NEW S, AreNodes(S), NEW node \in DomOf(Seq(S)), node.children = <<>>,
           NEW dirties \in Seq(Nodes[MaxDepth]), NEW children \in Seq(S \cup Failures),
           JudgedAll(children, dirties, node.type)
    PROVE  Accepted(AddChildren(node, children), node.type, Chosen(dirties, Contents))
<1> DEFINE n == Len(dirties)
           N == Nodes[MaxDepth]
           type == node.type
           c(i) == Chosen(Prefix(dirties, i), Contents)
<1>1. n \in Nat /\ n \in 0..n /\ 0 \in 0..n /\ 0 \in Int /\ n \in Int /\ Len(children) = n
  BY DEF JudgedAll
<1>2. PICK f \in [0..Len(children) -> DomOf(Seq(S)) \cup Failures] :
          Adding(f, node, children) /\ AddChildren(node, children) = f[Len(children)]
  BY AddChildrenIs
<1> DEFINE H == {i \in 0..n : Accepted(f[i], type, c(i))}
<1>3. 0 \in H
  <2>1. f[0] = node
    BY <1>2 DEF Adding
  <2>2. Prefix(dirties, 0) = <<>>
    BY PrefixAll
  <2>3. c(0) = <<>>
    BY <2>2, ChosenNone
  <2>4. Acceptable(type, <<>>)
    BY AllowsNone DEF Acceptable
  <2>5. node \notin Failures
    <3>1. ~Failed(node)
      BY DEF DomOf, Failed
    <3> QED
      BY <3>1, FailuresFail
  <2>6. Accepted(node, type, <<>>)
    BY <2>4, <2>5, Zenon DEF Accepted
  <2> HIDE DEF c
  <2> QED
    BY <1>1, <2>1, <2>3, <2>6
<1>4. ASSUME NEW i \in 0..n - 1, i \in H PROVE i + 1 \in H
  <2> DEFINE e == i + 1
             parent == f[i]
             child == children[e]
             dirty == dirties[e]
             content == c(i)
             T == DomOf(Seq(S))
  <2>1. e \in 0..n /\ e \in 1..n /\ e - 1 = i /\ i \in 0..n
    BY <1>1
  <2> HIDE DEF e
  <2>2. f[e] = AddOne(parent, child)
    BY <1>1, <1>2, <2>1 DEF Adding
  <2>3. child \in S \cup Failures /\ dirty \in N
    BY <1>1, <2>1
  <2> HIDE DEF T
  <2>4. parent \in T \cup Failures
    BY <1>1, <1>2, <2>1 DEF T
  <2>5. Prefix(dirties, i) \in Seq(N)
    BY <2>1, PrefixIs
  <2>6. content \in Seq(N)
    BY <2>5, ChosenType
  <2>7. Prefix(dirties, e) = Append(Prefix(dirties, i), dirty)
    BY <2>1, PrefixNext
  <2>8. /\ dirty \in Contents => c(e) = Append(content, dirty)
        /\ dirty \notin Contents => c(e) = content
    <3> DEFINE p == Prefix(dirties, i)
    <3> HIDE DEF p, dirty
    <3>1. p \in Seq(N)
      BY <2>5 DEF p
    <3>2. /\ dirty \in Contents => Chosen(Append(p, dirty), Contents) = Append(Chosen(p, Contents), dirty)
          /\ dirty \notin Contents => Chosen(Append(p, dirty), Contents) = Chosen(p, Contents)
      BY <2>3, <3>1, ChosenAppend
    <3> QED
      BY <2>7, <3>2 DEF p
  <2>9. Accepted(parent, type, content)
    BY <1>4
  <2>10. Judged(child, dirty, GoodChild(Valid, type, dirty))
    BY <2>1 DEF JudgedAll
  <2> HIDE DEF parent, child, dirty, content, c, type
  <2>11. /\ dirty \in Contents => Accepted(AddOne(parent, child), type, Append(content, dirty))
         /\ dirty \notin Contents => Accepted(AddOne(parent, child), type, content)
    BY <2>3, <2>4, <2>6, <2>9, <2>10, AcceptedStep DEF T
  <2>12. Accepted(f[e], type, c(e))
    BY <2>2, <2>8, <2>11
  <2>13. e \in H
    BY <2>1, <2>12
  <2> QED
    BY <2>13 DEF e
<1>5. Inductive(H, 0, n)
  BY <1>4, Zenon DEF Inductive
<1>6. n \in H
  <2> HIDE DEF H, n
  <2> QED
    BY <1>1, <1>3, <1>5, UpTo
<1>7. Prefix(dirties, n) = dirties
  BY PrefixAll
<1> QED
  BY <1>1, <1>2, <1>6, <1>7

LEMMA TextJudged ==
    ASSUME NEW dirty \in Nodes[MaxDepth], IsText(dirty), NEW type \in Types
    PROVE  Judged(NewText(dirty.text, type), dirty, GoodChild(Valid, type, dirty))
<1> DEFINE text == dirty.text
           width == Columns[type]
           wrapped == Wrap(text, width)
           node == NewText(text, type)
           good == Wrappable(text, width)
<1>1. text \in Texts /\ text \in Seq(STRING)
  BY NodeParts DEF Texts
<1>2. width \in Nat \ {0}
  BY WidthIs
<1>3. wrapped.error = ~good
  BY <1>1, <1>2, WrapFails
<1>4. /\ text = <<>> => wrapped.error = FALSE
      /\ wrapped.error = FALSE => (wrapped.lines = <<>> <=> text = <<>>)
  BY <1>1, <1>2, WrapEmpty
<1>5. /\ wrapped.error => node = Hang
      /\ ~wrapped.error => /\ node \in DomOf({<<>>}) /\ node.type = "PLAINTEXT"
                           /\ node.lines = wrapped.lines
  BY <1>1, NewTextIs
<1>6. good \in BOOLEAN
  BY Zenon DEF Wrappable
<1>7. IsContent(dirty) <=> text # <<>>
  BY Zenon DEF IsContent
<1>8. GoodChild(Valid, type, dirty) = good
  BY Zenon DEF GoodChild
<1>9. TypeOf(dirty) = "PLAINTEXT"
  BY Zenon DEF TypeOf
<1> DEFINE error == wrapped.error
           lines == wrapped.lines
<1>10. error = ~good
  BY <1>3
<1> HIDE DEF good, wrapped, node, text, lines, error
<1>11. CASE good
  <2>1. error = FALSE
    BY <1>6, <1>10, <1>11
  <2>2. /\ node \in DomOf({<<>>}) /\ node.type = "PLAINTEXT" /\ node.lines = lines
        /\ (lines = <<>> <=> text = <<>>)
    BY <1>4, <1>5, <2>1, Zenon DEF error, lines
  <2>3. node \notin Failures
    <3>1. ~Failed(node)
      BY <2>2 DEF DomOf, Failed
    <3> QED
      BY <3>1, FailuresFail
  <2>4. IsEmptyText(node) <=> ~IsContent(dirty)
    BY <1>7, <2>2, Zenon DEF IsEmptyText
  <2>5. Judged(node, dirty, good)
    BY <1>9, <1>11, <2>2, <2>3, <2>4, Zenon DEF Judged
  <2> QED
    BY <1>8, <2>5 DEF node, text
<1>12. CASE ~good
  <2>1. error = TRUE
    BY <1>6, <1>10, <1>12
  <2>2. node = Hang /\ Hang \in Failures
    BY <1>5, <2>1 DEF error, Failures
  <2>3. text # <<>>
    BY <1>4, <2>1 DEF error
  <2>4. Judged(node, dirty, good)
    BY <1>7, <1>12, <2>2, <2>3, Zenon DEF Judged
  <2> QED
    BY <1>8, <2>4 DEF node, text
<1> QED
  BY <1>11, <1>12

(* Cleaning an element fails if and only if it is not valid.               *)
IsJudged(dirty) ==
    /\ CleanElement[dirty] \in Failures <=> ~Valid[dirty]
    /\ CleanElement[dirty] \notin Failures => CleanElement[dirty].type = NodeType(dirty)

LEMMA CleansJudged ==
    \A dirty \in Elements : IsJudged(dirty)
<1> DEFINE H == {x \in Nodes[MaxDepth] : IsText(x) \/ IsJudged(x)}
<1>1. ASSUME NEW x \in Nodes[MaxDepth], ~IsText(x),
             \A i \in 1..Len(x.children) : x.children[i] \in H
      PROVE  IsJudged(x)
  <2> DEFINE node == NewNode(x)
             clean == CleanChildren(CleanElement, x)
             S == DomNodes[MaxDepth - 1]
             element == CleanElement[x]
             type == NodeType(x)
             content == Content(x)
  <2>1. MaxDepth \in 0..MaxDepth
    BY CleanerAssumption
  <2>2. x \in Elements /\ x.children \in Seq(Nodes[MaxDepth])
    BY <1>1, NodeParts
  <2>3. element = CleanStep(CleanElement, x)
    BY <2>2, CleanIs
  <2>4. Valid[x] = ValidStep(Valid, x)
    BY <2>2, ValidIs
  <2>5. ValidStep(Valid, x) <=> MayBe(x) /\ Acceptable(type, content)
    BY Zenon DEF ValidStep, Acceptable
  <2>6. CASE ~MayBe(x)
    <3>1. node = Hang /\ Hang \in Failures /\ Failed(Hang)
      BY <2>2, <2>6, NewNodeIs DEF Failures, Hang, Failed
    <3>2. element = Hang
      BY <2>3, <3>1, Zenon DEF CleanStep
    <3>3. ~ValidStep(Valid, x)
      BY <2>5, <2>6
    <3>4. ~Valid[x]
      BY <2>4, <3>3
    <3> QED
      BY <3>1, <3>2, <3>4 DEF IsJudged
  <2>7. CASE MayBe(x)
    <3>1. /\ node \in DomOf({<<>>}) /\ node.type = type /\ type \in Types
          /\ node.children = <<>> /\ ~Failed(node)
      BY <2>2, <2>7, NewNodeIs
    <3>2. /\ MaxDepth - 1 \in 0..MaxDepth
          /\ clean \in Seq(S \cup Failures)
          /\ node \in DomOf(Seq(S))
      BY <1>1, <2>1, <3>1, CleanTyped
    <3>3. AreNodes(S)
      BY <3>2, DomAreNodes
    <3>4. ASSUME NEW i \in 1..Len(x.children)
          PROVE  Judged(clean[i], x.children[i], GoodChild(Valid, type, x.children[i]))
      <4> DEFINE child == x.children[i]
      <4>1. child \in Nodes[MaxDepth] /\ child \in H
        BY <1>1, <2>2
      <4>2. clean[i] = CleanOne(CleanElement, child, type)
        <5>1. DOMAIN x.children = 1..Len(x.children)
          BY <2>2
        <5>2. clean[i] = CleanOne(CleanElement, child, node.type)
          BY <5>1 DEF CleanChildren
        <5> QED
          BY <3>1, <5>2, Zenon
      <4>3. type \in Types
        BY <3>1
      <4> HIDE DEF child, type, clean
      <4>4. CASE IsText(child)
        <5>1. clean[i] = NewText(child.text, type)
          BY <4>2, <4>4, Zenon DEF CleanOne
        <5>2. Judged(NewText(child.text, type), child, GoodChild(Valid, type, child))
          BY <4>1, <4>3, <4>4, TextJudged
        <5> QED
          BY <5>1, <5>2, Zenon DEF child
      <4>5. CASE ~IsText(child)
        <5> DEFINE y == CleanElement[child]
                   good == GoodChild(Valid, type, child)
        <5>1. clean[i] = y
          BY <4>2, <4>5, Zenon DEF CleanOne
        <5>2. child \in Elements
          BY <4>1, <4>5 DEF Elements
        <5>3. /\ y \in Failures <=> ~Valid[child]
              /\ y \notin Failures => y.type = NodeType(child)
          BY <4>1, <4>5 DEF IsJudged
        <5>4. good = Valid[child]
          BY <4>5, Zenon DEF GoodChild
        <5>5. IsContent(child) /\ TypeOf(child) = NodeType(child)
          BY <4>5, Zenon DEF IsContent, TypeOf
        <5>6. y \notin Failures => ~IsEmptyText(y)
          <6>1. Valid[child] = ValidStep(Valid, child)
            BY <5>2, ValidIs
          <6>2. ASSUME y \notin Failures PROVE MayBe(child)
            <7>1. Valid[child]
              BY <5>3, <6>2
            <7>2. ValidStep(Valid, child)
              BY <6>1, <7>1
            <7> QED
              BY <7>2 DEF ValidStep
          <6>3. MayBe(child) => NodeType(child) \in Types
            BY <5>2, NewNodeIs
          <6> QED
            BY <5>3, <6>2, <6>3, NotNone, Zenon DEF IsEmptyText
        <5> HIDE DEF y, good
        <5>7. Judged(y, child, good)
          BY <5>3, <5>4, <5>5, <5>6 DEF Judged
        <5> QED
          BY <5>1, <5>7 DEF child, good
      <4> QED
        BY <4>4, <4>5 DEF child
    <3>5. JudgedAll(clean, x.children, type)
      <4>1. Len(clean) = Len(x.children)
        <5> DEFINE n == Len(x.children)
                   U == S \cup Failures
        <5>1. n \in Nat /\ DOMAIN x.children = 1..n
          BY <2>2
        <5>2. clean = [i \in 1..n |-> clean[i]]
          BY <5>1 DEF CleanChildren
        <5>3. \A i \in 1..n : clean[i] \in U
          <6>1. DOMAIN clean = 1..n
            BY <5>1 DEF CleanChildren
          <6>2. clean \in Seq(U)
            BY <3>2
          <6> HIDE DEF clean, n, U
          <6>3. DOMAIN clean = 1..Len(clean) /\ \A i \in 1..Len(clean) : clean[i] \in U
            BY <6>2, ElementOfSeq
          <6> QED
            BY <6>1, <6>3
        <5> HIDE DEF clean, n, U
        <5>4. Holds(clean, n, U)
          BY <5>2, <5>3 DEF Holds
        <5> QED
          BY <5>1, <5>4, MakeSeq DEF n
      <4> HIDE DEF clean, type
      <4> QED
        BY <3>4, <4>1 DEF JudgedAll
    <3>6. element = AddChildren(node, clean)
      BY <2>3, <3>1, Zenon DEF CleanStep
    <3>7. content = Chosen(x.children, Contents)
      BY <2>2, ContentChosen DEF Content
    <3>8. Accepted(AddChildren(node, clean), type, Chosen(x.children, Contents))
      <4> DEFINE kids == x.children
      <4>1. kids \in Seq(Nodes[MaxDepth])
        BY <2>2
      <4>2. JudgedAll(clean, kids, node.type)
        BY <3>1, <3>5
      <4>3. node.children = <<>> /\ node.type = type
        BY <3>1
      <4> HIDE DEF node, clean, S, kids
      <4>4. Accepted(AddChildren(node, clean), node.type, Chosen(kids, Contents))
        BY <3>2, <3>3, <4>1, <4>2, <4>3, AddsAccepted
      <4> QED
        BY <4>3, <4>4 DEF kids
    <3>9. Accepted(element, type, content)
      BY <3>6, <3>7, <3>8
    <3>10. /\ element \in Failures <=> ~Acceptable(type, content)
           /\ element \notin Failures => element.type = type
      BY <3>9, Zenon DEF Accepted
    <3>11. Valid[x] <=> Acceptable(type, content)
      BY <2>4, <2>5, <2>7
    <3> QED
      BY <3>10, <3>11 DEF IsJudged
  <2> QED
    BY <2>6, <2>7
<1>2. Closed(H)
  <2> HIDE DEF H
  <2>1. ASSUME NEW x \in Nodes[MaxDepth],
               IsText(x) \/ \A i \in 1..Len(x.children) : x.children[i] \in H
        PROVE  x \in H
    BY <1>1, <2>1 DEF H
  <2> QED
    BY <2>1, Zenon DEF Closed
<1>3. Nodes[MaxDepth] \subseteq H
  <2> HIDE DEF H
  <2> QED
    BY <1>2, TreeInduction
<1> QED
  BY <1>3 DEF Elements

(* What may be at the top of a page.                                       *)
TopValid(dirty) ==
    IF IsText(dirty) THEN dirty.text = <<>>
    ELSE Valid[dirty] /\ NodeType(dirty) \in {"HEAD", "BODY"}

LEMMA TopJudged ==
    ASSUME NEW S, AreNodes(S), CleansInto(S), NEW d \in Doms(S), NEW dirty \in Nodes[MaxDepth]
    PROVE  TopOne(d, dirty) \in Failures <=> ~TopValid(dirty)
<1>1. Hang \in Failures /\ Fault \in Failures
  BY DEF Failures
<1>2. d \notin Failures
  BY DomsFail
<1>3. CASE IsEmpty(dirty)
  <2>1. TopOne(d, dirty) = d
    BY <1>3, Zenon DEF TopOne
  <2>2. TopValid(dirty)
    BY <1>3, Zenon DEF TopValid, IsEmpty
  <2> QED
    BY <1>2, <2>1, <2>2
<1>4. CASE ~IsEmpty(dirty) /\ IsText(dirty)
  <2>1. TopOne(d, dirty) = Fault
    BY <1>4, TopTextIs
  <2>2. ~TopValid(dirty)
    BY <1>4, Zenon DEF TopValid, IsEmpty
  <2> QED
    BY <1>1, <2>1, <2>2
<1>5. CASE ~IsText(dirty)
  <2> DEFINE node == CleanElement[dirty]
             more == TopOne(d, dirty)
             one == Topped(d, node)
             atTop == NodeType(dirty) \in {"HEAD", "BODY"}
  <2>1. dirty \in Elements
    BY <1>5 DEF Elements
  <2>2. node \in S \cup Failures
    BY <2>1 DEF CleansInto
  <2>3. node \in Failures => more = node
    BY <1>5, <2>2, TopElementIs, Zenon
  <2>4. node \notin Failures => /\ node \in S
                                /\ IsAtTop(node) => more = one
                                /\ ~IsAtTop(node) => more = Hang
    <3>1. CleanElement[dirty] \notin Failures =>
              /\ CleanElement[dirty] \in S
              /\ CleanElement[dirty].type \in {"HEAD", "BODY"} =>
                     TopOne(d, dirty) = Topped(d, CleanElement[dirty])
              /\ CleanElement[dirty].type \notin {"HEAD", "BODY"} => TopOne(d, dirty) = Hang
      BY <1>5, <2>2, TopElementIs
    <3> QED
      BY <3>1, Zenon DEF IsAtTop
  <2>5. /\ node \in Failures <=> ~Valid[dirty]
        /\ node \notin Failures => node.type = NodeType(dirty)
    BY <2>1, CleansJudged, Zenon DEF IsJudged
  <2>6. node \notin Failures => (IsAtTop(node) <=> atTop)
    BY <2>5, Zenon DEF IsAtTop
  <2>7. node \in S => one \notin Failures
    <3> HIDE DEF node
    <3>1. node \in S => one \in Doms(S)
      BY ToppedIs
    <3> QED
      BY <3>1, DomsFail
  <2>8. TopValid(dirty) <=> Valid[dirty] /\ atTop
    BY <1>5, Zenon DEF TopValid
  <2> HIDE DEF node, more, one, atTop
  <2>9. more \in Failures <=> ~TopValid(dirty)
    BY <1>1, <2>3, <2>4, <2>5, <2>6, <2>7, <2>8
  <2> QED
    BY <2>9 DEF more
<1> QED
  BY <1>3, <1>4, <1>5

LEMMA CleanDomJudged ==
    ASSUME NEW nodes \in Seq(Nodes[MaxDepth])
    PROVE  CleanDom(nodes) \in Failures <=> ~\A dirty \in ToSet(nodes) : TopValid(dirty)
<1> DEFINE S == DomNodes[MaxDepth]
           D == Doms(S)
           n == Len(nodes)
           ok(i) == \A k \in 1..i : TopValid(nodes[k])
<1>1. AreNodes(S) /\ CleansInto(S)
  <2>1. MaxDepth \in 0..MaxDepth
    BY CleanerAssumption
  <2> QED
    BY <2>1, DomAreNodes, CleansTyped
<1> HIDE DEF S
<1>2. n \in Nat /\ n \in 0..n /\ 0 \in 0..n /\ 0 \in Int /\ n \in Int
  OBVIOUS
<1>3. PICK f \in [0..n -> D \cup Failures] : Topping(f, nodes) /\ CleanDom(nodes) = f[n]
  BY <1>1, CleanDomIs
<1> DEFINE H == {i \in 0..n : f[i] \in Failures <=> ~ok(i)}
<1>4. 0 \in H
  <2>1. NoDom \notin Failures
    BY NoDomIs, DomsFail
  <2>2. ok(0)
    OBVIOUS
  <2> QED
    BY <1>2, <1>3, <2>1, <2>2 DEF Topping
<1>5. ASSUME NEW i \in 0..n - 1, i \in H PROVE i + 1 \in H
  <2> DEFINE e == i + 1
             d == f[i]
             dirty == nodes[e]
             okE == ok(e)
             okI == ok(i)
  <2>1. e \in 0..n /\ e \in 1..n /\ e - 1 = i /\ i \in 0..n
    BY <1>2
  <2>2. okE <=> okI /\ TopValid(dirty)
    <3>1. \A k : k \in 1..e <=> k \in 1..i \/ k = e
      BY <1>2
    <3> HIDE DEF e
    <3> QED
      BY <3>1
  <2> HIDE DEF e, okE, okI
  <2>3. f[e] = TopOne(d, dirty)
    BY <1>3, <2>1 DEF Topping
  <2>4. dirty \in Nodes[MaxDepth]
    BY <2>1
  <2>5. d \in Failures <=> ~okI
    BY <1>5 DEF okI
  <2> HIDE DEF D
  <2>6. d \in D \cup Failures
    BY <1>3, <2>1
  <2> HIDE DEF d, dirty
  <2>7. CASE d \in Failures
    <3>1. f[e] \in Failures
      BY <2>3, <2>7, FailedDomStays
    <3> QED
      BY <2>1, <2>2, <2>5, <2>7, <3>1 DEF okE
  <2>8. CASE d \notin Failures
    <3>1. d \in Doms(S)
      BY <2>6, <2>8 DEF D
    <3>2. TopOne(d, dirty) \in Failures <=> ~TopValid(dirty)
      BY <1>1, <2>4, <3>1, TopJudged
    <3> QED
      BY <2>1, <2>2, <2>3, <2>5, <2>8, <3>2 DEF okE
  <2>9. e \in H
    BY <2>7, <2>8
  <2> QED
    BY <2>9 DEF e
<1>6. Inductive(H, 0, n)
  BY <1>5, Zenon DEF Inductive
<1>7. n \in H
  <2> HIDE DEF H, n
  <2> QED
    BY <1>2, <1>4, <1>6, UpTo
<1>8. ok(n) <=> \A dirty \in ToSet(nodes) : TopValid(dirty)
  <2>1. DOMAIN nodes = 1..n
    OBVIOUS
  <2> HIDE DEF n
  <2> QED
    BY <2>1 DEF ToSet
<1> QED
  BY <1>3, <1>7, <1>8

(* A page is cleaned exactly when it is valid, for every page the parser   *)
(* can build (3ml_cleaner.cpp:87-127, 158-159, 179-215, 244-288): the      *)
(* checks made while nodes are created and added one by one come to what   *)
(* the messages say of whole nodes.                                        *)
THEOREM ValidIsCleaned == Spec => CleansValid
<1>1. Init => TreeOK /\ ModeOK
  BY NoTree DEF Init, TreeOK, ModeOK
<1>2. TreeOK /\ ModeOK /\ [Next]_vars => TreeOK' /\ ModeOK'
  BY TreeStep
<1>3. ASSUME TreeOK, EndOfFile
      PROVE  (status' = "cleaned") =
                 \A dirty \in ToSet(top) :
                     IF IsText(dirty) THEN dirty.text = <<>>
                     ELSE Valid[dirty] /\ NodeType(dirty) \in {"HEAD", "BODY"}
  <2> DEFINE d == CleanDom(top)
             all == \A dirty \in ToSet(top) : TopValid(dirty)
             done == status' = "cleaned"
  <2>1. top \in Seq(Nodes[MaxDepth])
    BY <1>3 DEF TreeOK, IsTree
  <2>2. d \in Failures <=> ~all
    BY <2>1, CleanDomJudged
  <2>3. ASSUME d \in Failures PROVE ~done
    <3>1. Failed(d) /\ d.failure \in {"hung", "fault"}
      <4> HIDE DEF d
      <4> QED
        BY <2>3, FailuresFail DEF Failures, Hang, Fault
    <3>2. Stops(d.failure)
      BY <1>3, <3>1, Zenon DEF EndOfFile
    <3>3. status' \in {"hung", "fault"}
      BY <3>1, <3>2, Zenon DEF Stops
    <3> QED
      BY <3>3
  <2>4. ASSUME d \notin Failures PROVE done
    <3>1. d \in Doms(DomNodes[MaxDepth])
      BY <2>1, <2>4, CleanDomTyped
    <3> HIDE DEF d
    <3>2. ~Failed(d)
      BY <3>1, DomsFail
    <3> QED
      BY <1>3, <3>2, Zenon DEF EndOfFile, d
  <2>5. done \in BOOLEAN /\ all \in BOOLEAN
    OBVIOUS
  <2>6. done = all
    <3>1. d \in Failures => ~done
      BY <2>3
    <3>2. d \notin Failures => done
      BY <2>4
    <3> HIDE DEF d, all, done
    <3> QED
      BY <2>2, <2>5, <3>1, <3>2
  <2> QED
    BY <2>6, Zenon DEF TopValid
<1> QED
  BY <1>1, <1>2, <1>3, PTL DEF Spec, CleansValid

-----------------------------------------------------------------------------
(* Which nodes of the DOM show which nodes of a page                       *)

(* The lines are no wider than that and end with a blank but for the last. *)
LinesFitIn(lines, width) ==
    \A k \in DOMAIN lines : Len(lines[k]) <= width /\ (k < Len(lines) => Last(lines[k]) = " ")

TextShows(node, dirty) ==
    /\ IsText(dirty) /\ node.type = "PLAINTEXT" /\ node.children = <<>> /\ node.id = ""
    /\ FlattenSeq(node.lines) = dirty.text

InPlace(node, dirty, type) == IsText(dirty) => LinesFitIn(node.lines, Columns[type])

AllShow(shows, nodes, dirties, type) ==
    /\ Len(nodes) = Len(dirties)
    /\ \A i \in 1..Len(dirties) :
           <<nodes[i], dirties[i]>> \in shows /\ InPlace(nodes[i], dirties[i], type)

ElementShows(shows, node, dirty) ==
    /\ ~IsText(dirty) /\ node.type \in Types
    /\ AllShow(shows, node.children, dirty.children, node.type)

Shown(shows, depth) ==
    {p \in DomNodes[depth] \X Nodes[depth] :
        TextShows(p[1], p[2]) \/ (depth > 0 /\ ElementShows(shows, p[1], p[2]))}

(* The pairs of a node of the DOM and the node of the page it shows, with  *)
(* at most that many elements nested.                                      *)
Shows[depth \in 0..MaxDepth] ==
    Shown(IF depth = 0 THEN {} ELSE Shows[depth - 1], depth)

LEMMA ShowsAre ==
    \A depth \in 0..MaxDepth :
        Shows[depth] = Shown(IF depth = 0 THEN {} ELSE Shows[depth - 1], depth)
<1> DEFINE U == SUBSET (DomNodes[MaxDepth] \X Nodes[MaxDepth])
           n == MaxDepth
           step == [d \in 0 + 1..n |-> [m \in U |-> Shown(m, d)]]
           z == Shown({}, 0)
<1>1. n \in Nat /\ 0 \in Int /\ n \in Int /\ 0 <= n
  BY CleanerAssumption
<1>2. ASSUME NEW d \in 0..n, NEW m PROVE Shown(m, d) \in U
  <2>1. n \in d..n /\ d \in 0..n
    BY <1>1
  <2>2. DomNodes[d] \subseteq DomNodes[MaxDepth] /\ Nodes[d] \subseteq Nodes[MaxDepth]
    BY <2>1, DomGrow, NodesGrow
  <2> QED
    BY <2>2 DEF Shown
<1>3. z \in U
  <2>1. 0 \in 0..n
    BY <1>1
  <2> QED
    BY <1>2, <2>1
<1>4. step \in [0 + 1..n -> [U -> U]]
  <2>1. ASSUME NEW d \in 0 + 1..n, NEW m \in U PROVE Shown(m, d) \in U
    <3>1. d \in 0..n
      BY <1>1
    <3> HIDE DEF U
    <3> QED
      BY <1>2, <3>1
  <2> HIDE DEF U
  <2> QED
    BY <2>1
<1>5. \A d \in 0 + 1..n, m \in U : step[d][m] = Shown(m, d)
  OBVIOUS
<1> HIDE DEF step, U, z
<1>6. PICK f \in [0..n -> U] : f[0] = z /\ Follows(f, step, 0, n)
  BY <1>1, <1>3, <1>4, Recursion
<1> DEFINE Step(g, d) == Shown(IF d = 0 THEN {} ELSE g[d - 1], d)
<1>7. f = [d \in 0..n |-> Step(f, d)]
  <2>1. ASSUME NEW d \in 0..n PROVE f[d] = Step(f, d)
    <3>1. CASE d = 0
      BY <1>6, <3>1 DEF z
    <3>2. CASE d # 0
      <4>1. d \in 0 + 1..n /\ d - 1 \in 0..n
        BY <1>1, <3>2
      <4>2. f[d] = step[d][f[d - 1]]
        BY <1>6, <4>1 DEF Follows
      <4>3. f[d - 1] \in U
        BY <4>1
      <4>4. f[d] = Shown(f[d - 1], d)
        BY <1>5, <4>1, <4>2, <4>3
      <4> QED
        BY <3>2, <4>4
    <3> QED
      BY <3>1, <3>2
  <2>2. f = [d \in 0..n |-> f[d]]
    OBVIOUS
  <2> HIDE DEF Step
  <2> QED
    BY <2>1, <2>2
<1>8. \E g : g = [d \in 0..n |-> Step(g, d)]
  BY <1>7
<1>9. Shows = [d \in 0..MaxDepth |-> Step(Shows, d)]
  BY <1>8, Zenon DEF Shows
<1> HIDE DEF Step
<1>10. \A d \in 0..MaxDepth : Shows[d] = Step(Shows, d)
  BY <1>9
<1> QED
  BY <1>10, Zenon DEF Step

LEMMA ShowsIs ==
    ASSUME NEW depth \in 0..MaxDepth, NEW node, NEW dirty
    PROVE  <<node, dirty>> \in Shows[depth] <=>
               /\ node \in DomNodes[depth] /\ dirty \in Nodes[depth]
               /\ \/ TextShows(node, dirty)
                  \/ /\ depth > 0 /\ depth - 1 \in 0..MaxDepth
                     /\ ElementShows(Shows[depth - 1], node, dirty)
<1> DEFINE m == IF depth = 0 THEN {} ELSE Shows[depth - 1]
<1>1. Shows[depth] = Shown(m, depth)
  BY ShowsAre
<1>2. depth > 0 => depth - 1 \in 0..MaxDepth
  BY CleanerAssumption
<1>3. depth > 0 => m = Shows[depth - 1]
  OBVIOUS
<1> HIDE DEF m
<1>4. <<node, dirty>> \in Shown(m, depth) <=>
          /\ <<node, dirty>> \in DomNodes[depth] \X Nodes[depth]
          /\ TextShows(node, dirty) \/ (depth > 0 /\ ElementShows(m, node, dirty))
  <2> DEFINE p == <<node, dirty>>
  <2>1. p[1] = node /\ p[2] = dirty
    OBVIOUS
  <2> HIDE DEF p
  <2>2. p \in Shown(m, depth) <=>
            /\ p \in DomNodes[depth] \X Nodes[depth]
            /\ TextShows(p[1], p[2]) \/ (depth > 0 /\ ElementShows(m, p[1], p[2]))
    BY DEF Shown
  <2> QED
    BY <2>1, <2>2 DEF p
<1>5. <<node, dirty>> \in DomNodes[depth] \X Nodes[depth] <=> node \in DomNodes[depth] /\ dirty \in Nodes[depth]
  <2> DEFINE A == DomNodes[depth]
             B == Nodes[depth]
  <2> HIDE DEF A, B
  <2>1. <<node, dirty>> \in A \X B <=> node \in A /\ dirty \in B
    OBVIOUS
  <2> QED
    BY <2>1 DEF A, B
<1> DEFINE a == TextShows(node, dirty)
           b == ElementShows(Shows[depth - 1], node, dirty)
           c == ElementShows(m, node, dirty)
<1>6. depth > 0 => (b <=> c)
  BY <1>3
<1> HIDE DEF a, b, c
<1>7. <<node, dirty>> \in Shows[depth] <=>
          node \in DomNodes[depth] /\ dirty \in Nodes[depth] /\ (a \/ (depth > 0 /\ depth - 1 \in 0..MaxDepth /\ b))
  BY <1>1, <1>2, <1>4, <1>5, <1>6 DEF a, c
<1> QED
  BY <1>7 DEF a, b

LEMMA AllShowNone ==
    ASSUME NEW shows, NEW type
    PROVE  AllShow(shows, <<>>, <<>>, type)
<1>1. Len(<<>>) = 0
  OBVIOUS
<1> QED
  BY <1>1 DEF AllShow

LEMMA AllShowAppend ==
    ASSUME NEW S, NEW T, NEW nodes \in Seq(S), NEW dirties \in Seq(T), NEW node \in S, NEW dirty \in T,
           NEW shows, NEW type, AllShow(shows, nodes, dirties, type),
           <<node, dirty>> \in shows, InPlace(node, dirty, type)
    PROVE  AllShow(shows, Append(nodes, node), Append(dirties, dirty), type)
<1> DEFINE a == Append(nodes, node)
           b == Append(dirties, dirty)
           n == Len(dirties)
<1>1. /\ Len(a) = Len(nodes) + 1 /\ a[Len(nodes) + 1] = node
      /\ \A i \in 1..Len(nodes) : a[i] = nodes[i]
  BY AppendProperties
<1>2. Len(b) = n + 1 /\ b[n + 1] = dirty /\ \A i \in 1..n : b[i] = dirties[i]
  BY AppendProperties
<1>3. Len(nodes) = n /\ n \in Nat
  BY DEF AllShow
<1>4. \A i \in 1..n : <<nodes[i], dirties[i]>> \in shows /\ InPlace(nodes[i], dirties[i], type)
  BY DEF AllShow
<1> HIDE DEF a, b, n
<1>5. ASSUME NEW i \in 1..n + 1 PROVE <<a[i], b[i]>> \in shows /\ InPlace(a[i], b[i], type)
  <2>1. i = n + 1 \/ i \in 1..n
    BY <1>3
  <2>2. CASE i = n + 1
    BY <1>1, <1>2, <1>3, <2>2
  <2>3. CASE i \in 1..n
    <3>1. a[i] = nodes[i] /\ b[i] = dirties[i]
      BY <1>1, <1>2, <1>3, <2>3
    <3> QED
      BY <1>4, <2>3, <3>1
  <2> QED
    BY <2>1, <2>2, <2>3
<1>6. Len(a) = Len(b)
  BY <1>1, <1>2, <1>3
<1>7. AllShow(shows, a, b, type)
  BY <1>2, <1>5, <1>6 DEF AllShow
<1> QED
  BY <1>7 DEF a, b

-----------------------------------------------------------------------------
(* What is drawn of a node                                                 *)

PrunedStep(f, node) ==
    IF IsText(node) THEN node
    ELSE [node EXCEPT !.children = Filter(Map(f, node.children), IsContent)]

LEMMA PrunedIs ==
    \A node \in Nodes[MaxDepth] : Pruned[node] = PrunedStep(Pruned, node)
<1> DEFINE Fine(f, d) == \A node \in Nodes[d] : f[node] = PrunedStep(f, node)
           H == {d \in 0..MaxDepth : \E f : Fine(f, d)}
<1>1. MaxDepth \in Nat /\ 0 \in Int /\ MaxDepth \in Int /\ 0 \in 0..MaxDepth
  BY CleanerAssumption
<1>2. ASSUME NEW d \in 0..MaxDepth, NEW f, NEW g, NEW node \in Nodes[d],
             d > 0 => \A x \in Nodes[d - 1] : f[x] = g[x]
      PROVE  PrunedStep(f, node) = PrunedStep(g, node)
  <2>1. CASE IsText(node)
    BY <2>1, Zenon DEF PrunedStep
  <2>2. CASE ~IsText(node)
    <3>1. d > 0 /\ node.children \in Seq(Nodes[d - 1])
      BY <2>2, NodeCases
    <3>2. Map(f, node.children) = Map(g, node.children)
      BY <1>2, <3>1, MapSame
    <3> QED
      BY <3>2, Zenon DEF PrunedStep
  <2> QED
    BY <2>1, <2>2
<1>3. 0 \in H
  <2> DEFINE f == [node \in Nodes[0] |-> PrunedStep(<<>>, node)]
  <2>1. \A node \in Nodes[0] : f[node] = PrunedStep(<<>>, node)
    OBVIOUS
  <2> HIDE DEF f
  <2>2. \A node \in Nodes[0] : PrunedStep(<<>>, node) = PrunedStep(f, node)
    BY <1>1, <1>2
  <2>3. Fine(f, 0)
    BY <2>1, <2>2
  <2> HIDE DEF Fine
  <2> QED
    BY <1>1, <2>3
<1>4. ASSUME NEW d \in 0..MaxDepth - 1, d \in H PROVE d + 1 \in H
  <2> DEFINE e == d + 1
  <2>1. e \in 0..MaxDepth /\ e - 1 = d /\ d \in 0..MaxDepth /\ e \in d..MaxDepth
    BY <1>1
  <2> HIDE DEF e
  <2>2. PICK f : Fine(f, d)
    BY <1>4
  <2> DEFINE g == [node \in Nodes[e] |-> PrunedStep(f, node)]
  <2>3. \A node \in Nodes[e] : g[node] = PrunedStep(f, node)
    OBVIOUS
  <2> HIDE DEF g
  <2>4. \A node \in Nodes[d] : f[node] = g[node]
    <3>1. Nodes[d] \subseteq Nodes[e]
      BY <2>1, NodesGrow
    <3> QED
      BY <2>2, <2>3, <3>1
  <2>5. \A node \in Nodes[e] : PrunedStep(f, node) = PrunedStep(g, node)
    BY <1>2, <2>1, <2>4
  <2>6. Fine(g, e)
    BY <2>3, <2>5
  <2> HIDE DEF Fine
  <2>7. e \in H
    BY <2>1, <2>6
  <2> QED
    BY <2>7 DEF e
<1>5. Inductive(H, 0, MaxDepth)
  BY <1>4, Zenon DEF Inductive
<1>6. \E f : f = [node \in Nodes[MaxDepth] |-> PrunedStep(f, node)]
  <2>1. \E f : Fine(f, MaxDepth)
    <3> HIDE DEF H
    <3>1. MaxDepth \in H
      BY <1>1, <1>3, <1>5, UpTo
    <3> QED
      BY <3>1 DEF H
  <2>2. PICK f : Fine(f, MaxDepth)
    BY <2>1
  <2> DEFINE g == [node \in Nodes[MaxDepth] |-> f[node]]
  <2>3. \A node \in Nodes[MaxDepth] : f[node] = g[node]
    OBVIOUS
  <2>4. g = [node \in Nodes[MaxDepth] |-> g[node]]
    OBVIOUS
  <2> HIDE DEF g
  <2>5. \A node \in Nodes[MaxDepth] : PrunedStep(f, node) = PrunedStep(g, node)
    <3>1. MaxDepth > 0 => MaxDepth - 1 \in 0..MaxDepth /\ MaxDepth \in MaxDepth - 1..MaxDepth
      BY <1>1
    <3>2. MaxDepth > 0 => Nodes[MaxDepth - 1] \subseteq Nodes[MaxDepth]
      BY <3>1, NodesGrow
    <3>3. MaxDepth \in 0..MaxDepth
      BY <1>1
    <3>4. MaxDepth > 0 => \A x \in Nodes[MaxDepth - 1] : f[x] = g[x]
      BY <2>3, <3>2
    <3> QED
      BY <1>2, <3>3, <3>4
  <2>6. \A node \in Nodes[MaxDepth] : g[node] = PrunedStep(g, node)
    BY <2>2, <2>3, <2>5
  <2>7. g = [node \in Nodes[MaxDepth] |-> PrunedStep(g, node)]
    BY <2>4, <2>6
  <2> QED
    BY <2>7
<1>7. Pruned = [node \in Nodes[MaxDepth] |-> PrunedStep(Pruned, node)]
  BY <1>6, Zenon DEF Pruned, PrunedStep, Map
<1> QED
  BY <1>7

(* Pruning keeps the depth, the names and the texts.                       *)
LEMMA PrunedTyped ==
    ASSUME NEW d \in 0..MaxDepth, NEW node \in Nodes[d]
    PROVE  /\ Pruned[node] \in Nodes[d]
           /\ IsText(node) => Pruned[node] = node
           /\ ~IsText(node) =>
                  /\ ~IsText(Pruned[node]) /\ Pruned[node].name = node.name
                  /\ Map(Pruned, node.children) \in Seq(Nodes[d - 1])
                  /\ Pruned[node].children = Chosen(Map(Pruned, node.children), Contents)
<1> DEFINE Fine(n) == \A x \in Nodes[n] :
               /\ Pruned[x] \in Nodes[n]
               /\ IsText(x) => Pruned[x] = x
               /\ ~IsText(x) =>
                      /\ ~IsText(Pruned[x]) /\ Pruned[x].name = x.name
                      /\ Map(Pruned, x.children) \in Seq(Nodes[n - 1])
                      /\ Pruned[x].children = Chosen(Map(Pruned, x.children), Contents)
           H == {n \in 0..MaxDepth : Fine(n)}
<1>1. MaxDepth \in Nat /\ 0 \in Int /\ MaxDepth \in Int /\ 0 \in 0..MaxDepth
  BY CleanerAssumption
<1>2. ASSUME NEW n \in 0..MaxDepth, NEW x \in Nodes[n]
      PROVE  Pruned[x] = PrunedStep(Pruned, x)
  <2>1. MaxDepth \in n..MaxDepth
    BY <1>1
  <2>2. x \in Nodes[MaxDepth]
    BY <2>1, NodesGrow
  <2> QED
    BY <2>2, PrunedIs
<1>3. 0 \in H
  <2>1. \A x \in Nodes[0] : IsText(x)
    BY <1>1, NodeCases
  <2>2. \A x \in Nodes[0] : Pruned[x] = x
    BY <1>1, <1>2, <2>1, Zenon DEF PrunedStep
  <2> QED
    BY <1>1, <2>1, <2>2
<1>4. ASSUME NEW k \in 0..MaxDepth - 1, k \in H PROVE k + 1 \in H
  <2> DEFINE e == k + 1
  <2>1. e \in 0..MaxDepth /\ e # 0 /\ e - 1 = k /\ k \in 0..MaxDepth
    BY <1>1
  <2> HIDE DEF e
  <2>2. ASSUME NEW x \in Nodes[e], ~IsText(x)
        PROVE  /\ Pruned[x] \in Nodes[e] /\ ~IsText(Pruned[x]) /\ Pruned[x].name = x.name
               /\ Map(Pruned, x.children) \in Seq(Nodes[k])
               /\ Pruned[x].children = Chosen(Map(Pruned, x.children), Contents)
    <3> DEFINE S == Nodes[k]
               m == Map(Pruned, x.children)
               c == Chosen(m, Contents)
    <3>1. x.children \in Seq(S) /\ x \in ElementsOf(Seq(S))
      BY <2>1, <2>2, NodeCases
    <3>2. Into(Pruned, S, S)
      BY <1>4 DEF Into
    <3>3. m \in Seq(S)
      <4> HIDE DEF S
      <4> QED
        BY <3>1, <3>2, MapType
    <3>4. c \in Seq(S)
      <4> HIDE DEF S, m
      <4> QED
        BY <3>3, ChosenType
    <3>5. m \in Seq(Nodes[MaxDepth])
      <4>1. MaxDepth \in k..MaxDepth
        BY <1>1
      <4>2. S \subseteq Nodes[MaxDepth]
        BY <2>1, <4>1, NodesGrow
      <4> HIDE DEF S, m
      <4> QED
        BY <3>3, <4>2, SeqMonotonic
    <3>6. Filter(m, IsContent) = c
      <4> HIDE DEF m
      <4> QED
        BY <3>5, ContentChosen
    <3>7. Pruned[x] = [x EXCEPT !.children = c]
      BY <1>2, <2>1, <2>2, <3>6, Zenon DEF PrunedStep
    <3> HIDE DEF c, m
    <3> DEFINE Q == Seq(S)
    <3> HIDE DEF Q, S
    <3>8. /\ Pruned[x] \in ElementsOf(Q) /\ ~IsText(Pruned[x]) /\ Pruned[x].name = x.name
          /\ Pruned[x].children = c
      <4>1. c \in Q /\ x \in ElementsOf(Q)
        BY <3>1, <3>4 DEF Q
      <4> QED
        BY <3>7, <4>1 DEF ElementsOf, IsText
    <3>9. ElementsOf(Q) \subseteq Nodes[e]
      BY <2>1, NodeIs DEF Q, S
    <3> QED
      BY <3>3, <3>8, <3>9 DEF c, m, S
  <2>3. ASSUME NEW x \in Nodes[e], IsText(x) PROVE Pruned[x] = x
    BY <1>2, <2>1, <2>3, Zenon DEF PrunedStep
  <2>4. Fine(e)
    <3>1. ASSUME NEW x \in Nodes[e] PROVE Pruned[x] \in Nodes[e]
      BY <2>2, <2>3
    <3> QED
      BY <2>1, <2>2, <2>3, <3>1
  <2> HIDE DEF Fine
  <2>5. e \in H
    BY <2>1, <2>4
  <2> QED
    BY <2>5 DEF e
<1>5. Inductive(H, 0, MaxDepth)
  BY <1>4, Zenon DEF Inductive
<1>6. d \in H
  <2> HIDE DEF H
  <2> QED
    BY <1>1, <1>3, <1>5, UpTo
<1> QED
  BY <1>6

LEMMA LineFits ==
    ASSUME NEW S, NEW text \in Seq(S), NEW width \in Nat \ {0}, Wrap(text, width).error = FALSE,
           NEW lines, lines = Wrap(text, width).lines, NEW k \in 1..Len(lines)
    PROVE  Len(lines[k]) \in 1..width /\ (k < Len(lines) => lines[k][Len(lines[k])] = " ")
  BY WrapFillsLines, ZenonT(60)

LEMMA LinesFit ==
    ASSUME NEW S, NEW text \in Seq(S), NEW width \in Nat \ {0}, Wrap(text, width).error = FALSE
    PROVE  LinesFitIn(Wrap(text, width).lines, width)
<1> DEFINE lines == Wrap(text, width).lines
<1>1. lines \in Seq(Seq(S))
  BY WrapCuts
<1>2. lines = Wrap(text, width).lines
  OBVIOUS
<1> HIDE DEF lines
<1>3. DOMAIN lines = 1..Len(lines)
  BY <1>1
<1>4. ASSUME NEW k \in 1..Len(lines)
      PROVE  Len(lines[k]) <= width /\ (k < Len(lines) => Last(lines[k]) = " ")
  <2> DEFINE n == Len(lines[k])
  <2>1. n \in 1..width /\ (k < Len(lines) => lines[k][n] = " ")
    BY <1>2, LineFits, ZenonT(60)
  <2>2. Last(lines[k]) = lines[k][n]
    BY DEF Last
  <2> HIDE DEF n
  <2>3. n <= width
    <3>1. n \in 1..width
      BY <2>1, Zenon
    <3> QED
      BY <3>1
  <2> QED
    BY <2>1, <2>2, <2>3 DEF n
<1> QED
  BY <1>3, <1>4, Zenon DEF LinesFitIn, lines

(* A cleaned text shows the text, in lines that fit its place.             *)
LEMMA TextCleaned ==
    ASSUME NEW dirty \in Nodes[MaxDepth], IsText(dirty), NEW type \in Types,
           NEW node, node = NewText(dirty.text, type), node \notin Failures
    PROVE  /\ TextShows(node, dirty) /\ LinesFitIn(node.lines, Columns[type])
           /\ IsEmptyText(node) <=> ~IsContent(dirty)
           /\ node \in DomOf({<<>>})
<1> DEFINE text == dirty.text
           width == Columns[type]
           wrapped == Wrap(text, width)
           lines == wrapped.lines
<1>1. text \in Texts /\ text \in Seq(STRING)
  BY NodeParts DEF Texts
<1>2. width \in Nat \ {0}
  BY WidthIs
<1>3. /\ wrapped.error => node = Hang
      /\ ~wrapped.error => /\ NewTextNode(node, lines)
                           /\ node \in DomOf({<<>>}) /\ node.type = "PLAINTEXT"
                           /\ node.lines = lines /\ node.children = <<>>
  BY <1>1, NewTextIs
<1>4. ~wrapped.error
  BY <1>3 DEF Failures
<1>5. wrapped.error = FALSE
  BY <1>1, <1>2, <1>4, WrapFails
<1>6. FlattenSeq(lines) = text
  <2> HIDE DEF width
  <2> QED
    BY <1>1, <1>2, <1>5, WrapKeepsText
<1>7. lines \in Seq(Seq(STRING))
  BY <1>1, <1>2, <1>5, WrapCuts
<1>8. LinesFitIn(lines, width)
  <2> HIDE DEF text, width
  <2> QED
    BY <1>1, <1>2, <1>5, LinesFit
<1>10. node.id = ""
  <2> HIDE DEF lines
  <2> DEFINE none == ""
             plain == "PLAINTEXT"
  <2>1. node = [type |-> plain, id |-> none, lines |-> lines, children |-> <<>>,
                num_selectable_children |-> 0, selectable |-> FALSE]
    BY <1>3, <1>4, Zenon DEF NewTextNode
  <2> HIDE DEF none, plain
  <2>2. node.id = none
    BY <2>1
  <2> QED
    BY <2>2, Zenon DEF none
<1>11. IsEmptyText(node) <=> ~IsContent(dirty)
  BY TextJudged, Zenon DEF Judged
<1> HIDE DEF lines
<1> QED
  BY <1>3, <1>4, <1>6, <1>8, <1>10, <1>11, Zenon DEF TextShows

LEMMA ElementCleaned ==
    ASSUME NEW dirty \in Elements, CleanElement[dirty] \notin Failures
    PROVE  /\ MayBe(dirty) /\ CleanElement[dirty].type = NodeType(dirty)
           /\ NodeType(dirty) \in Types /\ ~IsEmptyText(CleanElement[dirty])
<1>1. Valid[dirty] /\ CleanElement[dirty].type = NodeType(dirty)
  BY CleansJudged, Zenon DEF IsJudged
<1>2. Valid[dirty] = ValidStep(Valid, dirty)
  BY ValidIs
<1>3. MayBe(dirty)
  <2>1. ValidStep(Valid, dirty)
    BY <1>1, <1>2
  <2> QED
    BY <2>1 DEF ValidStep
<1>4. NodeType(dirty) \in Types
  BY <1>3, NewNodeIs
<1> QED
  BY <1>1, <1>3, <1>4, NotNone, Zenon DEF IsEmptyText

(* What is known of a child that was cleaned.                              *)
ChildShown(shows, child, dirty, type) ==
    child \notin Failures =>
        /\ <<child, dirty>> \in shows /\ InPlace(child, dirty, type)
        /\ IsEmptyText(child) <=> dirty \notin Contents

ShownSoFar(shows, parent, dirties, type) ==
    parent \notin Failures => parent.type = type /\ AllShow(shows, parent.children, dirties, type)

LEMMA ShownStep ==
    ASSUME NEW S, AreNodes(S), NEW parent \in DomOf(Seq(S)) \cup Failures,
           NEW child \in S \cup Failures, NEW T, NEW dirty \in T,
           NEW dirties \in Seq(T), NEW type, NEW shows,
           ShownSoFar(shows, parent, dirties, type), ChildShown(shows, child, dirty, type)
    PROVE  /\ dirty \in Contents => ShownSoFar(shows, AddOne(parent, child), Append(dirties, dirty), type)
           /\ dirty \notin Contents => ShownSoFar(shows, AddOne(parent, child), dirties, type)
<1> DEFINE next == AddOne(parent, child)
<1>1. CASE next \in Failures
  BY <1>1, Zenon DEF ShownSoFar
<1>2. CASE next \notin Failures
  <2>1. parent \notin Failures
    BY <1>2, FailedStay
  <2>2. parent \in DomOf(Seq(S))
    BY <2>1
  <2>3. child \notin Failures
    BY <1>2, <2>2, AddOneCases
  <2>4. child \in S
    BY <2>3
  <2>5. parent.type = type /\ AllShow(shows, parent.children, dirties, type)
    BY <2>1, Zenon DEF ShownSoFar
  <2>6. /\ <<child, dirty>> \in shows /\ InPlace(child, dirty, type)
        /\ IsEmptyText(child) <=> dirty \notin Contents
    BY <2>3, Zenon DEF ChildShown
  <2>7. CASE dirty \notin Contents
    <3>1. next = parent
      BY <2>2, <2>3, <2>6, <2>7, AddOneCases
    <3> QED
      BY <2>7, <3>1
  <2>8. CASE dirty \in Contents
    <3>1. next = Grown(parent, child)
      BY <1>2, <2>2, <2>3, <2>6, <2>8, AddOneCases
    <3>2. next.type = parent.type /\ next.children = Append(parent.children, child)
      BY <2>2, <2>4, <3>1, GrownIs
    <3> DEFINE kids == parent.children
    <3>3. kids \in Seq(S)
      BY <2>2 DEF DomOf
    <3>4. AllShow(shows, kids, dirties, type)
      BY <2>5
    <3> HIDE DEF kids
    <3>5. AllShow(shows, Append(kids, child), Append(dirties, dirty), type)
      BY <2>4, <2>6, <3>3, <3>4, AllShowAppend
    <3> HIDE DEF next
    <3>6. ShownSoFar(shows, next, Append(dirties, dirty), type)
      BY <2>5, <3>2, <3>5, Zenon DEF ShownSoFar, kids
    <3> QED
      BY <2>8, <3>6 DEF next
  <2> QED
    BY <2>7, <2>8
<1> QED
  BY <1>1, <1>2

ChildrenShown(shows, children, dirties, type) ==
    /\ Len(children) = Len(dirties)
    /\ \A i \in 1..Len(dirties) : ChildShown(shows, children[i], dirties[i], type)

LEMMA AddsShown ==
    ASSUME NEW S, AreNodes(S), NEW node \in DomOf(Seq(S)), node.children = <<>>,
           NEW T, NEW dirties \in Seq(T), NEW children \in Seq(S \cup Failures),
           NEW shows, ChildrenShown(shows, children, dirties, node.type)
    PROVE  ShownSoFar(shows, AddChildren(node, children), Chosen(dirties, Contents), node.type)
<1> DEFINE n == Len(dirties)
           type == node.type
           c(i) == Chosen(Prefix(dirties, i), Contents)
<1>1. n \in Nat /\ n \in 0..n /\ 0 \in 0..n /\ 0 \in Int /\ n \in Int /\ Len(children) = n
  BY DEF ChildrenShown
<1>2. PICK f \in [0..Len(children) -> DomOf(Seq(S)) \cup Failures] :
          Adding(f, node, children) /\ AddChildren(node, children) = f[Len(children)]
  BY AddChildrenIs
<1> DEFINE H == {i \in 0..n : ShownSoFar(shows, f[i], c(i), type)}
<1>3. 0 \in H
  <2>1. f[0] = node
    BY <1>2 DEF Adding
  <2>2. Prefix(dirties, 0) = <<>>
    BY PrefixAll
  <2>3. c(0) = <<>>
    BY <2>2, ChosenNone
  <2>4. AllShow(shows, <<>>, <<>>, type)
    BY AllShowNone
  <2>5. ShownSoFar(shows, node, <<>>, type)
    BY <2>4, Zenon DEF ShownSoFar
  <2> HIDE DEF c
  <2> QED
    BY <1>1, <2>1, <2>3, <2>5
<1>4. ASSUME NEW i \in 0..n - 1, i \in H PROVE i + 1 \in H
  <2> DEFINE e == i + 1
             parent == f[i]
             child == children[e]
             dirty == dirties[e]
             content == c(i)
             D == DomOf(Seq(S))
             p == Prefix(dirties, i)
  <2>1. e \in 0..n /\ e \in 1..n /\ e - 1 = i /\ i \in 0..n
    BY <1>1
  <2> HIDE DEF e
  <2>2. f[e] = AddOne(parent, child)
    BY <1>1, <1>2, <2>1 DEF Adding
  <2>3. child \in S \cup Failures /\ dirty \in T
    BY <1>1, <2>1
  <2> HIDE DEF D
  <2>4. parent \in D \cup Failures
    BY <1>1, <1>2, <2>1 DEF D
  <2>5. p \in Seq(T)
    BY <2>1, PrefixIs
  <2>6. content \in Seq(T)
    BY <2>5, ChosenType
  <2>7. Prefix(dirties, e) = Append(p, dirty)
    BY <2>1, PrefixNext
  <2>8. /\ dirty \in Contents => c(e) = Append(content, dirty)
        /\ dirty \notin Contents => c(e) = content
    <3> HIDE DEF p, dirty
    <3>1. /\ dirty \in Contents => Chosen(Append(p, dirty), Contents) = Append(Chosen(p, Contents), dirty)
          /\ dirty \notin Contents => Chosen(Append(p, dirty), Contents) = Chosen(p, Contents)
      BY <2>3, <2>5, ChosenAppend
    <3> QED
      BY <2>7, <3>1 DEF p
  <2>9. ShownSoFar(shows, parent, content, type)
    BY <1>4
  <2>10. ChildShown(shows, child, dirty, type)
    BY <2>1 DEF ChildrenShown
  <2> HIDE DEF parent, child, dirty, content, c, type
  <2>11. /\ dirty \in Contents => ShownSoFar(shows, AddOne(parent, child), Append(content, dirty), type)
         /\ dirty \notin Contents => ShownSoFar(shows, AddOne(parent, child), content, type)
    BY <2>3, <2>4, <2>6, <2>9, <2>10, ShownStep DEF D
  <2>12. ShownSoFar(shows, f[e], c(e), type)
    BY <2>2, <2>8, <2>11
  <2>13. e \in H
    BY <2>1, <2>12
  <2> QED
    BY <2>13 DEF e
<1>5. Inductive(H, 0, n)
  BY <1>4, Zenon DEF Inductive
<1>6. n \in H
  <2> HIDE DEF H, n
  <2> QED
    BY <1>1, <1>3, <1>5, UpTo
<1>7. Prefix(dirties, n) = dirties
  BY PrefixAll
<1> QED
  BY <1>1, <1>2, <1>6, <1>7

LEMMA LenIs ==
    ASSUME NEW S, NEW f \in Seq(S), NEW n \in Nat, DOMAIN f = 1..n
    PROVE  Len(f) = n
<1>1. f = [i \in 1..n |-> f[i]]
  OBVIOUS
<1>2. \A i \in 1..n : f[i] \in S
  <2>1. DOMAIN f = 1..Len(f) /\ \A i \in 1..Len(f) : f[i] \in S
    OBVIOUS
  <2> QED
    BY <2>1
<1>3. Holds(f, n, S)
  BY <1>1, <1>2 DEF Holds
<1> QED
  BY <1>3, MakeSeq

(* What has been cleaned shows what is drawn of a text or an element.      *)
LEMMA ChildIsShown ==
    ASSUME NEW d \in 0..MaxDepth, NEW dirty \in Nodes[d], NEW type \in Types,
           NEW child, child = CleanOne(CleanElement, dirty, type),
           ~IsText(dirty) /\ CleanElement[dirty] \notin Failures =>
               <<CleanElement[dirty], Pruned[dirty]>> \in Shows[d]
    PROVE  ChildShown(Shows[d], child, Pruned[dirty], type)
<1>1. MaxDepth \in d..MaxDepth
  BY CleanerAssumption
<1>2. dirty \in Nodes[MaxDepth] /\ Pruned[dirty] \in Nodes[MaxDepth]
  <2>1. Pruned[dirty] \in Nodes[d]
    BY PrunedTyped
  <2> QED
    BY <1>1, <2>1, NodesGrow
<1>3. CASE child \in Failures
  BY <1>3, Zenon DEF ChildShown
<1>4. ASSUME child \notin Failures, IsText(dirty)
      PROVE  ChildShown(Shows[d], child, Pruned[dirty], type)
  <2>1. Pruned[dirty] = dirty
    BY <1>4, PrunedTyped
  <2>2. child = NewText(dirty.text, type)
    BY <1>4, Zenon DEF CleanOne
  <2>3. /\ TextShows(child, dirty) /\ LinesFitIn(child.lines, Columns[type])
        /\ IsEmptyText(child) <=> ~IsContent(dirty)
        /\ child \in DomOf({<<>>})
    BY <1>2, <1>4, <2>2, TextCleaned
  <2>4. child \in DomNodes[d]
    <3>1. 0 \in 0..MaxDepth /\ d \in 0..MaxDepth
      BY CleanerAssumption
    <3>2. DomNodes[0] \subseteq DomNodes[d]
      BY <3>1, DomGrow
    <3> QED
      BY <2>3, <3>1, <3>2, DomIs
  <2>5. <<child, dirty>> \in Shows[d]
    BY <2>3, <2>4, ShowsIs
  <2>6. InPlace(child, dirty, type)
    BY <2>3 DEF InPlace
  <2>7. IsEmptyText(child) <=> dirty \notin Contents
    BY <1>2, <2>3 DEF Contents
  <2> QED
    BY <2>1, <2>5, <2>6, <2>7, Zenon DEF ChildShown
<1>5. ASSUME child \notin Failures, ~IsText(dirty)
      PROVE  ChildShown(Shows[d], child, Pruned[dirty], type)
  <2> DEFINE drawn == Pruned[dirty]
  <2>1. child = CleanElement[dirty]
    BY <1>5, Zenon DEF CleanOne
  <2>2. <<child, drawn>> \in Shows[d]
    BY <1>5, <2>1
  <2>3. ~IsText(drawn)
    BY <1>5, PrunedTyped
  <2>4. dirty \in Elements
    BY <1>2, <1>5 DEF Elements
  <2>5. ~IsEmptyText(child)
    BY <1>5, <2>1, <2>4, ElementCleaned
  <2>6. drawn \in Contents
    BY <1>2, <2>3 DEF Contents, IsContent
  <2> HIDE DEF drawn
  <2>7. InPlace(child, drawn, type)
    BY <2>3, Zenon DEF InPlace
  <2>8. ChildShown(Shows[d], child, drawn, type)
    BY <2>2, <2>5, <2>6, <2>7, Zenon DEF ChildShown
  <2> QED
    BY <2>8 DEF drawn
<1> QED
  BY <1>3, <1>4, <1>5

LEMMA CleanShown ==
    ASSUME NEW d \in 0..MaxDepth, NEW dirty \in Nodes[d], ~IsText(dirty),
           CleanElement[dirty] \notin Failures
    PROVE  <<CleanElement[dirty], Pruned[dirty]>> \in Shows[d]
<1> DEFINE Fine(n) == \A x \in Nodes[n] : ~IsText(x) /\ CleanElement[x] \notin Failures =>
                          <<CleanElement[x], Pruned[x]>> \in Shows[n]
           H == {n \in 0..MaxDepth : Fine(n)}
<1>1. MaxDepth \in Nat /\ 0 \in Int /\ MaxDepth \in Int /\ 0 \in 0..MaxDepth
  BY CleanerAssumption
<1>2. 0 \in H
  <2>1. \A x \in Nodes[0] : IsText(x)
    BY <1>1, NodeCases
  <2> QED
    BY <1>1, <2>1
<1>3. ASSUME NEW k \in 0..MaxDepth - 1, k \in H PROVE k + 1 \in H
  <2> DEFINE e == k + 1
  <2>1. e \in 0..MaxDepth /\ e # 0 /\ e > 0 /\ e - 1 = k /\ k \in 0..MaxDepth
    BY <1>1
  <2> HIDE DEF e
  <2>2. ASSUME NEW x \in Nodes[e], ~IsText(x), CleanElement[x] \notin Failures
        PROVE  <<CleanElement[x], Pruned[x]>> \in Shows[e]
    <3> DEFINE node == NewNode(x)
               clean == CleanChildren(CleanElement, x)
               S == DomNodes[k]
               element == CleanElement[x]
               type == NodeType(x)
               m == Map(Pruned, x.children)
               n == Len(x.children)
               drawn == Pruned[x]
    <3>1. x \in Elements
      <4>1. MaxDepth \in e..MaxDepth
        BY <1>1, <2>1
      <4>2. x \in Nodes[MaxDepth]
        BY <2>1, <4>1, NodesGrow
      <4> QED
        BY <2>2, <4>2 DEF Elements
    <3>2. x.children \in Seq(Nodes[k])
      BY <2>1, <2>2, NodeCases
    <3>3. MayBe(x) /\ element.type = type /\ type \in Types
      BY <2>2, <3>1, ElementCleaned
    <3>4. node.type = type /\ node.children = <<>> /\ ~Failed(node)
      BY <3>1, <3>3, NewNodeIs
    <3>5. /\ clean \in Seq(S \cup Failures) /\ node \in DomOf(Seq(S))
          /\ element \in DomNodes[e]
      <4>1. /\ CleanChildren(CleanElement, x) \in Seq(DomNodes[e - 1] \cup Failures)
            /\ NewNode(x) \in DomOf(Seq(DomNodes[e - 1]))
            /\ CleanElement[x] \in DomNodes[e] \cup Failures
        BY <2>1, <2>2, <3>4, CleanTyped
      <4> QED
        BY <2>1, <2>2, <4>1
    <3>6. AreNodes(S)
      BY <2>1, DomAreNodes
    <3>7. /\ drawn \in Nodes[e] /\ ~IsText(drawn)
          /\ m \in Seq(Nodes[k]) /\ drawn.children = Chosen(m, Contents)
      BY <2>1, <2>2, PrunedTyped
    <3>8. Len(m) = n /\ n \in Nat /\ \A i \in 1..n : m[i] = Pruned[x.children[i]]
      BY <3>2, MapIs
    <3>9. Len(clean) = n
      <4>1. DOMAIN clean = 1..n
        <5>1. DOMAIN x.children = 1..n
          BY <3>2
        <5> QED
          BY <5>1 DEF CleanChildren
      <4> DEFINE U == S \cup Failures
      <4>2. clean \in Seq(U)
        BY <3>5
      <4> HIDE DEF U, clean, n
      <4> QED
        BY <3>8, <4>1, <4>2, LenIs
    <3>10. ASSUME NEW i \in 1..n PROVE ChildShown(Shows[k], clean[i], m[i], type)
      <4> DEFINE child == x.children[i]
                 cleaned == clean[i]
                 pair == <<CleanElement[child], Pruned[child]>>
                 fails == CleanElement[child] \in Failures
                 shows == Shows[k]
      <4>1. child \in Nodes[k]
        BY <3>2
      <4>2. cleaned = CleanOne(CleanElement, child, type)
        <5>1. DOMAIN x.children = 1..n
          BY <3>2
        <5>2. cleaned = CleanOne(CleanElement, child, node.type)
          BY <5>1 DEF CleanChildren
        <5> QED
          BY <3>4, <5>2, Zenon
      <4>3. ~IsText(child) /\ ~fails => pair \in shows
        BY <1>3, <4>1
      <4>4. m[i] = Pruned[child]
        BY <3>8
      <4>5. type \in Types
        BY <3>3
      <4> HIDE DEF child, type, cleaned, m, clean
      <4>6. ChildShown(Shows[k], cleaned, Pruned[child], type)
        BY <2>1, <4>1, <4>2, <4>3, <4>5, ChildIsShown
      <4> QED
        BY <4>4, <4>6 DEF cleaned
    <3>11. ShownSoFar(Shows[k], AddChildren(node, clean), Chosen(m, Contents), type)
      <4> DEFINE shows == Shows[k]
      <4>1. ChildrenShown(shows, clean, m, node.type)
        <5> HIDE DEF clean, m, n, type, shows, node
        <5>1. ChildrenShown(shows, clean, m, type)
          BY <3>8, <3>9, <3>10 DEF ChildrenShown, shows
        <5> QED
          BY <3>4, <5>1
      <4> DEFINE T == Nodes[k]
      <4>2. m \in Seq(T)
        BY <3>7
      <4>3. node.children = <<>> /\ node.type = type
        BY <3>4
      <4> HIDE DEF node, clean, S, m, shows, T, type
      <4>4. ShownSoFar(shows, AddChildren(node, clean), Chosen(m, Contents), node.type)
        BY <3>5, <3>6, <4>1, <4>2, <4>3, AddsShown
      <4> QED
        BY <4>3, <4>4 DEF shows
    <3>12. element = AddChildren(node, clean)
      <4>1. element = CleanStep(CleanElement, x)
        BY <3>1, CleanIs
      <4> QED
        BY <3>4, <4>1, Zenon DEF CleanStep
    <3>13. AllShow(Shows[k], element.children, drawn.children, element.type)
      BY <2>2, <3>3, <3>7, <3>11, <3>12, Zenon DEF ShownSoFar
    <3>14. ElementShows(Shows[k], element, drawn)
      BY <3>3, <3>7, <3>13, Zenon DEF ElementShows
    <3> HIDE DEF element, drawn
    <3>15. <<element, drawn>> \in Shows[e]
      <4>1. ElementShows(Shows[e - 1], element, drawn) /\ e - 1 \in 0..MaxDepth
        BY <2>1, <3>14
      <4> QED
        BY <2>1, <3>5, <3>7, <4>1, ShowsIs
    <3> QED
      BY <3>15 DEF element, drawn
  <2>3. Fine(e)
    BY <2>2
  <2> HIDE DEF Fine
  <2>4. e \in H
    BY <2>1, <2>3
  <2> QED
    BY <2>4 DEF e
<1>4. Inductive(H, 0, MaxDepth)
  BY <1>3, Zenon DEF Inductive
<1>5. d \in H
  <2> HIDE DEF H
  <2> QED
    BY <1>1, <1>2, <1>4, UpTo
<1> QED
  BY <1>5

-----------------------------------------------------------------------------
(* The DOM shows the page                                                  *)

IsPage(nodes, drawn) ==
    /\ nodes \in Seq(DomNodes[MaxDepth]) /\ drawn \in Seq(Elements)
    /\ AllShow(Shows[MaxDepth], nodes, drawn, "BODY")

LEMMA NoPage == IsPage(<<>>, <<>>)
<1>1. <<>> \in Seq(DomNodes[MaxDepth]) /\ <<>> \in Seq(Elements)
  <2> DEFINE A == DomNodes[MaxDepth]
             B == Elements
  <2> HIDE DEF A, B
  <2>1. <<>> \in Seq(A) /\ <<>> \in Seq(B)
    OBVIOUS
  <2> QED
    BY <2>1 DEF A, B
<1>2. AllShow(Shows[MaxDepth], <<>>, <<>>, "BODY")
  BY AllShowNone
<1> QED
  BY <1>1, <1>2 DEF IsPage

LEMMA PageAppend ==
    ASSUME NEW nodes, NEW drawn, IsPage(nodes, drawn), NEW node, NEW dirty,
           <<node, dirty>> \in Shows[MaxDepth], ~IsText(dirty)
    PROVE  IsPage(Append(nodes, node), Append(drawn, dirty))
<1> DEFINE A == DomNodes[MaxDepth]
           B == Elements
           shows == Shows[MaxDepth]
           body == "BODY"
<1>1. MaxDepth \in 0..MaxDepth
  BY CleanerAssumption
<1>2. node \in A /\ dirty \in Nodes[MaxDepth]
  BY <1>1, ShowsIs
<1>3. dirty \in B
  BY <1>2 DEF Elements
<1>4. nodes \in Seq(A) /\ drawn \in Seq(B) /\ AllShow(shows, nodes, drawn, body)
  BY DEF IsPage
<1>5. InPlace(node, dirty, body)
  BY Zenon DEF InPlace
<1>6. <<node, dirty>> \in shows
  OBVIOUS
<1> HIDE DEF A, B, shows, body
<1>7. AllShow(shows, Append(nodes, node), Append(drawn, dirty), body)
  BY <1>2, <1>3, <1>4, <1>5, <1>6, AllShowAppend
<1>8. Append(nodes, node) \in Seq(A) /\ Append(drawn, dirty) \in Seq(B)
  BY <1>2, <1>3, <1>4, AppendProperties
<1> QED
  BY <1>7, <1>8 DEF IsPage, A, B, shows, body

LEMMA PageNodesIs ==
    ASSUME NEW nodes \in Seq(Nodes[MaxDepth])
    PROVE  /\ Map(Pruned, nodes) \in Seq(Nodes[MaxDepth])
           /\ AllPruned(nodes) = Map(Pruned, nodes)
           /\ Filter(AllPruned(nodes), IsContent) = Chosen(Map(Pruned, nodes), Contents)
<1> DEFINE S == Nodes[MaxDepth]
           m == Map(Pruned, nodes)
<1>1. MaxDepth \in 0..MaxDepth
  BY CleanerAssumption
<1>2. Into(Pruned, S, S)
  BY <1>1, PrunedTyped DEF Into
<1>3. m \in Seq(S)
  <2>1. nodes \in Seq(S)
    OBVIOUS
  <2> HIDE DEF S
  <2> QED
    BY <1>2, <2>1, MapType
<1>4. AllPruned(nodes) = m
  BY Zenon DEF AllPruned, Map
<1> HIDE DEF m
<1>5. Filter(m, IsContent) = Chosen(m, Contents)
  BY <1>3, ContentChosen
<1> QED
  BY <1>3, <1>4, <1>5 DEF m

PageSoFar(d, drawn) == d \notin Failures => IsPage(d.top_level_nodes, drawn)

LEMMA PageStep ==
    ASSUME NEW S, S = DomNodes[MaxDepth], NEW d \in Doms(S) \cup Failures, NEW dirty \in Nodes[MaxDepth],
           NEW drawn, PageSoFar(d, drawn)
    PROVE  /\ Pruned[dirty] \in Contents => PageSoFar(TopOne(d, dirty), Append(drawn, Pruned[dirty]))
           /\ Pruned[dirty] \notin Contents => PageSoFar(TopOne(d, dirty), drawn)
<1> DEFINE more == TopOne(d, dirty)
           node == CleanElement[dirty]
           one == Pruned[dirty]
<1>1. MaxDepth \in 0..MaxDepth
  BY CleanerAssumption
<1>2. AreNodes(S) /\ CleansInto(S)
  BY <1>1, DomAreNodes, CleansTyped
<1>3. CASE more \in Failures
  BY <1>3, Zenon DEF PageSoFar
<1>4. CASE more \notin Failures
  <2>1. d \notin Failures
    BY <1>4, FailedDomStays
  <2>2. d \in Doms(S)
    BY <2>1
  <2>3. IsPage(d.top_level_nodes, drawn)
    BY <2>1, Zenon DEF PageSoFar
  <2>4. \/ IsEmpty(dirty) /\ more = d
        \/ ~IsText(dirty) /\ node \in S /\ more = Topped(d, node)
    <3> HIDE DEF more
    <3>1. \/ IsEmpty(dirty) /\ TopOne(d, dirty) = d
          \/ ~IsEmpty(dirty) /\ TopOne(d, dirty) \in Failures
          \/ /\ ~IsText(dirty) /\ CleanElement[dirty] \in S /\ IsAtTop(CleanElement[dirty])
             /\ TopOne(d, dirty) = Topped(d, CleanElement[dirty])
      BY <1>2, <2>2, TopOneCases
    <3> QED
      BY <1>4, <3>1 DEF more
  <2>5. CASE IsEmpty(dirty) /\ more = d
    <3>1. one = dirty
      BY <1>1, <2>5, PrunedTyped DEF IsEmpty
    <3>2. one \notin Contents
      BY <2>5, <3>1 DEF Contents, IsContent, IsEmpty
    <3> QED
      BY <2>3, <2>5, <3>2 DEF PageSoFar
  <2>6. CASE ~IsText(dirty) /\ node \in S /\ more = Topped(d, node)
    <3>1. node \notin Failures
      <4>1. \A x \in S : ~Failed(x)
        BY <1>2 DEF AreNodes
      <4> HIDE DEF node
      <4> QED
        BY <2>6, <4>1, FailuresFail
    <3>2. <<node, one>> \in Shows[MaxDepth]
      BY <1>1, <2>6, <3>1, CleanShown
    <3>3. ~IsText(one) /\ one \in Nodes[MaxDepth]
      BY <1>1, <2>6, PrunedTyped
    <3>4. one \in Contents
      BY <3>3 DEF Contents, IsContent
    <3> HIDE DEF node, one
    <3>5. more.top_level_nodes = Append(d.top_level_nodes, node)
      BY <1>2, <2>2, <2>6, ToppedIs
    <3>6. IsPage(Append(d.top_level_nodes, node), Append(drawn, one))
      <4> DEFINE tops == d.top_level_nodes
      <4>1. IsPage(tops, drawn)
        BY <2>3
      <4> HIDE DEF tops
      <4>2. IsPage(Append(tops, node), Append(drawn, one))
        BY <3>2, <3>3, <4>1, PageAppend
      <4> QED
        BY <4>2 DEF tops
    <3> QED
      BY <3>4, <3>5, <3>6 DEF PageSoFar, one
  <2> QED
    BY <2>4, <2>5, <2>6
<1> QED
  BY <1>3, <1>4

LEMMA CleanDomShown ==
    ASSUME NEW nodes \in Seq(Nodes[MaxDepth]), CleanDom(nodes) \notin Failures
    PROVE  IsPage(CleanDom(nodes).top_level_nodes, Filter(AllPruned(nodes), IsContent))
<1> DEFINE S == DomNodes[MaxDepth]
           D == Doms(S)
           N == Nodes[MaxDepth]
           m == Map(Pruned, nodes)
           n == Len(m)
           c(i) == Chosen(Prefix(m, i), Contents)
<1>1. AreNodes(S) /\ CleansInto(S)
  <2>1. MaxDepth \in 0..MaxDepth
    BY CleanerAssumption
  <2> QED
    BY <2>1, DomAreNodes, CleansTyped
<1>2. m \in Seq(N) /\ Filter(AllPruned(nodes), IsContent) = Chosen(m, Contents)
  BY PageNodesIs
<1>3. Len(nodes) = n /\ \A i \in 1..n : m[i] = Pruned[nodes[i]]
  BY MapIs
<1>4. n \in Nat /\ n \in 0..n /\ 0 \in 0..n /\ 0 \in Int /\ n \in Int
  BY <1>3
<1> HIDE DEF m
<1>5. PICK f \in [0..Len(nodes) -> D \cup Failures] : Topping(f, nodes) /\ CleanDom(nodes) = f[Len(nodes)]
  <2> HIDE DEF S
  <2> QED
    BY <1>1, CleanDomIs
<1> DEFINE H == {i \in 0..n : PageSoFar(f[i], c(i))}
<1>6. 0 \in H
  <2>1. f[0] = NoDom
    BY <1>5 DEF Topping
  <2>2. Prefix(m, 0) = <<>>
    BY <1>2, PrefixAll
  <2>3. c(0) = <<>>
    BY <2>2, ChosenNone
  <2>4. NoDom.top_level_nodes = <<>>
    BY DEF NoDom
  <2>5. PageSoFar(NoDom, <<>>)
    BY <2>4, NoPage DEF PageSoFar
  <2> HIDE DEF c
  <2> QED
    BY <1>4, <2>1, <2>3, <2>5
<1>7. ASSUME NEW i \in 0..n - 1, i \in H PROVE i + 1 \in H
  <2> DEFINE e == i + 1
             d == f[i]
             dirty == nodes[e]
             one == m[e]
             content == c(i)
             p == Prefix(m, i)
  <2>1. e \in 0..n /\ e \in 1..n /\ e - 1 = i /\ i \in 0..n
    BY <1>4
  <2> HIDE DEF e
  <2>2. f[e] = TopOne(d, dirty)
    BY <1>3, <1>5, <2>1 DEF Topping
  <2>3. dirty \in N /\ one \in N /\ one = Pruned[dirty]
    BY <1>2, <1>3, <2>1
  <2> HIDE DEF D
  <2>4. d \in D \cup Failures
    BY <1>3, <1>5, <2>1
  <2>5. p \in Seq(N)
    BY <1>2, <2>1, PrefixIs
  <2>7. Prefix(m, e) = Append(p, one)
    BY <1>2, <2>1, PrefixNext
  <2>8. /\ one \in Contents => c(e) = Append(content, one)
        /\ one \notin Contents => c(e) = content
    <3> HIDE DEF p, one, N
    <3>1. /\ one \in Contents => Chosen(Append(p, one), Contents) = Append(Chosen(p, Contents), one)
          /\ one \notin Contents => Chosen(Append(p, one), Contents) = Chosen(p, Contents)
      BY <2>3, <2>5, ChosenAppend
    <3> QED
      BY <2>7, <3>1 DEF p
  <2>9. PageSoFar(d, content)
    BY <1>7
  <2> HIDE DEF d, dirty, content, c, one
  <2>10. /\ one \in Contents => PageSoFar(TopOne(d, dirty), Append(content, one))
         /\ one \notin Contents => PageSoFar(TopOne(d, dirty), content)
    <3>1. d \in Doms(S) \cup Failures
      BY <2>4 DEF D
    <3>2. S = DomNodes[MaxDepth]
      OBVIOUS
    <3> HIDE DEF S
    <3>3. /\ Pruned[dirty] \in Contents => PageSoFar(TopOne(d, dirty), Append(content, Pruned[dirty]))
          /\ Pruned[dirty] \notin Contents => PageSoFar(TopOne(d, dirty), content)
      BY <2>3, <2>9, <3>1, <3>2, PageStep
    <3> QED
      BY <2>3, <3>3
  <2>11. PageSoFar(f[e], c(e))
    BY <2>2, <2>8, <2>10
  <2>12. e \in H
    BY <2>1, <2>11
  <2> QED
    BY <2>12 DEF e
<1>8. Inductive(H, 0, n)
  BY <1>7, Zenon DEF Inductive
<1>9. n \in H
  <2> HIDE DEF H, n
  <2> QED
    BY <1>4, <1>6, <1>8, UpTo
<1>10. Prefix(m, n) = m
  BY <1>2, PrefixAll
<1>11. PageSoFar(f[n], Chosen(m, Contents))
  BY <1>9, <1>10
<1> QED
  BY <1>2, <1>3, <1>5, <1>11 DEF PageSoFar

-----------------------------------------------------------------------------
(* Siblings and places                                                     *)

AlongStep(s, nodes, path, k) == IF k = 1 THEN nodes ELSE s[k - 1][path[k - 1]].children

LEMMA SiblingsAre ==
    ASSUME NEW nodes, NEW path, Len(path) \in Nat
    PROVE  Siblings(nodes, path) = [k \in 1..Len(path) |-> AlongStep(Siblings(nodes, path), nodes, path, k)]
<1> DEFINE n == Len(path)
           Is(s, m) == s = [k \in 1..m |-> AlongStep(s, nodes, path, k)]
           H == {m \in 0..n : \E s : Is(s, m)}
<1>1. n \in Nat /\ 0 \in Int /\ n \in Int /\ 0 \in 0..n /\ n \in 0..n
  OBVIOUS
<1> HIDE DEF n
<1>2. 0 \in H
  <2> DEFINE s == [k \in 1..0 |-> nodes]
  <2>1. Is(s, 0)
    OBVIOUS
  <2> HIDE DEF Is
  <2> QED
    BY <1>1, <2>1
<1>3. ASSUME NEW m \in 0..n - 1, m \in H PROVE m + 1 \in H
  <2> DEFINE e == m + 1
  <2>1. e \in 0..n /\ e - 1 = m /\ 1..e = 1..m \cup {e} /\ e \notin 1..m
        /\ \A k \in 1..e : k # 1 => k - 1 \in 1..m
    BY <1>1
  <2> HIDE DEF e
  <2>2. PICK s : Is(s, m)
    BY <1>3
  <2> DEFINE g == [k \in 1..e |-> AlongStep(s, nodes, path, k)]
  <2>3. \A k \in 1..e : g[k] = AlongStep(s, nodes, path, k)
    OBVIOUS
  <2>4. \A k \in 1..m : s[k] = AlongStep(s, nodes, path, k)
    BY <2>2
  <2>5. \A k \in 1..m : g[k] = s[k]
    BY <2>1, <2>3, <2>4
  <2> HIDE DEF g
  <2>6. \A k \in 1..e : AlongStep(s, nodes, path, k) = AlongStep(g, nodes, path, k)
    <3>1. ASSUME NEW k \in 1..e PROVE AlongStep(s, nodes, path, k) = AlongStep(g, nodes, path, k)
      <4>1. CASE k = 1
        BY <4>1, Zenon DEF AlongStep
      <4>2. CASE k # 1
        <5>1. s[k - 1] = g[k - 1]
          BY <2>1, <2>5, <4>2
        <5> QED
          BY <5>1, Zenon DEF AlongStep
      <4> QED
        BY <4>1, <4>2
    <3> QED
      BY <3>1
  <2>7. g = [k \in 1..e |-> g[k]]
    BY DEF g
  <2>8. \A k \in 1..e : g[k] = AlongStep(g, nodes, path, k)
    BY <2>3, <2>6
  <2>9. Is(g, e)
    BY <2>7, <2>8
  <2> HIDE DEF Is
  <2>10. e \in H
    BY <2>1, <2>9
  <2> QED
    BY <2>10 DEF e
<1>4. Inductive(H, 0, n)
  BY <1>3, Zenon DEF Inductive
<1>5. n \in H
  <2> HIDE DEF H
  <2> QED
    BY <1>1, <1>2, <1>4, UpTo
<1>6. \E s : s = [k \in 1..n |-> AlongStep(s, nodes, path, k)]
  BY <1>5
<1> QED
  BY <1>6, Zenon DEF Siblings, AlongStep, n

LEMMA SiblingsIs ==
    ASSUME NEW nodes, NEW path, Len(path) \in Nat
    PROVE  /\ 1 <= Len(path) => Siblings(nodes, path)[1] = nodes
           /\ \A k \in 2..Len(path) :
                  Siblings(nodes, path)[k] = Siblings(nodes, path)[k - 1][path[k - 1]].children
<1> DEFINE s == Siblings(nodes, path)
           n == Len(path)
<1>1. s = [k \in 1..n |-> AlongStep(s, nodes, path, k)]
  BY SiblingsAre
<1>2. n \in Nat
  OBVIOUS
<1> HIDE DEF s, n
<1>3. \A k \in 1..n : s[k] = AlongStep(s, nodes, path, k)
  BY <1>1
<1>4. 1 <= n => 1 \in 1..n
  BY <1>2
<1>5. \A k \in 2..n : k \in 1..n /\ k # 1
  BY <1>2
<1>6. 1 <= n => s[1] = nodes
  BY <1>3, <1>4 DEF AlongStep
<1>7. ASSUME NEW k \in 2..n PROVE s[k] = s[k - 1][path[k - 1]].children
  BY <1>3, <1>5, Zenon DEF AlongStep
<1> QED
  BY <1>6, <1>7 DEF s, n

(* A path that leads to a node, always within the children of the last.    *)
Leads(nodes, path) ==
    /\ path \in Seq(Nat) /\ Len(path) >= 1
    /\ \A k \in 1..Len(path) : path[k] \in 1..Len(Siblings(nodes, path)[k])

IsPlace(nodes, path, node) ==
    Leads(nodes, path) /\ node = Siblings(nodes, path)[Len(path)][path[Len(path)]]

LEMMA PlaceAtTop ==
    ASSUME NEW nodes, NEW i \in Nat, i \in 1..Len(nodes)
    PROVE  IsPlace(nodes, <<i>>, nodes[i])
<1> DEFINE p == <<i>>
<1>1. p \in Seq(Nat) /\ Len(p) = 1 /\ p[1] = i
  OBVIOUS
<1> HIDE DEF p
<1>2. Siblings(nodes, p)[1] = nodes
  BY <1>1, SiblingsIs
<1>3. IsPlace(nodes, p, nodes[i])
  <2>1. ASSUME NEW k \in 1..Len(p) PROVE p[k] \in 1..Len(Siblings(nodes, p)[k])
    <3>1. k = 1
      BY <1>1
    <3> QED
      BY <1>1, <1>2, <3>1
  <2>2. Leads(nodes, p)
    BY <1>1, <2>1 DEF Leads
  <2> QED
    BY <1>1, <1>2, <2>2 DEF IsPlace
<1> QED
  BY <1>3 DEF p

LEMMA PlaceBelow ==
    ASSUME NEW nodes, NEW path, NEW node, IsPlace(nodes, path, node),
           NEW i \in Nat, i \in 1..Len(node.children)
    PROVE  IsPlace(nodes, Append(path, i), node.children[i])
<1> DEFINE p == Append(path, i)
           n == Len(path)
           e == n + 1
           s == Siblings(nodes, path)
           t == Siblings(nodes, p)
           H == {k \in 1..n : s[k] = t[k]}
<1>1. path \in Seq(Nat) /\ n \in Nat /\ n >= 1
  BY DEF IsPlace, Leads
<1>2. /\ p \in Seq(Nat) /\ Len(p) = e /\ p[e] = i
      /\ \A k \in 1..n : p[k] = path[k]
  BY <1>1, AppendProperties
<1> HIDE DEF p, n
<1>3. e \in Nat /\ 1 <= e /\ 1 \in Int /\ n \in Int /\ 1 \in 1..n /\ n \in 1..n /\ e \in 2..e /\ e - 1 = n
      /\ \A k \in 1..e : k \in 1..n \/ k = e
  BY <1>1
<1>4. s[1] = nodes /\ \A k \in 2..n : s[k] = s[k - 1][path[k - 1]].children
  BY <1>1, SiblingsIs DEF n
<1>5. t[1] = nodes /\ \A k \in 2..e : t[k] = t[k - 1][p[k - 1]].children
  BY <1>2, <1>3, SiblingsIs
<1> HIDE DEF s, t
<1>6. 1 \in H
  BY <1>3, <1>4, <1>5
<1>7. ASSUME NEW k \in 1..n - 1, k \in H PROVE k + 1 \in H
  <2> DEFINE f == k + 1
  <2>1. f \in 1..n /\ f \in 2..n /\ f \in 2..e /\ f - 1 = k /\ k \in 1..n
    BY <1>1
  <2> HIDE DEF f, e
  <2>2. s[f] = s[k][path[k]].children /\ t[f] = t[k][p[k]].children
    BY <1>4, <1>5, <2>1
  <2>3. f \in H
    BY <1>2, <1>7, <2>1, <2>2
  <2> QED
    BY <2>3 DEF f
<1>8. Inductive(H, 1, n)
  BY <1>7, Zenon DEF Inductive
<1>9. \A k \in 1..n : s[k] = t[k]
  <2>1. \A k \in 1..n : k \in H
    <3> HIDE DEF H
    <3> QED
      BY <1>3, <1>6, <1>8, UpTo
  <2> QED
    BY <2>1
<1> HIDE DEF e
<1>10. t[e] = node.children
  <2>1. node = s[n][path[n]]
    BY DEF IsPlace, s, n
  <2>2. t[e] = t[n][p[n]].children
    BY <1>3, <1>5
  <2> QED
    BY <1>2, <1>3, <1>9, <2>1, <2>2
<1>11. \A k \in 1..n : path[k] \in 1..Len(s[k])
  BY DEF IsPlace, Leads, s, n
<1>12. ASSUME NEW k \in 1..Len(p) PROVE p[k] \in 1..Len(t[k])
  <2>1. k \in 1..n \/ k = e
    BY <1>2, <1>3
  <2>2. CASE k \in 1..n
    BY <1>2, <1>9, <1>11, <2>2
  <2>3. CASE k = e
    BY <1>2, <1>10, <2>3
  <2> QED
    BY <2>1, <2>2, <2>3
<1>13. Leads(nodes, p)
  BY <1>2, <1>3, <1>12 DEF Leads, t
<1>14. IsPlace(nodes, p, node.children[i])
  BY <1>2, <1>10, <1>13 DEF IsPlace, t
<1> QED
  BY <1>14 DEF p

-----------------------------------------------------------------------------
(* The search by levels finds a place with the id                          *)

(* The nodes of the DOM with the paths to them.                            *)
Spots(nodes) ==
    {at \in [path : Seq(Nat), node : DomNodes[MaxDepth]] : IsPlace(nodes, at.path, at.node)}

SpotsAt(above, nodes) == [i \in DOMAIN nodes |-> [path |-> Append(above, i), node |-> nodes[i]]]
SpotsBelowAll(up) == FlattenSeq([k \in DOMAIN up |-> SpotsAt(up[k].path, up[k].node.children)])
SpotsStep(f, nodes, depth) == IF depth = 0 THEN SpotsAt(<<>>, nodes) ELSE SpotsBelowAll(f[depth - 1])

WithId(spots, id) == {at \in spots : at.node.id = id}

LEMMA SpotIs ==
    ASSUME NEW nodes, NEW path \in Seq(Nat), NEW node \in DomNodes[MaxDepth], IsPlace(nodes, path, node)
    PROVE  [path |-> path, node |-> node] \in Spots(nodes)
<1> DEFINE at == [path |-> path, node |-> node]
           N == DomNodes[MaxDepth]
<1> HIDE DEF N
<1>1. at \in [path : Seq(Nat), node : N] /\ at.path = path /\ at.node = node
  BY DEF N
<1> HIDE DEF at
<1>2. at \in Spots(nodes)
  BY <1>1 DEF Spots, N
<1> QED
  BY <1>2 DEF at

LEMMA SpotParts ==
    ASSUME NEW nodes, NEW at \in Spots(nodes)
    PROVE  /\ at.path \in Seq(Nat) /\ at.node \in DomNodes[MaxDepth]
           /\ IsPlace(nodes, at.path, at.node)
  BY DEF Spots

LEMMA SpotsAtTop ==
    ASSUME NEW nodes \in Seq(DomNodes[MaxDepth])
    PROVE  SpotsAt(<<>>, nodes) \in Seq(Spots(nodes))
<1> DEFINE N == DomNodes[MaxDepth]
           n == Len(nodes)
           s == SpotsAt(<<>>, nodes)
           A == Spots(nodes)
<1>1. DOMAIN nodes = 1..n /\ n \in Nat /\ \A i \in 1..n : nodes[i] \in N /\ i \in Nat
  <2> HIDE DEF N
  <2>1. nodes \in Seq(N)
    BY DEF N
  <2> QED
    BY <2>1
<1>2. ASSUME NEW i \in 1..n PROVE s[i] \in A
  <2> DEFINE p == <<i>>
             node == nodes[i]
  <2>1. Append(<<>>, i) = p /\ p \in Seq(Nat)
    BY <1>1
  <2>2. IsPlace(nodes, p, node)
    BY <1>1, PlaceAtTop
  <2>3. node \in N
    BY <1>1
  <2>4. s[i] = [path |-> p, node |-> node]
    BY <1>1, <2>1 DEF SpotsAt
  <2> HIDE DEF p, node, s
  <2> QED
    BY <2>1, <2>2, <2>3, <2>4, SpotIs
<1>3. s = [i \in 1..n |-> s[i]]
  BY <1>1, Zenon DEF SpotsAt
<1> HIDE DEF s, n, A
<1>4. Holds(s, n, A)
  BY <1>2, <1>3 DEF Holds
<1> QED
  BY <1>1, <1>4, MakeSeq DEF s, A

LEMMA SpotsBelow ==
    ASSUME NEW nodes, NEW path, NEW node \in DomNodes[MaxDepth], IsPlace(nodes, path, node)
    PROVE  SpotsAt(path, node.children) \in Seq(Spots(nodes))
<1> DEFINE N == DomNodes[MaxDepth]
           kids == node.children
           n == Len(kids)
           s == SpotsAt(path, kids)
           A == Spots(nodes)
<1>0. path \in Seq(Nat)
  BY DEF IsPlace, Leads
<1>1. DOMAIN kids = 1..n /\ n \in Nat /\ \A i \in 1..n : kids[i] \in N /\ i \in Nat
  <2>1. kids \in Seq(N)
    BY DomParts
  <2> HIDE DEF N, kids
  <2> QED
    BY <2>1
<1>2. ASSUME NEW i \in 1..n PROVE s[i] \in A
  <2> DEFINE p == Append(path, i)
             kid == kids[i]
  <2>1. p \in Seq(Nat)
    BY <1>0, <1>1, AppendProperties
  <2>2. IsPlace(nodes, p, kid)
    BY <1>1, PlaceBelow
  <2>3. kid \in N
    BY <1>1
  <2>4. s[i] = [path |-> p, node |-> kid]
    BY <1>1 DEF SpotsAt
  <2> HIDE DEF p, kid, s
  <2> QED
    BY <2>1, <2>2, <2>3, <2>4, SpotIs
<1>3. s = [i \in 1..n |-> s[i]]
  BY <1>1, Zenon DEF SpotsAt
<1> HIDE DEF s, n, A, kids
<1>4. Holds(s, n, A)
  BY <1>2, <1>3 DEF Holds
<1> QED
  BY <1>1, <1>4, MakeSeq DEF s, A, kids

LEMMA BelowTyped ==
    ASSUME NEW nodes, NEW up \in Seq(Spots(nodes))
    PROVE  SpotsBelowAll(up) \in Seq(Spots(nodes))
<1> DEFINE A == Spots(nodes)
           n == Len(up)
           Q == Seq(A)
           s == [k \in DOMAIN up |-> SpotsAt(up[k].path, up[k].node.children)]
<1>1. n \in Nat /\ DOMAIN up = 1..n
  OBVIOUS
<1>2. ASSUME NEW k \in 1..n PROVE s[k] \in Q
  <2> DEFINE at == up[k]
             path == at.path
             node == at.node
  <2>1. at \in A
    <3> HIDE DEF A
    <3>1. up \in Seq(A)
      BY DEF A
    <3> QED
      BY <3>1, ElementOfSeq
  <2>2. node \in DomNodes[MaxDepth] /\ IsPlace(nodes, path, node)
    BY <2>1, SpotParts
  <2>3. s[k] = SpotsAt(path, node.children)
    BY <1>1
  <2> HIDE DEF path, node, s
  <2>4. SpotsAt(path, node.children) \in Seq(Spots(nodes))
    BY <2>2, SpotsBelow
  <2> QED
    BY <2>3, <2>4
<1>3. s = [k \in 1..n |-> s[k]]
  BY <1>1
<1>4. SpotsBelowAll(up) = FlattenSeq(s)
  BY Zenon DEF SpotsBelowAll
<1> HIDE DEF s, n, Q
<1>5. Holds(s, n, Q)
  BY <1>2, <1>3 DEF Holds
<1>6. s \in Seq(Q)
  BY <1>1, <1>5, MakeSeq
<1> HIDE DEF A
<1>7. FlattenSeq(s) \in Seq(A)
  BY <1>6, FlattenType DEF Q
<1> QED
  BY <1>4, <1>7 DEF A

AreLevels(f, nodes) == \A depth \in 0..MaxDepth : f[depth] = SpotsStep(f, nodes, depth)

LEMMA LevelsExist ==
    ASSUME NEW nodes \in Seq(DomNodes[MaxDepth])
    PROVE  \E f : f = [depth \in 0..MaxDepth |-> SpotsStep(f, nodes, depth)]
<1> DEFINE A == Spots(nodes)
           Q == Seq(A)
           n == MaxDepth
           z == SpotsAt(<<>>, nodes)
           step == [d \in 0 + 1..n |-> [up \in Q |-> SpotsBelowAll(up)]]
<1>1. n \in Nat /\ 0 \in Int /\ n \in Int /\ 0 <= n
  BY CleanerAssumption
<1>2. z \in Q
  BY SpotsAtTop
<1>3. \A up \in Q : SpotsBelowAll(up) \in Q
  BY BelowTyped
<1> HIDE DEF Q, z, n
<1>4. step \in [0 + 1..n -> [Q -> Q]] /\ \A d \in 0 + 1..n, up \in Q : step[d][up] = SpotsBelowAll(up)
  BY <1>3
<1> HIDE DEF step
<1>5. PICK f \in [0..n -> Q] : f[0] = z /\ Follows(f, step, 0, n)
  BY <1>1, <1>2, <1>4, Recursion
<1>6. ASSUME NEW d \in 0..n PROVE f[d] = SpotsStep(f, nodes, d)
  <2>1. CASE d = 0
    BY <1>5, <2>1 DEF SpotsStep, z
  <2>2. CASE d # 0
    <3>1. d \in 0 + 1..n /\ d - 1 \in 0..n
      BY <1>1, <2>2
    <3>2. f[d] = step[d][f[d - 1]] /\ f[d - 1] \in Q
      BY <1>5, <3>1 DEF Follows
    <3>3. f[d] = SpotsBelowAll(f[d - 1])
      BY <1>4, <3>1, <3>2
    <3> QED
      BY <2>2, <3>3 DEF SpotsStep
  <2> QED
    BY <2>1, <2>2
<1>7. f = [d \in 0..n |-> f[d]]
  OBVIOUS
<1>8. f = [d \in 0..n |-> SpotsStep(f, nodes, d)]
  BY <1>6, <1>7
<1> QED
  BY <1>8 DEF n

LEMMA LevelsTyped ==
    ASSUME NEW nodes \in Seq(DomNodes[MaxDepth]), NEW f, AreLevels(f, nodes)
    PROVE  \A depth \in 0..MaxDepth : f[depth] \in Seq(Spots(nodes))
<1> DEFINE n == MaxDepth
           Q == Seq(Spots(nodes))
           H == {d \in 0..n : f[d] \in Q}
<1>1. n \in Nat /\ 0 \in Int /\ n \in Int /\ 0 \in 0..n
  BY CleanerAssumption
<1>2. \A d \in 0..n : f[d] = SpotsStep(f, nodes, d)
  BY DEF AreLevels
<1> HIDE DEF n
<1>3. 0 \in H
  <2>1. f[0] = SpotsAt(<<>>, nodes)
    BY <1>1, <1>2 DEF SpotsStep
  <2>2. f[0] \in Q
    BY <2>1, SpotsAtTop
  <2> QED
    BY <1>1, <2>2
<1>4. ASSUME NEW d \in 0..n - 1, d \in H PROVE d + 1 \in H
  <2> DEFINE e == d + 1
  <2>1. e \in 0..n /\ e # 0 /\ e - 1 = d
    BY <1>1
  <2> HIDE DEF e
  <2>2. f[e] = SpotsBelowAll(f[d])
    BY <1>2, <2>1 DEF SpotsStep
  <2>3. f[d] \in Q
    BY <1>4
  <2>4. f[e] \in Q
    BY <2>2, <2>3, BelowTyped
  <2>5. e \in H
    BY <2>1, <2>4
  <2> QED
    BY <2>5 DEF e
<1>5. Inductive(H, 0, n)
  BY <1>4, Zenon DEF Inductive
<1>6. \A d \in 0..n : d \in H
  <2> HIDE DEF H
  <2> QED
    BY <1>1, <1>3, <1>5, UpTo
<1> QED
  BY <1>6 DEF n

(* The nodes with that id, level by level.                                 *)
FoundIn(level, id) ==
    FlattenSeq([depth \in 1..MaxDepth + 1 |-> Filter(level[depth - 1], LAMBDA at : at.node.id = id)])

LEMMA IdsChosen ==
    ASSUME NEW A, NEW seq \in Seq(A), NEW id
    PROVE  Filter(seq, LAMBDA at : at.node.id = id) \in Seq(WithId(A, id))
<1> DEFINE T == WithId(A, id)
           C == A \cap T
<1>1. \A i \in DOMAIN seq : seq[i] \in A
  OBVIOUS
<1>2. \A i \in DOMAIN seq :
          (IF seq[i].node.id = id THEN <<seq[i]>> ELSE <<>>) = Pick(T, seq[i])
  BY <1>1, Zenon DEF Pick, WithId
<1>3. [i \in DOMAIN seq |-> IF seq[i].node.id = id THEN <<seq[i]>> ELSE <<>>]
          = [i \in DOMAIN seq |-> Pick(T, seq[i])]
  BY <1>2, Zenon
<1>4. Filter(seq, LAMBDA at : at.node.id = id) = Chosen(seq, T)
  BY <1>3, Zenon DEF Filter, Chosen
<1>5. C = T
  BY DEF WithId
<1>6. Chosen(seq, T) \in Seq(C)
  BY ChosenType
<1> HIDE DEF C, T
<1> QED
  BY <1>4, <1>5, <1>6 DEF T

LEMMA FoundTyped ==
    ASSUME NEW nodes \in Seq(DomNodes[MaxDepth]), NEW level, AreLevels(level, nodes), NEW id
    PROVE  FoundIn(level, id) \in Seq(WithId(Spots(nodes), id))
<1> DEFINE A == Spots(nodes)
           T == WithId(A, id)
           Q == Seq(T)
           n == MaxDepth + 1
           s == [depth \in 1..MaxDepth + 1 |-> Filter(level[depth - 1], LAMBDA at : at.node.id = id)]
<1>1. n \in Nat /\ MaxDepth \in Nat
  BY CleanerAssumption
<1>2. ASSUME NEW k \in 1..n PROVE s[k] \in Q
  <2> DEFINE seq == level[k - 1]
  <2>1. k - 1 \in 0..MaxDepth
    BY <1>1
  <2>2. seq \in Seq(A)
    BY <2>1, LevelsTyped
  <2>3. s[k] = Filter(seq, LAMBDA at : at.node.id = id)
    BY Zenon
  <2> HIDE DEF seq, s, A
  <2>4. Filter(seq, LAMBDA at : at.node.id = id) \in Seq(WithId(A, id))
    BY <2>2, IdsChosen
  <2> QED
    BY <2>3, <2>4
<1>3. s = [k \in 1..n |-> s[k]]
  BY Zenon
<1>4. FoundIn(level, id) = FlattenSeq(s)
  BY Zenon DEF FoundIn
<1> HIDE DEF s, n, Q
<1>5. Holds(s, n, Q)
  BY <1>2, <1>3 DEF Holds
<1>6. s \in Seq(Q)
  BY <1>1, <1>5, MakeSeq
<1> HIDE DEF T
<1>7. FlattenSeq(s) \in Seq(T)
  BY <1>6, FlattenType DEF Q
<1> QED
  BY <1>4, <1>7 DEF T, A

LEMMA SearchIs ==
    ASSUME NEW d, d.top_level_nodes \in Seq(DomNodes[MaxDepth]), NEW id
    PROVE  \E level :
               /\ AreLevels(level, d.top_level_nodes)
               /\ GetElementById(d, id) =
                      IF FoundIn(level, id) = <<>> THEN <<>> ELSE Head(FoundIn(level, id)).path
<1> DEFINE nodes == d.top_level_nodes
           At(above, kids) == [i \in DOMAIN kids |-> [path |-> Append(above, i), node |-> kids[i]]]
           level[depth \in 0..MaxDepth] ==
               IF depth = 0 THEN At(<<>>, d.top_level_nodes)
               ELSE LET up == level[depth - 1]
                    IN  FlattenSeq([k \in DOMAIN up |-> At(up[k].path, up[k].node.children)])
           found == FlattenSeq([depth \in 1..MaxDepth + 1 |->
                        Filter(level[depth - 1], LAMBDA at : at.node.id = id)])
<1>1. \E f : f = [depth \in 0..MaxDepth |-> SpotsStep(f, nodes, depth)]
  BY LevelsExist
<1>2. level = [depth \in 0..MaxDepth |-> SpotsStep(level, nodes, depth)]
  BY <1>1, Zenon DEF SpotsStep, SpotsAt, SpotsBelowAll
<1>3. GetElementById(d, id) = IF found = <<>> THEN <<>> ELSE Head(found).path
  BY Zenon DEF GetElementById
<1>4. found = FoundIn(level, id)
  BY Zenon DEF FoundIn
<1> HIDE DEF level, found
<1>5. AreLevels(level, nodes)
  BY <1>2 DEF AreLevels
<1> QED
  BY <1>3, <1>4, <1>5

(* The path leads to a node with the id.                                   *)
LEMMA PathFound ==
    ASSUME NEW d, d.top_level_nodes \in Seq(DomNodes[MaxDepth]), NEW id,
           GetElementById(d, id) # <<>>
    PROVE  \E node \in DomNodes[MaxDepth] :
               node.id = id /\ IsPlace(d.top_level_nodes, GetElementById(d, id), node)
<1> DEFINE nodes == d.top_level_nodes
           T == WithId(Spots(nodes), id)
           path == GetElementById(d, id)
<1>1. PICK level : /\ AreLevels(level, nodes)
                   /\ path = IF FoundIn(level, id) = <<>> THEN <<>> ELSE Head(FoundIn(level, id)).path
  BY SearchIs
<1> DEFINE found == FoundIn(level, id)
           at == Head(found)
<1>2. found \in Seq(T)
  BY <1>1, FoundTyped
<1>3. found # <<>> /\ path = at.path
  BY <1>1
<1>4. at \in T
  <2> HIDE DEF T, found
  <2> QED
    BY <1>2, <1>3
<1>5. at \in Spots(nodes) /\ at.node.id = id
  BY <1>4 DEF WithId
<1> HIDE DEF at, path
<1>6. at.node \in DomNodes[MaxDepth] /\ IsPlace(nodes, path, at.node)
  BY <1>3, <1>5, SpotParts
<1> QED
  BY <1>5, <1>6 DEF path

-----------------------------------------------------------------------------
(* New children for the node at a place                                    *)

WithStep(w, along, path, children, k) ==
    Replaced(along[k], path[k], IF k = Len(path) THEN children ELSE w[k + 1])

IsMade(w, nodes, path, children) ==
    w = [k \in 1..Len(path) |-> WithStep(w, Siblings(nodes, path), path, children, k)]

LEMMA WithExists ==
    ASSUME NEW nodes, NEW path, NEW children, Len(path) \in Nat, Len(path) >= 1
    PROVE  \E w : IsMade(w, nodes, path, children)
<1> DEFINE n == Len(path)
           along == Siblings(nodes, path)
           Is(w, m) == w = [k \in m..n |-> WithStep(w, along, path, children, k)]
           H == {m \in 1..n : \E w : Is(w, m)}
<1>1. n \in Nat /\ 1 \in Int /\ n \in Int /\ 1 \in 1..n /\ n \in 1..n
  OBVIOUS
<1> HIDE DEF along
<1>2. n \in H
  <2> DEFINE v == [k \in n..n |-> WithStep(<<>>, along, path, children, k)]
  <2>1. \A k \in n..n : k = n
    BY <1>1
  <2>2. \A k \in n..n : WithStep(<<>>, along, path, children, k) = WithStep(v, along, path, children, k)
    BY <2>1, Zenon DEF WithStep
  <2>3. Is(v, n)
    BY <2>2, Zenon
  <2> HIDE DEF Is, n
  <2> QED
    BY <1>1, <2>3
<1>3. ASSUME NEW m \in 1 + 1..n, m \in H PROVE m - 1 \in H
  <2> DEFINE e == m - 1
  <2>1. e \in 1..n /\ e # n /\ e + 1 = m /\ e..n = m..n \cup {e} /\ e \notin m..n /\ m \in m..n
        /\ \A k \in e..n : k # n => k + 1 \in m..n
    BY <1>1
  <2> HIDE DEF e
  <2>2. PICK w : Is(w, m)
    BY <1>3
  <2> HIDE DEF n
  <2> DEFINE g == [k \in e..n |-> WithStep(w, along, path, children, k)]
  <2>3. \A k \in e..n : g[k] = WithStep(w, along, path, children, k)
    OBVIOUS
  <2>4. \A k \in m..n : w[k] = WithStep(w, along, path, children, k)
    BY <2>2
  <2>5. \A k \in m..n : g[k] = w[k]
    BY <2>1, <2>3, <2>4
  <2>6. g = [k \in e..n |-> g[k]]
    OBVIOUS
  <2> HIDE DEF g
  <2>7. ASSUME NEW k \in e..n
        PROVE  WithStep(w, along, path, children, k) = WithStep(g, along, path, children, k)
    <3>1. CASE k = n
      BY <3>1, Zenon DEF WithStep, n
    <3>2. CASE k # n
      <4>1. w[k + 1] = g[k + 1]
        BY <2>1, <2>5, <3>2
      <4> QED
        BY <4>1, Zenon DEF WithStep
    <3> QED
      BY <3>1, <3>2
  <2>8. \A k \in e..n : g[k] = WithStep(g, along, path, children, k)
    BY <2>3, <2>7
  <2>9. Is(g, e)
    BY <2>6, <2>8, Zenon
  <2> HIDE DEF Is
  <2>10. e \in H
    BY <2>1, <2>9
  <2> QED
    BY <2>10 DEF e
<1>4. InductiveDown(H, 1, n)
  BY <1>3, Zenon DEF InductiveDown
<1>5. 1 \in H
  <2> HIDE DEF H, n
  <2> QED
    BY <1>1, <1>2, <1>4, DownTo
<1>6. \E w : w = [k \in 1..n |-> WithStep(w, along, path, children, k)]
  BY <1>5
<1> QED
  BY <1>6, Zenon DEF IsMade, along, n

LEMMA WithIsMade ==
    ASSUME NEW nodes, NEW path, NEW children, Len(path) \in Nat, Len(path) >= 1
    PROVE  \E w : /\ \A k \in 1..Len(path) :
                         w[k] = WithStep(w, Siblings(nodes, path), path, children, k)
                  /\ WithChildren(nodes, path, children) = w[1]
<1>1. \E w : IsMade(w, nodes, path, children)
  BY WithExists
<1> DEFINE along == Siblings(nodes, path)
           with[k \in 1..Len(path)] ==
               Replaced(along[k], path[k], IF k = Len(path) THEN children ELSE with[k + 1])
<1>2. with = [k \in 1..Len(path) |-> WithStep(with, along, path, children, k)]
  BY <1>1, Zenon DEF WithStep, IsMade
<1>3. WithChildren(nodes, path, children) = with[1]
  BY Zenon DEF WithChildren
<1> HIDE DEF with
<1>4. \A k \in 1..Len(path) : with[k] = WithStep(with, along, path, children, k)
  BY <1>2
<1> QED
  BY <1>3, <1>4

-----------------------------------------------------------------------------
(* Nodes and what is drawn of them, one for one                            *)

Match(d, nodes, drawn, type) ==
    /\ nodes \in Seq(DomNodes[d]) /\ drawn \in Seq(Nodes[d])
    /\ AllShow(Shows[d], nodes, drawn, type)

LEMMA MatchAt ==
    ASSUME NEW d, NEW nodes, NEW drawn, NEW type, Match(d, nodes, drawn, type), NEW i \in 1..Len(nodes)
    PROVE  /\ Len(nodes) = Len(drawn) /\ i \in 1..Len(drawn)
           /\ <<nodes[i], drawn[i]>> \in Shows[d] /\ InPlace(nodes[i], drawn[i], type)
           /\ nodes[i] \in DomNodes[d] /\ drawn[i] \in Nodes[d]
<1> DEFINE N == DomNodes[d]
           M == Nodes[d]
           n == Len(drawn)
<1>1. /\ nodes \in Seq(N) /\ drawn \in Seq(M) /\ Len(nodes) = n
      /\ \A k \in 1..n : <<nodes[k], drawn[k]>> \in Shows[d] /\ InPlace(nodes[k], drawn[k], type)
  BY DEF Match, AllShow
<1> HIDE DEF N, M
<1>2. i \in 1..n
  BY <1>1
<1>3. nodes[i] \in N /\ drawn[i] \in M
  BY <1>1, <1>2
<1> QED
  BY <1>1, <1>2, <1>3 DEF N, M

(* A node with children or an id is an element, and its children match.    *)
LEMMA Deeper ==
    ASSUME NEW d \in 0..MaxDepth, NEW nodes, NEW drawn, NEW type, Match(d, nodes, drawn, type),
           NEW i \in 1..Len(nodes), nodes[i].children # <<>> \/ nodes[i].id # ""
    PROVE  /\ d > 0 /\ d - 1 \in 0..MaxDepth
           /\ ~IsText(drawn[i]) /\ nodes[i].type \in Types
           /\ Match(d - 1, nodes[i].children, drawn[i].children, nodes[i].type)
<1> DEFINE node == nodes[i]
           dirty == drawn[i]
<1>1. <<node, dirty>> \in Shows[d] /\ node \in DomNodes[d] /\ dirty \in Nodes[d]
  BY MatchAt
<1>2. ~TextShows(node, dirty)
  BY Zenon DEF TextShows
<1> HIDE DEF node, dirty
<1>3. /\ d > 0 /\ d - 1 \in 0..MaxDepth
      /\ ElementShows(Shows[d - 1], node, dirty)
  BY <1>1, <1>2, ShowsIs
<1>4. /\ ~IsText(dirty) /\ node.type \in Types
      /\ AllShow(Shows[d - 1], node.children, dirty.children, node.type)
  BY <1>3, Zenon DEF ElementShows
<1>5. node.children \in Seq(DomNodes[d - 1])
  BY <1>1, <1>3, DomCases
<1>6. dirty.children \in Seq(Nodes[d - 1])
  BY <1>1, <1>4, NodeCases
<1>7. Match(d - 1, node.children, dirty.children, node.type)
  BY <1>4, <1>5, <1>6, Zenon DEF Match
<1> QED
  BY <1>3, <1>4, <1>7 DEF node, dirty

LEMMA PairReplaced ==
    ASSUME NEW d \in 0..MaxDepth, d > 0, NEW node \in DomNodes[d], NEW dirty \in Nodes[d], ~IsText(dirty),
           node.type \in Types, NEW kids, NEW drawn, Match(d - 1, kids, drawn, node.type)
    PROVE  /\ [node EXCEPT !.children = kids] \in DomNodes[d]
           /\ [dirty EXCEPT !.children = drawn] \in Nodes[d]
           /\ ~IsText([dirty EXCEPT !.children = drawn])
           /\ <<[node EXCEPT !.children = kids], [dirty EXCEPT !.children = drawn]>> \in Shows[d]
<1> DEFINE Q == Seq(DomNodes[d - 1])
           R == Seq(Nodes[d - 1])
           new == [node EXCEPT !.children = kids]
           page2 == [dirty EXCEPT !.children = drawn]
           shows == Shows[d - 1]
<1>1. kids \in Q /\ drawn \in R /\ AllShow(shows, kids, drawn, node.type)
  BY DEF Match
<1>2. d # 0 /\ d - 1 \in 0..MaxDepth
  BY DomIs
<1>3. node \in DomOf(Q)
  BY DomCases
<1>4. dirty \in ElementsOf(R)
  BY NodeCases
<1> HIDE DEF Q, R, shows
<1>5. new \in DomOf(Q) /\ new.type = node.type /\ new.children = kids
  BY <1>1, <1>3 DEF DomOf
<1>6. page2 \in ElementsOf(R) /\ ~IsText(page2) /\ page2.children = drawn
  BY <1>1, <1>4 DEF ElementsOf, IsText
<1> HIDE DEF new, page2
<1>7. new \in DomNodes[d]
  BY <1>2, <1>5, DomIs DEF Q
<1>8. page2 \in Nodes[d]
  BY <1>2, <1>6, NodeIs DEF R
<1>9. ElementShows(shows, new, page2)
  BY <1>1, <1>5, <1>6, Zenon DEF ElementShows
<1>10. <<new, page2>> \in Shows[d]
  BY <1>2, <1>7, <1>8, <1>9, ShowsIs DEF shows
<1> QED
  BY <1>6, <1>7, <1>8, <1>10 DEF new, page2

LEMMA ReplacedIs ==
    ASSUME NEW S, NEW s \in Seq(S), NEW i \in 1..Len(s), NEW kids, NEW x \in S,
           x = [s[i] EXCEPT !.children = kids]
    PROVE  /\ Replaced(s, i, kids) \in Seq(S) /\ Len(Replaced(s, i, kids)) = Len(s)
           /\ \A k \in 1..Len(s) : Replaced(s, i, kids)[k] = IF k = i THEN x ELSE s[k]
<1> DEFINE n == Len(s)
           r == Replaced(s, i, kids)
<1>1. n \in Nat /\ DOMAIN s = 1..n /\ i \in 1..n
  OBVIOUS
<1>2. r = [k \in DOMAIN s |-> IF k = i THEN [s[i] EXCEPT !.children = kids] ELSE s[k]]
  BY Zenon DEF Replaced
<1> HIDE DEF n, r
<1>3. r = [k \in 1..n |-> IF k = i THEN x ELSE s[k]]
  BY <1>1, <1>2
<1>4. \A k \in 1..n : s[k] \in S
  BY ElementOfSeq DEF n
<1>5. \A k \in 1..n : r[k] = IF k = i THEN x ELSE s[k]
  BY <1>3
<1>6. \A k \in 1..n : r[k] \in S
  BY <1>4, <1>5
<1>7. r = [k \in 1..n |-> r[k]]
  BY <1>3
<1>8. Holds(r, n, S)
  BY <1>6, <1>7 DEF Holds
<1>9. r \in Seq(S) /\ Len(r) = n
  BY <1>1, <1>8, MakeSeq
<1> QED
  BY <1>5, <1>9 DEF n, r

LEMMA MatchReplaced ==
    ASSUME NEW d \in 0..MaxDepth, d > 0, NEW nodes, NEW drawn, NEW type, Match(d, nodes, drawn, type),
           NEW i \in 1..Len(nodes), ~IsText(drawn[i]), nodes[i].type \in Types,
           NEW kids, NEW below, Match(d - 1, kids, below, nodes[i].type)
    PROVE  Match(d, Replaced(nodes, i, kids), Replaced(drawn, i, below), type)
<1> DEFINE N == DomNodes[d]
           M == Nodes[d]
           shows == Shows[d]
           node == nodes[i]
           dirty == drawn[i]
           x == [node EXCEPT !.children = kids]
           y == [dirty EXCEPT !.children = below]
           n == Len(drawn)
           a == Replaced(nodes, i, kids)
           b == Replaced(drawn, i, below)
<1>1. /\ Len(nodes) = n /\ i \in 1..n
      /\ node \in N /\ dirty \in M
  BY MatchAt
<1>2. x \in N /\ y \in M /\ ~IsText(y) /\ <<x, y>> \in shows
  <2>1. node \in DomNodes[d] /\ dirty \in Nodes[d] /\ ~IsText(dirty) /\ node.type \in Types
        /\ Match(d - 1, kids, below, node.type)
    BY <1>1
  <2> HIDE DEF node, dirty
  <2> QED
    BY <2>1, PairReplaced
<1>3. nodes \in Seq(N) /\ drawn \in Seq(M)
  BY DEF Match
<1>4. \A k \in 1..n : <<nodes[k], drawn[k]>> \in shows /\ InPlace(nodes[k], drawn[k], type)
  BY DEF Match, AllShow
<1>5. /\ a \in Seq(N) /\ Len(a) = n
      /\ \A k \in 1..n : a[k] = IF k = i THEN x ELSE nodes[k]
  <2> HIDE DEF N, x
  <2>1. x = [nodes[i] EXCEPT !.children = kids]
    BY DEF x
  <2> QED
    BY <1>1, <1>2, <1>3, <2>1, ReplacedIs
<1>6. /\ b \in Seq(M) /\ Len(b) = n
      /\ \A k \in 1..n : b[k] = IF k = i THEN y ELSE drawn[k]
  <2> HIDE DEF M, y
  <2>1. y = [drawn[i] EXCEPT !.children = below]
    BY DEF y
  <2> QED
    BY <1>1, <1>2, <1>3, <2>1, ReplacedIs
<1>7. InPlace(x, y, type)
  BY <1>2, Zenon DEF InPlace
<1> HIDE DEF a, b, x, y, n, N, M, shows
<1>8. ASSUME NEW k \in 1..n PROVE <<a[k], b[k]>> \in shows /\ InPlace(a[k], b[k], type)
  <2>1. CASE k = i
    BY <1>2, <1>5, <1>6, <1>7, <2>1
  <2>2. CASE k # i
    <3>1. a[k] = nodes[k] /\ b[k] = drawn[k]
      BY <1>5, <1>6, <2>2
    <3> QED
      BY <1>4, <3>1
  <2> QED
    BY <2>1, <2>2
<1>9. AllShow(shows, a, b, type)
  BY <1>5, <1>6, <1>8 DEF AllShow
<1> QED
  BY <1>5, <1>6, <1>9 DEF Match, a, b, N, M, shows

-----------------------------------------------------------------------------
(* Along a path to a node that has an id                                   *)

TypeAt(nodes, path, k) == IF k = 1 THEN "BODY" ELSE Siblings(nodes, path)[k - 1][path[k - 1]].type

MatchesAt(nodes, drawn, path, k) ==
    Match(MaxDepth - k + 1, Siblings(nodes, path)[k], Siblings(drawn, path)[k], TypeAt(nodes, path, k))

Matched(nodes, drawn) == Match(MaxDepth, nodes, drawn, "BODY")

IsId(id) == id # ""
HasId(node) == IsId(node.id)
LeadsOn(node) == node.children # <<>> \/ HasId(node)

(* An element, and what is below it.                                       *)
Turns(d, nodes, drawn, i) ==
    /\ d \in 0..MaxDepth /\ d > 0 /\ d - 1 \in 0..MaxDepth
    /\ i \in 1..Len(nodes) /\ ~IsText(drawn[i]) /\ nodes[i].type \in Types
    /\ Match(d - 1, nodes[i].children, drawn[i].children, nodes[i].type)

LEMMA TurnIs ==
    ASSUME NEW d \in 0..MaxDepth, NEW nodes, NEW drawn, NEW type, Match(d, nodes, drawn, type),
           NEW i \in 1..Len(nodes), LeadsOn(nodes[i])
    PROVE  Turns(d, nodes, drawn, i)
  BY Deeper, Zenon DEF Turns, LeadsOn, HasId, IsId

LEMMA MatchAlong ==
    ASSUME NEW nodes, NEW path, NEW node, IsPlace(nodes, path, node), HasId(node),
           NEW drawn, Matched(nodes, drawn)
    PROVE  /\ Len(path) \in 1..MaxDepth
           /\ \A k \in 1..Len(path) :
                  /\ MatchesAt(nodes, drawn, path, k)
                  /\ Turns(MaxDepth - k + 1, Siblings(nodes, path)[k], Siblings(drawn, path)[k], path[k])
<1> DEFINE n == Len(path)
           s == Siblings(nodes, path)
           t == Siblings(drawn, path)
           type(k) == TypeAt(nodes, path, k)
           At(k) == Match(MaxDepth - k + 1, s[k], t[k], type(k))
           Turn(k) == Turns(MaxDepth - k + 1, s[k], t[k], path[k])
           H == {k \in 1..n : At(k) /\ Turn(k)}
<1>1. MaxDepth \in Nat
  BY CleanerAssumption
<1>2. n \in Nat /\ n >= 1 /\ \A k \in 1..n : path[k] \in 1..Len(s[k])
  BY DEF IsPlace, Leads
<1>3. node = s[n][path[n]]
  BY DEF IsPlace
<1>4. /\ s[1] = nodes /\ \A k \in 2..n : s[k] = s[k - 1][path[k - 1]].children
      /\ t[1] = drawn /\ \A k \in 2..n : t[k] = t[k - 1][path[k - 1]].children
  BY <1>2, SiblingsIs
<1>5. Match(MaxDepth, nodes, drawn, type(1)) /\ \A k \in 2..n : type(k) = s[k - 1][path[k - 1]].type
  <2>1. \A k \in 2..n : k # 1
    BY <1>2
  <2> QED
    BY <2>1, Zenon DEF TypeAt, Matched
<1> HIDE DEF n, s, t, type
<1>6. ASSUME NEW k \in 1..n, At(k), MaxDepth - k + 1 \in 0..MaxDepth PROVE Turn(k)
  <2> DEFINE d == MaxDepth - k + 1
             i == path[k]
             a == s[k]
             b == t[k]
  <2>1. LeadsOn(a[i])
    <3>1. CASE k = n
      BY <1>3, <3>1 DEF LeadsOn
    <3>2. CASE k # n
      <4> DEFINE e == k + 1
      <4>1. e \in 2..n /\ e \in 1..n /\ e - 1 = k
        BY <1>2, <3>2
      <4> HIDE DEF e
      <4>2. s[e] = a[i].children /\ path[e] \in 1..Len(s[e])
        BY <1>2, <1>4, <4>1
      <4>3. Len(<<>>) = 0
        OBVIOUS
      <4>4. s[e] # <<>>
        <5> DEFINE m == Len(s[e])
                   j == path[e]
        <5>1. j \in 1..m
          BY <4>2
        <5> HIDE DEF m, j
        <5>2. m # 0
          BY <5>1
        <5> QED
          BY <4>3, <5>2 DEF m
      <4> QED
        BY <4>2, <4>4 DEF LeadsOn
    <3> QED
      BY <3>1, <3>2
  <2>2. i \in 1..Len(a)
    BY <1>2
  <2>3. d \in 0..MaxDepth /\ Match(d, a, b, type(k))
    BY <1>6
  <2> HIDE DEF d, i, a, b
  <2>4. Turns(d, a, b, i)
    BY <2>1, <2>2, <2>3, TurnIs
  <2> QED
    BY <2>4 DEF d, i, a, b
<1>7. 1 \in H
  <2>1. MaxDepth - 1 + 1 = MaxDepth /\ MaxDepth \in 0..MaxDepth /\ 1 \in 1..n
    BY <1>1, <1>2
  <2>2. At(1)
    BY <1>4, <1>5, <2>1
  <2> HIDE DEF At, Turn
  <2>3. Turn(1)
    BY <1>6, <2>1, <2>2
  <2> QED
    BY <2>1, <2>2, <2>3
<1>8. ASSUME NEW k \in 1..n - 1, k \in H PROVE k + 1 \in H
  <2> DEFINE e == k + 1
             d == MaxDepth - k + 1
  <2>1. e \in 2..n /\ e \in 1..n /\ e - 1 = k /\ d - 1 = MaxDepth - e + 1
    BY <1>1, <1>2
  <2>2. Turns(d, s[k], t[k], path[k])
    BY <1>8
  <2> HIDE DEF e, d
  <2>3. d - 1 \in 0..MaxDepth
        /\ Match(d - 1, s[k][path[k]].children, t[k][path[k]].children, s[k][path[k]].type)
    BY <2>2 DEF Turns
  <2>4. s[e] = s[k][path[k]].children /\ t[e] = t[k][path[k]].children /\ type(e) = s[k][path[k]].type
    BY <1>4, <1>5, <2>1
  <2>5. At(e)
    BY <2>1, <2>3, <2>4
  <2>6. MaxDepth - e + 1 \in 0..MaxDepth
    BY <2>1, <2>3
  <2> HIDE DEF At, Turn
  <2>7. Turn(e)
    BY <1>6, <2>1, <2>5, <2>6
  <2>8. e \in H
    BY <2>1, <2>5, <2>7
  <2> QED
    BY <2>8 DEF e
<1>9. Inductive(H, 1, n)
  BY <1>8, Zenon DEF Inductive
<1>10. \A k \in 1..n : k \in H
  <2>1. 1 \in Int /\ n \in Int
    BY <1>2
  <2> HIDE DEF H
  <2> QED
    BY <1>7, <1>9, <2>1, UpTo
<1>11. \A k \in 1..n : At(k) /\ Turn(k)
  BY <1>10
<1>12. n \in 1..MaxDepth
  <2>1. n \in 1..n
    BY <1>2
  <2>2. MaxDepth - n + 1 \in 0..MaxDepth /\ MaxDepth - n + 1 > 0
    BY <1>11, <2>1 DEF Turns
  <2> QED
    BY <1>1, <1>2, <2>2
<1> QED
  BY <1>11, <1>12 DEF MatchesAt, n, s, t, type

LEMMA WithMatches ==
    ASSUME NEW nodes, NEW path, NEW node, IsPlace(nodes, path, node), HasId(node),
           NEW drawn, Matched(nodes, drawn),
           NEW kids, NEW below, Match(MaxDepth - Len(path), kids, below, node.type)
    PROVE  Matched(WithChildren(nodes, path, kids), WithChildren(drawn, path, below))
<1> DEFINE n == Len(path)
           s == Siblings(nodes, path)
           t == Siblings(drawn, path)
           type(k) == TypeAt(nodes, path, k)
           D(k) == MaxDepth - k + 1
<1>1. n \in Nat /\ n >= 1 /\ MaxDepth \in Nat
  BY CleanerAssumption DEF IsPlace, Leads
<1>2. node = s[n][path[n]]
  BY DEF IsPlace
<1>3. \A k \in 1..n : Match(D(k), s[k], t[k], type(k)) /\ Turns(D(k), s[k], t[k], path[k])
  BY MatchAlong DEF MatchesAt
<1>4. PICK w : /\ \A k \in 1..n : w[k] = WithStep(w, s, path, kids, k)
               /\ WithChildren(nodes, path, kids) = w[1]
  BY <1>1, WithIsMade
<1>5. PICK v : /\ \A k \in 1..n : v[k] = WithStep(v, t, path, below, k)
               /\ WithChildren(drawn, path, below) = v[1]
  BY <1>1, WithIsMade
<1>6. \A k \in 2..n : type(k) = s[k - 1][path[k - 1]].type
  <2>1. \A k \in 2..n : k # 1
    BY <1>1
  <2> QED
    BY <2>1, Zenon DEF TypeAt
<1>7. n = Len(path) /\ Match(MaxDepth - n, kids, below, node.type)
  OBVIOUS
<1> HIDE DEF n, s, t, type
<1>8. ASSUME NEW k \in 1..n, NEW x, NEW y, Match(D(k) - 1, x, y, s[k][path[k]].type)
      PROVE  Match(D(k), Replaced(s[k], path[k], x), Replaced(t[k], path[k], y), type(k))
  <2> DEFINE d == D(k)
             a == s[k]
             b == t[k]
             i == path[k]
             place == type(k)
  <2>1. Match(d, a, b, place) /\ Turns(d, a, b, i) /\ Match(d - 1, x, y, a[i].type)
    BY <1>3, <1>8
  <2> HIDE DEF d, a, b, i, place
  <2>2. d \in 0..MaxDepth /\ d > 0 /\ i \in 1..Len(a) /\ ~IsText(b[i]) /\ a[i].type \in Types
    BY <2>1 DEF Turns
  <2>3. Match(d, Replaced(a, i, x), Replaced(b, i, y), place)
    BY <2>1, <2>2, MatchReplaced
  <2> QED
    BY <2>3 DEF d, a, b, i, place
<1> DEFINE H == {k \in 1..n : Match(D(k), w[k], v[k], type(k))}
<1>9. n \in H
  <2>1. D(n) - 1 = MaxDepth - n /\ n \in 1..n
    BY <1>1
  <2>2. w[n] = Replaced(s[n], path[n], kids) /\ v[n] = Replaced(t[n], path[n], below)
    <3>1. w[n] = WithStep(w, s, path, kids, n) /\ v[n] = WithStep(v, t, path, below, n)
      BY <1>4, <1>5, <2>1
    <3> QED
      BY <1>7, <3>1, Zenon DEF WithStep
  <2>3. Match(D(n) - 1, kids, below, s[n][path[n]].type)
    BY <1>2, <1>7, <2>1
  <2> HIDE DEF D
  <2>4. Match(D(n), Replaced(s[n], path[n], kids), Replaced(t[n], path[n], below), type(n))
    BY <1>8, <2>1, <2>3
  <2> QED
    BY <2>1, <2>2, <2>4
<1>10. ASSUME NEW m \in 1 + 1..n, m \in H PROVE m - 1 \in H
  <2> DEFINE e == m - 1
  <2>1. e \in 1..n /\ e # n /\ e + 1 = m /\ D(e) - 1 = D(m) /\ m \in 2..n
    BY <1>1
  <2> HIDE DEF e
  <2>2. w[e] = Replaced(s[e], path[e], w[m]) /\ v[e] = Replaced(t[e], path[e], v[m])
    <3>1. w[e] = WithStep(w, s, path, kids, e) /\ v[e] = WithStep(v, t, path, below, e)
      BY <1>4, <1>5, <2>1
    <3> QED
      BY <1>7, <2>1, <3>1, Zenon DEF WithStep
  <2>3. Match(D(m), w[m], v[m], type(m))
    BY <1>10
  <2> HIDE DEF D
  <2>4. type(m) = s[e][path[e]].type
    <3>1. type(m) = s[m - 1][path[m - 1]].type /\ m - 1 = e
      BY <1>6, <2>1 DEF e
    <3> QED
      BY <3>1
  <2>5. Match(D(e) - 1, w[m], v[m], s[e][path[e]].type)
    BY <2>1, <2>3, <2>4
  <2>6. Match(D(e), Replaced(s[e], path[e], w[m]), Replaced(t[e], path[e], v[m]), type(e))
    BY <1>8, <2>1, <2>5
  <2>7. e \in H
    BY <2>1, <2>2, <2>6
  <2> QED
    BY <2>7 DEF e
<1>11. InductiveDown(H, 1, n)
  BY <1>10, Zenon DEF InductiveDown
<1>12. 1 \in H
  <2>1. 1 \in Int /\ n \in Int /\ 1 \in 1..n
    BY <1>1
  <2> HIDE DEF H
  <2> QED
    BY <1>9, <1>11, <2>1, DownTo
<1>13. Match(MaxDepth, w[1], v[1], type(1))
  <2>1. D(1) = MaxDepth
    BY <1>1
  <2> HIDE DEF D
  <2> QED
    BY <1>12, <2>1
<1> QED
  BY <1>4, <1>5, <1>13, Zenon DEF Matched, TypeAt, type

NoText(s) == \A i \in DOMAIN s : ~IsText(s[i])

LEMMA ReplacedNoText ==
    ASSUME NEW s, NoText(s), NEW i, NEW kids
    PROVE  NoText(Replaced(s, i, kids))
<1> DEFINE r == Replaced(s, i, kids)
<1>1. r = [k \in DOMAIN s |-> IF k = i THEN [s[i] EXCEPT !.children = kids] ELSE s[k]]
  BY Zenon DEF Replaced
<1>2. DOMAIN r = DOMAIN s /\ \A k \in DOMAIN s : r[k] = IF k = i THEN [s[i] EXCEPT !.children = kids] ELSE s[k]
  BY <1>1
<1> HIDE DEF r
<1>3. ASSUME NEW k \in DOMAIN s PROVE ~IsText(r[k])
  <2>1. CASE k = i
    <3>1. r[k] = [s[k] EXCEPT !.children = kids]
      BY <1>2, <2>1
    <3>2. DOMAIN r[k] = DOMAIN s[k]
      BY <3>1
    <3> QED
      BY <3>2, Zenon DEF NoText, IsText
  <2>2. CASE k # i
    BY <1>2, <2>2 DEF NoText
  <2> QED
    BY <2>1, <2>2
<1> QED
  BY <1>2, <1>3 DEF NoText, r

LEMMA WithNoText ==
    ASSUME NEW nodes, NEW path, Len(path) \in Nat, Len(path) >= 1, NoText(nodes), NEW kids
    PROVE  NoText(WithChildren(nodes, path, kids))
<1> DEFINE n == Len(path)
           s == Siblings(nodes, path)
<1>1. PICK w : /\ \A k \in 1..n : w[k] = WithStep(w, s, path, kids, k)
               /\ WithChildren(nodes, path, kids) = w[1]
  BY WithIsMade
<1>2. 1 \in 1..n /\ s[1] = nodes
  BY SiblingsIs
<1> HIDE DEF n, s
<1>3. w[1] = WithStep(w, s, path, kids, 1)
  BY <1>1, <1>2
<1>4. \E x : w[1] = Replaced(nodes, path[1], x)
  BY <1>2, <1>3, Zenon DEF WithStep
<1> QED
  BY <1>1, <1>4, ReplacedNoText

-----------------------------------------------------------------------------
(* What scripts write                                                      *)

LEMMA InnerMatches ==
    ASSUME NEW d \in 0..MaxDepth, NEW forest \in Seq(Nodes[d]), NEW node, node.type \in Types,
           ~\E i \in DOMAIN Inner(forest, node) : Failed(Inner(forest, node)[i])
    PROVE  Match(d, Inner(forest, node), AllPruned(forest), node.type)
<1> DEFINE n == Len(forest)
           a == Inner(forest, node)
           b == AllPruned(forest)
           N == DomNodes[d]
           M == Nodes[d]
           shows == Shows[d]
           type == node.type
<1>1. n \in Nat /\ DOMAIN forest = 1..n
  OBVIOUS
<1>2. a = [i \in 1..n |-> CleanNode(forest[i], type)]
  BY <1>1, Zenon DEF Inner
<1>3. b = [i \in 1..n |-> Pruned[forest[i]]]
  BY <1>1, Zenon DEF AllPruned
<1>4. ~\E i \in DOMAIN a : Failed(a[i])
  OBVIOUS
<1>5. type \in Types
  OBVIOUS
<1>6. \A i \in 1..n : forest[i] \in M
  BY ElementOfSeq
<1> HIDE DEF n, a, b, type
<1>7. ASSUME NEW i \in 1..n
      PROVE  /\ a[i] \in N /\ b[i] \in M
             /\ <<a[i], b[i]>> \in shows /\ InPlace(a[i], b[i], type)
  <2> DEFINE dirty == forest[i]
             child == a[i]
             x == CleanElement[dirty]
  <2>1. dirty \in Nodes[d] /\ b[i] = Pruned[dirty] /\ child = CleanNode(dirty, type)
    BY <1>2, <1>3, <1>6
  <2>2. ~Failed(child)
    BY <1>2, <1>4
  <2>3. child = CleanOne(CleanElement, dirty, type)
    BY <2>1, Zenon DEF CleanNode, CleanOne
  <2>4. child \notin Failures
    BY <2>2, FailuresFail
  <2> HIDE DEF dirty, child
  <2>5. ~IsText(dirty) /\ x \notin Failures => <<x, Pruned[dirty]>> \in Shows[d]
    BY <2>1, CleanShown
  <2>6. ChildShown(Shows[d], child, Pruned[dirty], type)
    BY <1>5, <2>1, <2>3, <2>5, ChildIsShown
  <2>7. <<child, Pruned[dirty]>> \in Shows[d] /\ InPlace(child, Pruned[dirty], type)
    BY <2>4, <2>6, Zenon DEF ChildShown
  <2>8. child \in DomNodes[d] /\ Pruned[dirty] \in Nodes[d]
    BY <2>7, ShowsIs
  <2> QED
    BY <2>1, <2>7, <2>8 DEF child
<1> HIDE DEF N, M, shows
<1>8. a = [i \in 1..n |-> a[i]] /\ b = [i \in 1..n |-> b[i]]
  BY <1>2, <1>3
<1>9. Holds(a, n, N) /\ Holds(b, n, M)
  BY <1>7, <1>8 DEF Holds
<1>10. a \in Seq(N) /\ Len(a) = n /\ b \in Seq(M) /\ Len(b) = n
  BY <1>1, <1>9, MakeSeq
<1>11. AllShow(shows, a, b, type)
  BY <1>7, <1>10 DEF AllShow
<1> QED
  BY <1>10, <1>11 DEF Match, a, b, N, M, shows, type

-----------------------------------------------------------------------------
(* The DOM always shows the page                                           *)

PageOK == IsPage(dom.top_level_nodes, page)

LEMMA PageStops ==
    ASSUME NEW how, Stops(how)
    PROVE  PageOK'
<1>1. dom' = NoDom /\ page' = <<>>
  BY DEF Stops
<1>2. NoDom.top_level_nodes = <<>>
  BY DEF NoDom
<1> QED
  BY <1>1, <1>2, NoPage DEF PageOK

LEMMA PageKept ==
    ASSUME PageOK, UNCHANGED <<dom, page>>
    PROVE  PageOK'
  BY DEF PageOK

LEMMA PageIs ==
    ASSUME NEW nodes, NEW drawn
    PROVE  IsPage(nodes, drawn) <=> Matched(nodes, drawn) /\ drawn \in Seq(Elements)
<1>1. Nodes[MaxDepth] = Nodes[MaxDepth] /\ Elements \subseteq Nodes[MaxDepth]
  BY DEF Elements
<1>2. drawn \in Seq(Elements) => drawn \in Seq(Nodes[MaxDepth])
  <2> DEFINE A == Elements
             B == Nodes[MaxDepth]
  <2>1. A \subseteq B
    BY <1>1
  <2> HIDE DEF A, B
  <2>2. drawn \in Seq(A) => drawn \in Seq(B)
    BY <2>1, SeqMonotonic
  <2> QED
    BY <2>2 DEF A, B
<1> QED
  BY <1>2, Zenon DEF IsPage, Matched, Match

LEMMA ElementSeq ==
    ASSUME NEW drawn \in Seq(Nodes[MaxDepth])
    PROVE  drawn \in Seq(Elements) <=> NoText(drawn)
<1> DEFINE A == Elements
           B == Nodes[MaxDepth]
           n == Len(drawn)
<1>1. n \in Nat /\ DOMAIN drawn = 1..n /\ drawn = [i \in 1..n |-> drawn[i]]
  OBVIOUS
<1>2. \A i \in 1..n : drawn[i] \in B
  BY ElementOfSeq
<1>3. \A x \in B : x \in A <=> ~IsText(x)
  BY DEF Elements
<1> HIDE DEF A, B
<1>4. ASSUME NoText(drawn) PROVE drawn \in Seq(A)
  <2>1. \A i \in 1..n : drawn[i] \in A
    BY <1>1, <1>2, <1>3, <1>4 DEF NoText
  <2> HIDE DEF n
  <2>2. Holds(drawn, n, A)
    BY <1>1, <2>1 DEF Holds
  <2> QED
    BY <1>1, <2>2, MakeSeq
<1>5. ASSUME drawn \in Seq(A) PROVE NoText(drawn)
  <2>1. \A i \in 1..n : drawn[i] \in A
    BY <1>5, ElementOfSeq
  <2> HIDE DEF n
  <2> QED
    BY <1>1, <1>2, <1>3, <2>1 DEF NoText
<1> QED
  BY <1>4, <1>5 DEF A

(* A script's element has an id, and so the page has one there.            *)
LEMMA ScriptShown ==
    ASSUME IsPage(dom.top_level_nodes, page), NEW id, IsId(id), NEW path, path = GetElementById(dom, id),
           path # <<>>, NEW node, node = NodeAt(dom.top_level_nodes, path),
           NEW forest \in Seq(Nodes[MaxDepth - Len(path)]),
           ~\E i \in DOMAIN Inner(forest, node) : Failed(Inner(forest, node)[i])
    PROVE  IsPage(WithChildren(dom.top_level_nodes, path, Inner(forest, node)),
                  WithChildren(page, path, AllPruned(forest)))
<1> DEFINE nodes == dom.top_level_nodes
           n == Len(path)
           d == MaxDepth - n
           inner == Inner(forest, node)
           below == AllPruned(forest)
<1>1. Matched(nodes, page) /\ NoText(page)
  <2>1. Matched(nodes, page) /\ page \in Seq(Elements)
    BY PageIs
  <2>2. page \in Seq(Nodes[MaxDepth])
    BY <2>1, Zenon DEF Matched, Match
  <2> QED
    BY <2>1, <2>2, ElementSeq
<1>2. nodes \in Seq(DomNodes[MaxDepth])
  BY Zenon DEF IsPage
<1>3. PICK x \in DomNodes[MaxDepth] : x.id = id /\ IsPlace(nodes, path, x)
  BY <1>2, PathFound
<1>4. HasId(x)
  BY <1>3 DEF HasId
<1>5. x = node
  <2>1. x = Siblings(nodes, path)[n][path[n]]
    BY <1>3 DEF IsPlace
  <2>2. Last(path) = path[n]
    BY Zenon DEF Last
  <2> QED
    BY <2>1, <2>2, Zenon DEF NodeAt
<1> HIDE DEF nodes
<1>6. /\ n \in 1..MaxDepth
      /\ Turns(MaxDepth - n + 1, Siblings(nodes, path)[n], Siblings(page, path)[n], path[n])
  <2>1. n \in 1..MaxDepth /\ n \in 1..n
    <3>1. n \in 1..MaxDepth
      BY <1>1, <1>3, <1>4, MatchAlong
    <3>2. MaxDepth \in Nat
      BY CleanerAssumption
    <3> HIDE DEF n
    <3> QED
      BY <3>1, <3>2
  <2> QED
    BY <1>1, <1>3, <1>4, <2>1, MatchAlong
<1>7. node.type \in Types
  BY <1>3, <1>5, <1>6 DEF Turns, IsPlace
<1>8. d \in 0..MaxDepth /\ n \in Nat /\ n >= 1
  <2>1. MaxDepth \in Nat
    BY CleanerAssumption
  <2> HIDE DEF n
  <2> QED
    BY <1>6, <2>1
<1>9. Match(d, inner, below, node.type)
  <2>1. forest \in Seq(Nodes[d])
    OBVIOUS
  <2> HIDE DEF d
  <2> QED
    BY <1>7, <1>8, <2>1, InnerMatches
<1> HIDE DEF inner, below
<1>10. Matched(WithChildren(nodes, path, inner), WithChildren(page, path, below))
  <2>1. Match(MaxDepth - Len(path), inner, below, x.type)
    BY <1>5, <1>9
  <2> QED
    BY <1>1, <1>3, <1>4, <2>1, WithMatches
<1>11. NoText(WithChildren(page, path, below))
  BY <1>1, <1>8, WithNoText
<1>12. WithChildren(page, path, below) \in Seq(Elements)
  <2>1. WithChildren(page, path, below) \in Seq(Nodes[MaxDepth])
    BY <1>10, Zenon DEF Matched, Match
  <2> QED
    BY <1>11, <2>1, ElementSeq
<1> QED
  BY <1>10, <1>12, PageIs DEF nodes, inner, below

LEMMA PageStepIs ==
    ASSUME TreeOK, DomOK, PageOK, [Next]_vars
    PROVE  PageOK'
<1>1. ASSUME NEW pieces \in TextPieces, ReadText(pieces) PROVE PageOK'
  <2>1. (\E how : Stops(how)) \/ UNCHANGED <<dom, page>>
    BY <1>1, Zenon DEF ReadText
  <2> QED
    BY <2>1, PageStops, PageKept
<1>2. ASSUME NEW t \in Tags, OpenTag(t) PROVE PageOK'
  BY <1>2, PageKept DEF OpenTag
<1>3. ASSUME NEW t \in Tags, SelfClosingTag(t) PROVE PageOK'
  BY <1>3, PageKept DEF SelfClosingTag
<1>4. ASSUME NEW t \in Tags, CloseTag(t) PROVE PageOK'
  <2>1. (\E how : Stops(how)) \/ UNCHANGED <<dom, page>>
    <3>1. CASE stack = <<>>
      BY <1>4, <3>1, Zenon DEF CloseTag
    <3>2. CASE stack # <<>> /\ Last(stack).name # t.name
      BY <1>4, <3>2, Zenon DEF CloseTag
    <3>3. CASE stack # <<>> /\ Last(stack).name = t.name
      BY <1>4, <3>3, Zenon DEF CloseTag
    <3> QED
      BY <3>1, <3>2, <3>3, Zenon
  <2> QED
    BY <2>1, PageStops, PageKept
<1>5. CASE ReadBadTag
  BY <1>5, PageStops DEF ReadBadTag
<1>6. CASE EndOfFile
  <2> DEFINE d == CleanDom(top)
  <2>1. CASE \E how \in {"hung", "fault"} : Stops(how)
    BY <2>1, PageStops
  <2>2. CASE ~Failed(d) /\ dom' = d /\ page' = Filter(AllPruned(top), IsContent)
    <3>1. top \in Seq(Nodes[MaxDepth])
      BY DEF TreeOK, IsTree
    <3>2. d \notin Failures
      BY <2>2, FailuresFail
    <3>3. IsPage(d.top_level_nodes, Filter(AllPruned(top), IsContent))
      BY <3>1, <3>2, CleanDomShown
    <3> QED
      BY <2>2, <3>3, Zenon DEF PageOK
  <2> QED
    BY <1>6, <2>1, <2>2, PageEnds
<1>7. ASSUME NEW id \in Ids, NEW forest \in Inner3ML, SetInner3ML(id, forest)
      PROVE  PageOK'
  <2> DEFINE path == GetElementById(dom, id)
             node == NodeAt(dom.top_level_nodes, path)
             inner == Inner(forest, node)
             nodes == WithChildren(dom.top_level_nodes, path, inner)
             drawn == WithChildren(page, path, AllPruned(forest))
  <2>1. CASE Stops("hung")
    BY <2>1, PageStops
  <2>2. CASE /\ path # <<>> /\ forest \in Seq(Nodes[MaxDepth - Len(path)])
             /\ ~\E i \in DOMAIN inner : Failed(inner[i])
             /\ dom' = [dom EXCEPT !.top_level_nodes = nodes]
             /\ page' = drawn
    <3>1. IsPage(dom.top_level_nodes, page)
      BY DEF PageOK
    <3>2. IsId(id)
      BY MarkupAssumption, ZenonT(60) DEF IsId
    <3>3. path = GetElementById(dom, id) /\ node = NodeAt(dom.top_level_nodes, path)
      OBVIOUS
    <3>4. /\ path # <<>> /\ forest \in Seq(Nodes[MaxDepth - Len(path)])
          /\ ~\E i \in DOMAIN Inner(forest, node) : Failed(Inner(forest, node)[i])
      BY <2>2
    <3> HIDE DEF path, node
    <3>5. IsPage(nodes, drawn)
      BY <3>1, <3>2, <3>3, <3>4, ScriptShown
    <3> HIDE DEF nodes, drawn
    <3>6. dom'.top_level_nodes = nodes
      <4>1. dom = [top_level_nodes |-> dom.top_level_nodes, num_selectable_nodes |-> dom.num_selectable_nodes]
        BY DEF DomOK, IsDom
      <4> QED
        BY <2>2, <4>1
    <3> QED
      BY <2>2, <3>5, <3>6, Zenon DEF PageOK
  <2>3. \/ Stops("hung")
        \/ /\ path # <<>> /\ forest \in Seq(Nodes[MaxDepth - Len(path)])
           /\ ~\E i \in DOMAIN inner : Failed(inner[i])
           /\ dom' = [dom EXCEPT !.top_level_nodes = nodes]
           /\ page' = drawn
    BY <1>7, ScriptWrites, Zenon
  <2> QED
    BY <2>1, <2>2, <2>3
<1>8. CASE UNCHANGED vars
  BY <1>8, PageKept DEF vars
<1> QED
  BY <1>1, <1>2, <1>3, <1>4, <1>5, <1>6, <1>7, <1>8, Zenon DEF Next

-----------------------------------------------------------------------------
(* Texts and the tokens they are read from                                 *)

(* A text of the DOM, in lines that fit its place.                         *)
Widths == {Columns[type] : type \in DomTypes}
Lined == [lines : Seq(Texts), width : Widths]
Items == {item \in Lined : LinesFitIn(item.lines, item.width)}

Spoken == [item \in Lined |-> <<"text", FlattenSeq(item.lines)>>]
TextTokens == {"text"} \X Texts

(* Texts in their places, and the tokens which say the same.               *)
Says(texts, tokens) ==
    /\ texts \in Seq(Items) /\ tokens \in Seq(Token)
    /\ Map(Spoken, texts) = Chosen(tokens, TextTokens)

LEMMA SpokenInto == Into(Spoken, Items, {"text"} \X {FlattenSeq(x.lines) : x \in Items})
<1> DEFINE T == {FlattenSeq(x.lines) : x \in Items}
<1>1. ASSUME NEW x \in Items PROVE Spoken[x] \in {"text"} \X T
  <2>1. x \in Lined
    BY DEF Items
  <2>2. Spoken[x] = <<"text", FlattenSeq(x.lines)>>
    BY <2>1, Zenon DEF Spoken
  <2>3. FlattenSeq(x.lines) \in T
    OBVIOUS
  <2> HIDE DEF T
  <2> QED
    BY <2>2, <2>3
<1> QED
  BY <1>1 DEF Into

LEMMA SaysNothing == Says(<<>>, <<>>)
<1> DEFINE A == Items
           B == Token
<1>1. Map(Spoken, <<>>) = <<>>
  BY DEF Map
<1> HIDE DEF A, B
<1>2. <<>> \in Seq(A) /\ <<>> \in Seq(B)
  OBVIOUS
<1> QED
  BY <1>1, <1>2, ChosenNone DEF Says, A, B

LEMMA SaysBoth ==
    ASSUME NEW a, NEW x, Says(a, x), NEW b, NEW y, Says(b, y)
    PROVE  Says(a \o b, x \o y)
<1> DEFINE A == Items
           B == Token
           T == TextTokens
<1>1. a \in Seq(A) /\ b \in Seq(A) /\ x \in Seq(B) /\ y \in Seq(B)
      /\ Map(Spoken, a) = Chosen(x, T) /\ Map(Spoken, b) = Chosen(y, T)
  BY DEF Says
<1>2. PICK R : Into(Spoken, A, R)
  BY SpokenInto
<1> HIDE DEF A, B, T
<1>3. Map(Spoken, a \o b) = Map(Spoken, a) \o Map(Spoken, b)
  <2> DEFINE f == Spoken
  <2>1. a \in Seq(A) /\ b \in Seq(A) /\ Into(f, A, R)
    BY <1>1, <1>2
  <2> HIDE DEF f
  <2>2. Map(f, a \o b) = Map(f, a) \o Map(f, b)
    BY <2>1, MapConcat
  <2> QED
    BY <2>2 DEF f
<1>4. Chosen(x \o y, T) = Chosen(x, T) \o Chosen(y, T)
  BY <1>1, ChosenConcat
<1>5. a \o b \in Seq(A) /\ x \o y \in Seq(B)
  BY <1>1, ConcatProperties
<1>6. Map(Spoken, a \o b) = Chosen(x \o y, T)
  BY <1>1, <1>3, <1>4
<1> QED
  BY <1>5, <1>6, Zenon DEF Says, A, B, T

AllSay(texts, tokens) ==
    /\ Len(texts) = Len(tokens)
    /\ \A i \in 1..Len(texts) : Says(texts[i], tokens[i])

LEMMA SaysAll ==
    ASSUME NEW s \in Seq(Seq(Items)), NEW t \in Seq(Seq(Token)), AllSay(s, t)
    PROVE  Says(FlattenSeq(s), FlattenSeq(t))
<1> DEFINE A == Items
           B == Token
           n == Len(s)
           a(i) == FlattenSeq(Prefix(s, i))
           b(i) == FlattenSeq(Prefix(t, i))
           H == {i \in 0..n : Says(a(i), b(i))}
<1>1. n \in Nat /\ 0 \in Int /\ n \in Int /\ 0 \in 0..n /\ n \in 0..n /\ Len(t) = n
  BY DEF AllSay
<1>2. \A i \in 1..n : Says(s[i], t[i])
  BY DEF AllSay
<1>3. s \in Seq(Seq(A)) /\ t \in Seq(Seq(B))
  OBVIOUS
<1> HIDE DEF A, B
<1>4. 0 \in H
  <2>1. Prefix(s, 0) = <<>> /\ Prefix(t, 0) = <<>>
    BY <1>3, PrefixAll
  <2>2. Says(a(0), b(0))
    BY <2>1, FlattenEmpty, SaysNothing
  <2> HIDE DEF a, b
  <2> QED
    BY <1>1, <2>2
<1>5. ASSUME NEW i \in 0..n - 1, i \in H PROVE i + 1 \in H
  <2> DEFINE e == i + 1
             p == Prefix(s, i)
             q == Prefix(t, i)
             u == s[e]
             v == t[e]
  <2>1. e \in 1..n /\ e \in 0..n /\ e - 1 = i /\ i \in 0..n
    BY <1>1
  <2> HIDE DEF e
  <2>2. u \in Seq(A) /\ v \in Seq(B) /\ Says(u, v)
    <3>1. e \in 1..Len(s) /\ e \in 1..Len(t)
      BY <1>1, <2>1
    <3> QED
      BY <1>2, <1>3, <2>1, <3>1, ElementOfSeq
  <2>3. Prefix(s, e) = Append(p, u) /\ Prefix(t, e) = Append(q, v)
    <3>1. e \in 1..Len(s) /\ e \in 1..Len(t)
      BY <1>1, <2>1
    <3> QED
      BY <1>3, <2>1, <3>1, PrefixNext
  <2>4. p \in Seq(Seq(A)) /\ q \in Seq(Seq(B))
    <3>1. i \in 0..Len(s) /\ i \in 0..Len(t)
      BY <1>1, <2>1
    <3> QED
      BY <1>3, <3>1, PrefixIs
  <2>5. Says(FlattenSeq(p), FlattenSeq(q))
    BY <1>5
  <2> HIDE DEF p, q, u, v
  <2>6. FlattenSeq(Append(p, u)) = FlattenSeq(p) \o u /\ FlattenSeq(Append(q, v)) = FlattenSeq(q) \o v
    BY <2>2, <2>4, FlattenAppend
  <2>7. Says(FlattenSeq(p) \o u, FlattenSeq(q) \o v)
    BY <2>2, <2>5, SaysBoth
  <2>8. Says(a(e), b(e))
    BY <2>3, <2>6, <2>7
  <2> HIDE DEF a, b
  <2>9. e \in H
    BY <2>1, <2>8
  <2> QED
    BY <2>9 DEF e
<1>6. Inductive(H, 0, n)
  BY <1>5, Zenon DEF Inductive
<1>7. n \in H
  <2> HIDE DEF H, n
  <2> QED
    BY <1>1, <1>4, <1>6, UpTo
<1>8. Prefix(s, n) = s /\ Prefix(t, n) = t
  BY <1>1, <1>3, PrefixAll
<1> QED
  BY <1>7, <1>8

(* Tags say nothing.                                                       *)
LEMMA SaysInTags ==
    ASSUME NEW node \in Nodes[MaxDepth], ~IsText(node), NEW texts, Says(texts, Tokens(node.children))
    PROVE  Says(texts, TokensOf[node])
<1> DEFINE o == Opens(node)
           c == Closes(node)
           t == Tokens(node.children)
<1>1. ASSUME NEW x \in {"open", "close"} PROVE Says(<<>>, <<<<x, node.name>>>>)
  <2> DEFINE token == <<x, node.name>>
             A == Items
             B == Token
             T == TextTokens
             empty == <<>>
  <2>1. token \in B
    BY NodeParts DEF Token
  <2>2. token \notin T
    BY DEF TextTokens
  <2> HIDE DEF token, A, B, T
  <2>3. empty \in Seq(B) /\ empty \in Seq(A) /\ Append(empty, token) = <<token>> /\ <<token>> \in Seq(B)
    BY <2>1
  <2>4. Chosen(<<token>>, T) = <<>>
    <3>1. Chosen(Append(empty, token), T) = Chosen(empty, T)
      <4> HIDE DEF empty
      <4> QED
        BY <2>1, <2>2, <2>3, ChosenAppend
    <3> QED
      BY <2>3, <3>1, ChosenNone
  <2>5. Map(Spoken, <<>>) = <<>>
    BY DEF Map
  <2> QED
    BY <2>3, <2>4, <2>5 DEF Says, token, A, B, T
<1>2. Says(<<>>, o) /\ Says(<<>>, c)
  BY <1>1 DEF Opens, Closes
<1>3. TokensOf[node] = (o \o t) \o c
  BY ElementTokens
<1>4. Says(texts, t)
  OBVIOUS
<1> HIDE DEF o, c, t
<1>5. <<>> \o texts = texts /\ texts \o <<>> = texts
  <2>1. texts \in Seq(Items)
    BY <1>4 DEF Says
  <2> DEFINE A == Items
  <2> HIDE DEF A
  <2> QED
    BY <2>1, ConcatEmptySeq DEF A
<1>6. Says(texts, o \o t)
  <2>1. Says(<<>> \o texts, o \o t)
    BY <1>2, <1>4, SaysBoth
  <2> QED
    BY <1>5, <2>1
<1> DEFINE u == o \o t
<1> HIDE DEF u
<1>7. Says(texts \o <<>>, u \o c)
  BY <1>2, <1>6, SaysBoth DEF u
<1> QED
  BY <1>3, <1>5, <1>7 DEF u

-----------------------------------------------------------------------------
(* The texts of the DOM                                                    *)

TextOf(f, child, type) ==
    IF child.type # "PLAINTEXT" THEN f[child]
    ELSE <<[lines |-> child.lines, width |-> Columns[type]]>>

TextsIn(f, nodes, type) == FlattenSeq([i \in DOMAIN nodes |-> TextOf(f, nodes[i], type)])

LEMMA TextOfTyped ==
    ASSUME NEW child \in DomNodes[MaxDepth], NEW type \in DomTypes, NEW f, f[child] \in Seq(Lined)
    PROVE  TextOf(f, child, type) \in Seq(Lined)
<1> DEFINE item == [lines |-> child.lines, width |-> Columns[type]]
           A == Lined
<1>1. child.lines \in Seq(Texts)
  BY DomParts
<1>2. Columns[type] \in Widths
  BY Zenon DEF Widths
<1>3. item \in A
  BY <1>1, <1>2, Zenon DEF Lined
<1> HIDE DEF item, A
<1>4. <<item>> \in Seq(A)
  BY <1>3
<1> QED
  BY <1>4, Zenon DEF TextOf, item, A

LEMMA TextsTyped ==
    ASSUME NEW nodes \in Seq(DomNodes[MaxDepth]), NEW type \in DomTypes, NEW f,
           \A i \in 1..Len(nodes) : f[nodes[i]] \in Seq(Lined)
    PROVE  TextsIn(f, nodes, type) \in Seq(Lined)
<1> DEFINE n == Len(nodes)
           Q == Seq(Lined)
           r == [i \in DOMAIN nodes |-> TextOf(f, nodes[i], type)]
<1>1. n \in Nat /\ DOMAIN nodes = 1..n
  OBVIOUS
<1>2. ASSUME NEW i \in 1..n PROVE TextOf(f, nodes[i], type) \in Q
  <2> DEFINE x == nodes[i]
  <2>1. x \in DomNodes[MaxDepth] /\ f[x] \in Seq(Lined)
    BY ElementOfSeq
  <2> HIDE DEF x
  <2> QED
    BY <2>1, TextOfTyped DEF x
<1>3. r = [i \in 1..n |-> r[i]] /\ \A i \in 1..n : r[i] = TextOf(f, nodes[i], type)
  BY <1>1
<1> HIDE DEF r, n, Q
<1>4. Holds(r, n, Q)
  BY <1>2, <1>3 DEF Holds
<1>5. r \in Seq(Q)
  BY <1>1, <1>4, MakeSeq
<1>6. FlattenSeq(r) \in Seq(Lined)
  BY <1>5, FlattenType DEF Q
<1> QED
  BY <1>6, Zenon DEF TextsIn, r

LEMMA TextNodesIs ==
    ASSUME NEW node \in DomNodes[MaxDepth]
    PROVE  TextNodes[node] = TextsIn(TextNodes, node.children, node.type)
<1> DEFINE N == DomNodes[MaxDepth]
           R == Seq(Lined)
           F == [N -> R]
           Step(f, x) == TextsIn(f, x.children, x.type)
           step == [f \in F |-> [x \in N |-> Step(f, x)]]
<1>1. ASSUME NEW f \in F, NEW x \in N PROVE Step(f, x) \in R
  <2>1. x.children \in Seq(N) /\ x.type \in DomTypes
    BY DomParts
  <2> DEFINE children == x.children
             type == x.type
  <2>2. children \in Seq(N) /\ type \in DomTypes
    BY <2>1
  <2> HIDE DEF children, type
  <2>3. \A i \in 1..Len(children) : f[children[i]] \in R
    <3> HIDE DEF N, R
    <3>1. \A i \in 1..Len(children) : children[i] \in N
      BY <2>2, ElementOfSeq
    <3> QED
      BY <3>1
  <2>4. TextsIn(f, children, type) \in R
    BY <2>2, <2>3, TextsTyped
  <2> QED
    BY <2>4 DEF children, type
<1>2. IsStep(step, F)
  <2> HIDE DEF N, R, Step
  <2> QED
    BY <1>1 DEF IsStep
<1>3. \A f \in F : \A x \in N : step[f][x] = Step(f, x)
  <2> HIDE DEF N, R, Step
  <2> QED
    OBVIOUS
<1>4. LooksAtChildren(step, F, N)
  <2>1. ASSUME NEW f \in F, NEW g \in F, NEW x \in N,
               \A i \in 1..Len(x.children) : f[x.children[i]] = g[x.children[i]]
        PROVE  step[f][x] = step[g][x]
    <3>1. DOMAIN x.children = 1..Len(x.children)
      BY DomParts
    <3>2. \A i \in DOMAIN x.children :
              TextOf(f, x.children[i], x.type) = TextOf(g, x.children[i], x.type)
      BY <2>1, <3>1, Zenon DEF TextOf
    <3>3. Step(f, x) = Step(g, x)
      BY <3>2, Zenon DEF TextsIn
    <3> HIDE DEF N, F, step, Step
    <3> QED
      BY <1>3, <3>3
  <2> HIDE DEF N, F, step
  <2> QED
    BY <2>1, Zenon DEF LooksAtChildren
<1>5. \E f \in F : f = step[f]
  <2>1. <<>> \in R
    OBVIOUS
  <2>2. Functions(F, DomNodes[MaxDepth], R)
    BY DEF Functions
  <2>3. LooksAtChildren(step, F, DomNodes[MaxDepth])
    BY <1>4
  <2> HIDE DEF N, R, F, step
  <2> QED
    BY <1>2, <2>1, <2>2, <2>3, DomRecursion
<1>6. \E f : f = [x \in N |-> Step(f, x)]
  <2>1. PICK f \in F : f = step[f]
    BY <1>5
  <2>2. step[f] = [x \in N |-> Step(f, x)]
    <3> HIDE DEF N, R, Step
    <3> QED
      OBVIOUS
  <2> HIDE DEF N, F, step, Step
  <2> QED
    BY <2>1, <2>2
<1>7. TextNodes = [x \in N |-> Step(TextNodes, x)]
  BY <1>6, Zenon DEF TextNodes, DomTrees, TextsIn, TextOf
<1> HIDE DEF N
<1> QED
  BY <1>7 DEF N

-----------------------------------------------------------------------------
(* What is shown says what is read                                         *)

LEMMA SaysText ==
    ASSUME NEW item \in Items, NEW text \in Texts, FlattenSeq(item.lines) = text
    PROVE  Says(<<item>>, <<<<"text", text>>>>)
<1> DEFINE token == <<"text", text>>
           A == Items
           B == Token
           T == TextTokens
           empty == <<>>
<1>1. token \in B /\ token \in T
  BY DEF Token, TextTokens
<1>2. Spoken[item] = token
  <2>1. item \in Lined
    BY DEF Items
  <2>2. Spoken[item] = <<"text", FlattenSeq(item.lines)>>
    BY <2>1, Zenon DEF Spoken
  <2> QED
    BY <2>2
<1>3. item \in A
  OBVIOUS
<1> HIDE DEF A, B, T, token
<1>4. Map(Spoken, <<item>>) = <<token>>
  <2>1. Map(Spoken, <<item>>) = <<Spoken[item]>>
    BY DEF Map
  <2> QED
    BY <1>2, <2>1
<1>5. empty \in Seq(B) /\ Append(empty, token) = <<token>> /\ <<token>> \in Seq(B) /\ <<item>> \in Seq(A)
  BY <1>1, <1>3
<1>6. Chosen(<<token>>, T) = <<token>>
  <2>1. Chosen(Append(empty, token), T) = Append(Chosen(empty, T), token)
    <3> HIDE DEF empty
    <3> QED
      BY <1>1, <1>5, ChosenAppend, ZenonT(60)
  <2> QED
    BY <1>5, <2>1, ChosenNone
<1>7. Says(<<item>>, <<token>>)
  BY <1>4, <1>5, <1>6, Zenon DEF Says, A, B, T
<1> QED
  BY <1>7 DEF token

LEMMA ChildSays ==
    ASSUME NEW d \in 0..MaxDepth, NEW child, NEW dirty, <<child, dirty>> \in Shows[d],
           NEW type \in Types, InPlace(child, dirty, type),
           ~IsText(dirty) => Says(TextNodes[child], TokensOf[dirty])
    PROVE  Says(TextOf(TextNodes, child, type), TokensOf[dirty])
<1>1. /\ child \in DomNodes[d] /\ dirty \in Nodes[d]
      /\ \/ TextShows(child, dirty)
         \/ ElementShows(Shows[d - 1], child, dirty)
  BY ShowsIs
<1>2. dirty \in Nodes[MaxDepth] /\ child \in DomNodes[MaxDepth]
  <2>1. MaxDepth \in d..MaxDepth
    BY CleanerAssumption
  <2> QED
    BY <1>1, <2>1, NodesGrow, DomGrow
<1>3. CASE TextShows(child, dirty)
  <2> DEFINE item == [lines |-> child.lines, width |-> Columns[type]]
             text == dirty.text
  <2>1. IsText(dirty) /\ child.type = "PLAINTEXT" /\ FlattenSeq(child.lines) = text
    BY <1>3 DEF TextShows
  <2>2. LinesFitIn(child.lines, Columns[type])
    BY <2>1 DEF InPlace
  <2>3. item \in Items /\ item.lines = child.lines
    <3>1. child.lines \in Seq(Texts)
      BY <1>2, DomParts
    <3>2. Columns[type] \in Widths
      BY Zenon DEF Widths, DomTypes
    <3>3. item \in Lined /\ item.lines = child.lines /\ item.width = Columns[type]
      BY <3>1, <3>2, Zenon DEF Lined
    <3> HIDE DEF item
    <3> QED
      BY <2>2, <3>3 DEF Items
  <2>4. text \in Texts
    BY <1>2, <2>1, NodeParts
  <2>5. TextOf(TextNodes, child, type) = <<item>>
    BY <2>1, Zenon DEF TextOf
  <2>6. TokensOf[dirty] = <<<<"text", text>>>>
    BY <1>2, <2>1, TokensIs, Zenon DEF TokensStep
  <2> HIDE DEF item, text
  <2>7. Says(<<item>>, <<<<"text", text>>>>)
    BY <2>1, <2>3, <2>4, SaysText
  <2> QED
    BY <2>5, <2>6, <2>7
<1>4. CASE ElementShows(Shows[d - 1], child, dirty)
  <2>1. ~IsText(dirty) /\ child.type \in Types
    BY <1>4, Zenon DEF ElementShows
  <2>2. child.type # "PLAINTEXT"
    BY <2>1, NotNone
  <2>3. TextOf(TextNodes, child, type) = TextNodes[child]
    BY <2>2, Zenon DEF TextOf
  <2> QED
    BY <2>1, <2>3
<1> QED
  BY <1>1, <1>3, <1>4

AllElementsSay(nodes, drawn) ==
    \A i \in 1..Len(drawn) : ~IsText(drawn[i]) => Says(TextNodes[nodes[i]], TokensOf[drawn[i]])

LEMMA ForestSays ==
    ASSUME NEW d \in 0..MaxDepth, NEW nodes, NEW drawn, NEW type \in Types,
           Match(d, nodes, drawn, type), AllElementsSay(nodes, drawn)
    PROVE  Says(TextsIn(TextNodes, nodes, type), Tokens(drawn))
<1> DEFINE n == Len(drawn)
           s == [i \in DOMAIN nodes |-> TextOf(TextNodes, nodes[i], type)]
           t == Map(TokensOf, drawn)
           Q == Seq(Items)
           R == Seq(Token)
<1>1. /\ nodes \in Seq(DomNodes[d]) /\ drawn \in Seq(Nodes[d]) /\ Len(nodes) = n
      /\ \A i \in 1..n : <<nodes[i], drawn[i]>> \in Shows[d] /\ InPlace(nodes[i], drawn[i], type)
  BY DEF Match, AllShow
<1>2. n \in Nat /\ DOMAIN nodes = 1..n
  BY <1>1
<1>3. Len(t) = n /\ \A i \in 1..n : t[i] = TokensOf[drawn[i]]
  BY <1>1, MapIs
<1>4. s = [i \in 1..n |-> s[i]] /\ \A i \in 1..n : s[i] = TextOf(TextNodes, nodes[i], type)
  BY <1>2
<1>5. t = [i \in 1..n |-> t[i]]
  <2>1. DOMAIN drawn = 1..n
    BY <1>1
  <2> QED
    BY <2>1, Zenon DEF Map
<1>6. \A i \in 1..n : ~IsText(drawn[i]) => Says(TextNodes[nodes[i]], TokensOf[drawn[i]])
  BY DEF AllElementsSay
<1> HIDE DEF n, s, t, Q, R
<1>7. ASSUME NEW i \in 1..n PROVE Says(s[i], t[i])
  <2> DEFINE child == nodes[i]
             dirty == drawn[i]
  <2>1. <<child, dirty>> \in Shows[d] /\ InPlace(child, dirty, type)
    BY <1>1
  <2>2. ~IsText(dirty) => Says(TextNodes[child], TokensOf[dirty])
    BY <1>6
  <2>3. s[i] = TextOf(TextNodes, child, type) /\ t[i] = TokensOf[dirty]
    BY <1>3, <1>4
  <2> HIDE DEF child, dirty
  <2>4. Says(TextOf(TextNodes, child, type), TokensOf[dirty])
    BY <2>1, <2>2, ChildSays
  <2> QED
    BY <2>3, <2>4
<1>8. \A i \in 1..n : s[i] \in Q /\ t[i] \in R
  BY <1>7, Zenon DEF Says, Q, R
<1>9. Holds(s, n, Q) /\ Holds(t, n, R)
  BY <1>4, <1>5, <1>8 DEF Holds
<1>10. s \in Seq(Q) /\ Len(s) = n /\ t \in Seq(R)
  BY <1>2, <1>9, MakeSeq
<1>11. AllSay(s, t)
  BY <1>3, <1>7, <1>10 DEF AllSay
<1>12. Says(FlattenSeq(s), FlattenSeq(t))
  BY <1>10, <1>11, SaysAll DEF Q, R
<1>13. Tokens(drawn) = FlattenSeq(t)
  BY TokensMap DEF t
<1>14. TextsIn(TextNodes, nodes, type) = FlattenSeq(s)
  BY Zenon DEF TextsIn, s
<1> QED
  BY <1>12, <1>13, <1>14

LEMMA ElementSays ==
    ASSUME NEW d \in 0..MaxDepth, NEW node, NEW dirty, <<node, dirty>> \in Shows[d], ~IsText(dirty)
    PROVE  Says(TextNodes[node], TokensOf[dirty])
<1> DEFINE Fine(n) == \A x \in DomNodes[n], y \in Nodes[n] :
               <<x, y>> \in Shows[n] /\ ~IsText(y) => Says(TextNodes[x], TokensOf[y])
           H == {n \in 0..MaxDepth : Fine(n)}
<1>1. MaxDepth \in Nat /\ 0 \in Int /\ MaxDepth \in Int /\ 0 \in 0..MaxDepth
  BY CleanerAssumption
<1>2. 0 \in H
  <2>1. \A y \in Nodes[0] : IsText(y)
    BY <1>1, NodeCases
  <2> QED
    BY <1>1, <2>1
<1>3. ASSUME NEW k \in 0..MaxDepth - 1, k \in H PROVE k + 1 \in H
  <2> DEFINE e == k + 1
  <2>1. e \in 0..MaxDepth /\ e > 0 /\ e - 1 = k /\ k \in 0..MaxDepth /\ MaxDepth \in e..MaxDepth
    BY <1>1
  <2> HIDE DEF e
  <2>2. ASSUME NEW x \in DomNodes[e], NEW y \in Nodes[e], <<x, y>> \in Shows[e], ~IsText(y)
        PROVE  Says(TextNodes[x], TokensOf[y])
    <3> DEFINE nodes == x.children
               drawn == y.children
               type == x.type
    <3>1. ElementShows(Shows[k], x, y)
      <4>1. ~TextShows(x, y)
        BY <2>2, Zenon DEF TextShows
      <4>2. ElementShows(Shows[e - 1], x, y)
        BY <2>1, <2>2, <4>1, ShowsIs
      <4> QED
        BY <2>1, <4>2
    <3>2. type \in Types /\ AllShow(Shows[k], nodes, drawn, type)
      BY <3>1, Zenon DEF ElementShows
    <3>3. nodes \in Seq(DomNodes[k]) /\ drawn \in Seq(Nodes[k])
      <4>1. nodes \in Seq(DomNodes[e - 1])
        BY <2>1, <2>2, DomCases
      <4>2. drawn \in Seq(Nodes[e - 1])
        BY <2>1, <2>2, NodeCases
      <4> QED
        BY <2>1, <4>1, <4>2
    <3>4. Match(k, nodes, drawn, type)
      BY <3>2, <3>3, Zenon DEF Match
    <3>5. x \in DomNodes[MaxDepth] /\ y \in Nodes[MaxDepth]
      BY <2>1, <2>2, DomGrow, NodesGrow
    <3>6. TextNodes[x] = TextsIn(TextNodes, nodes, type)
      BY <3>5, TextNodesIs
    <3> HIDE DEF nodes, drawn, type
    <3>7. AllElementsSay(nodes, drawn)
      <4>1. ASSUME NEW i \in 1..Len(drawn), ~IsText(drawn[i])
            PROVE  Says(TextNodes[nodes[i]], TokensOf[drawn[i]])
        <5> DEFINE a == nodes[i]
                   b == drawn[i]
        <5>1. i \in 1..Len(nodes)
          BY <3>2 DEF AllShow
        <5>2. a \in DomNodes[k] /\ b \in Nodes[k] /\ <<a, b>> \in Shows[k]
          BY <3>4, <5>1, MatchAt
        <5>3. Fine(k) /\ ~IsText(b)
          BY <1>3, <4>1
        <5> HIDE DEF a, b
        <5>4. Says(TextNodes[a], TokensOf[b])
          BY <5>2, <5>3
        <5> QED
          BY <5>4 DEF a, b
      <4> QED
        BY <4>1 DEF AllElementsSay
    <3>8. Says(TextsIn(TextNodes, nodes, type), Tokens(drawn))
      BY <2>1, <3>2, <3>4, <3>7, ForestSays
    <3> QED
      BY <2>2, <3>5, <3>6, <3>8, SaysInTags DEF drawn
  <2>3. Fine(e)
    BY <2>2
  <2> HIDE DEF Fine
  <2>4. e \in H
    BY <2>1, <2>3
  <2> QED
    BY <2>4 DEF e
<1>4. Inductive(H, 0, MaxDepth)
  BY <1>3, Zenon DEF Inductive
<1>5. d \in H
  <2> HIDE DEF H
  <2> QED
    BY <1>1, <1>2, <1>4, UpTo
<1>6. node \in DomNodes[d] /\ dirty \in Nodes[d]
  BY ShowsIs
<1>7. Fine(d)
  BY <1>5
<1> QED
  BY <1>6, <1>7

TextsOf(nodes) == FlattenSeq([i \in DOMAIN nodes |-> TextNodes[nodes[i]]])

LEMMA PageSays ==
    ASSUME NEW nodes, NEW drawn, IsPage(nodes, drawn)
    PROVE  Says(TextsOf(nodes), Tokens(drawn))
<1> DEFINE body == "BODY"
<1>1. MaxDepth \in 0..MaxDepth
  BY CleanerAssumption
<1>2. body \in Types
  BY DEF Types, TagTypes
<1>3. Match(MaxDepth, nodes, drawn, body) /\ drawn \in Seq(Elements)
  BY PageIs, Zenon DEF Matched
<1> HIDE DEF body
<1>4. ASSUME NEW i \in 1..Len(nodes)
      PROVE  /\ ~IsText(drawn[i]) /\ nodes[i].type # "PLAINTEXT"
             /\ Says(TextNodes[nodes[i]], TokensOf[drawn[i]])
  <2> DEFINE x == nodes[i]
             y == drawn[i]
  <2>1. i \in 1..Len(drawn) /\ <<x, y>> \in Shows[MaxDepth]
    BY <1>3, MatchAt
  <2>2. y \in Elements
    BY <1>3, <2>1, ElementOfSeq
  <2>3. ~IsText(y)
    BY <2>2 DEF Elements
  <2> HIDE DEF x, y
  <2>4. ElementShows(Shows[MaxDepth - 1], x, y)
    <3>1. ~TextShows(x, y)
      BY <2>3, Zenon DEF TextShows
    <3> QED
      BY <1>1, <2>1, <3>1, ShowsIs
  <2>5. x.type # "PLAINTEXT"
    BY <2>4, NotNone, Zenon DEF ElementShows
  <2>6. Says(TextNodes[x], TokensOf[y])
    BY <1>1, <2>1, <2>3, ElementSays
  <2> QED
    BY <2>3, <2>5, <2>6 DEF x, y
<1>5. Len(nodes) = Len(drawn) /\ DOMAIN nodes = 1..Len(nodes)
  <2>1. nodes \in Seq(DomNodes[MaxDepth])
    BY <1>3, Zenon DEF Match
  <2>2. Len(nodes) = Len(drawn)
    BY <1>3 DEF Match, AllShow
  <2> DEFINE A == DomNodes[MaxDepth]
  <2> HIDE DEF A
  <2>3. DOMAIN nodes = 1..Len(nodes)
    BY <2>1, LenProperties DEF A
  <2> QED
    BY <2>2, <2>3
<1>6. AllElementsSay(nodes, drawn)
  BY <1>4, <1>5 DEF AllElementsSay
<1>7. Says(TextsIn(TextNodes, nodes, body), Tokens(drawn))
  BY <1>1, <1>2, <1>3, <1>6, ForestSays
<1>8. \A i \in DOMAIN nodes : TextOf(TextNodes, nodes[i], body) = TextNodes[nodes[i]]
  BY <1>4, <1>5, Zenon DEF TextOf
<1>9. TextsIn(TextNodes, nodes, body) = TextsOf(nodes)
  BY <1>8, Zenon DEF TextsIn, TextsOf
<1> QED
  BY <1>7, <1>9

LEMMA TextChosen ==
    ASSUME NEW tokens \in Seq(Token)
    PROVE  Filter(tokens, LAMBDA token : token[1] = "text") = Chosen(tokens, TextTokens)
<1>1. \A token \in Token : token[1] = "text" <=> token \in TextTokens
  BY DEF Token, TextTokens
<1>2. \A i \in DOMAIN tokens : tokens[i] \in Token
  <2> DEFINE A == Token
  <2> HIDE DEF A
  <2>1. \A i \in DOMAIN tokens : tokens[i] \in A
    BY DEF A
  <2> QED
    BY <2>1 DEF A
<1>3. \A i \in DOMAIN tokens :
          (IF tokens[i][1] = "text" THEN <<tokens[i]>> ELSE <<>>) = Pick(TextTokens, tokens[i])
  BY <1>1, <1>2, Zenon DEF Pick
<1>4. [i \in DOMAIN tokens |-> IF tokens[i][1] = "text" THEN <<tokens[i]>> ELSE <<>>]
          = [i \in DOMAIN tokens |-> Pick(TextTokens, tokens[i])]
  BY <1>3, Zenon
<1> QED
  BY <1>4, Zenon DEF Filter, Chosen

-----------------------------------------------------------------------------
(* The tags that are open                                                  *)

(* Where there is a token of a kind in the first n of them.                *)
Places(tokens, n, kind) == {i \in 1..n : tokens[i][1] = kind}

OpenIn(tokens, n) == Cardinality(Places(tokens, n, "open")) - Cardinality(Places(tokens, n, "close"))

(* How many more tags are open after a token.                              *)
Change(token) == IF token[1] = "open" THEN 1 ELSE IF token[1] = "close" THEN -1 ELSE 0

LEMMA PlacesNext ==
    ASSUME NEW tokens, NEW n \in Nat, NEW kind
    PROVE  /\ Cardinality(Places(tokens, n, kind)) \in Nat
           /\ Cardinality(Places(tokens, n + 1, kind)) =
                  Cardinality(Places(tokens, n, kind)) + IF tokens[n + 1][1] = kind THEN 1 ELSE 0
<1> DEFINE m == n + 1
           P == Places(tokens, n, kind)
           Q == Places(tokens, m, kind)
<1>1. m \in Nat /\ 1..m = 1..n \cup {m} /\ m \notin 1..n
  OBVIOUS
<1>2. IsFiniteSet(P)
  <2>1. IsFiniteSet(1..n)
    BY FS_Interval
  <2>2. P \subseteq 1..n
    BY DEF Places
  <2> QED
    BY <2>1, <2>2, FS_Subset
<1>3. m \notin P
  BY <1>1 DEF Places
<1>4. CASE tokens[m][1] = kind
  <2>1. Q = P \cup {m}
    BY <1>1, <1>4 DEF Places
  <2>2. Cardinality(P \cup {m}) = Cardinality(P) + 1
    <3> HIDE DEF P, m
    <3> QED
      BY <1>2, <1>3, FS_AddElement
  <2> QED
    BY <1>2, <1>4, <2>1, <2>2, FS_CardinalityType
<1>5. CASE tokens[m][1] # kind
  <2>1. Q = P
    BY <1>1, <1>5 DEF Places
  <2>2. Cardinality(P) \in Nat
    BY <1>2, FS_CardinalityType
  <2> QED
    BY <1>5, <2>1, <2>2
<1> QED
  BY <1>4, <1>5

LEMMA OpenNext ==
    ASSUME NEW tokens, NEW n \in Nat
    PROVE  OpenIn(tokens, n) \in Int /\ OpenIn(tokens, n + 1) = OpenIn(tokens, n) + Change(tokens[n + 1])
<1> DEFINE one == "open"
           two == "close"
           x == tokens[n + 1][1]
<1>1. one # two
  OBVIOUS
<1>2. Change(tokens[n + 1]) = IF x = one THEN 1 ELSE IF x = two THEN -1 ELSE 0
  BY DEF Change
<1>3. \A m : OpenIn(tokens, m) = Cardinality(Places(tokens, m, one)) - Cardinality(Places(tokens, m, two))
  BY DEF OpenIn
<1> HIDE DEF one, two
<1>4. /\ Cardinality(Places(tokens, n, one)) \in Nat
      /\ Cardinality(Places(tokens, n + 1, one)) = Cardinality(Places(tokens, n, one)) + IF x = one THEN 1 ELSE 0
  BY PlacesNext
<1>5. /\ Cardinality(Places(tokens, n, two)) \in Nat
      /\ Cardinality(Places(tokens, n + 1, two)) = Cardinality(Places(tokens, n, two)) + IF x = two THEN 1 ELSE 0
  BY PlacesNext
<1> HIDE DEF x
<1> QED
  BY <1>1, <1>2, <1>3, <1>4, <1>5

LEMMA OpenNone == \A tokens : OpenIn(tokens, 0) = 0
<1>1. ASSUME NEW tokens, NEW kind PROVE Places(tokens, 0, kind) = {}
  BY DEF Places
<1> QED
  BY <1>1, FS_EmptySet DEF OpenIn

LEMMA OpenSame ==
    ASSUME NEW s, NEW t, NEW n, \A i \in 1..n : s[i] = t[i]
    PROVE  OpenIn(s, n) = OpenIn(t, n)
<1>1. ASSUME NEW kind PROVE Places(s, n, kind) = Places(t, n, kind)
  BY DEF Places
<1> QED
  BY <1>1 DEF OpenIn

(* None is open after the first whole tokens and some are after any more,  *)
(* in the end depth of them.                                               *)
IsWhole(tokens, whole, depth) ==
    /\ whole \in 0..Len(tokens) /\ OpenIn(tokens, whole) = 0
    /\ OpenIn(tokens, Len(tokens)) = depth
    /\ \A n \in whole + 1..Len(tokens) : OpenIn(tokens, n) > 0

LEMMA WholeAppend ==
    ASSUME NEW S, NEW tokens \in Seq(S), NEW token \in S, NEW whole, NEW depth \in Nat,
           IsWhole(tokens, whole, depth), NEW more \in Nat, more = depth + Change(token)
    PROVE  IsWhole(Append(tokens, token), IF more = 0 THEN Len(tokens) + 1 ELSE whole, more)
<1> DEFINE t == Append(tokens, token)
           n == Len(tokens)
           change == Change(token)
<1>1. n \in Nat /\ Len(t) = n + 1 /\ t[n + 1] = token /\ \A i \in 1..n : t[i] = tokens[i]
  BY AppendProperties
<1>2. /\ whole \in 0..n /\ OpenIn(tokens, whole) = 0 /\ OpenIn(tokens, n) = depth
      /\ \A k \in whole + 1..n : OpenIn(tokens, k) > 0
  BY DEF IsWhole
<1> HIDE DEF n, t
<1>3. ASSUME NEW k \in 0..n PROVE OpenIn(t, k) = OpenIn(tokens, k)
  <2>1. \A i \in 1..k : t[i] = tokens[i]
    BY <1>1
  <2> QED
    BY <2>1, OpenSame
<1>4. OpenIn(t, n + 1) = more
  <2>1. OpenIn(t, n + 1) = OpenIn(t, n) + change
    BY <1>1, OpenNext
  <2>2. OpenIn(t, n) = depth
    BY <1>1, <1>2, <1>3
  <2> HIDE DEF change
  <2> QED
    BY <2>1, <2>2 DEF change
<1>5. CASE more = 0
  <2>1. IsWhole(t, n + 1, more)
    BY <1>1, <1>4, <1>5 DEF IsWhole
  <2> QED
    BY <1>5, <2>1 DEF n, t
<1>6. CASE more # 0
  <2>1. ASSUME NEW k \in whole + 1..n + 1 PROVE OpenIn(t, k) > 0
    <3>1. CASE k = n + 1
      BY <1>4, <1>6, <3>1
    <3>2. CASE k # n + 1
      <4>1. k \in whole + 1..n /\ k \in 0..n
        BY <1>1, <1>2, <3>2
      <4> QED
        BY <1>2, <1>3, <4>1
    <3> QED
      BY <3>1, <3>2
  <2>2. IsWhole(t, whole, more)
    BY <1>1, <1>2, <1>3, <1>4, <2>1 DEF IsWhole
  <2> QED
    BY <1>6, <2>2 DEF t
<1> QED
  BY <1>5, <1>6

WholeOK == IsWhole(read, Len(Tokens(top)), Len(stack))

LEMMA NothingOpen == IsWhole(<<>>, Len(Tokens(<<>>)), Len(<<>>))
  BY NoTokens, OpenNone DEF IsWhole

(* The whole part grows when no tag is left open.                          *)
LEMMA WholeMore ==
    ASSUME NEW S, NEW tokens \in Seq(S), NEW token \in S,
           NEW nodes, NEW open, NEW nodes2, NEW open2,
           IsTree(nodes2, open2, Append(tokens, token)),
           NEW depth \in Nat, IsWhole(tokens, Len(Tokens(nodes)), depth),
           open2 = <<>> \/ nodes2 = nodes,
           Len(open2) = depth + Change(token)
    PROVE  IsWhole(Append(tokens, token), Len(Tokens(nodes2)), Len(open2))
<1> DEFINE more == Len(open2)
           whole == Len(Tokens(nodes))
           t == Append(tokens, token)
           n == Len(tokens)
<1>1. more \in Nat /\ (more = 0 => open2 = <<>>)
  <2>1. open2 \in Seq(Opened)
    BY DEF IsTree, StackOK
  <2> DEFINE A == Opened
  <2> HIDE DEF A
  <2>2. open2 \in Seq(A)
    BY <2>1 DEF A
  <2> QED
    BY <2>2, EmptySeq
<1>2. Len(t) = n + 1
  BY AppendProperties
<1>3. more = depth + Change(token) /\ IsWhole(tokens, whole, depth)
  OBVIOUS
<1> HIDE DEF more, whole
<1>4. IsWhole(t, IF more = 0 THEN n + 1 ELSE whole, more)
  BY <1>1, <1>3, WholeAppend
<1>5. CASE more = 0
  <2>1. t = Tokens(nodes2) \o StackTokens(<<>>)
    BY <1>1, <1>5 DEF IsTree, All
  <2>2. Tokens(nodes2) \in Seq(Token)
    BY ForestTokens DEF IsTree
  <2>3. t = Tokens(nodes2)
    BY <2>1, <2>2, NoStack, ConcatEmptySeq
  <2> HIDE DEF t
  <2> QED
    BY <1>2, <1>4, <1>5, <2>3 DEF more, t
<1>6. CASE more # 0
  <2>1. nodes2 = nodes
    <3>1. open2 # <<>>
      BY <1>6 DEF more
    <3> QED
      BY <3>1
  <2> QED
    BY <1>4, <1>6, <2>1 DEF more, whole, t
<1> QED
  BY <1>5, <1>6

(* A node attached leaves as many tags open as there were under it.        *)
LEMMA AttachLen ==
    ASSUME NEW nodes, NEW open, NEW node, NEW nodes2, NEW open2, Attached(nodes, open, node, nodes2, open2)
    PROVE  Len(open2) = Len(open) /\ (open2 = <<>> \/ nodes2 = nodes)
<1>1. CASE open = <<>>
  BY <1>1 DEF Attached
<1>2. CASE open # <<>>
  <2>1. open2 = [open EXCEPT ![Len(open)].children = Append(@, node)] /\ nodes2 = nodes
    BY <1>2 DEF Attached
  <2>2. Len([open EXCEPT ![Len(open)].children = Append(@, node)]) = Len(open)
    OBVIOUS
  <2> QED
    BY <2>1, <2>2
<1> QED
  BY <1>1, <1>2

LEMMA WholeStops ==
    ASSUME NEW how, Stops(how)
    PROVE  WholeOK'
<1>1. top' = <<>> /\ stack' = <<>> /\ read' = <<>>
  BY DEF Stops
<1> QED
  BY <1>1, NothingOpen DEF WholeOK

LEMMA WholeKept == ASSUME WholeOK, UNCHANGED parser PROVE WholeOK'
  BY DEF parser, WholeOK

(* One token more is read, of which the stack takes notice.                *)
LEMMA WholeRead ==
    ASSUME TreeOK, WholeOK, TreeOK', NEW token \in Token, read' = Append(read, token),
           stack' = <<>> \/ top' = top, Len(stack') = Len(stack) + Change(token)
    PROVE  WholeOK'
<1>1. IsTree(top', stack', Append(read, token))
  BY DEF TreeOK
<1>2. read \in Seq(Token)
  BY DEF TreeOK, IsTree
<1>3. IsWhole(read, Len(Tokens(top)), Len(stack))
  BY DEF WholeOK
<1>4. Len(stack) \in Nat
  BY DEF TreeOK, IsTree, StackOK
<1> DEFINE B == Token
           nodes2 == top'
           open2 == stack'
<1> HIDE DEF B
<1>5. read \in Seq(B) /\ token \in B
  BY <1>2 DEF B
<1>6. /\ IsTree(nodes2, open2, Append(read, token)) /\ (open2 = <<>> \/ nodes2 = top)
      /\ Len(open2) = Len(stack) + Change(token)
  BY <1>1
<1> HIDE DEF nodes2, open2
<1>7. IsWhole(Append(read, token), Len(Tokens(nodes2)), Len(open2))
  BY <1>3, <1>4, <1>5, <1>6, WholeMore
<1> QED
  BY <1>7 DEF WholeOK, nodes2, open2

LEMMA Changes ==
    \A x : Change(<<"text", x>>) = 0 /\ Change(<<"open", x>>) = 1 /\ Change(<<"close", x>>) = -1
  BY DEF Change

LEMMA WholeText ==
    ASSUME TreeOK, WholeOK, TreeOK', NEW pieces \in TextPieces, ReadText(pieces)
    PROVE  WholeOK'
<1> DEFINE text == RemoveEscapeCodes(Source(pieces))
           result == Trim(text.result)
           token == <<"text", IF OneCode(pieces) THEN Meant(pieces) ELSE result>>
           bad == Unprintable \in ToSet(Source(pieces)) \/ text.error
<1>1. CASE bad
  <2>1. Stops("hung")
    BY <1>1, Zenon DEF ReadText
  <2> QED
    BY <2>1, WholeStops
<1>2. CASE ~bad
  <2>1. Attach([text |-> result], stack) /\ read' = Append(read, token)
    BY <1>2, Zenon DEF ReadText
  <2>2. result \in Texts /\ token = <<"text", result>>
    BY <1>2, TextResult, Zenon
  <2>3. token \in Token
    BY <2>2 DEF Token
  <2>4. Change(token) = 0
    BY <2>2, Changes
  <2> HIDE DEF text, result, token
  <2>5. Attached(top, stack, [text |-> result], top', stack')
    BY <2>1, AttachDef
  <2>6. Len(stack') = Len(stack) /\ (stack' = <<>> \/ top' = top)
    BY <2>5, AttachLen
  <2>7. Len(stack') = Len(stack) + Change(token)
    <3>1. Len(stack) \in Nat
      BY DEF TreeOK, IsTree, StackOK
    <3> QED
      BY <2>4, <2>6, <3>1
  <2> QED
    BY <2>1, <2>3, <2>6, <2>7, WholeRead
<1> QED
  BY <1>1, <1>2

LEMMA WholeOpen ==
    ASSUME TreeOK, WholeOK, TreeOK', NEW t \in Tags, OpenTag(t)
    PROVE  WholeOK'
<1> DEFINE token == <<"open", t.name>>
<1>1. stack' = Append(stack, NewTag(t)) /\ read' = Append(read, token) /\ top' = top
  BY DEF OpenTag
<1>2. token \in Token /\ Change(token) = 1
  BY NewTagIs, Changes DEF Token
<1>3. Len(stack') = Len(stack) + 1
  <2>1. stack \in Seq(Opened)
    BY DEF TreeOK, IsTree, StackOK
  <2> QED
    BY <1>1, <2>1
<1> HIDE DEF token
<1> QED
  BY <1>1, <1>2, <1>3, WholeRead

LEMMA WholeClose ==
    ASSUME TreeOK, WholeOK, TreeOK', NEW t \in Tags, CloseTag(t)
    PROVE  WholeOK'
<1> DEFINE tag == Last(stack)
           token == <<"close", t.name>>
<1>1. CASE stack = <<>>
  <2>1. Stops("fault")
    BY <1>1 DEF CloseTag
  <2> QED
    BY <2>1, WholeStops
<1>2. CASE stack # <<>> /\ tag.name # t.name
  <2>1. Stops("hung")
    BY <1>2 DEF CloseTag
  <2> QED
    BY <2>1, WholeStops
<1>3. CASE stack # <<>> /\ tag.name = t.name
  <2>1. Attach(tag, Front(stack)) /\ read' = Append(read, token)
    BY <1>3 DEF CloseTag
  <2>2. Attached(top, Front(stack), tag, top', stack')
    BY <2>1, AttachDef
  <2>3. token \in Token /\ Change(token) = -1
    BY NewTagIs, Changes DEF Token
  <2>4. Len(stack') = Len(Front(stack)) /\ (stack' = <<>> \/ top' = top)
    BY <2>2, AttachLen
  <2>5. Len(Front(stack)) = Len(stack) - 1 /\ Len(stack) \in Nat
    <3>1. stack \in Seq(Opened)
      BY DEF TreeOK, IsTree, StackOK
    <3> DEFINE A == Opened
    <3> HIDE DEF A
    <3>2. stack \in Seq(A)
      BY <3>1 DEF A
    <3> QED
      BY <1>3, <3>2, TopIs
  <2> HIDE DEF token, tag
  <2>6. Len(stack') = Len(stack) + Change(token)
    BY <2>3, <2>4, <2>5
  <2> QED
    BY <2>1, <2>3, <2>4, <2>6, WholeRead
<1> QED
  BY <1>1, <1>2, <1>3

(* A self-closing tag is opened and closed.                                *)
LEMMA WholeSelfClosing ==
    ASSUME TreeOK, WholeOK, TreeOK', NEW t \in Tags, SelfClosingTag(t)
    PROVE  WholeOK'
<1> DEFINE B == Token
           first == <<"open", t.name>>
           second == <<"close", t.name>>
           depth == Len(stack)
           some == Append(read, first)
           nodes2 == top'
           open2 == stack'
<1>1. Attach(NewTag(t), stack) /\ read' = read \o <<first, second>>
  BY DEF SelfClosingTag
<1>2. first \in B /\ second \in B /\ Change(first) = 1 /\ Change(second) = -1
  BY NewTagIs, Changes DEF Token
<1>3. read \in Seq(B)
  BY DEF TreeOK, IsTree
<1>4. Attached(top, stack, NewTag(t), top', stack')
  BY <1>1, AttachDef
<1>5. Len(open2) = depth /\ (open2 = <<>> \/ nodes2 = top)
  BY <1>4, AttachLen
<1>6. depth \in Nat
  BY DEF TreeOK, IsTree, StackOK
<1> HIDE DEF B, first, second
<1>7. read' = Append(some, second) /\ some \in Seq(B)
  BY <1>1, <1>2, <1>3
<1>8. IsWhole(read, Len(Tokens(top)), depth)
  BY DEF WholeOK
<1>9. IsTree(nodes2, open2, Append(some, second))
  BY <1>7 DEF TreeOK
<1> HIDE DEF depth, nodes2, open2
<1>10. IsWhole(some, Len(Tokens(top)), depth + 1)
  <2> DEFINE more == depth + 1
             whole == Len(Tokens(top))
  <2>1. more \in Nat /\ more # 0 /\ more = depth + Change(first)
    BY <1>2, <1>6
  <2> HIDE DEF more, whole
  <2>2. IsWhole(Append(read, first), IF more = 0 THEN Len(read) + 1 ELSE whole, more)
    BY <1>2, <1>3, <1>6, <1>8, <2>1, WholeAppend DEF whole
  <2> QED
    BY <2>1, <2>2 DEF more, whole
<1> HIDE DEF some
<1>11. IsWhole(Append(some, second), Len(Tokens(nodes2)), Len(open2))
  <2> DEFINE more == depth + 1
  <2>1. more \in Nat /\ Len(open2) = more + Change(second)
    BY <1>2, <1>5, <1>6
  <2>2. IsWhole(some, Len(Tokens(top)), more)
    BY <1>10
  <2> HIDE DEF more
  <2> QED
    BY <1>2, <1>5, <1>7, <1>9, <2>1, <2>2, WholeMore
<1> QED
  BY <1>7, <1>11 DEF WholeOK, nodes2, open2

LEMMA WholeStep ==
    ASSUME TreeOK, WholeOK, TreeOK', [Next]_vars
    PROVE  WholeOK'
<1>1. ASSUME NEW pieces \in TextPieces, ReadText(pieces) PROVE WholeOK'
  BY <1>1, WholeText
<1>2. ASSUME NEW t \in Tags, OpenTag(t) PROVE WholeOK'
  BY <1>2, WholeOpen
<1>3. ASSUME NEW t \in Tags, SelfClosingTag(t) PROVE WholeOK'
  BY <1>3, WholeSelfClosing
<1>4. ASSUME NEW t \in Tags, CloseTag(t) PROVE WholeOK'
  BY <1>4, WholeClose
<1>5. CASE ReadBadTag
  BY <1>5, WholeStops DEF ReadBadTag
<1>6. CASE EndOfFile
  <2>1. (\E how : Stops(how)) \/ UNCHANGED parser
    BY <1>6, Zenon DEF EndOfFile
  <2> QED
    BY <2>1, WholeStops, WholeKept
<1>7. ASSUME NEW id \in Ids, NEW forest \in Inner3ML, SetInner3ML(id, forest)
      PROVE  WholeOK'
  <2>1. (\E how : Stops(how)) \/ UNCHANGED parser
    BY <1>7, Zenon DEF SetInner3ML
  <2> QED
    BY <2>1, WholeStops, WholeKept
<1>8. CASE UNCHANGED vars
  BY <1>8, WholeKept DEF vars
<1> QED
  BY <1>1, <1>2, <1>3, <1>4, <1>5, <1>6, <1>7, <1>8 DEF Next

(* What was read and is not in an open tag is the tree.                    *)
LEMMA WholeIs ==
    ASSUME TreeOK, WholeOK
    PROVE  Whole = Tokens(top)
<1> DEFINE a == Tokens(top)
           b == StackTokens(stack)
           n == Len(a)
           T == {k \in 0..Len(read) : OpenAfter(k) = 0}
<1>1. \A k : OpenAfter(k) = OpenIn(read, k)
  BY Zenon DEF OpenAfter, OpenIn, Places
<1>2. /\ n \in 0..Len(read) /\ OpenIn(read, n) = 0
      /\ \A k \in n + 1..Len(read) : OpenIn(read, k) > 0
  BY DEF WholeOK, IsWhole
<1>3. read = a \o b
  BY DEF TreeOK, IsTree, All
<1>4. a \in Seq(Token) /\ b \in Seq(Token)
  BY ForestTokens, StackTyped DEF TreeOK, IsTree
<1>5. Len(read) \in Nat /\ n \in Nat
  BY <1>4 DEF TreeOK, IsTree
<1> HIDE DEF a, b
<1>6. n \in T /\ \A k \in T : k <= n
  BY <1>1, <1>2, <1>5
<1>7. Max(T) = n
  <2>1. T \in SUBSET (0..Len(read)) /\ T # {}
    BY <1>6
  <2> HIDE DEF T, n
  <2>2. Max(T) \in T /\ \A k \in T : k <= Max(T)
    BY <1>5, <2>1, MaxOf
  <2>3. Max(T) \in 0..Len(read)
    BY <2>1, <2>2
  <2> QED
    BY <1>5, <1>6, <2>2, <2>3
<1>8. SubSeq(a \o b, 1, n) = a
  <2> DEFINE B == Token
             one == 1
             s == a \o b
             p == SubSeq(s, one, n)
  <2>1. a \in Seq(B) /\ b \in Seq(B)
    BY <1>4
  <2> HIDE DEF B
  <2>2. s \in Seq(B) /\ Len(s) = n + Len(b) /\ \A i \in 1..n : s[i] = a[i]
    BY <2>1
  <2> HIDE DEF s, n
  <2>3. \A i \in one..n : s[i] \in B
    <3>1. \A i \in 1..n : a[i] \in B
      BY <2>1, ElementOfSeq DEF n
    <3> QED
      BY <2>2, <3>1
  <2>4. p \in Seq(B) /\ Len(p) = n /\ \A i \in 1..n : p[i] = s[i]
    BY <1>5, <2>3, SubSeqProperties
  <2> HIDE DEF p
  <2>5. p = a
    BY <2>1, <2>2, <2>4, SeqEqual DEF n
  <2> QED
    BY <2>5 DEF p, s
<1>9. Whole = SubSeq(read, 1, Max(T))
  BY Zenon DEF Whole
<1>10. Whole = SubSeq(read, 1, n)
  <2> HIDE DEF T, n
  <2> QED
    BY <1>7, <1>9
<1> HIDE DEF T, n
<1> QED
  BY <1>3, <1>8, <1>10 DEF a

-----------------------------------------------------------------------------
(* A pruned tree has the tokens of the tree but for the empty texts        *)

ShownTokens == {token \in Token : IsShown(token)}

LEMMA ShownChosen ==
    ASSUME NEW tokens \in Seq(Token)
    PROVE  Filter(tokens, IsShown) = Chosen(tokens, ShownTokens)
<1>1. \A i \in DOMAIN tokens : tokens[i] \in Token
  <2> DEFINE A == Token
  <2> HIDE DEF A
  <2>1. \A i \in DOMAIN tokens : tokens[i] \in A
    BY DEF A
  <2> QED
    BY <2>1 DEF A
<1>2. \A i \in DOMAIN tokens :
          (IF IsShown(tokens[i]) THEN <<tokens[i]>> ELSE <<>>) = Pick(ShownTokens, tokens[i])
  BY <1>1, Zenon DEF Pick, ShownTokens
<1>3. [i \in DOMAIN tokens |-> IF IsShown(tokens[i]) THEN <<tokens[i]>> ELSE <<>>]
          = [i \in DOMAIN tokens |-> Pick(ShownTokens, tokens[i])]
  BY <1>2, Zenon
<1> QED
  BY <1>3, Zenon DEF Filter, Chosen

(* All that is shown of a sequence of tokens.                              *)
ShownOf(s, t) == s \in Seq(Token) /\ t \in Seq(Token) /\ s = Chosen(t, ShownTokens)

LEMMA ShowsNothing == ShownOf(<<>>, <<>>)
<1>1. <<>> \in Seq(Token)
  OBVIOUS
<1> QED
  BY <1>1, ChosenNone, Zenon DEF ShownOf

LEMMA ShowsBoth ==
    ASSUME NEW a, NEW b, NEW x, NEW y, ShownOf(a, x), ShownOf(b, y)
    PROVE  ShownOf(a \o b, x \o y)
<1> DEFINE B == Token
           T == ShownTokens
<1>1. a \in Seq(B) /\ b \in Seq(B) /\ x \in Seq(B) /\ y \in Seq(B)
      /\ a = Chosen(x, T) /\ b = Chosen(y, T)
  BY DEF ShownOf
<1> HIDE DEF B, T
<1>2. Chosen(x \o y, T) = Chosen(x, T) \o Chosen(y, T)
  BY <1>1, ChosenConcat
<1>3. a \o b \in Seq(B) /\ x \o y \in Seq(B)
  BY <1>1, ConcatProperties
<1> QED
  BY <1>1, <1>2, <1>3, Zenon DEF ShownOf, B, T

LEMMA ShowsOne ==
    ASSUME NEW token \in Token
    PROVE  /\ IsShown(token) => ShownOf(<<token>>, <<token>>)
           /\ ~IsShown(token) => ShownOf(<<>>, <<token>>)
<1> DEFINE B == Token
           T == ShownTokens
           empty == <<>>
<1>1. token \in B /\ (IsShown(token) <=> token \in T)
  BY Zenon DEF ShownTokens
<1> HIDE DEF B, T
<1>2. empty \in Seq(B) /\ Append(empty, token) = <<token>> /\ <<token>> \in Seq(B)
  BY <1>1
<1>3. Chosen(empty, T) = empty
  BY ChosenNone
<1> HIDE DEF empty
<1>4. /\ token \in T => Chosen(Append(empty, token), T) = Append(empty, token)
      /\ token \notin T => Chosen(Append(empty, token), T) = empty
  BY <1>1, <1>2, <1>3, ChosenAppend
<1> QED
  BY <1>1, <1>2, <1>4, Zenon DEF ShownOf, B, T, empty

(* What is left of a node in a pruned forest.                              *)
Left(node) == IF Pruned[node] \in Contents THEN TokensOf[Pruned[node]] ELSE <<>>

ShowsAsPruned(node) == IsText(node) \/ ShownOf(TokensOf[Pruned[node]], TokensOf[node])

LEMMA LeftShows ==
    ASSUME NEW node \in Nodes[MaxDepth], ShowsAsPruned(node)
    PROVE  ShownOf(Left(node), TokensOf[node])
<1>1. MaxDepth \in 0..MaxDepth
  BY CleanerAssumption
<1>2. /\ Pruned[node] \in Nodes[MaxDepth]
      /\ IsText(node) => Pruned[node] = node
      /\ ~IsText(node) => ~IsText(Pruned[node])
  BY <1>1, PrunedTyped
<1>3. CASE IsText(node)
  <2> DEFINE token == <<"text", node.text>>
  <2>1. TokensOf[node] = <<token>>
    BY <1>3, TokensIs DEF TokensStep
  <2>2. token \in Token
    BY <1>3, NodeParts DEF Token
  <2>3. IsShown(token) <=> node.text # <<>>
    BY DEF IsShown
  <2>4. node \in Contents <=> node.text # <<>>
    BY <1>3, Zenon DEF Contents, IsContent
  <2> HIDE DEF token
  <2>5. CASE node.text # <<>>
    BY <1>2, <1>3, <2>1, <2>2, <2>3, <2>4, <2>5, ShowsOne DEF Left
  <2>6. CASE node.text = <<>>
    BY <1>2, <1>3, <2>1, <2>2, <2>3, <2>4, <2>6, ShowsOne DEF Left
  <2> QED
    BY <2>5, <2>6
<1>4. CASE ~IsText(node)
  <2>1. Pruned[node] \in Contents
    BY <1>2, <1>4, Zenon DEF Contents, IsContent
  <2> QED
    BY <1>4, <2>1, Zenon DEF Left, ShowsAsPruned
<1> QED
  BY <1>3, <1>4

PrunedForest(nodes) == Chosen(Map(Pruned, nodes), Contents)

LEMMA PrunedForestTyped ==
    ASSUME NEW nodes \in Seq(Nodes[MaxDepth])
    PROVE  Map(Pruned, nodes) \in Seq(Nodes[MaxDepth]) /\ PrunedForest(nodes) \in Seq(Nodes[MaxDepth])
<1> DEFINE S == Nodes[MaxDepth]
           m == Map(Pruned, nodes)
<1>1. m \in Seq(S)
  BY PageNodesIs
<1> HIDE DEF S, m
<1>2. Chosen(m, Contents) \in Seq(S)
  BY <1>1, ChosenType
<1> QED
  BY <1>1, <1>2 DEF PrunedForest, S, m

(* A node more leaves as much more.                                        *)
LEMMA PrunedMore ==
    ASSUME NEW nodes \in Seq(Nodes[MaxDepth]), NEW node \in Nodes[MaxDepth]
    PROVE  Tokens(PrunedForest(Append(nodes, node))) = Tokens(PrunedForest(nodes)) \o Left(node)
<1> DEFINE S == Nodes[MaxDepth]
           m == Map(Pruned, nodes)
           x == Pruned[node]
           c == PrunedForest(nodes)
<1>1. MaxDepth \in 0..MaxDepth
  BY CleanerAssumption
<1>2. x \in S
  BY <1>1, PrunedTyped
<1>3. m \in Seq(S) /\ c \in Seq(S) /\ c = Chosen(m, Contents)
  BY PrunedForestTyped DEF PrunedForest
<1>4. Map(Pruned, Append(nodes, node)) = Append(m, x)
  <2>1. nodes \in Seq(S) /\ node \in S
    OBVIOUS
  <2> HIDE DEF S
  <2> QED
    BY <2>1, MapAppend
<1>5. Tokens(c) \in Seq(Token)
  BY <1>3, ForestTokens
<1>6. x \in S => Tokens(Append(c, x)) = Tokens(c) \o TokensOf[x]
  BY <1>3, TokensAppend
<1> HIDE DEF S, m, x, c
<1>7. PrunedForest(Append(nodes, node)) = Chosen(Append(m, x), Contents)
  BY <1>4 DEF PrunedForest
<1>8. CASE x \in Contents
  <2>1. Chosen(Append(m, x), Contents) = Append(c, x)
    BY <1>2, <1>3, <1>8, ChosenAppend
  <2>2. Left(node) = TokensOf[x]
    BY <1>8 DEF Left, x
  <2> QED
    BY <1>2, <1>6, <1>7, <2>1, <2>2 DEF c
<1>9. CASE x \notin Contents
  <2>1. Chosen(Append(m, x), Contents) = c
    BY <1>2, <1>3, <1>9, ChosenAppend
  <2>2. Left(node) = <<>>
    BY <1>9 DEF Left, x
  <2>3. Tokens(c) \o <<>> = Tokens(c)
    BY <1>5, ConcatEmptySeq
  <2> QED
    BY <1>7, <2>1, <2>2, <2>3 DEF c
<1> QED
  BY <1>8, <1>9

LEMMA ForestShows ==
    ASSUME NEW nodes \in Seq(Nodes[MaxDepth]), \A i \in 1..Len(nodes) : ShowsAsPruned(nodes[i])
    PROVE  ShownOf(Tokens(PrunedForest(nodes)), Tokens(nodes))
<1> DEFINE S == Nodes[MaxDepth]
           n == Len(nodes)
           a(i) == Tokens(PrunedForest(Prefix(nodes, i)))
           b(i) == Tokens(Prefix(nodes, i))
           H == {i \in 0..n : ShownOf(a(i), b(i))}
<1>1. n \in Nat /\ 0 \in Int /\ n \in Int /\ 0 \in 0..n /\ n \in 0..n
  OBVIOUS
<1>2. nodes \in Seq(S)
  OBVIOUS
<1>3. 0 \in H
  <2>1. Prefix(nodes, 0) = <<>>
    <3> HIDE DEF S
    <3> QED
      BY <1>2, PrefixAll
  <2>2. Map(Pruned, <<>>) = <<>>
    BY DEF Map
  <2>3. a(0) = <<>> /\ b(0) = <<>>
    BY <2>1, <2>2, ChosenNone, NoTokens DEF PrunedForest
  <2>4. ShownOf(a(0), b(0))
    BY <2>3, ShowsNothing
  <2> HIDE DEF a, b
  <2> QED
    BY <1>1, <2>4
<1>4. ASSUME NEW i \in 0..n - 1, i \in H PROVE i + 1 \in H
  <2> DEFINE e == i + 1
             p == Prefix(nodes, i)
             x == nodes[e]
  <2>1. e \in 1..n /\ e \in 0..n /\ e - 1 = i /\ i \in 0..n
    BY <1>1
  <2> HIDE DEF e
  <2>2. x \in S /\ ShowsAsPruned(x)
    <3>1. x \in S
      <4> HIDE DEF S
      <4> QED
        BY <1>2, <2>1, ElementOfSeq
    <3> QED
      BY <2>1, <3>1
  <2>3. Prefix(nodes, e) = Append(p, x)
    <3> HIDE DEF S
    <3> QED
      BY <1>2, <2>1, PrefixNext
  <2>4. p \in Seq(S)
    <3> HIDE DEF S
    <3> QED
      BY <1>2, <2>1, PrefixIs
  <2>5. ShownOf(Tokens(PrunedForest(p)), Tokens(p))
    BY <1>4
  <2> HIDE DEF p, x
  <2>6. ShownOf(Left(x), TokensOf[x])
    BY <2>2, LeftShows
  <2>7. Tokens(PrunedForest(Append(p, x))) = Tokens(PrunedForest(p)) \o Left(x)
    BY <2>2, <2>4, PrunedMore
  <2>8. Tokens(Append(p, x)) = Tokens(p) \o TokensOf[x]
    BY <2>2, <2>4, TokensAppend
  <2>9. ShownOf(a(e), b(e))
    BY <2>3, <2>5, <2>6, <2>7, <2>8, ShowsBoth
  <2> HIDE DEF a, b
  <2>10. e \in H
    BY <2>1, <2>9
  <2> QED
    BY <2>10 DEF e
<1>5. Inductive(H, 0, n)
  BY <1>4, Zenon DEF Inductive
<1>6. n \in H
  <2> HIDE DEF H, n
  <2> QED
    BY <1>1, <1>3, <1>5, UpTo
<1>7. Prefix(nodes, n) = nodes
  <2> HIDE DEF S
  <2> QED
    BY <1>2, PrefixAll
<1> QED
  BY <1>6, <1>7

LEMMA NodeShows ==
    ASSUME NEW node \in Nodes[MaxDepth]
    PROVE  ShowsAsPruned(node)
<1> DEFINE H == {x \in Nodes[MaxDepth] : ShowsAsPruned(x)}
<1>1. MaxDepth \in 0..MaxDepth
  BY CleanerAssumption
<1>2. ASSUME NEW x \in Nodes[MaxDepth],
             IsText(x) \/ \A i \in 1..Len(x.children) : x.children[i] \in H
      PROVE  x \in H
  <2>1. CASE IsText(x)
    BY <2>1 DEF ShowsAsPruned
  <2>2. CASE ~IsText(x)
    <3> DEFINE y == Pruned[x]
               o == Opens(x)
               c == Closes(x)
               s == Tokens(y.children)
               t == Tokens(x.children)
    <3>1. y \in Nodes[MaxDepth] /\ ~IsText(y) /\ y.name = x.name
          /\ y.children = PrunedForest(x.children)
      BY <1>1, <2>2, PrunedTyped DEF PrunedForest
    <3>2. x.children \in Seq(Nodes[MaxDepth]) /\ x.name \in STRING
      BY <2>2, NodeParts
    <3>3. \A i \in 1..Len(x.children) : ShowsAsPruned(x.children[i])
      BY <1>2, <2>2
    <3>4. ShownOf(s, t)
      BY <3>1, <3>2, <3>3, ForestShows
    <3>5. Opens(y) = o /\ Closes(y) = c
      BY <3>1 DEF Opens, Closes
    <3>6. TokensOf[y] = (o \o s) \o c /\ TokensOf[x] = (o \o t) \o c
      BY <2>2, <3>1, <3>5, ElementTokens
    <3>7. ASSUME NEW kind \in {"open", "close"} PROVE ShownOf(<<<<kind, x.name>>>>, <<<<kind, x.name>>>>)
      <4> DEFINE token == <<kind, x.name>>
      <4>1. token \in Token /\ IsShown(token)
        BY <3>2 DEF Token, IsShown
      <4> HIDE DEF token
      <4>2. ShownOf(<<token>>, <<token>>)
        BY <4>1, ShowsOne
      <4> QED
        BY <4>2 DEF token
    <3>8. ShownOf(o, o) /\ ShownOf(c, c)
      BY <3>7 DEF Opens, Closes
    <3> HIDE DEF o, c, s, t
    <3>9. ShownOf(o \o s, o \o t)
      BY <3>4, <3>8, ShowsBoth
    <3>10. ShownOf((o \o s) \o c, (o \o t) \o c)
      BY <3>8, <3>9, ShowsBoth
    <3> QED
      BY <3>6, <3>10 DEF ShowsAsPruned
  <2> QED
    BY <2>1, <2>2
<1>3. Closed(H)
  BY <1>2, Zenon DEF Closed
<1> HIDE DEF H
<1>4. Nodes[MaxDepth] \subseteq H
  BY <1>3, TreeInduction
<1> QED
  BY <1>4 DEF H

(* The page of a tree.                                                     *)
LEMMA PageShows ==
    ASSUME NEW nodes \in Seq(Nodes[MaxDepth])
    PROVE  Tokens(Filter(AllPruned(nodes), IsContent)) = Filter(Tokens(nodes), IsShown)
<1>1. \A i \in 1..Len(nodes) : ShowsAsPruned(nodes[i])
  <2>1. \A i \in 1..Len(nodes) : nodes[i] \in Nodes[MaxDepth]
    <3> DEFINE S == Nodes[MaxDepth]
    <3> HIDE DEF S
    <3>1. nodes \in Seq(S)
      BY DEF S
    <3>2. \A i \in 1..Len(nodes) : nodes[i] \in S
      BY <3>1, ElementOfSeq
    <3> QED
      BY <3>2 DEF S
  <2> QED
    BY <2>1, NodeShows
<1>2. ShownOf(Tokens(PrunedForest(nodes)), Tokens(nodes))
  BY <1>1, ForestShows
<1>3. Filter(AllPruned(nodes), IsContent) = PrunedForest(nodes)
  BY PageNodesIs DEF PrunedForest
<1>4. Filter(Tokens(nodes), IsShown) = Chosen(Tokens(nodes), ShownTokens)
  BY ForestTokens, ShownChosen
<1> QED
  BY <1>2, <1>3, <1>4 DEF ShownOf

-----------------------------------------------------------------------------
(* Until a script writes, the page is what was read.                       *)

PageReadOK == status = "cleaned" /\ written = <<>> => page = Filter(AllPruned(top), IsContent)

LEMMA PageReadStops == ASSUME \E how \in {"hung", "fault"} : Stops(how) PROVE PageReadOK'
  BY DEF Stops, PageReadOK

LEMMA PageReadLater == ASSUME status = "reading", UNCHANGED status PROVE PageReadOK'
  BY DEF PageReadOK

LEMMA PageReadStep ==
    ASSUME TreeOK, PageReadOK, [Next]_vars
    PROVE  PageReadOK'
<1>1. ASSUME NEW pieces \in TextPieces, ReadText(pieces) PROVE PageReadOK'
  <2>1. (\E how \in {"hung", "fault"} : Stops(how)) \/ (status = "reading" /\ UNCHANGED status)
    BY <1>1, Zenon DEF ReadText, Reading
  <2> QED
    BY <2>1, PageReadStops, PageReadLater
<1>2. ASSUME NEW t \in Tags, OpenTag(t) PROVE PageReadOK'
  BY <1>2, PageReadLater DEF OpenTag, Reading
<1>3. ASSUME NEW t \in Tags, SelfClosingTag(t) PROVE PageReadOK'
  BY <1>3, PageReadLater DEF SelfClosingTag, Reading
<1>4. ASSUME NEW t \in Tags, CloseTag(t) PROVE PageReadOK'
  <2>1. (\E how \in {"hung", "fault"} : Stops(how)) \/ (status = "reading" /\ UNCHANGED status)
    <3>1. CASE stack = <<>>
      BY <1>4, <3>1, Zenon DEF CloseTag
    <3>2. CASE stack # <<>> /\ Last(stack).name # t.name
      BY <1>4, <3>2, Zenon DEF CloseTag
    <3>3. CASE stack # <<>> /\ Last(stack).name = t.name
      BY <1>4, <3>3, Zenon DEF CloseTag, Reading
    <3> QED
      BY <3>1, <3>2, <3>3, Zenon
  <2> QED
    BY <2>1, PageReadStops, PageReadLater
<1>5. CASE ReadBadTag
  BY <1>5, PageReadStops DEF ReadBadTag
<1>6. CASE EndOfFile
  <2>1. (\E how \in {"hung", "fault"} : Stops(how))
            \/ (page' = Filter(AllPruned(top), IsContent) /\ UNCHANGED parser)
    BY <1>6, PageEnds
  <2>2. CASE page' = Filter(AllPruned(top), IsContent) /\ UNCHANGED parser
    BY <2>2, Zenon DEF parser, PageReadOK
  <2> QED
    BY <2>1, <2>2, PageReadStops
<1>7. ASSUME NEW id \in Ids, NEW forest \in Inner3ML, SetInner3ML(id, forest)
      PROVE  PageReadOK'
  <2>1. (\E how \in {"hung", "fault"} : Stops(how)) \/ written' # <<>>
    BY <1>7, Zenon DEF SetInner3ML
  <2> QED
    BY <2>1, PageReadStops DEF PageReadOK
<1>8. CASE UNCHANGED vars
  BY <1>8, Zenon DEF vars, parser, PageReadOK
<1> QED
  BY <1>1, <1>2, <1>3, <1>4, <1>5, <1>6, <1>7, <1>8 DEF Next

LEMMA PageKeepsText ==
    ASSUME TreeOK, WholeOK, PageReadOK, PageOK
    PROVE  KeepsText
<1> DEFINE texts == TextsOf(dom.top_level_nodes)
           tokens == Tokens(page)
<1>1. Says(texts, tokens)
  BY PageSays DEF PageOK
<1>2. texts = FlattenSeq([i \in DOMAIN dom.top_level_nodes |-> TextNodes[dom.top_level_nodes[i]]])
  BY Zenon DEF TextsOf
<1> HIDE DEF texts, tokens
<1>3. texts \in Seq(Items) /\ tokens \in Seq(Token) /\ Map(Spoken, texts) = Chosen(tokens, TextTokens)
  BY <1>1 DEF Says
<1>4. \A i \in DOMAIN texts : texts[i] \in Items
  <2> DEFINE A == Items
  <2> HIDE DEF A
  <2>1. \A i \in DOMAIN texts : texts[i] \in A
    BY <1>3 DEF A
  <2> QED
    BY <2>1 DEF A
<1>5. \A i \in DOMAIN texts : texts[i] \in Lined /\ LinesFitIn(texts[i].lines, texts[i].width)
  BY <1>4 DEF Items
<1>6. \A i \in DOMAIN texts : Spoken[texts[i]] = <<"text", FlattenSeq(texts[i].lines)>>
  BY <1>5, Zenon DEF Spoken
<1>7. Map(Spoken, texts) = [i \in DOMAIN texts |-> <<"text", FlattenSeq(texts[i].lines)>>]
  BY <1>6, Zenon DEF Map
<1>8. Filter(tokens, LAMBDA token : token[1] = "text") = Chosen(tokens, TextTokens)
  BY <1>3, TextChosen
<1>9. [i \in DOMAIN texts |-> <<"text", FlattenSeq(texts[i].lines)>>]
          = Filter(tokens, LAMBDA token : token[1] = "text")
  BY <1>3, <1>7, <1>8, Zenon
<1>10. \A i \in DOMAIN texts : \A k \in DOMAIN texts[i].lines :
           LET line == texts[i].lines[k]
           IN  /\ Len(line) <= texts[i].width
               /\ k < Len(texts[i].lines) => Last(line) = " "
  BY <1>5, Zenon DEF LinesFitIn
<1>11. status = "cleaned" /\ written = <<>> => Tokens(page) = Filter(Whole, IsShown)
  <2>1. top \in Seq(Nodes[MaxDepth])
    BY DEF TreeOK, IsTree
  <2> QED
    BY <2>1, PageShows, WholeIs DEF PageReadOK
<1> QED
  BY <1>2, <1>9, <1>10, <1>11, Zenon DEF KeepsText, tokens

(* The lines of a page are the texts that were read before the first tag   *)
(* that is never closed, and those its scripts have written, complete and  *)
(* in order, and none is too wide for its place or broken within a word    *)
(* (3ml_parser.cpp:165-193, 3ml_cleaner.cpp:146-163,                       *)
(* 3ml_jsbindings.cpp:53-57), whatever the page and its scripts.           *)
THEOREM TextIsKept == Spec => []KeepsText
<1> DEFINE TreeInv == TreeOK /\ ModeOK /\ WholeOK
           PageInv == DomOK /\ PageOK /\ PageReadOK
<1>1. Init => TreeInv /\ PageInv
  <2>1. ASSUME Init PROVE TreeOK /\ ModeOK
    BY <2>1, NoTree DEF Init, TreeOK, ModeOK
  <2>2. ASSUME Init PROVE WholeOK
    BY <2>2, NothingOpen DEF Init, WholeOK
  <2>3. ASSUME Init PROVE DomOK
    BY <2>3, NoDomIsDom DEF Init, DomOK
  <2>4. ASSUME Init PROVE PageOK
    BY <2>4, NoPage DEF Init, NoDom, PageOK
  <2>5. ASSUME Init PROVE PageReadOK
    BY <2>5 DEF Init, PageReadOK
  <2> QED
    BY <2>1, <2>2, <2>3, <2>4, <2>5
<1>2. TreeInv /\ PageInv /\ [Next]_vars => TreeInv' /\ PageInv'
  <2>1. ASSUME TreeInv, PageInv, [Next]_vars PROVE TreeOK' /\ ModeOK'
    BY <2>1, TreeStep
  <2>2. ASSUME TreeInv, PageInv, [Next]_vars PROVE WholeOK'
    BY <2>1, <2>2, WholeStep
  <2>3. ASSUME TreeInv, PageInv, [Next]_vars PROVE DomOK' /\ PageOK'
    BY <2>3, DomStepIs, PageStepIs
  <2>4. ASSUME TreeInv, PageInv, [Next]_vars PROVE PageReadOK'
    BY <2>4, PageReadStep
  <2> QED
    BY <2>1, <2>2, <2>3, <2>4
<1>3. TreeInv /\ PageInv => KeepsText
  BY PageKeepsText
<1> QED
  BY <1>1, <1>2, <1>3, PTL DEF Spec
===============================================================================
