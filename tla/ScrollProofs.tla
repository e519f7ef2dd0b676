---------------------------- MODULE ScrollProofs ----------------------------
(***************************************************************************)
(* Proofs about Scroll, for pages of any number of nodes and any height.   *)
(***************************************************************************)
EXTENDS Scroll, Induction, SequenceTheorems

Nodes(p) == 1..Len(Pages[p])

LEMMA PageType ==
    ASSUME NEW p \in DOMAIN Pages
    PROVE  /\ Len(Pages[p]) \in Nat
           /\ \A i \in Nodes(p) : Pages[p][i] \in [link : BOOLEAN, size : Nat]
<1> DEFINE R == [link : BOOLEAN, size : Nat]
<1>1. Pages[p] \in Seq(R)
  BY ScrollAssumption
<1> HIDE DEF R
<1>2. Len(Pages[p]) \in Nat /\ \A i \in 1..Len(Pages[p]) : Pages[p][i] \in R
  BY <1>1
<1> QED
  BY <1>2 DEF Nodes, R

(* The sum over the nodes that Start reads exists, and so it is the one.   *)
LEMMA StartSums ==
    ASSUME NEW p \in DOMAIN Pages
    PROVE  /\ Start(p, 1) = 0
           /\ \A i \in Nodes(p) : Start(p, i + 1) = Start(p, i) + Pages[p][i].size
<1> DEFINE N == Len(Pages[p])
           sum[n \in 0..N] == IF n = 0 THEN 0 ELSE sum[n - 1] + Pages[p][n].size
           step == [n \in 0 + 1..N |-> [v \in Nat |-> v + Pages[p][n].size]]
<1>1. N \in Nat /\ 0 \in Int /\ N \in Int /\ 0 <= N /\ \A n \in 1..N : Pages[p][n].size \in Nat
  BY PageType DEF Nodes
<1>2. \E g : g = [n \in 0..N |-> IF n = 0 THEN 0 ELSE g[n - 1] + Pages[p][n].size]
  <2>1. step \in [0 + 1..N -> [Nat -> Nat]]
    BY <1>1
  <2>2. \A n \in 1..N, v \in Nat : step[n][v] = v + Pages[p][n].size
    BY <1>1
  <2> HIDE DEF step, N
  <2>3. PICK g \in [0..N -> Nat] : g[0] = 0 /\ Follows(g, step, 0, N)
    BY <1>1, <2>1, Recursion, Zenon
  <2>4. ASSUME NEW n \in 1..N PROVE g[n] = g[n - 1] + Pages[p][n].size
    <3>1. n \in 0 + 1..N /\ n - 1 \in 0..N
      BY <1>1
    <3>2. g[n] = step[n][g[n - 1]]
      BY <2>3, <3>1 DEF Follows
    <3>3. g[n - 1] \in Nat
      BY <3>1
    <3> QED
      BY <2>2, <3>2, <3>3
  <2>5. g = [n \in 0..N |-> IF n = 0 THEN 0 ELSE g[n - 1] + Pages[p][n].size]
    BY <1>1, <2>3, <2>4
  <2> QED
    BY <2>5
<1>3. sum = [n \in 0..N |-> IF n = 0 THEN 0 ELSE sum[n - 1] + Pages[p][n].size]
  BY <1>2, Zenon
<1>4. \A i : Start(p, i) = sum[i - 1]
  BY Zenon DEF Start
<1> HIDE DEF sum
<1>5. Start(p, 1) = 0
  <2>1. Start(p, 1) = sum[1 - 1]
    BY <1>4
  <2>2. sum[0] = 0
    BY <1>1, <1>3
  <2> QED
    BY <2>1, <2>2
<1>6. ASSUME NEW i \in Nodes(p) PROVE Start(p, i + 1) = Start(p, i) + Pages[p][i].size
  <2>1. i \in 0..N /\ i # 0
    BY <1>1 DEF Nodes
  <2>2. Start(p, i) = sum[i - 1]
    BY <1>4
  <2> DEFINE j == i + 1
  <2> HIDE DEF j
  <2>5. Start(p, j) = sum[j - 1]
    BY <1>4
  <2> HIDE DEF N
  <2>3. sum[i] = sum[i - 1] + Pages[p][i].size
    BY <1>3, <2>1
  <2>4. j = i + 1 /\ j - 1 = i
    BY <1>1, <2>1 DEF j
  <2> QED
    BY <2>2, <2>3, <2>4, <2>5
<1> QED
  BY <1>5, <1>6

(* A node does not begin before the page, nor after its end.               *)
LEMMA StartInPage ==
    ASSUME NEW p \in DOMAIN Pages
    PROVE  \A i \in 1..Len(Pages[p]) + 1 : Start(p, i) \in Nat /\ Start(p, i) <= Height(p)
<1> DEFINE N == Len(Pages[p])
           Before == {i \in 1..N + 1 : Start(p, i) \in Nat}
<1>1. N \in Nat /\ \A i \in 1..N : Pages[p][i].size \in Nat
  BY PageType DEF Nodes
<1>2. 1 \in Int /\ N + 1 \in Int
  BY <1>1
<1>3. ASSUME NEW i \in 1..N + 1 - 1
      PROVE  i \in 1..N /\ Start(p, i + 1) = Start(p, i) + Pages[p][i].size
  BY <1>1, StartSums DEF Nodes
<1>4. \A i \in 1..N + 1 : i \in Before
  <2>1. 1 \in Before
    BY <1>1, StartSums
  <2>2. ASSUME NEW i \in 1..N + 1 - 1, i \in Before PROVE i + 1 \in Before
    BY <1>1, <1>3, <2>2
  <2>3. Inductive(Before, 1, N + 1)
    BY <2>2 DEF Inductive
  <2> HIDE DEF Before, N
  <2> QED
    BY <1>2, <2>1, <2>3, UpTo
<1>5. ASSUME NEW i \in 1..N + 1 PROVE Start(p, i) <= Height(p)
  <2> DEFINE Below == {j \in i..N + 1 : Start(p, i) <= Start(p, j)}
  <2>1. i \in Below
    BY <1>1, <1>4
  <2>2. ASSUME NEW j \in i..N + 1 - 1, j \in Below PROVE j + 1 \in Below
    <3>1. j \in 1..N + 1 - 1 /\ j \in 1..N + 1 /\ j + 1 \in i..N + 1
      BY <1>1
    <3>2. Start(p, j + 1) = Start(p, j) + Pages[p][j].size
      BY <1>3, <3>1
    <3>3. Start(p, i) \in Nat /\ Start(p, j) \in Nat /\ Pages[p][j].size \in Nat
      BY <1>1, <1>3, <1>4, <3>1
    <3> QED
      BY <2>2, <3>1, <3>2, <3>3
  <2>3. i \in Int /\ N + 1 \in i..N + 1
    BY <1>1
  <2>4. N + 1 \in Below
    <3>1. Inductive(Below, i, N + 1)
      BY <2>2 DEF Inductive
    <3> HIDE DEF Below, N
    <3> QED
      BY <1>2, <2>1, <2>3, <3>1, UpTo
  <2> QED
    BY <2>4 DEF Height
<1> QED
  BY <1>4, <1>5

(* The links of a page are nodes of it, and links.                         *)
LEMMA LinksAreLinks ==
    ASSUME NEW p \in DOMAIN Pages
    PROVE  /\ Links(p) \in Seq(Nodes(p))
           /\ \A k \in 1..Len(Links(p)) : Pages[p][Links(p)[k]].link
<1> DEFINE N == Len(Pages[p])
           L == {i \in Nodes(p) : Pages[p][i].link}
           links[n \in 0..N] ==
               IF n = 0 THEN <<>>
               ELSE IF Pages[p][n].link THEN Append(links[n - 1], n) ELSE links[n - 1]
           next(n, v) == IF Pages[p][n].link THEN Append(v, n) ELSE v
           step == [n \in 0 + 1..N |-> [v \in Seq(L) |-> next(n, v)]]
<1>1. N \in Nat /\ 0 \in Int /\ N \in Int /\ 0 <= N
  BY PageType
<1>2. ASSUME NEW n \in 1..N, NEW v \in Seq(L) PROVE next(n, v) \in Seq(L)
  <2>1. Pages[p][n].link => n \in L
    BY <1>1 DEF Nodes
  <2> HIDE DEF L
  <2> QED
    BY <2>1
<1>3. \E g : g = [n \in 0..N |->
                    IF n = 0 THEN <<>>
                    ELSE IF Pages[p][n].link THEN Append(g[n - 1], n) ELSE g[n - 1]]
  <2>1. step \in [0 + 1..N -> [Seq(L) -> Seq(L)]]
    <3> HIDE DEF L, N, next
    <3> QED
      BY <1>2
  <2>2. \A n \in 1..N, v \in Seq(L) : step[n][v] = next(n, v)
    <3> HIDE DEF L, N, next
    <3> QED
      OBVIOUS
  <2>3. <<>> \in Seq(L)
    OBVIOUS
  <2> HIDE DEF step, N, L
  <2>4. PICK g \in [0..N -> Seq(L)] : g[0] = <<>> /\ Follows(g, step, 0, N)
    BY <1>1, <2>1, <2>3, Recursion, Zenon
  <2>5. ASSUME NEW n \in 1..N PROVE g[n] = next(n, g[n - 1])
    <3>1. n \in 0 + 1..N /\ n - 1 \in 0..N
      BY <1>1
    <3>2. g[n] = step[n][g[n - 1]]
      BY <2>4, <3>1 DEF Follows
    <3>3. g[n - 1] \in Seq(L)
      BY <3>1
    <3> HIDE DEF next
    <3> QED
      BY <2>2, <3>2, <3>3
  <2>6. g = [n \in 0..N |->
               IF n = 0 THEN <<>>
               ELSE IF Pages[p][n].link THEN Append(g[n - 1], n) ELSE g[n - 1]]
    <3>1. ASSUME NEW n \in 0..N
          PROVE  g[n] = IF n = 0 THEN <<>>
                        ELSE IF Pages[p][n].link THEN Append(g[n - 1], n) ELSE g[n - 1]
      <4>1. n # 0 => n \in 1..N
        BY <1>1
      <4> QED
        BY <4>1, <2>4, <2>5
    <3> QED
      BY <3>1
  <2> QED
    BY <2>6
<1>4. links = [n \in 0..N |->
                 IF n = 0 THEN <<>>
                 ELSE IF Pages[p][n].link THEN Append(links[n - 1], n) ELSE links[n - 1]]
  BY <1>3, Zenon
<1>5. Links(p) = links[N]
  BY Zenon DEF Links
<1> HIDE DEF links
<1> DEFINE Typed == {n \in 0..N : links[n] \in Seq(L)}
<1>6. 0 \in Typed
  <2>1. links[0] = <<>>
    BY <1>1, <1>4
  <2>2. <<>> \in Seq(L) /\ 0 \in 0..N
    BY <1>1
  <2> HIDE DEF L, N
  <2> QED
    BY <2>1, <2>2
<1>7. ASSUME NEW n \in 0..N - 1, n \in Typed PROVE n + 1 \in Typed
  <2> DEFINE m == n + 1
  <2>1. m \in 0..N /\ m \in 1..N /\ m # 0 /\ m - 1 = n
    BY <1>1
  <2> HIDE DEF m, L, N
  <2>2. links[m] = next(m, links[m - 1])
    BY <1>4, <2>1
  <2>3. links[n] \in Seq(L)
    BY <1>7
  <2> HIDE DEF next
  <2>4. links[m] \in Seq(L)
    BY <1>2, <2>1, <2>2, <2>3
  <2> QED
    BY <2>1, <2>4 DEF m
<1>8. Links(p) \in Seq(L)
  <2>1. Inductive(Typed, 0, N)
    BY <1>7 DEF Inductive
  <2>2. N \in Typed
    <3> HIDE DEF Typed, N
    <3> QED
      BY <1>1, <1>6, <2>1, UpTo
  <2> QED
    BY <1>5, <2>2
<1>9. Len(Links(p)) \in Nat /\ \A k \in 1..Len(Links(p)) : Links(p)[k] \in L
  <2> HIDE DEF L
  <2> QED
    BY <1>8
<1>10. Links(p) \in Seq(Nodes(p))
  <2>1. L \subseteq Nodes(p)
    OBVIOUS
  <2> HIDE DEF L
  <2> QED
    BY <1>8, <2>1, SeqMonotonic
<1> QED
  BY <1>9, <1>10

-----------------------------------------------------------------------------
(* The arithmetic of scrolling                                             *)

LEMMA ClampedBounds ==
    ASSUME NEW t \in Int, NEW total \in Nat
    PROVE  /\ Clamped(t, total) \in Nat
           /\ Clamped(t, total) = 0 \/ Clamped(t, total) <= total - Viewport
           /\ Clamped(Clamped(t, total), total) = Clamped(t, total)
           /\ t >= 0 => \/ Clamped(t, total) = t
                        \/ total <= Viewport /\ Clamped(t, total) = 0
                        \/ Clamped(t, total) = total - Viewport /\ Clamped(t, total) < t
  BY ScrollAssumption DEF Clamped

LEMMA QuarterOf == ASSUME NEW n \in Nat PROVE n \div 4 \in Nat /\ 4 * (n \div 4) <= n /\ n < 4 * (n \div 4) + 4
  OBVIOUS

(* A number below zero wraps once; one that fits its word does not.        *)
LEMMA Wraps ==
    ASSUME NEW x \in Int, -Word < x, x < Word
    PROVE  x % Word = IF x < 0 THEN x + Word ELSE x
<1>1. Word \in Nat \ {0}
  BY ScrollAssumption
<1>2. CASE x < 0
  <2>1. x + Word \in 0..Word - 1 /\ x = Word * (-1) + (x + Word)
    BY <1>1, <1>2
  <2> QED
    BY <1>1, <1>2, <2>1
<1>3. CASE x >= 0
  BY <1>1, <1>3
<1> QED
  BY <1>2, <1>3

(* The viewport of the next frame, for a target that did not run far below *)
(* zero: it stays in a quarter of size_t, and between where it is and      *)
(* where it is heading.                                                    *)
LEMMA FilterBounds ==
    ASSUME NEW h \in Nat, 4 * h < Word,
           NEW t \in Int, 4 * t <= Word, -Word <= 4 * t
    PROVE  /\ Filter(h, t) \in Nat
           /\ 4 * Filter(h, t) < Word
           /\ t >= 0 /\ Filter(h, t) = h => h <= t /\ t <= h + 3
           /\ t >= 0 => \A m \in Nat : h <= m /\ t <= m => Filter(h, t) <= m
<1> DEFINE x == h * 3 + t
           w == x % Word
<1>1. Word \in Nat \ {0} /\ Word % 4 = 0
  BY ScrollAssumption
<1>2. x \in Int /\ -Word < x /\ x < Word
  BY <1>1
<1>3. w = IF x < 0 THEN x + Word ELSE x
  BY <1>2, Wraps
<1>4. w \in Nat /\ w < Word /\ (t >= 0 => w = h * 3 + t)
  BY <1>1, <1>2, <1>3
<1> HIDE DEF w
<1>5. PICK q \in Nat : q = w \div 4 /\ 4 * q <= w /\ w < 4 * q + 4
  BY <1>4, QuarterOf
<1>6. Filter(h, t) = q
  BY <1>5 DEF Filter, w
<1> QED
  BY <1>1, <1>4, <1>5, <1>6

-----------------------------------------------------------------------------
(* What the variables hold, and how they fit the page.  Between callbacks, *)
(* and until one aims, the target is one to rest at; while a frame is      *)
(* under way the page is drawn, and the target it will assign, or will use *)
(* if no callback comes between, is inside the document.                   *)
PageInv ==
    /\ TypeOK
    /\ totalHeight = IF rendered THEN Height(page) ELSE 0
    /\ Links(page) # <<>> => selected < Len(Links(page))
    /\ daemon.pc \in {"idle", "aim"} => scrollTarget \in Targets
    /\ draw.pc \in {"assign", "filter"} => rendered
    /\ draw.pc = "assign" => draw.to <= Limit
    /\ draw.pc = "filter" /\ ~draw.stale => 0 <= scrollTarget /\ scrollTarget <= Limit

(* The parts of TypeOK, for the steps that need only some of them.         *)
LEMMA Types ==
    ASSUME TypeOK
    PROVE  /\ page \in DOMAIN Pages /\ rendered \in BOOLEAN
           /\ totalHeight \in Nat /\ scrollHeight \in Nat /\ 4 * scrollHeight < Word
           /\ scrollTarget \in Int /\ -SCROLL_AMOUNT <= scrollTarget /\ 4 * scrollTarget <= Word
           /\ selected \in Nat
           /\ daemon \in [pc : {"idle", "aim", "clamp", "assign"}, to : Targets]
           /\ draw \in [pc : {"frame", "assign", "filter", "draw"}, to : Targets,
                        written : Nat, stale : BOOLEAN]
  BY DEF TypeOK

LEMMA PageFits ==
    ASSUME NEW p \in DOMAIN Pages
    PROVE  /\ Height(p) \in Nat
           /\ 4 * (Height(p) + Padding + SCROLL_AMOUNT) <= Word
           /\ 4 * SCROLL_AMOUNT <= Word
<1>1. Height(p) \in Nat
  BY StartInPage, PageType DEF Height
<1>2. 4 * (Height(p) + Padding + SCROLL_AMOUNT) <= Word
  BY ScrollAssumption
<1> QED
  BY <1>1, <1>2, ScrollAssumption

LEMMA LinkBounds ==
    ASSUME TypeOK, NEW k \in Nat, k < Len(Links(page))
    PROVE  /\ Top(k) \in Targets
           /\ Bottom(k) \in Nat
           /\ rendered => /\ Bottom(k) <= Height(page)
                          /\ Bottom(k) + Padding = Top(k) + Pages[page][Links(page)[k + 1]].size
                          /\ Links(page)[k + 1] \in Nodes(page)
                          /\ Pages[page][Links(page)[k + 1]].link
<1> DEFINE i == Links(page)[k + 1]
<1>1. page \in DOMAIN Pages /\ rendered \in BOOLEAN
  BY Types
<1>2. i \in Nodes(page) /\ Pages[page][i].link
  <2>1. Links(page) \in Seq(Nodes(page))
    BY <1>1, LinksAreLinks
  <2>2. k + 1 \in 1..Len(Links(page))
    BY <2>1
  <2> HIDE DEF Nodes
  <2> QED
    BY <1>1, <2>1, <2>2, LinksAreLinks
<1>3. i \in 1..Len(Pages[page]) + 1 /\ i + 1 \in 1..Len(Pages[page]) + 1
  BY <1>1, <1>2, PageType DEF Nodes
<1>4. /\ Start(page, i) \in Nat
      /\ Start(page, i + 1) \in Nat /\ Start(page, i + 1) <= Height(page)
      /\ Start(page, i + 1) = Start(page, i) + Pages[page][i].size
  BY <1>1, <1>2, <1>3, StartInPage, StartSums
<1>5. /\ Top(k) = Start(page, i) + Padding \/ Top(k) = 0
      /\ rendered => Top(k) = Start(page, i) + Padding
  BY DEF Top
<1>6. /\ Bottom(k) = Start(page, i + 1) \/ Bottom(k) = 0
      /\ rendered => Bottom(k) = Start(page, i + 1)
  BY DEF Bottom
<1>7. Padding \in Nat /\ SCROLL_AMOUNT \in Nat /\ Pages[page][i].size \in Nat
  BY <1>1, <1>2, PageType, ScrollAssumption
<1>9. Start(page, i) <= Height(page)
  BY <1>1, <1>3, StartInPage
<1>10. /\ Height(page) \in Nat /\ Word \in Nat
       /\ 4 * (Height(page) + Padding + SCROLL_AMOUNT) <= Word /\ 4 * SCROLL_AMOUNT <= Word
  BY <1>1, PageFits, ScrollAssumption
<1> HIDE DEF i
<1>8. Top(k) \in Targets
  <2>1. CASE Top(k) = 0
    BY <1>7, <1>10, <2>1 DEF Targets
  <2>2. CASE Top(k) = Start(page, i) + Padding
    BY <1>4, <1>7, <1>9, <1>10, <2>2 DEF Targets
  <2> QED
    BY <1>5, <2>1, <2>2
<1>11. /\ Bottom(k) \in Nat
       /\ rendered => /\ Bottom(k) <= Height(page)
                      /\ Bottom(k) + Padding = Top(k) + Pages[page][i].size
  BY <1>4, <1>5, <1>6, <1>7
<1> QED
  BY <1>2, <1>8, <1>11 DEF i

(* What clamp_scroll_target assigns is a target inside the document.       *)
LEMMA ClampedTarget ==
    ASSUME PageInv
    PROVE  /\ Clamped(scrollTarget, totalHeight) \in Targets
           /\ Clamped(scrollTarget, totalHeight) <= Limit
           /\ Limit \in Nat
           /\ ~Strays(scrollTarget, totalHeight) =>
                  scrollTarget \in Targets /\ scrollTarget <= Limit
<1>1. /\ scrollTarget \in Int /\ totalHeight \in Nat /\ page \in DOMAIN Pages
      /\ totalHeight = 0 \/ totalHeight = Height(page)
  BY Types DEF PageInv
<1>2. /\ Viewport \in Nat /\ Viewport > 0 /\ SCROLL_AMOUNT \in Nat /\ Padding \in Nat /\ Word \in Nat
      /\ Height(page) \in Nat
      /\ 4 * (Height(page) + Padding + SCROLL_AMOUNT) <= Word /\ 4 * SCROLL_AMOUNT <= Word
  BY <1>1, PageFits, ScrollAssumption
<1>3. 4 * (totalHeight + SCROLL_AMOUNT) <= Word
  BY <1>1, <1>2
<1> QED
  BY <1>1, <1>2, <1>3 DEF Clamped, Strays, Limit, Targets

LEMMA PageInvInit == Init => PageInv
<1> SUFFICES ASSUME Init PROVE PageInv
  OBVIOUS
<1>1. Links(page) \in Seq(Nodes(page))
  BY LinksAreLinks DEF Init
<1>2. Links(page) # <<>> => 0 < Len(Links(page))
  <2> HIDE DEF Nodes
  <2> QED
    BY <1>1
<1>3. 0 \in Targets /\ SCROLL_AMOUNT \in Nat /\ Word \in Nat \ {0}
  BY PageFits, ScrollAssumption DEF Init, Targets
<1>4. TypeOK
  <2>1. page \in DOMAIN Pages /\ rendered \in BOOLEAN
    BY DEF Init
  <2>2. /\ totalHeight \in Nat /\ scrollHeight \in Nat /\ scrollTarget \in Int /\ selected \in Nat
        /\ 4 * scrollHeight < Word /\ -SCROLL_AMOUNT <= scrollTarget /\ 4 * scrollTarget <= Word
    BY <1>3 DEF Init
  <2>3. callback \in {"none", "scroll", "select", "early", "lost"}
    BY DEF Init
  <2>4. daemon \in [pc : {"idle", "aim", "clamp", "assign"}, to : Targets]
    BY <1>3, Zenon DEF Init, Idle
  <2>5. draw \in [pc : {"frame", "assign", "filter", "draw"}, to : Targets,
                  written : Nat, stale : BOOLEAN]
    BY <1>3 DEF Init, Frame
  <2> QED
    BY <2>1, <2>2, <2>3, <2>4, <2>5 DEF TypeOK
<1>5. /\ totalHeight = 0 /\ rendered = FALSE /\ selected = 0 /\ scrollTarget = 0
      /\ draw.pc = "frame"
  BY DEF Init, Frame
<1> QED
  BY <1>2, <1>3, <1>4, <1>5 DEF PageInv

LEMMA PageInvStep == PageInv /\ [Next]_vars => PageInv'
<1> SUFFICES ASSUME PageInv, [Next]_vars PROVE PageInv'
  OBVIOUS
<1> DEFINE Daemon == [pc : {"idle", "aim", "clamp", "assign"}, to : Targets]
           Draw == [pc : {"frame", "assign", "filter", "draw"}, to : Targets,
                    written : Nat, stale : BOOLEAN]
           Callbacks == {"none", "scroll", "select", "early", "lost"}
           Near(t) == t \in Int /\ -SCROLL_AMOUNT <= t /\ 4 * t <= Word
           Inside(t) == 0 <= t /\ t <= Limit
<1>1. /\ TypeOK /\ daemon \in Daemon /\ draw \in Draw /\ callback \in Callbacks
      /\ page \in DOMAIN Pages /\ rendered \in BOOLEAN /\ Near(scrollTarget)
      /\ totalHeight \in Nat /\ scrollHeight \in Nat /\ 4 * scrollHeight < Word
      /\ selected \in Nat
  BY Types, Zenon DEF PageInv, TypeOK
<1>2. SCROLL_AMOUNT \in Nat /\ Word \in Nat \ {0} /\ 4 * SCROLL_AMOUNT <= Word /\ 0 \in Targets
  BY <1>1, PageFits, ScrollAssumption DEF Targets
<1>3. Links(page) \in Seq(Nodes(page)) /\ Len(Links(page)) \in Nat
  BY <1>1, LinksAreLinks
<1>4. \A t \in Targets : Near(t) /\ Near(t + SCROLL_AMOUNT) /\ Near(t - SCROLL_AMOUNT)
  BY <1>2 DEF Targets
<1>5. Idle \in Daemon /\ [Idle EXCEPT !.pc = "clamp"] \in Daemon /\ Frame \in Draw
  <2> HIDE DEF Targets
  <2> QED
    BY <1>2 DEF Idle, Frame
(* A step that writes the target in the daemon, or nothing of it.          *)
<1>6. ASSUME UNCHANGED shown, draw' \in Draw, daemon' \in Daemon, callback' \in Callbacks,
             Near(scrollTarget'), selected' \in Nat,
             Links(page) # <<>> => selected' < Len(Links(page)),
             daemon.pc' \in {"idle", "aim"} => scrollTarget' \in Targets,
             draw.pc' = draw.pc, draw.to' = draw.to,
             \/ UNCHANGED <<scrollTarget, draw>>
             \/ draw.pc = "filter" => draw.stale'
      PROVE  PageInv'
  <2>1. TypeOK'
    BY <1>1, <1>6 DEF TypeOK, shown
  <2>2. totalHeight' = IF rendered' THEN Height(page') ELSE 0
    BY <1>6 DEF PageInv, shown
  <2>3. Links(page') # <<>> => selected' < Len(Links(page'))
    BY <1>6 DEF shown
  <2>4. draw.pc' \in {"assign", "filter"} => rendered'
    BY <1>6 DEF PageInv, shown
  <2>5. Limit' = Limit
    BY <1>6 DEF shown, Limit
  <2>6. draw.pc' = "assign" => draw.to' <= Limit'
    BY <1>6, <2>5 DEF PageInv
  <2>7. draw.pc' = "filter" /\ ~draw.stale' => 0 <= scrollTarget' /\ scrollTarget' <= Limit'
    BY <1>6, <2>5 DEF PageInv
  <2> QED
    BY <1>6, <2>1, <2>2, <2>3, <2>4, <2>6, <2>7 DEF PageInv
<1>7. ASSUME NEW t, SetTarget(t)
      PROVE  /\ scrollTarget' = t /\ draw' \in Draw /\ draw.pc' = draw.pc /\ draw.to' = draw.to
             /\ draw.pc = "filter" => draw.stale'
  <2> DEFINE late == draw.pc \in {"assign", "filter"}
  <2>1. scrollTarget' = t /\ draw' = [draw EXCEPT !.stale = late]
    BY <1>7 DEF SetTarget
  <2>2. late \in BOOLEAN /\ (draw.pc = "filter" => late)
    OBVIOUS
  <2> HIDE DEF late, Targets
  <2>3. draw' \in Draw /\ draw.pc' = draw.pc /\ draw.to' = draw.to /\ draw.stale' = late
    BY <1>1, <2>1, <2>2
  <2> QED
    BY <2>1, <2>2, <2>3
<1>8. ASSUME NEW k \in Nat, k < Len(Links(page)), NEW pc \in {"aim", "assign"},
             Select(k, pc), UNCHANGED shown, daemon.pc = "idle"
      PROVE  PageInv'
  <2>1. Top(k) \in Targets
    BY <1>1, <1>8, LinkBounds
  <2>2. [pc |-> pc, to |-> Top(k)] \in Daemon
    <3> HIDE DEF Targets, Top
    <3> QED
      BY <1>8, <2>1
  <2>3. daemon' \in Daemon /\ callback' \in Callbacks /\ selected' = k
    BY <1>5, <1>8, <2>2 DEF Select
  <2>4. UNCHANGED <<scrollTarget, draw>> /\ scrollTarget \in Targets
    BY <1>8 DEF Select, PageInv
  <2> HIDE DEF Daemon, Draw, Callbacks, Near
  <2> QED
    BY <1>1, <1>6, <1>8, <2>3, <2>4
<1> HIDE DEF Daemon, Draw, Callbacks, Near
<1>9. ASSUME NEW d \in Int, d = SCROLL_AMOUNT \/ d = -SCROLL_AMOUNT, daemon.pc = "idle",
             SetTarget(scrollTarget + d), daemon' = [Idle EXCEPT !.pc = "clamp"],
             callback' = "scroll", UNCHANGED selected, UNCHANGED shown
      PROVE  PageInv'
  <2>1. Near(scrollTarget + d)
    <3>1. scrollTarget \in Targets
      BY <1>9 DEF PageInv
    <3> QED
      BY <1>2, <1>9, <3>1 DEF Near, Targets
  <2>2. daemon' \in Daemon /\ daemon.pc' = "clamp"
    BY <1>5, <1>9 DEF Idle
  <2>3. callback' \in Callbacks
    BY <1>9 DEF Callbacks
  <2>4. Links(page) # <<>> => selected' < Len(Links(page))
    BY <1>9 DEF PageInv
  <2>5. selected' \in Nat
    BY <1>1, <1>9
  <2>6. /\ scrollTarget' = scrollTarget + d /\ draw' \in Draw /\ draw.pc' = draw.pc
        /\ draw.to' = draw.to /\ (draw.pc = "filter" => draw.stale')
    BY <1>7, <1>9
  <2> QED
    BY <1>6, <1>9, <2>1, <2>2, <2>3, <2>4, <2>5, <2>6
<1>10. CASE SelectNext
  <2>1. CASE Links(page) = <<>> \/ selected >= Len(Links(page)) - 1
    BY <1>2, <1>9, <1>10, <2>1 DEF SelectNext
  <2>2. CASE ~(Links(page) = <<>> \/ selected >= Len(Links(page)) - 1)
    <3>1. selected + 1 \in Nat /\ selected + 1 < Len(Links(page))
      BY <1>1, <1>3, <2>2
    <3>2. Select(selected + 1, "aim") /\ UNCHANGED shown /\ daemon.pc = "idle"
      BY <1>10, <2>2, Zenon DEF SelectNext
    <3> QED
      BY <1>8, <3>1, <3>2
  <2> QED
    BY <2>1, <2>2
<1>11. CASE SelectPrev
  <2>1. CASE Links(page) = <<>> \/ selected = 0
    <3>1. scrollTarget - SCROLL_AMOUNT = scrollTarget + (-SCROLL_AMOUNT)
      BY <1>1, <1>2 DEF Near
    <3> QED
      BY <1>2, <1>9, <1>11, <2>1, <3>1 DEF SelectPrev
  <2>2. CASE ~(Links(page) = <<>> \/ selected = 0)
    <3>1. selected - 1 \in Nat /\ selected - 1 < Len(Links(page))
      BY <1>1, <1>3, <2>2 DEF PageInv
    <3>2. Select(selected - 1, "assign") /\ UNCHANGED shown /\ daemon.pc = "idle"
      BY <1>11, <2>2, Zenon DEF SelectPrev
    <3> QED
      BY <1>8, <3>1, <3>2
  <2> QED
    BY <2>1, <2>2
<1>12. CASE Aim
  <2>1. daemon.to \in Targets /\ daemon' \in Daemon /\ daemon.pc' = "clamp"
    BY <1>1, <1>5, <1>12 DEF Aim, Idle, Daemon
  <2>2. Near(scrollTarget') /\ scrollTarget' = daemon.to
    BY <1>4, <1>7, <1>12, <2>1 DEF Aim
  <2> QED
    BY <1>1, <1>6, <1>7, <1>12, <2>1, <2>2 DEF Aim, PageInv
<1>13. CASE ClampTest
  <2>1. /\ UNCHANGED <<scrollTarget, draw, selected, callback, shown>>
        /\ daemon' = IF Strays(scrollTarget, totalHeight)
                     THEN [pc |-> "assign", to |-> Clamped(scrollTarget, totalHeight)]
                     ELSE Idle
    BY <1>13, Zenon DEF ClampTest
  <2>2. CASE Strays(scrollTarget, totalHeight)
    <3>1. Clamped(scrollTarget, totalHeight) \in Targets
      BY ClampedTarget
    <3>2. daemon' = [pc |-> "assign", to |-> Clamped(scrollTarget, totalHeight)]
      BY <2>1, <2>2
    <3> HIDE DEF Clamped, Targets
    <3>3. daemon' \in Daemon /\ daemon.pc' = "assign"
      BY <3>1, <3>2 DEF Daemon
    <3> QED
      BY <1>1, <1>6, <2>1, <3>3 DEF PageInv
  <2>3. CASE ~Strays(scrollTarget, totalHeight)
    <3>1. scrollTarget \in Targets
      BY <2>3, ClampedTarget
    <3>2. daemon' \in Daemon
      BY <1>5, <2>1, <2>3
    <3> QED
      BY <1>1, <1>6, <2>1, <3>1, <3>2 DEF PageInv
  <2> QED
    BY <2>2, <2>3
<1>14. CASE Assign
  <2>1. daemon.to \in Targets /\ daemon' \in Daemon
    BY <1>1, <1>5, <1>14 DEF Assign, Daemon
  <2>2. Near(scrollTarget') /\ scrollTarget' = daemon.to
    BY <1>4, <1>7, <1>14, <2>1 DEF Assign
  <2> QED
    BY <1>1, <1>6, <1>7, <1>14, <2>1, <2>2 DEF Assign, PageInv
<1>15. CASE BeginFrame
  <2>1. UNCHANGED <<scrollTarget, selected, daemon, callback, shown>>
    BY <1>15 DEF BeginFrame
  <2>2. ASSUME draw' \in Draw, draw.pc' \in {"assign", "filter"} => rendered,
               draw.pc' = "assign" => draw.to' <= Limit,
               draw.pc' = "filter" => 0 <= scrollTarget /\ scrollTarget <= Limit
        PROVE  PageInv'
    <3>1. TypeOK'
      BY <1>1, <2>1, <2>2 DEF TypeOK, Daemon, Draw, Callbacks, Near, shown
    <3>2. Limit' = Limit
      BY <2>1 DEF shown, Limit
    <3> QED
      BY <2>1, <2>2, <3>1, <3>2 DEF PageInv, shown
  <2>3. CASE ~rendered
    <3>1. draw' = [Frame EXCEPT !.pc = "draw"]
      BY <1>15, <2>3 DEF BeginFrame
    <3>2. draw' \in Draw /\ draw.pc' = "draw"
      BY <1>5, <3>1 DEF Draw, Frame
    <3> QED
      BY <2>2, <3>2
  <2>4. CASE rendered /\ Strays(scrollTarget, totalHeight)
    <3>1. draw' = [Frame EXCEPT !.pc = "assign", !.to = Clamped(scrollTarget, totalHeight)]
      BY <1>15, <2>4 DEF BeginFrame
    <3>2. Clamped(scrollTarget, totalHeight) \in Targets /\ Clamped(scrollTarget, totalHeight) <= Limit
      BY ClampedTarget
    <3> HIDE DEF Clamped, Targets
    <3>3. draw' \in Draw /\ draw.pc' = "assign" /\ draw.to' = Clamped(scrollTarget, totalHeight)
      BY <1>5, <3>1, <3>2 DEF Draw, Frame
    <3> QED
      BY <2>2, <2>4, <3>2, <3>3
  <2>5. CASE rendered /\ ~Strays(scrollTarget, totalHeight)
    <3>1. draw' = [Frame EXCEPT !.pc = "filter"]
      BY <1>15, <2>5 DEF BeginFrame
    <3>2. draw' \in Draw /\ draw.pc' = "filter"
      BY <1>5, <3>1 DEF Draw, Frame
    <3>3. 0 <= scrollTarget /\ scrollTarget <= Limit
      BY <2>5, ClampedTarget DEF Targets
    <3> QED
      BY <2>2, <2>5, <3>2, <3>3
  <2> QED
    BY <1>1, <2>3, <2>4, <2>5
<1>16. CASE FrameAssign
  <2>1. /\ UNCHANGED <<selected, daemon, shown>> /\ draw.pc = "assign"
        /\ scrollTarget' = draw.to /\ draw' = [draw EXCEPT !.pc = "filter"]
    BY <1>16 DEF FrameAssign
  <2>2. draw.to \in Targets /\ draw.to <= Limit /\ rendered
    BY <1>1, <2>1 DEF PageInv, Draw
  <2>3. draw' \in Draw /\ draw.pc' = "filter"
    BY <1>1, <2>1 DEF Draw
  <2>4. callback' \in Callbacks
    BY <1>1, <1>16 DEF FrameAssign, Callbacks
  <2>5. Near(scrollTarget')
    BY <1>4, <2>1, <2>2
  <2>6. TypeOK'
    BY <1>1, <2>1, <2>3, <2>4, <2>5 DEF TypeOK, Daemon, Draw, Callbacks, Near, shown
  <2>7. Limit' = Limit /\ 0 <= draw.to
    BY <2>1, <2>2 DEF shown, Limit, Targets
  <2> QED
    BY <2>1, <2>2, <2>3, <2>6, <2>7 DEF PageInv, shown
<1>17. CASE FrameFilter
  <2>1. /\ UNCHANGED <<page, rendered, totalHeight, scrollTarget, selected, daemon, callback>>
        /\ scrollHeight' = Filter(scrollHeight, scrollTarget) /\ draw' = Frame
    BY <1>17 DEF FrameFilter
  <2>2. Filter(scrollHeight, scrollTarget) \in Nat /\ 4 * Filter(scrollHeight, scrollTarget) < Word
    <3>1. /\ scrollTarget \in Int /\ 4 * scrollTarget <= Word /\ -Word <= 4 * scrollTarget
          /\ scrollHeight \in Nat /\ 4 * scrollHeight < Word
      BY <1>1, <1>2 DEF Near
    <3> QED
      BY <3>1, FilterBounds
  <2>3. TypeOK'
    BY <1>1, <1>5, <2>1, <2>2 DEF TypeOK, Daemon, Draw, Callbacks, Near
  <2>4. draw.pc' = "frame"
    BY <2>1 DEF Frame
  <2> QED
    BY <2>1, <2>3, <2>4 DEF PageInv
<1>18. CASE DrawNode
  <2>1. draw' = [draw EXCEPT !.written = @ + 1] /\ draw.pc = "draw"
        /\ UNCHANGED <<scrollTarget, selected, daemon, callback, shown>>
    BY <1>18 DEF DrawNode
  <2>2. draw' \in Draw /\ draw.pc' = "draw"
    BY <1>1, <2>1 DEF Draw
  <2>3. TypeOK'
    BY <1>1, <2>1, <2>2 DEF TypeOK, Daemon, Draw, Callbacks, Near, shown
  <2> QED
    BY <2>1, <2>2, <2>3 DEF PageInv, shown
<1>19. CASE FirstFrame
  <2>1. /\ UNCHANGED <<page, scrollHeight, scrollTarget, selected, daemon, callback>>
        /\ totalHeight' = Height(page) /\ rendered' = TRUE /\ draw' = Frame
    BY <1>19 DEF FirstFrame
  <2>2. Height(page) \in Nat
    BY <1>1, PageFits
  <2>3. TypeOK'
    BY <1>1, <1>5, <2>1, <2>2 DEF TypeOK, Daemon, Draw, Callbacks, Near
  <2>4. draw.pc' = "frame"
    BY <2>1 DEF Frame
  <2> QED
    BY <2>1, <2>3, <2>4 DEF PageInv
<1>20. CASE Load
  <2>1. /\ draw.pc = "frame" /\ page' \in DOMAIN Pages /\ selected < Len(Links(page'))
        /\ rendered' = FALSE /\ totalHeight' = 0 /\ callback' = "none"
        /\ UNCHANGED <<scrollHeight, scrollTarget, selected, daemon, draw>>
    BY <1>20 DEF Load
  <2>2. TypeOK'
    BY <1>1, <2>1 DEF TypeOK, Daemon, Draw, Near
  <2> QED
    BY <2>1, <2>2 DEF PageInv
<1>21. CASE UNCHANGED vars
  <2>1. TypeOK' /\ Limit' = Limit
    BY <1>1, <1>21 DEF vars, TypeOK, Daemon, Draw, Callbacks, Near, Limit
  <2> QED
    BY <1>21, <2>1 DEF vars, PageInv
<1> QED
  BY <1>10, <1>11, <1>12, <1>13, <1>14, <1>15, <1>16, <1>17, <1>18, <1>19, <1>20, <1>21
     DEF Next, Callback, Render

(* Every variable holds values of its type, whatever is pressed or loaded  *)
(* while a frame is under way: the unsigned height may run below zero and  *)
(* come out at the end of a quarter of size_t, and the filter still does   *)
(* not overflow.                                                           *)
THEOREM ScrollTypeCorrect == Spec => []TypeOK
<1>1. PageInv => TypeOK
  BY DEF PageInv
<1> QED
  BY <1>1, PageInvInit, PageInvStep, PTL DEF Spec

(* A viewport inside the document stays inside until another page is       *)
(* loaded, through every frame into which no callback comes: Filter stays  *)
(* between where it is and where it is heading, and both are inside        *)
(* (3ml_renderer.cpp:16-25, 247-250).                                      *)
THEOREM ScrollStaysInDocument == Spec => StaysInDocument
<1> DEFINE Stays ==
               rendered /\ page' = page /\ rendered' /\ ~draw.stale /\ scrollHeight <= Limit
                   => scrollHeight' <= Limit
<1>1. PageInv /\ [Next]_vars => Stays
  <2> SUFFICES ASSUME PageInv, [Next]_vars, rendered, ~draw.stale, scrollHeight <= Limit
               PROVE  scrollHeight' <= Limit
    OBVIOUS
  <2>1. CASE FrameFilter
    <3>1. 0 <= scrollTarget /\ scrollTarget <= Limit
      BY <2>1 DEF FrameFilter, PageInv
    <3>2. Limit \in Nat
      BY ClampedTarget
    <3>3. /\ scrollHeight \in Nat /\ 4 * scrollHeight < Word
          /\ scrollTarget \in Int /\ 4 * scrollTarget <= Word
      BY Types DEF PageInv
    <3>4. -Word <= 4 * scrollTarget
      BY <3>1, <3>3, ScrollAssumption
    <3> HIDE DEF Limit
    <3>5. Filter(scrollHeight, scrollTarget) <= Limit
      BY <3>1, <3>2, <3>3, <3>4, FilterBounds
    <3> QED
      BY <2>1, <3>5 DEF FrameFilter
  <2>2. CASE Callback \/ BeginFrame \/ FrameAssign \/ DrawNode \/ FirstFrame \/ Load \/ UNCHANGED vars
    <3>1. scrollHeight' = scrollHeight
      BY <2>2 DEF Callback, SelectNext, SelectPrev, Aim, ClampTest, Assign, BeginFrame,
                  FrameAssign, DrawNode, FirstFrame, Load, vars, shown
    <3> QED
      BY <3>1
  <2> QED
    BY <2>1, <2>2 DEF Next, Render
<1> QED
  BY <1>1, PageInvInit, PageInvStep, PTL DEF Spec, StaysInDocument
-----------------------------------------------------------------------------
(* The selected link                                                       *)

(* No link is taller than the viewport: a taller one cannot be in it.      *)
LinksFit ==
    \A p \in DOMAIN Pages, i \in Int :
        i \in Nodes(p) /\ Pages[p][i].link => Pages[p][i].size <= Viewport + Padding

(* Where the target clamps to is where the top of the selected link does.  *)
Aims(t) == Clamped(t, totalHeight) = Clamped(Top(selected), totalHeight)

(* After a selection from rest either the viewport rests and shows the     *)
(* link, or the callback is about to set a target that aims at the link,   *)
(* or it has set one.                                                      *)
Shown == daemon.pc = "idle" /\ ~draw.stale /\ IsVisible(selected) /\ Resting
Pending == daemon.pc \in {"aim", "assign"} /\ Aims(daemon.to)
Settling == daemon.pc \in {"idle", "clamp"} /\ Aims(scrollTarget)

SelectionInv ==
    /\ PageInv
    /\ draw.pc = "draw" => ~rendered
    /\ draw.pc = "assign" /\ ~draw.stale => draw.to = Clamped(scrollTarget, totalHeight)
    /\ callback = "select" =>
           /\ rendered /\ selected < Len(Links(page))
           /\ Shown \/ Pending \/ Settling

LEMMA ShownWhenAimed ==
    ASSUME LinksFit, SelectionInv
    PROVE  SelectedVisible
<1> SUFFICES ASSUME callback = "select", daemon.pc = "idle", Resting
             PROVE  Top(selected) >= scrollHeight /\ Bottom(selected) <= scrollHeight + Viewport + 3
  BY DEF SelectedVisible, InView
<1>1. /\ PageInv /\ TypeOK
      /\ rendered /\ selected < Len(Links(page)) /\ (IsVisible(selected) \/ Aims(scrollTarget))
  BY DEF SelectionInv, PageInv, Shown, Pending, Settling
<1>2. /\ page \in DOMAIN Pages /\ selected \in Nat /\ scrollHeight \in Nat /\ 4 * scrollHeight < Word
      /\ totalHeight \in Nat /\ scrollTarget \in Int
      /\ Viewport \in Nat /\ Padding \in Nat
  BY <1>1, Types, ScrollAssumption
<1> DEFINE top == Top(selected)
           bottom == Bottom(selected)
           size == Pages[page][Links(page)[selected + 1]].size
           target == Clamped(scrollTarget, totalHeight)
<1>3. /\ top \in Targets /\ bottom \in Nat /\ bottom <= Height(page)
      /\ bottom + Padding = top + size
      /\ Links(page)[selected + 1] \in Nodes(page) /\ Pages[page][Links(page)[selected + 1]].link
  BY <1>1, <1>2, LinkBounds
<1>4. size \in Nat /\ size <= Viewport + Padding
  BY <1>2, <1>3, PageType DEF LinksFit, Nodes
<1>8. top \in Nat /\ bottom <= totalHeight
  BY <1>1, <1>3 DEF Targets, PageInv
<1>5. target \in Nat /\ scrollHeight <= target /\ target <= scrollHeight + 3
  <2>1. target \in Nat /\ 4 * target <= Word /\ -Word <= 4 * target
    BY <1>1, ClampedTarget, ScrollAssumption DEF Targets
  <2>2. Filter(scrollHeight, target) = scrollHeight
    BY DEF Resting
  <2> HIDE DEF target
  <2> QED
    BY <1>2, <2>1, <2>2, FilterBounds
<1>6. CASE IsVisible(selected)
  BY <1>2, <1>3, <1>6 DEF IsVisible
<1>7. CASE Aims(scrollTarget)
  <2>1. target = Clamped(top, totalHeight)
    BY <1>7 DEF Aims
  <2> HIDE DEF top, bottom, size, target
  <2>2. \/ target = top
        \/ totalHeight <= Viewport /\ target = 0
        \/ target = totalHeight - Viewport /\ target < top
    BY <1>2, <1>8, <2>1, ScrollAssumption DEF Clamped
  <2>3. top >= scrollHeight /\ bottom <= scrollHeight + Viewport + 3
    BY <1>2, <1>3, <1>4, <1>5, <1>8, <2>2
  <2> QED
    BY <2>3 DEF top, bottom
<1> QED
  BY <1>1, <1>6, <1>7

LEMMA SelectionInvStep == SelectionInv /\ [Next]_vars => SelectionInv'
<1> SUFFICES ASSUME SelectionInv, [Next]_vars PROVE SelectionInv'
  OBVIOUS
<1> DEFINE C(t) == Clamped(t, totalHeight)
<1>1. PageInv /\ PageInv' /\ TypeOK
  BY PageInvStep DEF SelectionInv, PageInv
<1>2. /\ totalHeight \in Nat /\ scrollTarget \in Int /\ selected \in Nat
      /\ daemon \in [pc : {"idle", "aim", "clamp", "assign"}, to : Targets]
      /\ draw \in [pc : {"frame", "assign", "filter", "draw"}, to : Targets,
                   written : Nat, stale : BOOLEAN]
      /\ page \in DOMAIN Pages
  BY <1>1, Types
<1>3. Len(Links(page)) \in Nat
  BY <1>2, LinksAreLinks
<1>4. \A t \in Int : C(C(t)) = C(t)
  BY <1>2, ClampedBounds
(* The frame's part of the invariant.                                      *)
<1>5. /\ draw.pc' = "draw" => ~rendered'
      /\ draw.pc' = "assign" /\ ~draw.stale' => draw.to' = Clamped(scrollTarget', totalHeight')
  <2>1. ASSUME NEW t, SetTarget(t), UNCHANGED shown
        PROVE  /\ draw.pc' = draw.pc /\ rendered' = rendered
               /\ draw.pc' = "assign" => draw.stale'
    BY <1>2, <2>1 DEF SetTarget, shown
  <2>2. ASSUME UNCHANGED <<scrollTarget, draw, rendered, totalHeight>>
        PROVE  /\ draw.pc' = "draw" => ~rendered'
               /\ draw.pc' = "assign" /\ ~draw.stale' => draw.to' = Clamped(scrollTarget', totalHeight')
    BY <2>2 DEF SelectionInv
  <2>3. CASE SelectNext
    BY <2>1, <2>2, <2>3 DEF SelectNext, Select, SelectionInv, shown
  <2>4. CASE SelectPrev
    BY <2>1, <2>2, <2>4 DEF SelectPrev, Select, SelectionInv, shown
  <2>5. CASE Aim \/ Assign
    BY <2>1, <2>5 DEF Aim, Assign, SelectionInv
  <2>6. CASE ClampTest \/ UNCHANGED vars
    BY <2>2, <2>6 DEF ClampTest, vars, shown
  <2>7. CASE BeginFrame
    <3>1. UNCHANGED <<scrollTarget, rendered, totalHeight>>
      BY <2>7 DEF BeginFrame, shown
    <3>2. CASE ~rendered
      BY <2>7, <3>1, <3>2 DEF BeginFrame, Frame
    <3>3. CASE rendered /\ Strays(scrollTarget, totalHeight)
      <4>1. draw' = [Frame EXCEPT !.pc = "assign", !.to = C(scrollTarget)]
        BY <2>7, <3>3 DEF BeginFrame
      <4> HIDE DEF C
      <4>2. draw.pc' = "assign" /\ draw.to' = C(scrollTarget)
        BY <4>1 DEF Frame
      <4> QED
        BY <3>1, <4>2 DEF C
    <3>4. CASE rendered /\ ~Strays(scrollTarget, totalHeight)
      BY <2>7, <3>1, <3>4 DEF BeginFrame, Frame
    <3> QED
      BY <3>2, <3>3, <3>4
  <2>8. CASE FrameAssign
    BY <1>2, <2>8 DEF FrameAssign
  <2>9. CASE FrameFilter \/ FirstFrame
    BY <2>9 DEF FrameFilter, FirstFrame, Frame
  <2>10. CASE DrawNode
    BY <1>2, <2>10 DEF DrawNode, SelectionInv, shown
  <2>11. CASE Load
    BY <2>11 DEF Load
  <2> QED
    BY <2>3, <2>4, <2>5, <2>6, <2>7, <2>8, <2>9, <2>10, <2>11 DEF Next, Callback, Render
<1> SUFFICES ASSUME callback' = "select"
             PROVE  rendered' /\ selected' < Len(Links(page))' /\ (Shown' \/ Pending' \/ Settling')
  BY <1>1, <1>5 DEF SelectionInv
<1>6. ASSUME NEW k \in Nat, k < Len(Links(page)), NEW pc \in {"aim", "assign"},
             Select(k, pc), UNCHANGED shown
      PROVE  rendered' /\ selected' < Len(Links(page))' /\ (Shown' \/ Pending')
  <2>1. /\ Resting /\ ~draw.stale /\ selected' = k
        /\ daemon' = IF IsVisible(k) THEN Idle ELSE [pc |-> pc, to |-> Top(k)]
        /\ UNCHANGED <<scrollTarget, draw, page, rendered, totalHeight, scrollHeight>>
    BY <1>6 DEF Select, shown
  <2>2. rendered
    BY <2>1 DEF Resting
  <2>3. Top(selected)' = Top(k) /\ IsVisible(selected)' = IsVisible(k) /\ Resting'
    BY <2>1 DEF Top, Bottom, IsVisible, Resting
  <2>4. Links(page)' = Links(page)
    BY <2>1
  <2>5. CASE IsVisible(k)
    BY <1>6, <2>1, <2>2, <2>3, <2>4, <2>5 DEF Shown, Idle
  <2>6. CASE ~IsVisible(k)
    <3>1. daemon.pc' = pc /\ daemon.to' = Top(k)
      BY <2>1, <2>6
    <3>2. Aims(daemon.to)'
      BY <2>1, <2>3, <3>1 DEF Aims
    <3> QED
      BY <1>6, <2>1, <2>2, <2>4, <3>1, <3>2 DEF Pending
  <2> QED
    BY <2>5, <2>6
<1>7. CASE SelectNext
  <2>1. ~(Links(page) = <<>> \/ selected >= Len(Links(page)) - 1)
    BY <1>7 DEF SelectNext
  <2>2. Select(selected + 1, "aim") /\ UNCHANGED shown
    BY <1>7, <2>1, Zenon DEF SelectNext
  <2>3. selected + 1 \in Nat /\ selected + 1 < Len(Links(page))
    BY <1>2, <1>3, <2>1
  <2> QED
    BY <1>6, <2>2, <2>3
<1>8. CASE SelectPrev
  <2>1. ~(Links(page) = <<>> \/ selected = 0)
    BY <1>8 DEF SelectPrev
  <2>2. Select(selected - 1, "assign") /\ UNCHANGED shown
    BY <1>8, <2>1, Zenon DEF SelectPrev
  <2>3. selected - 1 \in Nat /\ selected - 1 < Len(Links(page))
    BY <1>1, <1>2, <1>3, <2>1 DEF PageInv
  <2> QED
    BY <1>6, <2>2, <2>3
(* The other steps find a selection and leave it.                          *)
<1>9. ASSUME UNCHANGED <<callback, page, rendered, totalHeight, selected>>
      PROVE  /\ rendered' /\ selected' < Len(Links(page))' /\ rendered /\ selected < Len(Links(page))
             /\ Shown \/ Pending \/ Settling
             /\ Top(selected)' = Top(selected) /\ Bottom(selected)' = Bottom(selected)
             /\ \A t, u : Aims(t) /\ C(u) = C(t) => Clamped(u, totalHeight')
                                                       = Clamped(Top(selected)', totalHeight')
  <2>1. callback = "select" /\ rendered /\ selected < Len(Links(page)) /\ (Shown \/ Pending \/ Settling)
    BY <1>9 DEF SelectionInv
  <2>2. Top(selected)' = Top(selected) /\ Bottom(selected)' = Bottom(selected)
    BY <1>9, <2>1 DEF Top, Bottom
  <2> HIDE DEF Shown, Pending, Settling
  <2>3. \A t, u : Aims(t) /\ C(u) = C(t) => Clamped(u, totalHeight')
                                              = Clamped(Top(selected)', totalHeight')
    BY <1>9, <2>2, Zenon DEF Aims
  <2> QED
    BY <1>9, <2>1, <2>2, <2>3
<1>10. CASE Aim
  <2>1. /\ daemon.pc = "aim" /\ scrollTarget' = daemon.to /\ daemon.pc' = "clamp"
        /\ UNCHANGED <<callback, page, rendered, totalHeight, selected>>
    BY <1>10 DEF Aim, SetTarget, Idle, shown
  <2>2. Aims(daemon.to)
    BY <1>9, <2>1 DEF Shown, Pending, Settling
  <2>3. Aims(scrollTarget)'
    BY <1>9, <2>1, <2>2 DEF Aims
  <2> QED
    BY <1>9, <2>1, <2>3 DEF Settling
<1>11. CASE Assign
  <2>1. /\ daemon.pc = "assign" /\ scrollTarget' = daemon.to /\ daemon.pc' = "idle"
        /\ UNCHANGED <<callback, page, rendered, totalHeight, selected>>
    BY <1>11 DEF Assign, SetTarget, Idle, shown
  <2>2. Aims(daemon.to)
    BY <1>9, <2>1 DEF Shown, Pending, Settling
  <2>3. Aims(scrollTarget)'
    BY <1>9, <2>1, <2>2 DEF Aims
  <2> QED
    BY <1>9, <2>1, <2>3 DEF Settling
<1>12. CASE ClampTest
  <2>1. /\ daemon.pc = "clamp"
        /\ UNCHANGED <<scrollTarget, callback, page, rendered, totalHeight, selected>>
        /\ daemon' = IF Strays(scrollTarget, totalHeight)
                     THEN [pc |-> "assign", to |-> C(scrollTarget)] ELSE Idle
    BY <1>12, Zenon DEF ClampTest, shown
  <2>2. Aims(scrollTarget)
    BY <1>9, <2>1 DEF Shown, Pending, Settling
  <2>3. CASE Strays(scrollTarget, totalHeight)
    <3>1. daemon.pc' = "assign" /\ daemon.to' = C(scrollTarget)
      <4> HIDE DEF C
      <4> QED
        BY <2>1, <2>3
    <3>2. Aims(daemon.to)'
      <4>1. C(C(scrollTarget)) = C(scrollTarget)
        BY <1>2, <1>4
      <4>2. Clamped(C(scrollTarget), totalHeight') = Clamped(Top(selected)', totalHeight')
        BY <1>9, <2>1, <2>2, <4>1, Zenon
      <4> HIDE DEF C
      <4> QED
        BY <3>1, <4>2 DEF Aims
    <3> QED
      BY <1>9, <2>1, <3>1, <3>2 DEF Pending
  <2>4. CASE ~Strays(scrollTarget, totalHeight)
    <3>1. daemon.pc' = "idle" /\ scrollTarget' = scrollTarget
      BY <2>1, <2>4 DEF Idle
    <3>2. Aims(scrollTarget)'
      BY <1>9, <2>1, <2>2, <3>1 DEF Aims
    <3> QED
      BY <1>9, <2>1, <3>1, <3>2 DEF Settling
  <2> QED
    BY <2>3, <2>4
(* A frame moves the target only to what it clamps to, and the viewport    *)
(* only when it does not rest.                                             *)
<1>13. ASSUME UNCHANGED <<callback, page, rendered, totalHeight, selected, daemon>>,
              C(scrollTarget') = C(scrollTarget),
              Shown => scrollHeight' = scrollHeight /\ ~draw.stale'
       PROVE  rendered' /\ selected' < Len(Links(page))' /\ (Shown' \/ Pending' \/ Settling')
  <2>1. CASE Shown
    <3>1. IsVisible(selected)'
      BY <1>9, <1>13, <2>1 DEF Shown, IsVisible
    <3>2. Resting'
      BY <1>13, <2>1 DEF Shown, Resting
    <3> QED
      BY <1>9, <1>13, <2>1, <3>1, <3>2 DEF Shown
  <2>2. CASE Pending
    <3>1. Aims(daemon.to)'
      BY <1>9, <1>13, <2>2 DEF Pending, Aims
    <3> QED
      BY <1>9, <1>13, <2>2, <3>1 DEF Pending
  <2>3. CASE Settling
    <3>1. Aims(scrollTarget)'
      BY <1>9, <1>13, <2>3 DEF Settling, Aims
    <3> QED
      BY <1>9, <1>13, <2>3, <3>1 DEF Settling
  <2> QED
    BY <1>9, <1>13, <2>1, <2>2, <2>3
<1>14. CASE BeginFrame
  <2>1. ~draw.stale'
    BY <1>14 DEF BeginFrame, Frame
  <2>2. UNCHANGED <<callback, page, rendered, totalHeight, selected, daemon, scrollTarget, scrollHeight>>
    BY <1>14 DEF BeginFrame, shown
  <2> QED
    BY <1>13, <2>1, <2>2
<1>15. CASE FrameAssign
  <2>1. /\ UNCHANGED <<page, rendered, totalHeight, selected, daemon, scrollHeight>>
        /\ draw.pc = "assign" /\ scrollTarget' = draw.to /\ draw.stale' = draw.stale
        /\ callback' = IF draw.stale /\ callback = "select" THEN "lost" ELSE callback
    BY <1>2, <1>15 DEF FrameAssign, shown
  <2>2. ~draw.stale /\ callback' = callback
    BY <1>2, <2>1
  <2>3. scrollTarget' = C(scrollTarget)
    BY <2>1, <2>2 DEF SelectionInv
  <2>4. C(scrollTarget') = C(scrollTarget)
    BY <1>2, <1>4, <2>3, Zenon
  <2> QED
    BY <1>13, <2>1, <2>2, <2>4
<1>16. CASE FrameFilter
  <2>1. /\ UNCHANGED <<callback, page, rendered, totalHeight, selected, daemon, scrollTarget>>
        /\ draw.pc = "filter" /\ ~draw.stale' /\ scrollHeight' = Filter(scrollHeight, scrollTarget)
    BY <1>16 DEF FrameFilter, Frame
  <2>2. ASSUME Shown PROVE scrollHeight' = scrollHeight
    <3>1. 0 <= scrollTarget /\ scrollTarget <= Limit
      BY <1>1, <2>1, <2>2 DEF Shown, PageInv
    <3>2. C(scrollTarget) = scrollTarget
      BY <1>2, <3>1, ScrollAssumption DEF Limit, Clamped
    <3> QED
      BY <2>1, <2>2, <3>2 DEF Shown, Resting
  <2> QED
    BY <1>13, <2>1, <2>2
<1>17. CASE DrawNode \/ FirstFrame
  <2>1. UNCHANGED <<callback, page, selected>> /\ draw.pc = "draw"
    BY <1>17 DEF DrawNode, FirstFrame, shown
  <2>2. callback = "select"
    BY <2>1
  <2> QED
    BY <2>1, <2>2 DEF SelectionInv
<1>18. CASE Load
  BY <1>18 DEF Load
<1>19. CASE UNCHANGED vars
  <2>1. /\ UNCHANGED <<callback, page, rendered, totalHeight, selected, daemon, scrollTarget, scrollHeight>>
        /\ draw.stale' = draw.stale
    BY <1>19 DEF vars
  <2> QED
    BY <1>13, <2>1 DEF Shown
<1> QED
  BY <1>7, <1>8, <1>10, <1>11, <1>12, <1>14, <1>15, <1>16, <1>17, <1>18, <1>19
     DEF Next, Callback, Render

(* A link selected while the page was at rest is in the viewport, but for  *)
(* three pixels, whenever the callback has returned and the page is at     *)
(* rest again, on every page whose links are no taller than the viewport   *)
(* (3ml_renderer.h:68-69), if no frame wrote over the callback's target:   *)
(* either it was visible and nothing moves, or the viewport heads for the  *)
(* link's top, or for the end of the page, where the link is visible, too. *)
THEOREM SelectedComesIntoView == LinksFit => (Spec => []SelectedVisible)
<1>1. Init => SelectionInv
  BY PageInvInit DEF Init, SelectionInv, Frame
<1>2. SUFFICES ASSUME LinksFit PROVE Spec => []SelectedVisible
  OBVIOUS
<1>3. SelectionInv => SelectedVisible
  BY <1>2, ShownWhenAimed
<1> QED
  BY <1>1, <1>3, SelectionInvStep, PTL DEF Spec
=============================================================================
