--------------------------- MODULE RendererProofs ---------------------------
(***************************************************************************)
(* Proofs about Renderer for any pages, any links between them and any     *)
(* number of DOM addresses and visited files: whatever the callbacks do to *)
(* a page load, the stack of files keeps its home page, and the draw task  *)
(* owns the DOM it draws.                                                  *)
(*                                                                         *)
(* The argument follows the draw task's program counter.  Only it installs *)
(* and frees DOMs and fills the list, so these agree with each other       *)
(* at each of its statements; the callbacks only take from the stack what  *)
(* leaves the home page on it, and only add to it through the draw task.   *)
(***************************************************************************)
EXTENDS Renderer, SequenceTheorems, TLAPS

Replacing == draw.pc \in {"fill", "push", "free"}

(* Which DOMs are allocated, and when there is one at all.                 *)
Allocated ==
    /\ Replacing => dom # Null /\ live = {dom, draw.old} \ {Null} /\ draw.old # dom
    /\ ~Replacing => live = {dom} \ {Null}
    /\ draw.pc \in {"call", "clear"} => dom # Null
    /\ draw.pc = "open" => (draw.boot <=> dom = Null)
    /\ draw.boot => draw.pc \in {"open", "hung"} \/ Replacing
    /\ draw.boot => draw.add /\ draw.paths = {Home}

(* The list is filled in the order of the page's nodes.                    *)
Listed ==
    /\ dom = Null => list = <<>>
    /\ dom # Null =>
         /\ Len(list) <= Len(Links[doc[dom]])
         /\ draw.pc # "fill" => Len(list) = Len(Links[doc[dom]])
         /\ \A i \in 1..Len(list) : list[i] = [dom |-> dom, href |-> Links[doc[dom]][i]]

(* What a callback under way relies on.                                    *)
Pending ==
    /\ daemon.pc \in {"popped", "requested", "top"} => stack # <<>>
    /\ daemon.pc = "href" /\ daemon.node # Wild => daemon.node.href # NotALink

DrawType ==
    [pc : {"render", "call", "open", "hung", "fill", "push", "free", "clear", "draw"},
     boot : BOOLEAN, add : BOOLEAN, old : DomIds \cup {Null},
     paths : SUBSET (Names \cup {Torn}), refused : {"never", "last", "before"}]

IInv == TypeOK /\ Allocated /\ Listed /\ Pending /\ HistoryRooted
-----------------------------------------------------------------------------
(* Sequences                                                               *)

LEMMA FrontForm ==
    ASSUME NEW S, NEW s \in Seq(S), s # <<>>
    PROVE  /\ Front(s) \in Seq(S) /\ Len(Front(s)) = Len(s) - 1
           /\ \A i \in 1..Len(s) - 1 : Front(s)[i] = s[i]
           /\ Last(s) \in S
<1>1. Len(s) \in Nat \ {0} /\ \A i \in 1..Len(s) - 1 : s[i] \in S
  BY EmptySeq, ElementOfSeq
<1>2. Front(s) = SubSeq(s, 1, Len(s) - 1)
  BY DEF Front
<1>3. Len(s) - 1 \in Int /\ 1 \in Int
  BY <1>1
<1>4. /\ Front(s) \in Seq(S)
      /\ Len(Front(s)) = (IF 1 <= Len(s) - 1 THEN Len(s) - 1 - 1 + 1 ELSE 0)
      /\ \A i \in 1..Len(s) - 1 - 1 + 1 : Front(s)[i] = s[1 + i - 1]
  BY <1>1, <1>2, <1>3
<1>5. Last(s) \in S
  BY <1>1 DEF Last
<1>6. Len(Front(s)) = Len(s) - 1
  <2> DEFINE n == Len(s)
             k == Len(Front(s))
  <2>1. n \in Nat \ {0} /\ k = (IF 1 <= n - 1 THEN n - 1 - 1 + 1 ELSE 0)
    BY <1>1, <1>4
  <2> HIDE DEF n, k
  <2>2. k = n - 1
    BY <2>1
  <2> QED
    BY <2>2 DEF n, k
<1>7. \A i \in 1..Len(s) - 1 : i \in 1..Len(s) - 1 - 1 + 1 /\ 1 + i - 1 = i
  BY <1>1
<1>8. \A i \in 1..Len(s) - 1 : Front(s)[i] = s[i]
  BY <1>4, <1>7
<1> QED
  BY <1>4, <1>5, <1>6, <1>8

(* The links of a page that is shown.                                      *)
LEMMA LinksForm ==
    ASSUME TypeOK, dom # Null
    PROVE  /\ dom \in DomIds /\ doc[dom] \in Files
           /\ Links[doc[dom]] \in Seq(Names \cup {NotALink})
BY PageAssumption DEF TypeOK

(* A fault leaves the firmware as it was at first.                         *)
LEMMA PanicInv ==
    ASSUME Panic
    PROVE  TypeOK' /\ Allocated' /\ Listed' /\ Pending' /\ HistoryRooted'
<1>1. TypeOK'
  <2>1. spoiled' \in BOOLEAN /\ mustReload' \in BOOLEAN /\ goingBack' \in BOOLEAN
    BY DEF Panic
  <2>2. list' \in Seq(Node) /\ stack' \in Seq(Names \cup {Torn})
    BY EmptySeq DEF Panic
  <2>3. draw' \in DrawType
    BY PageAssumption DEF Panic, Booting, DrawType
  <2> QED
    BY <2>1, <2>2, <2>3, PageAssumption DEF Panic, TypeOK, Idle, DrawType
<1>2. Allocated' /\ Listed' /\ Pending' /\ HistoryRooted'
  BY DEF Panic, Allocated, Listed, Pending, HistoryRooted, Replacing, Booting, Idle
<1> QED
  BY <1>1, <1>2

(* Names and paths.                                                        *)
LEMMA PathForm ==
    ASSUME TypeOK, Allocated
    PROVE  Path \subseteq Names \cup {Torn} /\ (draw.boot => Path = {Home})
BY PageAssumption DEF TypeOK, Allocated, Path

(* A name that is assigned may change what load_file reads, and no more.   *)
LEMMA AssignForm ==
    ASSUME TypeOK, NEW f \in Names \cup {Torn}, Assign(f)
    PROVE  /\ file' = f /\ draw' \in DrawType
           /\ draw'.pc = draw.pc /\ draw'.boot = draw.boot /\ draw'.add = draw.add
           /\ draw'.old = draw.old /\ draw'.refused = draw.refused
           /\ draw.boot \/ draw.pc \notin {"open", "fill", "push"} => draw' = draw
<1>1. draw \in DrawType
  BY DEF TypeOK, DrawType
<1>2. file' = f
  BY DEF Assign
<1>3. CASE draw' = draw
  BY <1>1, <1>2, <1>3
<1>4. CASE ~draw.boot /\ draw.pc \in {"open", "fill", "push"}
  <2>1. PICK P : P = draw.paths \cup {f, Torn}
    OBVIOUS
  <2>2. P \in SUBSET (Names \cup {Torn})
    BY <1>1, <2>1 DEF DrawType
  <2>3. draw' = [draw EXCEPT !.paths = P]
    BY <1>4, <2>1 DEF Assign
  <2> QED
    BY <1>1, <1>2, <1>4, <2>2, <2>3 DEF DrawType
<1> QED
  BY <1>3, <1>4 DEF Assign

(* What a callback assigns is a name.                                      *)
LEMMA Assigned ==
    ASSUME TypeOK, Pending, InteractName \/ GoBackName, ~Panic
    PROVE  \E f \in Names \cup {Torn} :
               /\ Assign(f) /\ daemon' = Idle
               /\ UNCHANGED <<dom, doc, live, list, sel, stack, mustReload, goingBack, spoiled>>
<1>1. CASE InteractName
  <2>1. PICK f \in IF daemon.node = Wild THEN Names \cup {Torn} ELSE {daemon.node.href} :
            /\ daemon.pc = "href" /\ Assign(f) /\ daemon' = Idle
            /\ UNCHANGED <<dom, doc, live, list, sel, stack, mustReload, goingBack, spoiled>>
    BY <1>1 DEF InteractName
  <2>2. f \in Names \cup {Torn}
    BY <2>1 DEF TypeOK, Pending, Node
  <2> QED
    BY <2>1, <2>2
<1>2. CASE GoBackName
  <2>1. PICK f \in {Last(stack)} \cup (IF Pushing THEN {Torn} ELSE {}) :
            /\ daemon.pc = "top" /\ Assign(f) /\ daemon' = Idle
            /\ UNCHANGED <<dom, doc, live, list, sel, stack, mustReload, goingBack, spoiled>>
    BY <1>2 DEF GoBackName
  <2>2. Last(stack) \in Names \cup {Torn}
    BY <2>1, FrontForm DEF TypeOK, Pending
  <2> QED
    BY <2>1, <2>2
<1> QED
  BY <1>1, <1>2

(* The stack when a pop meets a push.                                      *)
LEMMA PopAmidPushForm ==
    ASSUME TypeOK, Allocated, HistoryRooted, PopAmidPush, ~Panic
    PROVE  /\ stack' \in Seq(Names \cup {Torn}) /\ stack' # <<>>
           /\ stack' [1] = Home /\ dom # Null
<1>1. stack \in Seq(Names \cup {Torn}) /\ Len(stack) >= 2 /\ stack # <<>> /\ stack[1] = Home
  BY DEF TypeOK, PopAmidPush, HistoryRooted
<1>2. dom # Null
  BY <1>1 DEF HistoryRooted
<1>3. PICK t : t = Front(stack)
  OBVIOUS
<1>4. t \in Seq(Names \cup {Torn}) /\ t # <<>> /\ Len(t) >= 1 /\ t[1] = Home
  <2>1. /\ t \in Seq(Names \cup {Torn}) /\ Len(t) = Len(stack) - 1
        /\ \A i \in 1..Len(stack) - 1 : t[i] = stack[i]
    BY <1>1, <1>3, FrontForm
  <2>2. Len(stack) \in Nat /\ 1 \in 1..Len(stack) - 1 /\ Len(t) >= 1
    BY <1>1, <2>1
  <2> QED
    BY <1>1, <2>1, <2>2
<1>5. ASSUME NEW q \in Seq(Names \cup {Torn}), q # <<>>, q[1] = Home,
             NEW e \in Names \cup {Torn}
      PROVE  /\ Append(q, e) \in Seq(Names \cup {Torn}) /\ Append(q, e) # <<>>
             /\ Append(q, e)[1] = Home
  <2>1. Len(q) \in Nat \ {0}
    BY <1>5, EmptySeq
  <2>2. /\ Append(q, e) \in Seq(Names \cup {Torn}) /\ Append(q, e) # <<>>
        /\ \A i \in 1..Len(q) : Append(q, e)[i] = q[i]
    BY <1>5, AppendProperties
  <2> QED
    BY <1>5, <2>1, <2>2
<1>6. Path \subseteq Names \cup {Torn} /\ Torn \in Names \cup {Torn}
  BY PathForm
<1>7. \/ stack' = stack \/ stack' = t \/ stack' = Append(t, Torn)
      \/ \E f \in Path : stack' = Append(t, f)
      \/ \E f \in Path : stack' = Append(Append(t, Torn), f)
  BY <1>3 DEF PopAmidPush
<1>8. CASE \E f \in Path : stack' = Append(t, f)
  BY <1>2, <1>4, <1>5, <1>6, <1>8
<1>9. CASE \E f \in Path : stack' = Append(Append(t, Torn), f)
  <2>1. PICK f \in Path : stack' = Append(Append(t, Torn), f)
    BY <1>9
  <2>2. PICK q : q = Append(t, Torn)
    OBVIOUS
  <2>3. q \in Seq(Names \cup {Torn}) /\ q # <<>> /\ q[1] = Home
    BY <1>4, <1>5, <1>6, <2>2
  <2> QED
    BY <1>2, <1>5, <1>6, <2>1, <2>2, <2>3
<1>10. CASE stack' = Append(t, Torn)
  BY <1>2, <1>4, <1>5, <1>6, <1>10
<1> QED
  BY <1>1, <1>2, <1>4, <1>7, <1>8, <1>9, <1>10

(* Every step keeps the types.                                             *)
LEMMA TypeOKStep ==
    ASSUME IInv, Next
    PROVE  TypeOK'
<1>0. TypeOK /\ Pending /\ Allocated /\ HistoryRooted
  BY DEF IInv
<1>1. CASE SelectNext
  BY <1>0, <1>1 DEF TypeOK, SelectNext
<1>2. CASE SelectPrev
  BY <1>0, <1>2 DEF TypeOK, SelectPrev
<1>3. CASE Interact
  <2>1. PICK n : n = IF sel < Len(list) THEN list[sel + 1] ELSE Wild
    OBVIOUS
  <2>2. n \in Node \cup {Wild}
    BY <1>0, <2>1 DEF TypeOK
  <2>3. daemon' = [pc |-> "request", node |-> n]
    BY <1>3, <2>1 DEF Interact
  <2>4. spoiled' \in BOOLEAN
    BY <1>3 DEF Interact
  <2> QED
    BY <1>0, <1>3, <2>2, <2>3, <2>4 DEF TypeOK, Interact
<1>4. CASE InteractRequest
  <2>1. CASE Panic
    BY <2>1, PanicInv
  <2>2. CASE ~Panic
    <3>1. mustReload' \in BOOLEAN
      BY <1>0, <1>4, <2>2 DEF TypeOK, InteractRequest
    <3>2. daemon' = [daemon EXCEPT !.pc = "href"] \/ daemon' = Idle
      BY <1>4, <2>2 DEF InteractRequest
    <3>3. UNCHANGED <<dom, doc, live, list, sel, stack, goingBack, file, draw, spoiled>>
      BY <1>4, <2>2 DEF InteractRequest
    <3> QED
      BY <1>0, <3>1, <3>2, <3>3 DEF TypeOK, Idle
  <2> QED
    BY <2>1, <2>2
<1>5. CASE (InteractName \/ GoBackName) /\ ~Panic
  <2>1. PICK f \in Names \cup {Torn} :
            /\ Assign(f) /\ daemon' = Idle
            /\ UNCHANGED <<dom, doc, live, list, sel, stack, mustReload, goingBack, spoiled>>
    BY <1>0, <1>5, Assigned
  <2>2. file' \in Names \cup {Torn} /\ draw' \in DrawType
    BY <1>0, <2>1, AssignForm
  <2> QED
    BY <1>0, <2>1, <2>2 DEF TypeOK, DrawType, Idle
<1>6. CASE GoBack
  <2>1. stack' = Front(stack) /\ stack # <<>>
    BY <1>6 DEF GoBack
  <2>2. stack' \in Seq(Names \cup {Torn})
    BY <1>0, <2>1, FrontForm DEF TypeOK
  <2>3. spoiled' \in BOOLEAN
    BY <1>6 DEF GoBack, Begin
  <2> QED
    BY <1>0, <1>6, <2>2, <2>3 DEF TypeOK, GoBack, Idle
<1>7. CASE GoBackRequest
  BY <1>0, <1>7 DEF TypeOK, GoBackRequest
<1>8. CASE GoBackFlag
  BY <1>0, <1>8 DEF TypeOK, GoBackFlag
<1>9. CASE Panic
  BY <1>9, PanicInv
<1>10. CASE NoReload
  BY <1>0, <1>10 DEF TypeOK, NoReload
<1>11. CASE Reload
  BY <1>0, <1>11 DEF TypeOK, Reload, LoadStep
<1>12. CASE Call
  <2>1. draw' = [draw EXCEPT !.pc = "open", !.add = ~goingBack, !.paths = {file}]
        /\ spoiled' \in BOOLEAN
    BY <1>12 DEF Call
  <2>2. draw' \in DrawType
    BY <1>0, <2>1 DEF TypeOK, DrawType
  <2> QED
    BY <1>0, <1>12, <2>1, <2>2 DEF TypeOK, DrawType, Call
<1>13. CASE OpenFails
  <2>1. PICK r \in {"never", "last", "before"}, q \in {"render", "clear"} :
             draw' = [draw EXCEPT !.pc = q, !.boot = FALSE, !.refused = r, !.paths = {}]
    BY <1>0, <1>13 DEF TypeOK, OpenFails
  <2>2. /\ spoiled' \in BOOLEAN
        /\ UNCHANGED <<dom, doc, live, list, sel, stack, mustReload, goingBack, file, daemon>>
    BY <1>13 DEF OpenFails
  <2>3. draw' \in DrawType
    BY <1>0, <2>1 DEF TypeOK, DrawType
  <2> QED
    BY <1>0, <2>2, <2>3 DEF TypeOK, DrawType
<1>14. CASE Install
  <2>1. PICK f \in Path \cap Files, d \in DomIds \ live :
             doc' = [doc EXCEPT ![d] = f] /\ dom' = d /\ live' = live \cup {d}
    BY <1>14 DEF Install
  <2>2. dom' \in DomIds /\ doc' \in [DomIds -> Files] /\ live' \subseteq DomIds
    BY <1>0, <2>1 DEF TypeOK
  <2>3. list' \in Seq(Node) /\ spoiled' \in BOOLEAN
    BY <1>14 DEF Install
  <2>4. draw' = [draw EXCEPT !.pc = "fill", !.old = dom]
    BY <1>14 DEF Install
  <2> QED
    BY <1>0, <1>14, <2>2, <2>3, <2>4 DEF TypeOK, Install
<1>15. CASE Explore
  <2>1. dom # Null /\ draw.pc = "fill"
    BY <1>0, <1>15 DEF Allocated, Replacing, Explore
  <2>2. PICK links : links = Links[doc[dom]]
    OBVIOUS
  <2>3. links \in Seq(Names \cup {NotALink}) /\ dom \in DomIds
    BY <1>0, <2>1, <2>2, LinksForm
  <2>4. list' \in Seq(Node)
    <3>1. CASE Len(list) + 1 <= Len(links)
      <4>1. links[Len(list) + 1] \in Names \cup {NotALink}
        BY <2>3, <3>1
      <4>2. list' = Append(list, [dom |-> dom, href |-> links[Len(list) + 1]])
        BY <1>15, <2>2, <3>1 DEF Explore
      <4> QED
        BY <1>0, <2>3, <4>1, <4>2 DEF TypeOK, Node
    <3>2. CASE ~(Len(list) + 1 <= Len(links))
      BY <1>0, <1>15, <2>2, <3>2 DEF TypeOK, Explore
    <3> QED
      BY <3>1, <3>2
  <2>5. draw' = draw \/ draw' = [draw EXCEPT !.pc = "push"]
    BY <1>15 DEF Explore
  <2>6. spoiled' \in BOOLEAN
    BY <1>15 DEF Explore
  <2>7. UNCHANGED <<dom, doc, live, sel, stack, mustReload, goingBack, file, daemon>>
    BY <1>15 DEF Explore
  <2>8. draw' \in DrawType
    BY <1>0, <2>5 DEF TypeOK, DrawType
  <2> QED
    BY <1>0, <2>4, <2>6, <2>7, <2>8 DEF TypeOK, DrawType
<1>16. CASE Push
  <2>1. stack' = stack \/ \E f \in Path : stack' = Append(stack, f)
    BY <1>16 DEF Push
  <2>2. stack' \in Seq(Names \cup {Torn})
    <3>1. \A f \in Path : Append(stack, f) \in Seq(Names \cup {Torn})
      BY <1>0, PathForm DEF TypeOK
    <3> QED
      BY <1>0, <2>1, <3>1 DEF TypeOK
  <2>3. spoiled' \in BOOLEAN
    BY <1>16 DEF Push
  <2>4. draw' \in DrawType
    BY <1>0, <1>16 DEF TypeOK, Push, DrawType
  <2> QED
    BY <1>0, <1>16, <2>2, <2>3, <2>4 DEF TypeOK, Push, DrawType
<1>17. CASE Free
  <2>1. draw' \in DrawType
    BY <1>0, <1>17 DEF TypeOK, DrawType, Free
  <2>2. doc' \in [DomIds -> Files]
    <3>1. \A d \in DomIds : (IF d = draw.old THEN Home ELSE doc[d]) \in Files
      BY <1>0, PageAssumption DEF TypeOK
    <3> QED
      BY <1>17, <3>1 DEF Free
  <2>3. daemon' \in [pc : {"idle", "request", "href", "popped", "requested", "top"},
                     node : Node \cup {Wild}]
    BY <1>0, <1>17 DEF TypeOK, Free
  <2>4. live' \subseteq DomIds /\ spoiled' \in BOOLEAN
    BY <1>0, <1>17 DEF TypeOK, Free
  <2> QED
    BY <1>0, <1>17, <2>1, <2>2, <2>3, <2>4 DEF TypeOK, DrawType, Free
<1>18. CASE ClearFlag
  BY <1>0, <1>18 DEF TypeOK, ClearFlag, LoadStep
<1>19. CASE Draw
  BY <1>0, <1>19 DEF TypeOK, Draw
<1>20. CASE Reject
  BY <1>0, <1>20 DEF TypeOK, Reject, LoadStep
<1>21. CASE NoTitle \/ NoText
  BY <1>21, PanicInv DEF NoTitle, NoText
<1>22. CASE PopAmidPush /\ ~Panic
  <2>1. stack' \in Seq(Names \cup {Torn})
    BY <1>0, <1>22, PopAmidPushForm
  <2>2. draw' \in DrawType
    BY <1>0, <1>22 DEF TypeOK, DrawType, PopAmidPush
  <2> QED
    BY <1>0, <1>22, <2>1, <2>2 DEF TypeOK, DrawType, PopAmidPush, Idle
<1> QED
  BY <1>1, <1>2, <1>3, <1>4, <1>5, <1>6, <1>7, <1>8, <1>9, <1>10, <1>11, <1>12, <1>13, <1>14, <1>15, <1>16, <1>17, <1>18, <1>19, <1>20, <1>21, <1>22 DEF Next, Daemon, DrawTask

(* Every step keeps the account of the DOMs.                               *)
LEMMA AllocatedStep ==
    ASSUME IInv, Next
    PROVE  Allocated'
<1>0. TypeOK /\ Allocated /\ Pending
  BY DEF IInv
<1>1. CASE SelectNext
  BY <1>0, <1>1 DEF Allocated, Replacing, SelectNext
<1>2. CASE SelectPrev
  BY <1>0, <1>2 DEF Allocated, Replacing, SelectPrev
<1>3. CASE Interact
  BY <1>0, <1>3 DEF Allocated, Replacing, Interact
<1>4. CASE InteractRequest
  BY <1>0, <1>4 DEF Allocated, Replacing, InteractRequest, Panic, Booting
<1>5. CASE (InteractName \/ GoBackName) /\ ~Panic
  <2>1. PICK f \in Names \cup {Torn} :
            Assign(f) /\ UNCHANGED <<dom, live>>
    BY <1>0, <1>5, Assigned
  <2>2. /\ draw'.pc = draw.pc /\ draw'.boot = draw.boot /\ draw'.add = draw.add
        /\ draw'.old = draw.old /\ (draw.boot => draw' = draw)
    BY <1>0, <2>1, AssignForm
  <2> QED
    BY <1>0, <2>1, <2>2 DEF Allocated, Replacing
<1>6. CASE GoBack
  BY <1>0, <1>6 DEF Allocated, Replacing, GoBack
<1>7. CASE GoBackRequest
  BY <1>0, <1>7 DEF Allocated, Replacing, GoBackRequest
<1>8. CASE GoBackFlag
  BY <1>0, <1>8 DEF Allocated, Replacing, GoBackFlag
<1>9. CASE Panic
  BY <1>9, PanicInv
<1>10. CASE NoReload
  BY <1>0, <1>10 DEF Allocated, Replacing, NoReload
<1>11. CASE Reload
  BY <1>0, <1>11 DEF Allocated, Replacing, Reload, LoadStep
<1>12. CASE Call
  BY <1>0, <1>12 DEF Allocated, Replacing, Call
<1>13. CASE OpenFails
  BY <1>0, <1>13 DEF Allocated, Replacing, OpenFails
<1>14. CASE Install
  BY <1>0, <1>14, PageAssumption DEF Allocated, Replacing, Install
<1>15. CASE Explore
  BY <1>0, <1>15 DEF TypeOK, Allocated, Replacing, Explore
<1>16. CASE Push
  BY <1>0, <1>16 DEF Allocated, Replacing, Push
<1>17. CASE Free
  BY <1>0, <1>17 DEF Allocated, Replacing, Free
<1>18. CASE ClearFlag
  BY <1>0, <1>18 DEF Allocated, Replacing, ClearFlag, LoadStep
<1>19. CASE Draw
  BY <1>0, <1>19 DEF Allocated, Replacing, Draw
<1>20. CASE Reject
  BY <1>0, <1>20 DEF Allocated, Replacing, Reject, LoadStep
<1>21. CASE NoTitle \/ NoText
  BY <1>21, PanicInv DEF NoTitle, NoText
<1>22. CASE PopAmidPush /\ ~Panic
  <2>1. /\ draw.pc = "push" /\ UNCHANGED <<dom, live>>
        /\ draw' = [draw EXCEPT !.pc = "free", !.refused = IF @ = "last" THEN "before" ELSE @]
    BY <1>22 DEF PopAmidPush, Pushing
  <2> QED
    BY <1>0, <2>1 DEF Allocated, Replacing
<1> QED
  BY <1>1, <1>2, <1>3, <1>4, <1>5, <1>6, <1>7, <1>8, <1>9, <1>10, <1>11, <1>12, <1>13, <1>14, <1>15, <1>16, <1>17, <1>18, <1>19, <1>20, <1>21, <1>22 DEF Next, Daemon, DrawTask

(* Every step keeps the list in agreement with the page.                   *)
LEMMA ListedStep ==
    ASSUME IInv, Next
    PROVE  Listed'
<1>0. TypeOK /\ Allocated /\ Listed /\ Pending
  BY DEF IInv
<1>1. CASE SelectNext
  BY <1>0, <1>1 DEF Listed, SelectNext
<1>2. CASE SelectPrev
  BY <1>0, <1>2 DEF Listed, SelectPrev
<1>3. CASE Interact
  BY <1>0, <1>3 DEF Listed, Interact
<1>4. CASE InteractRequest
  BY <1>0, <1>4 DEF Listed, InteractRequest, Panic
<1>5. CASE (InteractName \/ GoBackName) /\ ~Panic
  <2>1. PICK f \in Names \cup {Torn} :
            Assign(f) /\ UNCHANGED <<dom, doc, list>>
    BY <1>0, <1>5, Assigned
  <2>2. /\ draw'.pc = draw.pc /\ draw'.boot = draw.boot /\ draw'.add = draw.add
        /\ draw'.old = draw.old /\ (draw.boot => draw' = draw)
    BY <1>0, <2>1, AssignForm
  <2> QED
    BY <1>0, <2>1, <2>2 DEF Listed
<1>6. CASE GoBack
  BY <1>0, <1>6 DEF Listed, GoBack
<1>7. CASE GoBackRequest
  BY <1>0, <1>7 DEF Listed, GoBackRequest
<1>8. CASE GoBackFlag
  BY <1>0, <1>8 DEF Listed, GoBackFlag
<1>9. CASE Panic
  BY <1>9, PanicInv
<1>10. CASE NoReload
  BY <1>0, <1>10 DEF Listed, NoReload
<1>11. CASE Reload
  BY <1>0, <1>11 DEF Listed, Reload, LoadStep
<1>12. CASE Call
  BY <1>0, <1>12 DEF Listed, Call
<1>13. CASE OpenFails
  BY <1>0, <1>13 DEF Listed, OpenFails
<1>14. CASE Install
  BY <1>14 DEF Listed, Install
<1>15. CASE Explore
  <2>1. dom # Null /\ draw.pc = "fill" /\ dom' = dom /\ doc' = doc
    BY <1>0, <1>15 DEF Allocated, Replacing, Explore
  <2>2. PICK links : links = Links[doc[dom]]
    OBVIOUS
  <2>3. links \in Seq(Names \cup {NotALink}) /\ list \in Seq(Node)
    BY <1>0, <2>1, <2>2, LinksForm DEF TypeOK
  <2>4. CASE Len(list) + 1 <= Len(links)
    <3>1. list' = Append(list, [dom |-> dom, href |-> links[Len(list) + 1]]) /\ draw' = draw
      BY <1>15, <2>2, <2>4 DEF Explore
    <3>2. /\ Len(list') = Len(list) + 1
          /\ \A i \in 1..Len(list) : list'[i] = list[i]
          /\ list'[Len(list) + 1] = [dom |-> dom, href |-> links[Len(list) + 1]]
      <4>1. links[Len(list) + 1] \in Names \cup {NotALink} /\ dom \in DomIds
        BY <1>0, <2>1, <2>3, <2>4, LinksForm
      <4> QED
        BY <2>3, <3>1, <4>1
    <3> QED
      BY <1>0, <2>1, <2>2, <2>3, <2>4, <3>1, <3>2 DEF Listed
  <2>5. CASE ~(Len(list) + 1 <= Len(links))
    <3>1. list' = list /\ Len(list) = Len(links)
      BY <1>0, <1>15, <2>1, <2>2, <2>3, <2>5 DEF Listed, Explore
    <3> QED
      BY <1>0, <2>1, <2>2, <3>1 DEF Listed
  <2> QED
    BY <2>4, <2>5
<1>16. CASE Push
  BY <1>0, <1>16 DEF Listed, Push
<1>17. CASE Free
  <2>1. draw.pc = "free" /\ draw'.pc # "fill" /\ UNCHANGED <<dom, list>>
    BY <1>0, <1>17 DEF TypeOK, Free
  <2>2. dom # Null => doc'[dom] = doc[dom]
    BY <1>0, <1>17, <2>1 DEF TypeOK, Allocated, Replacing, Free
  <2> QED
    BY <1>0, <2>1, <2>2 DEF Listed
<1>18. CASE ClearFlag
  BY <1>0, <1>18 DEF Listed, ClearFlag, LoadStep
<1>19. CASE Draw
  BY <1>0, <1>19 DEF Listed, Draw
<1>20. CASE Reject
  BY <1>0, <1>20 DEF Listed, Reject, LoadStep
<1>21. CASE NoTitle \/ NoText
  BY <1>21, PanicInv DEF NoTitle, NoText
<1>22. CASE PopAmidPush /\ ~Panic
  BY <1>0, <1>22 DEF Listed, PopAmidPush, Pushing
<1> QED
  BY <1>1, <1>2, <1>3, <1>4, <1>5, <1>6, <1>7, <1>8, <1>9, <1>10, <1>11, <1>12, <1>13, <1>14, <1>15, <1>16, <1>17, <1>18, <1>19, <1>20, <1>21, <1>22 DEF Next, Daemon, DrawTask

(* Every step keeps what a callback relies on.                             *)
LEMMA PendingStep ==
    ASSUME IInv, Next
    PROVE  Pending'
<1>0. TypeOK /\ Pending /\ Allocated /\ HistoryRooted
  BY DEF IInv
<1>1. CASE SelectNext
  BY <1>1 DEF Pending, SelectNext
<1>2. CASE SelectPrev
  BY <1>2 DEF Pending, SelectPrev
<1>3. CASE Interact
  BY <1>3 DEF Pending, Interact
<1>4. CASE InteractRequest
  BY <1>0, <1>4 DEF TypeOK, Pending, InteractRequest, MayBeLink, Idle, Panic
<1>5. CASE InteractName
  BY <1>5 DEF Pending, InteractName, Assign, Idle, Panic
<1>6. CASE GoBack
  <2>1. stack' = Front(stack) /\ Len(stack) >= 2 /\ stack # <<>>
    BY <1>6 DEF GoBack
  <2>2. Len(stack') = Len(stack) - 1 /\ stack' \in Seq(Names \cup {Torn})
    BY <1>0, <2>1, FrontForm DEF TypeOK
  <2>3. stack' # <<>>
    BY <2>1, <2>2
  <2>4. daemon'.pc = "popped"
    BY <1>6 DEF GoBack
  <2> QED
    BY <2>3, <2>4 DEF Pending
<1>7. CASE GoBackRequest
  BY <1>0, <1>7 DEF Pending, GoBackRequest
<1>8. CASE GoBackFlag
  BY <1>0, <1>8 DEF Pending, GoBackFlag
<1>9. CASE GoBackName
  BY <1>9 DEF Pending, GoBackName, Assign, Idle
<1>10. CASE NoReload
  BY <1>0, <1>10 DEF Pending, NoReload
<1>11. CASE Reload
  BY <1>0, <1>11 DEF Pending, Reload
<1>12. CASE Call
  BY <1>0, <1>12 DEF Pending, Call
<1>13. CASE OpenFails
  BY <1>0, <1>13 DEF Pending, OpenFails
<1>14. CASE Install
  BY <1>0, <1>14 DEF Pending, Install
<1>15. CASE Explore
  BY <1>0, <1>15 DEF Pending, Explore
<1>16. CASE Push
  BY <1>0, <1>16 DEF Pending, Push
<1>17. CASE Free
  BY <1>0, <1>17 DEF Pending, Free
<1>18. CASE ClearFlag
  BY <1>0, <1>18 DEF Pending, ClearFlag
<1>19. CASE Draw
  BY <1>0, <1>19 DEF Pending, Draw
<1>20. CASE Reject
  BY <1>0, <1>20 DEF Pending, Reject
<1>21. CASE NoTitle \/ NoText
  BY <1>21, PanicInv DEF NoTitle, NoText
<1>22. CASE PopAmidPush
  <2>1. CASE Panic
    BY <2>1, PanicInv
  <2>2. CASE ~Panic
    <3>1. stack' # <<>> /\ daemon'.pc = "popped"
      BY <1>0, <1>22, <2>2, PopAmidPushForm DEF PopAmidPush, Idle
    <3> QED
      BY <3>1 DEF Pending
  <2> QED
    BY <2>1, <2>2
<1> QED
  BY <1>1, <1>2, <1>3, <1>4, <1>5, <1>6, <1>7, <1>8, <1>9, <1>10, <1>11, <1>12, <1>13, <1>14, <1>15, <1>16, <1>17, <1>18, <1>19, <1>20, <1>21, <1>22 DEF Next, Daemon, DrawTask

(* Every step keeps the home page on the stack.                            *)
LEMMA HistoryRootedStep ==
    ASSUME IInv, Next
    PROVE  HistoryRooted'
<1>0. TypeOK /\ Allocated /\ Listed /\ HistoryRooted /\ Pending
  BY DEF IInv
<1>1. CASE SelectNext
  BY <1>0, <1>1 DEF HistoryRooted, SelectNext
<1>2. CASE SelectPrev
  BY <1>0, <1>2 DEF HistoryRooted, SelectPrev
<1>3. CASE Interact
  BY <1>0, <1>3 DEF HistoryRooted, Interact
<1>4. CASE InteractRequest
  BY <1>0, <1>4 DEF HistoryRooted, InteractRequest, Panic
<1>5. CASE (InteractName \/ GoBackName) /\ ~Panic
  <2>1. PICK f \in Names \cup {Torn} :
            Assign(f) /\ UNCHANGED <<dom, stack>>
    BY <1>0, <1>5, Assigned
  <2>2. /\ draw'.pc = draw.pc /\ draw'.boot = draw.boot /\ draw'.add = draw.add
        /\ draw'.old = draw.old /\ (draw.boot => draw' = draw)
    BY <1>0, <2>1, AssignForm
  <2> QED
    BY <1>0, <2>1, <2>2 DEF HistoryRooted
<1>6. CASE GoBack
  <2>1. /\ stack' = Front(stack) /\ Len(stack) >= 2 /\ stack # <<>>
        /\ UNCHANGED <<dom, draw>>
    BY <1>6 DEF GoBack
  <2>2. stack \in Seq(Names \cup {Torn})
    BY <1>0 DEF TypeOK
  <2>3. Len(stack') = Len(stack) - 1 /\ stack' \in Seq(Names \cup {Torn})
    BY <2>1, <2>2, FrontForm
  <2>4. 1 \in 1..Len(stack) - 1
    BY <2>1, <2>2
  <2>5. stack'[1] = stack[1]
    BY <2>1, <2>2, <2>4, FrontForm
  <2>6. stack' # <<>>
    BY <2>1, <2>2, <2>3
  <2> QED
    BY <1>0, <2>1, <2>5, <2>6 DEF HistoryRooted
<1>7. CASE GoBackRequest
  BY <1>0, <1>7 DEF HistoryRooted, GoBackRequest
<1>8. CASE GoBackFlag
  BY <1>0, <1>8 DEF HistoryRooted, GoBackFlag
<1>9. CASE Panic
  BY <1>9, PanicInv
<1>10. CASE NoReload
  BY <1>0, <1>10 DEF HistoryRooted, NoReload
<1>11. CASE Reload
  BY <1>0, <1>11 DEF HistoryRooted, Reload, LoadStep
<1>12. CASE Call
  BY <1>0, <1>12 DEF HistoryRooted, Call
<1>13. CASE OpenFails
  BY <1>0, <1>13 DEF Allocated, HistoryRooted, OpenFails
<1>14. CASE Install
  BY <1>0, <1>14, PageAssumption DEF Allocated, HistoryRooted, Install
<1>15. CASE Explore
  <2>1. UNCHANGED <<dom, stack>> /\ draw'.boot = draw.boot /\ draw'.pc \in {"fill", "push"}
    BY <1>0, <1>15 DEF TypeOK, Explore
  <2> QED
    BY <1>0, <1>15, <2>1 DEF HistoryRooted, Explore
<1>16. CASE Push
  <2>1. dom # Null /\ dom' = dom /\ draw'.pc = "free" /\ draw.pc = "push"
    BY <1>0, <1>16 DEF Allocated, Replacing, Push
  <2>2. CASE ~draw.add
    BY <1>0, <1>16, <2>1, <2>2 DEF Allocated, HistoryRooted, Push
  <2>3. CASE draw.add
    <3>1. PICK f \in Path : stack' = Append(stack, f)
      BY <1>16, <2>3 DEF Push
    <3>2. f \in Names \cup {Torn} /\ stack \in Seq(Names \cup {Torn})
      BY <1>0, <3>1, PathForm DEF TypeOK
    <3>3. stack' # <<>> /\ (stack # <<>> => stack'[1] = stack[1]) /\ (stack = <<>> => stack'[1] = f)
      BY <3>1, <3>2
    <3>4. stack = <<>> => f = Home
      BY <1>0, <2>1, <3>1, PathForm DEF HistoryRooted
    <3> QED
      BY <1>0, <2>1, <3>3, <3>4 DEF HistoryRooted
  <2> QED
    BY <2>2, <2>3
<1>17. CASE Free
  BY <1>0, <1>17 DEF HistoryRooted, Free
<1>18. CASE ClearFlag
  BY <1>0, <1>18 DEF HistoryRooted, ClearFlag, LoadStep
<1>19. CASE Draw
  BY <1>0, <1>19 DEF HistoryRooted, Draw
<1>20. CASE Reject
  BY <1>0, <1>20 DEF HistoryRooted, Reject, LoadStep
<1>21. CASE NoTitle \/ NoText
  BY <1>21, PanicInv DEF NoTitle, NoText
<1>22. CASE PopAmidPush /\ ~Panic
  <2>1. stack' # <<>> /\ stack' [1] = Home /\ dom # Null
    BY <1>0, <1>22, PopAmidPushForm
  <2>2. dom' = dom /\ draw'.pc = "free"
    BY <1>0, <1>22 DEF TypeOK, PopAmidPush
  <2> QED
    BY <2>1, <2>2 DEF HistoryRooted
<1> QED
  BY <1>1, <1>2, <1>3, <1>4, <1>5, <1>6, <1>7, <1>8, <1>9, <1>10, <1>11, <1>12, <1>13, <1>14, <1>15, <1>16, <1>17, <1>18, <1>19, <1>20, <1>21, <1>22 DEF Next, Daemon, DrawTask

-----------------------------------------------------------------------------
LEMMA InitInv == Init => IInv
<1> SUFFICES ASSUME Init PROVE IInv
  OBVIOUS
<1>1. TypeOK
  <2>1. spoiled \in BOOLEAN /\ mustReload \in BOOLEAN /\ goingBack \in BOOLEAN
    BY DEF Init
  <2>2. list \in Seq(Node) /\ stack \in Seq(Names \cup {Torn})
    BY EmptySeq DEF Init
  <2>3. draw \in DrawType
    BY PageAssumption DEF Init, Booting, DrawType
  <2> QED
    BY <2>1, <2>2, <2>3, PageAssumption DEF Init, TypeOK, Idle, DrawType
<1>2. Allocated /\ Listed /\ Pending /\ HistoryRooted
  BY DEF Init, Allocated, Listed, Pending, HistoryRooted, Replacing, Booting, Idle
<1> QED
  BY <1>1, <1>2 DEF IInv

LEMMA StepInv == IInv /\ [Next]_vars => IInv'
<1> SUFFICES ASSUME IInv, [Next]_vars PROVE IInv'
  OBVIOUS
<1>1. CASE Next
  BY <1>1, TypeOKStep, AllocatedStep, ListedStep, PendingStep, HistoryRootedStep DEF IInv
<1>2. CASE UNCHANGED vars
  BY <1>2 DEF vars, IInv, TypeOK, Allocated, Listed, Pending, HistoryRooted, Replacing
<1> QED
  BY <1>1, <1>2

(* The strengthened invariant holds in every reachable state.              *)
THEOREM InductiveInvariant == Spec => []IInv
<1> QED
  BY InitInv, StepInv, PTL DEF Spec

-----------------------------------------------------------------------------
(* The results                                                             *)

(* Renderer: every variable keeps its type.                                *)
THEOREM TypeCorrect == Spec => []TypeOK
<1>1. IInv => TypeOK
  BY DEF IInv
<1> QED
  BY <1>1, InductiveInvariant, PTL

(* go_back never reads the top of an empty stack, however its steps mix    *)
(* with a load or the load fails, and the home page stays at the bottom    *)
(* (renderer.cpp:103-111, 240-244, 270-282).                               *)
THEOREM HomeStays == Spec => []HistoryRooted
<1>1. IInv => HistoryRooted
  BY DEF IInv
<1> QED
  BY <1>1, InductiveInvariant, PTL

(* The draw task never draws a DOM it has freed, leaks none, and draws a   *)
(* page with its own list of selectable nodes (renderer.cpp:246-306).      *)
THEOREM PageIsOwned == Spec => []PageOwned
<1>1. ASSUME IInv
      PROVE  PageOwned
  <2>1. TypeOK /\ Allocated /\ Listed
    BY <1>1 DEF IInv
  <2>2. (dom # Null => dom \in live) /\ live \subseteq {dom, draw.old}
    BY <2>1 DEF Allocated
  <2>3. ASSUME draw.pc \in {"render", "draw"}
        PROVE  live = {dom} \ {Null}
    BY <2>1, <2>3 DEF Allocated, Replacing
  <2>4. ASSUME draw.pc \in {"render", "draw"}, dom # Null
        PROVE  list = [i \in 1..Len(Links[doc[dom]]) |-> [dom |-> dom, href |-> Links[doc[dom]][i]]]
    <3>1. list \in [1..Len(list) -> Node] /\ Len(list) = Len(Links[doc[dom]])
      BY <2>1, <2>4 DEF TypeOK, Listed
    <3>2. list = [i \in 1..Len(list) |-> list[i]]
      BY <3>1
    <3>3. \A i \in 1..Len(list) : list[i] = [dom |-> dom, href |-> Links[doc[dom]][i]]
      BY <2>1, <2>4 DEF Listed
    <3> QED
      BY <3>1, <3>2, <3>3
  <2>5. dom = Null => list = <<>>
    BY <2>1 DEF Listed
  <2> QED
    BY <2>2, <2>3, <2>4, <2>5 DEF PageOwned
<1> QED
  BY <1>1, InductiveInvariant, PTL

-----------------------------------------------------------------------------
(***************************************************************************)
(* Proofs that the navigation of Renderer is a browser history for any     *)
(* pages and links, as long as no callback overlaps a page load: the file  *)
(* on top of the stack is the page on the screen when nothing is under     *)
(* way, and every step of the two tasks is a step of Browser or none.      *)
(*                                                                         *)
(* The argument follows a request from the callback that makes it, through *)
(* m_current_file and the two flags, to the load that answers it.          *)
(***************************************************************************)

Frame == draw.pc \in {"render", "draw"}

(* The two tasks take turns: no callback is under way during a load, and a *)
(* callback finds, and leaves, the flags as the last load did.             *)
Turns ==
    /\ ~Frame => daemon.pc = "idle" /\ ~mustReload
    /\ daemon.pc \in {"request", "popped"} => ~mustReload
    /\ daemon.pc \in {"href", "requested", "top"} => mustReload
    /\ daemon.pc \in {"request", "href", "popped", "requested"} => ~goingBack
    /\ daemon.pc = "top" => goingBack
    /\ Frame /\ daemon.pc = "idle" /\ ~mustReload => ~goingBack
    /\ draw.pc \in {"open", "fill", "push", "free"} => draw.add = ~goingBack
    /\ mustReload => dom # Null

(* The file that was asked for: the one below when going back, the one     *)
(* that was parsed when it is filled in.                                   *)
Asked ==
    /\ daemon.pc = "idle" /\ goingBack /\ (mustReload \/ draw.pc \in {"call", "open"}) =>
           file = Last(stack)
    /\ draw.pc \in {"fill", "push"} => doc[dom] = IF draw.boot THEN Home ELSE file
    /\ draw.pc \in {"open", "fill", "push"} /\ ~draw.boot => draw.paths = {file}

(* The page on the screen is the one on top of the stack, unless it is     *)
(* about to be left or to be pushed, or go_back could not load it.         *)
OnTop ==
    dom # Null /\ ~BackPending /\ ~PushPending =>
        \/ Last(stack) = doc[dom]
        \/ draw.refused = "last" /\ draw.pc \notin {"fill", "push", "free"}

(* A link that is followed is one of the page on the screen.               *)
Linked ==
    /\ daemon.pc \in {"request", "href"} =>
           /\ dom # Null /\ daemon.node # Wild
           /\ daemon.node.href \in Range(Links[doc[dom]])
    /\ daemon.pc = "idle" /\ ~goingBack /\ ~draw.boot
       /\ (mustReload \/ draw.pc \in {"call", "open"}) =>
           file \in Range(Links[doc[dom]])

Tidy == ~spoiled => Turns /\ Asked /\ OnTop /\ Linked
-----------------------------------------------------------------------------
LEMMA PanicTidy ==
    ASSUME Panic
    PROVE  Tidy'
BY DEF Panic, Tidy, Turns, Asked, OnTop, Linked, Booting, Idle

(* What was not spoiled by a step was not before it.                       *)
LEMMA NotSpoiled ==
    ASSUME IInv, Tidy, Next, ~spoiled', ~Panic
    PROVE  ~spoiled /\ Turns /\ Asked /\ OnTop /\ Linked
<1>1. spoiled => spoiled'
  BY DEF Next, Reject, NoTitle, NoText, PopAmidPush, Daemon, DrawTask, SelectNext, SelectPrev, Interact, InteractRequest, InteractName,
         GoBack, GoBackRequest, GoBackFlag, GoBackName, Begin, NoReload, Reload, Call,
         OpenFails, Install, Explore, Push, Free, ClearFlag, Draw, LoadStep
<1> QED
  BY <1>1 DEF Tidy

(* The nodes of the list carry the links of the page on the screen.        *)
LEMMA ListedLink ==
    ASSUME TypeOK, Listed, dom # Null, NEW i \in 1..Len(list)
    PROVE  list[i].href \in Range(Links[doc[dom]])
<1>1. list[i].href = Links[doc[dom]][i] /\ Len(list) <= Len(Links[doc[dom]])
  <2>1. list[i] = [dom |-> dom, href |-> Links[doc[dom]][i]]
    BY DEF Listed
  <2> QED
    BY <2>1 DEF Listed
<1>2. Len(list) \in Nat /\ Links[doc[dom]] \in Seq(Names \cup {NotALink})
  BY LinksForm DEF TypeOK
<1>3. i \in DOMAIN Links[doc[dom]]
  BY <1>1, <1>2
<1> QED
  BY <1>1, <1>3 DEF Range

(* The last of a sequence that was appended to.                            *)
LEMMA LastAppend ==
    ASSUME NEW S, NEW t \in Seq(S), NEW e \in S
    PROVE  Last(Append(t, e)) = e
BY DEF Last

(* Every step that spoils nothing keeps Turns.                            *)
LEMMA TurnsStep ==
    ASSUME IInv, Tidy, Next, ~spoiled', ~Panic
    PROVE  Turns'
<1>0. /\ TypeOK /\ Allocated /\ Listed /\ Pending /\ HistoryRooted
      /\ ~spoiled /\ Turns /\ Asked /\ OnTop /\ Linked
  BY NotSpoiled DEF IInv
<1>1. CASE SelectNext
  BY <1>0, <1>1 DEF Turns, Frame, SelectNext
<1>2. CASE SelectPrev
  BY <1>0, <1>2 DEF Turns, Frame, SelectPrev
<1>3. CASE Interact
  BY <1>0, <1>3 DEF Turns, Frame, Interact, Loading
<1>4. CASE InteractRequest
  <2>1. /\ daemon.pc = "request" /\ UNCHANGED <<dom, goingBack, draw>>
        /\ \/ mustReload' = TRUE /\ daemon' = [daemon EXCEPT !.pc = "href"]
           \/ mustReload' = mustReload /\ daemon' = Idle
    BY <1>4 DEF InteractRequest
  <2> QED
    BY <1>0, <2>1 DEF TypeOK, Turns, Linked, Frame, Idle
<1>5. CASE InteractName
  <2>1. PICK f \in Names \cup {Torn} : Assign(f)
    BY <1>0, <1>5, Assigned
  <2>2. draw' = draw
    BY <1>0, <1>5, <2>1, AssignForm DEF Turns, Frame, InteractName
  <2>3. daemon.pc = "href" /\ daemon' = Idle /\ UNCHANGED <<dom, doc, stack, goingBack, mustReload>>
    BY <1>5 DEF InteractName
  <2> QED
    BY <1>0, <2>2, <2>3 DEF TypeOK, Turns, Frame, Idle
<1>6. CASE GoBack
  BY <1>0, <1>6 DEF Turns, Frame, GoBack, Begin, Loading, Idle
<1>7. CASE GoBackRequest
  <2>1. dom # Null
    BY <1>0, <1>7 DEF Pending, HistoryRooted, GoBackRequest
  <2> QED
    BY <1>0, <1>7, <2>1 DEF Turns, Frame, GoBackRequest
<1>8. CASE GoBackFlag
  BY <1>0, <1>8 DEF Turns, Frame, GoBackFlag
<1>9. CASE GoBackName
  <2>1. PICK f \in Names \cup {Torn} : Assign(f)
    BY <1>0, <1>9, Assigned
  <2>2. draw' = draw
    BY <1>0, <1>9, <2>1, AssignForm DEF Turns, Frame, GoBackName
  <2>3. daemon.pc = "top" /\ daemon' = Idle /\ UNCHANGED <<dom, doc, stack, goingBack, mustReload>>
    BY <1>9 DEF GoBackName
  <2> QED
    BY <1>0, <2>2, <2>3 DEF TypeOK, Turns, Frame, Idle
<1>10. CASE NoReload
  BY <1>0, <1>10 DEF Turns, Frame, NoReload
<1>11. CASE Reload
  BY <1>0, <1>11 DEF TypeOK, Turns, Frame, Reload, LoadStep
<1>12. CASE Call
  BY <1>0, <1>12 DEF Turns, Frame, Call
<1>13. CASE OpenFails
  BY <1>0, <1>13 DEF Turns, Frame, Allocated, OpenFails
<1>14. CASE Install
  BY <1>0, <1>14 DEF Turns, Frame, Install
<1>15. CASE Explore
  BY <1>0, <1>15 DEF TypeOK, Turns, Frame, Explore
<1>16. CASE Push
  BY <1>0, <1>16 DEF Turns, Frame, Push
<1>17. CASE Free
  <2>1. daemon.pc = "idle" /\ daemon'.pc = "idle" /\ UNCHANGED <<dom, mustReload, goingBack>>
    BY <1>0, <1>17 DEF TypeOK, Free
  <2>2. draw.boot => ~goingBack
    BY <1>0, <1>17 DEF Turns, Allocated, Free
  <2> QED
    BY <1>0, <1>17, <2>1, <2>2 DEF Turns, Frame, Free
<1>18. CASE ClearFlag
  BY <1>0, <1>18 DEF Turns, Frame, ClearFlag, LoadStep
<1>19. CASE Draw
  BY <1>0, <1>19 DEF Turns, Frame, Draw
<1>20. CASE Reject
  BY <1>0, <1>20 DEF TypeOK, Turns, Frame, Reject, LoadStep
<1>21. CASE NoTitle \/ NoText \/ PopAmidPush
  BY <1>21 DEF NoTitle, NoText, PopAmidPush
<1> QED
  BY <1>1, <1>2, <1>3, <1>4, <1>5, <1>6, <1>7, <1>8, <1>9, <1>10,
     <1>11, <1>12, <1>13, <1>14, <1>15, <1>16, <1>17, <1>18, <1>19, <1>20, <1>21 DEF Next, Daemon, DrawTask

(* A load that no callback overlaps reads the name that was asked for.     *)
LEMMA AskedPath ==
    ASSUME Allocated, Turns, Asked, draw.pc \in {"open", "fill", "push"}, NEW f \in Path
    PROVE  f = IF draw.boot THEN Home ELSE file
BY DEF Allocated, Turns, Frame, Asked, Path

(* Every step that spoils nothing keeps Asked.                            *)
LEMMA AskedStep ==
    ASSUME IInv, Tidy, Next, ~spoiled', ~Panic
    PROVE  Asked'
<1>0. /\ TypeOK /\ Allocated /\ Listed /\ Pending /\ HistoryRooted
      /\ ~spoiled /\ Turns /\ Asked /\ OnTop /\ Linked
  BY NotSpoiled DEF IInv
<1>1. CASE SelectNext
  BY <1>0, <1>1 DEF Asked, SelectNext
<1>2. CASE SelectPrev
  BY <1>0, <1>2 DEF Asked, SelectPrev
<1>3. CASE Interact
  BY <1>3 DEF Asked, Interact, Loading
<1>4. CASE InteractRequest
  BY <1>0, <1>4 DEF Turns, Asked, InteractRequest
<1>5. CASE InteractName
  <2>1. PICK f \in Names \cup {Torn} : Assign(f)
    BY <1>0, <1>5, Assigned
  <2>2. draw' = draw
    BY <1>0, <1>5, <2>1, AssignForm DEF Turns, Frame, InteractName
  <2>3. daemon.pc = "href" /\ daemon' = Idle /\ UNCHANGED <<dom, doc, stack, goingBack, mustReload>>
    BY <1>5 DEF InteractName
  <2> QED
    BY <1>0, <2>2, <2>3 DEF Turns, Frame, Asked, Idle
<1>6. CASE GoBack
  BY <1>6 DEF Asked, GoBack, Begin, Loading
<1>7. CASE GoBackRequest
  BY <1>0, <1>7 DEF Asked, GoBackRequest
<1>8. CASE GoBackFlag
  BY <1>0, <1>8 DEF Asked, GoBackFlag
<1>9. CASE GoBackName
  <2>1. PICK f \in Names \cup {Torn} : Assign(f)
    BY <1>0, <1>9, Assigned
  <2>2. draw' = draw
    BY <1>0, <1>9, <2>1, AssignForm DEF Turns, Frame, GoBackName
  <2>3. daemon.pc = "top" /\ daemon' = Idle /\ UNCHANGED <<dom, doc, stack, goingBack, mustReload>>
    BY <1>9 DEF GoBackName
  <2>4. draw.pc \in {"render", "draw"}
    BY <1>0, <2>3 DEF Turns, Frame
  <2>5. file' = Last(stack)
    BY <1>9, <2>4 DEF GoBackName, Pushing, Assign
  <2> QED
    BY <1>0, <2>2, <2>3, <2>4, <2>5 DEF Asked
<1>10. CASE NoReload
  BY <1>0, <1>10 DEF Asked, NoReload
<1>11. CASE Reload
  BY <1>0, <1>11 DEF Asked, Reload, LoadStep
<1>12. CASE Call
  BY <1>0, <1>12 DEF Asked, Call
<1>13. CASE OpenFails
  BY <1>0, <1>13 DEF Asked, OpenFails
<1>14. CASE Install
  <2>1. PICK f \in Path \cap Files, d \in DomIds :
             doc' = [doc EXCEPT ![d] = f] /\ dom' = d
    BY <1>14 DEF Install
  <2>2. /\ draw.pc = "open" /\ draw'.pc = "fill" /\ draw'.boot = draw.boot
        /\ draw'.paths = draw.paths /\ UNCHANGED <<file, stack, mustReload>>
    BY <1>0, <1>14 DEF TypeOK, Install
  <2>3. doc'[dom'] = f
    BY <1>0, <2>1 DEF TypeOK
  <2>4. f = IF draw.boot THEN Home ELSE file
    BY <1>0, <2>1, <2>2, AskedPath
  <2>5. ~mustReload
    BY <1>0, <2>2 DEF Turns, Frame
  <2> QED
    BY <1>0, <2>2, <2>3, <2>4, <2>5 DEF Asked
<1>15. CASE Explore
  BY <1>0, <1>15 DEF TypeOK, Asked, Explore
<1>16. CASE Push
  BY <1>0, <1>16 DEF Turns, Asked, Push
<1>17. CASE Free
  BY <1>0, <1>17 DEF Asked, Free
<1>18. CASE ClearFlag
  BY <1>18 DEF Asked, ClearFlag, LoadStep
<1>19. CASE Draw
  BY <1>0, <1>19 DEF Asked, Draw
<1>20. CASE Reject
  BY <1>0, <1>20 DEF TypeOK, Turns, Asked, Reject, LoadStep
<1>21. CASE NoTitle \/ NoText \/ PopAmidPush
  BY <1>21 DEF NoTitle, NoText, PopAmidPush
<1> QED
  BY <1>1, <1>2, <1>3, <1>4, <1>5, <1>6, <1>7, <1>8, <1>9, <1>10,
     <1>11, <1>12, <1>13, <1>14, <1>15, <1>16, <1>17, <1>18, <1>19, <1>20, <1>21 DEF Next, Daemon, DrawTask

(* Every step that spoils nothing keeps OnTop.                            *)
LEMMA OnTopStep ==
    ASSUME IInv, Tidy, Next, ~spoiled', ~Panic
    PROVE  OnTop'
<1>0. /\ TypeOK /\ Allocated /\ Listed /\ Pending /\ HistoryRooted
      /\ ~spoiled /\ Turns /\ Asked /\ OnTop /\ Linked
  BY NotSpoiled DEF IInv
<1>1. CASE SelectNext
  BY <1>0, <1>1 DEF OnTop, BackPending, PushPending, SelectNext
<1>2. CASE SelectPrev
  BY <1>0, <1>2 DEF OnTop, BackPending, PushPending, SelectPrev
<1>3. CASE Interact
  BY <1>0, <1>3 DEF OnTop, BackPending, PushPending, Interact
<1>4. CASE InteractRequest
  BY <1>0, <1>4 DEF OnTop, BackPending, PushPending, InteractRequest
<1>5. CASE InteractName
  <2>1. PICK f \in Names \cup {Torn} : Assign(f)
    BY <1>0, <1>5, Assigned
  <2>2. draw' = draw
    BY <1>0, <1>5, <2>1, AssignForm DEF Turns, Frame, InteractName
  <2>3. daemon.pc = "href" /\ daemon' = Idle /\ UNCHANGED <<dom, doc, stack, goingBack, mustReload>>
    BY <1>5 DEF InteractName
  <2> QED
    BY <1>0, <2>2, <2>3 DEF Turns, OnTop, BackPending, PushPending, Pushing, Idle
<1>6. CASE GoBack
  BY <1>6 DEF OnTop, BackPending, GoBack
<1>7. CASE GoBackRequest
  BY <1>7 DEF OnTop, BackPending, GoBackRequest
<1>8. CASE GoBackFlag
  BY <1>8 DEF OnTop, BackPending, GoBackFlag
<1>9. CASE GoBackName
  <2>1. PICK f \in Names \cup {Torn} : Assign(f)
    BY <1>0, <1>9, Assigned
  <2>2. draw' = draw
    BY <1>0, <1>9, <2>1, AssignForm DEF Turns, Frame, GoBackName
  <2>3. daemon.pc = "top" /\ daemon' = Idle /\ UNCHANGED <<dom, doc, stack, goingBack, mustReload>>
    BY <1>9 DEF GoBackName
  <2> QED
    BY <1>0, <2>2, <2>3 DEF Turns, OnTop, BackPending, PushPending, Pushing, Idle
<1>10. CASE NoReload
  BY <1>0, <1>10 DEF OnTop, BackPending, PushPending, NoReload
<1>11. CASE Reload
  BY <1>0, <1>11 DEF OnTop, BackPending, PushPending, Reload, LoadStep
<1>12. CASE Call
  BY <1>0, <1>12 DEF OnTop, BackPending, PushPending, Call
<1>13. CASE OpenFails
  BY <1>0, <1>13 DEF TypeOK, Turns, OnTop, BackPending, PushPending, OpenFails
<1>14. CASE Install
  <2>1. PICK f \in Path \cap Files, d \in DomIds :
             doc' = [doc EXCEPT ![d] = f] /\ dom' = d
    BY <1>14 DEF Install
  <2>2. doc'[dom'] = f
    BY <1>0, <2>1 DEF TypeOK
  <2>3. draw'.pc = "fill" /\ draw'.add = draw.add /\ draw.pc = "open" /\ stack' = stack
    BY <1>14 DEF Install
  <2>4. CASE draw.add
    BY <2>3, <2>4 DEF OnTop, PushPending
  <2>5. CASE ~draw.add
    <3>1. ~draw.boot /\ daemon.pc = "idle" /\ goingBack
      BY <1>0, <2>3, <2>5 DEF Allocated, Turns, Frame
    <3>2. f = file
      BY <1>0, <2>1, <2>3, <3>1, AskedPath
    <3>3. file = Last(stack)
      BY <1>0, <2>3, <3>1 DEF Asked
    <3> QED
      BY <2>2, <2>3, <3>2, <3>3 DEF OnTop
  <2> QED
    BY <2>4, <2>5
<1>15. CASE Explore
  BY <1>0, <1>15 DEF TypeOK, OnTop, BackPending, PushPending, Explore
<1>16. CASE Push
  <2>1. /\ draw.pc = "push" /\ draw'.pc = "free" /\ draw'.refused # "last"
        /\ UNCHANGED <<dom, doc>> /\ dom # Null
    BY <1>0, <1>16 DEF Allocated, Replacing, Push
  <2>2. CASE draw.add
    <3>1. PICK f \in Path : stack' = Append(stack, f)
      BY <1>16, <2>2 DEF Push
    <3>2. f \in Names \cup {Torn} /\ stack \in Seq(Names \cup {Torn})
      BY <1>0, <3>1, PathForm DEF TypeOK
    <3>3. Last(stack') = f
      BY <3>1, <3>2, LastAppend
    <3>4. f = doc[dom]
      BY <1>0, <2>1, <3>1, AskedPath DEF Asked
    <3> QED
      BY <2>1, <3>3, <3>4 DEF OnTop
  <2>3. CASE ~draw.add
    <3>1. stack' = stack
      BY <1>16, <2>3 DEF Push
    <3>2. ~BackPending /\ ~PushPending
      BY <1>0, <2>1, <2>3 DEF BackPending, PushPending, Turns, Frame
    <3> QED
      BY <1>0, <2>1, <3>1, <3>2 DEF OnTop
  <2> QED
    BY <2>2, <2>3
<1>17. CASE Free
  <2>1. /\ draw.pc = "free" /\ draw'.pc \in {"render", "clear"} /\ daemon'.pc = daemon.pc
        /\ draw'.refused = draw.refused
        /\ UNCHANGED <<dom, stack, mustReload, goingBack>>
    BY <1>0, <1>17 DEF TypeOK, Free
  <2>2. doc'[dom] = doc[dom]
    BY <1>0, <1>17, <2>1 DEF TypeOK, Allocated, Replacing, Free
  <2> QED
    BY <1>0, <2>1, <2>2 DEF OnTop, BackPending, PushPending
<1>18. CASE ClearFlag
  BY <1>0, <1>18 DEF Turns, Frame, OnTop, BackPending, PushPending, ClearFlag, LoadStep
<1>19. CASE Draw
  BY <1>0, <1>19 DEF OnTop, BackPending, PushPending, Draw
<1>20. CASE Reject
  BY <1>0, <1>20 DEF TypeOK, Turns, OnTop, BackPending, PushPending, Pushing, Reject, LoadStep
<1>21. CASE NoTitle \/ NoText \/ PopAmidPush
  BY <1>21 DEF NoTitle, NoText, PopAmidPush
<1> QED
  BY <1>1, <1>2, <1>3, <1>4, <1>5, <1>6, <1>7, <1>8, <1>9, <1>10,
     <1>11, <1>12, <1>13, <1>14, <1>15, <1>16, <1>17, <1>18, <1>19, <1>20, <1>21 DEF Next, Daemon, DrawTask

(* Every step that spoils nothing keeps Linked.                           *)
LEMMA LinkedStep ==
    ASSUME IInv, Tidy, Next, ~spoiled', ~Panic
    PROVE  Linked'
<1>0. /\ TypeOK /\ Allocated /\ Listed /\ Pending /\ HistoryRooted
      /\ ~spoiled /\ Turns /\ Asked /\ OnTop /\ Linked
  BY NotSpoiled DEF IInv
<1>1. CASE SelectNext
  BY <1>0, <1>1 DEF Linked, SelectNext
<1>2. CASE SelectPrev
  BY <1>0, <1>2 DEF Linked, SelectPrev
<1>3. CASE Interact
  <2>0. ~Loading /\ sel < Len(list)
    <3>1. ~Loading /\ ~(sel >= Len(list))
      BY <1>3 DEF Interact
    <3>2. sel \in Nat /\ Len(list) \in Nat
      BY <1>0 DEF TypeOK
    <3> QED
      BY <3>1, <3>2
  <2>1. /\ daemon.pc = "idle" /\ sel < Len(list) /\ list # <<>> /\ Frame /\ ~mustReload
        /\ daemon' = [pc |-> "request", node |-> list[sel + 1]]
        /\ UNCHANGED <<dom, doc, list, mustReload, draw, file, goingBack>>
    BY <1>3, <2>0 DEF Interact, Loading, Frame
  <2>2. dom # Null
    BY <1>0, <2>1 DEF Listed
  <2>3. sel + 1 \in 1..Len(list) /\ list[sel + 1] \in Node
    BY <1>0, <2>1 DEF TypeOK
  <2>4. list[sel + 1] # Wild
    BY <2>3, PageAssumption DEF Node
  <2>5. list[sel + 1].href \in Range(Links[doc[dom]])
    BY <1>0, <2>2, <2>3, ListedLink
  <2> QED
    BY <2>1, <2>2, <2>4, <2>5 DEF Linked
<1>4. CASE InteractRequest
  BY <1>0, <1>4 DEF TypeOK, Turns, Frame, Linked, InteractRequest, Idle
<1>5. CASE InteractName
  <2>1. PICK f \in Names \cup {Torn} : Assign(f)
    BY <1>0, <1>5, Assigned
  <2>2. draw' = draw
    BY <1>0, <1>5, <2>1, AssignForm DEF Turns, Frame, InteractName
  <2>3. /\ daemon.pc = "href" /\ daemon'.pc = "idle"
        /\ file' \in IF daemon.node = Wild THEN Names \cup {Torn} ELSE {daemon.node.href}
        /\ UNCHANGED <<dom, doc, mustReload, goingBack>>
    BY <1>5 DEF InteractName, Assign, Idle
  <2>4. daemon.node # Wild /\ daemon.node.href \in Range(Links[doc[dom]])
    BY <1>0, <2>3 DEF Linked
  <2> QED
    BY <2>2, <2>3, <2>4 DEF Linked
<1>6. CASE GoBack
  BY <1>6 DEF Linked, GoBack
<1>7. CASE GoBackRequest
  BY <1>7 DEF Linked, GoBackRequest
<1>8. CASE GoBackFlag
  BY <1>8 DEF Linked, GoBackFlag
<1>9. CASE GoBackName
  <2>1. PICK f \in Names \cup {Torn} : Assign(f)
    BY <1>0, <1>9, Assigned
  <2>2. draw' = draw
    BY <1>0, <1>9, <2>1, AssignForm DEF Turns, Frame, GoBackName
  <2>3. daemon.pc = "top" /\ daemon'.pc = "idle" /\ UNCHANGED goingBack
    BY <1>9 DEF GoBackName, Idle
  <2> QED
    BY <1>0, <2>3 DEF Turns, Linked
<1>10. CASE NoReload
  BY <1>0, <1>10 DEF Linked, NoReload
<1>11. CASE Reload
  BY <1>0, <1>11 DEF Linked, Reload, LoadStep
<1>12. CASE Call
  BY <1>0, <1>12 DEF Linked, Call
<1>13. CASE OpenFails
  BY <1>0, <1>13 DEF Turns, Linked, Allocated, OpenFails
<1>14. CASE Install
  BY <1>0, <1>14 DEF Turns, Frame, Linked, Install
<1>15. CASE Explore
  BY <1>0, <1>15 DEF TypeOK, Linked, Listed, Explore
<1>16. CASE Push
  BY <1>0, <1>16 DEF Linked, Push
<1>17. CASE Free
  BY <1>0, <1>17 DEF Turns, Frame, Linked, Free
<1>18. CASE ClearFlag
  BY <1>0, <1>18 DEF Turns, Frame, Linked, ClearFlag, LoadStep
<1>19. CASE Draw
  BY <1>0, <1>19 DEF Linked, Draw
<1>20. CASE Reject
  BY <1>0, <1>20 DEF TypeOK, Turns, Linked, Reject, LoadStep
<1>21. CASE NoTitle \/ NoText \/ PopAmidPush
  BY <1>21 DEF NoTitle, NoText, PopAmidPush
<1> QED
  BY <1>1, <1>2, <1>3, <1>4, <1>5, <1>6, <1>7, <1>8, <1>9, <1>10,
     <1>11, <1>12, <1>13, <1>14, <1>15, <1>16, <1>17, <1>18, <1>19, <1>20, <1>21 DEF Next, Daemon, DrawTask
-----------------------------------------------------------------------------
LEMMA TidyInit == Init => Tidy
<1> SUFFICES ASSUME Init PROVE Turns /\ Asked /\ OnTop /\ Linked
  BY DEF Tidy
<1>1. Turns
  BY DEF Init, Turns, Booting, Idle
<1>2. Asked /\ OnTop
  BY DEF Init, Asked, OnTop, Booting
<1>3. Linked
  BY DEF Init, Linked, Booting, Idle
<1> QED
  BY <1>1, <1>2, <1>3

LEMMA TidyStep == IInv /\ Tidy /\ [Next]_vars => Tidy'
<1> SUFFICES ASSUME IInv, Tidy, [Next]_vars PROVE Tidy'
  OBVIOUS
<1>1. CASE Panic
  BY <1>1, PanicTidy
<1>2. CASE Next /\ ~Panic /\ ~spoiled'
  BY <1>2, TurnsStep, AskedStep, OnTopStep, LinkedStep DEF Tidy
<1>3. CASE spoiled'
  BY <1>3 DEF Tidy
<1>4. CASE UNCHANGED vars
  BY <1>4 DEF vars, Tidy, Turns, Asked, OnTop, Linked, Frame, BackPending, PushPending
<1> QED
  BY <1>1, <1>2, <1>3, <1>4

(* Both invariants hold in every reachable state.                          *)
THEOREM TidyAlways == Spec => [](IInv /\ Tidy)
<1>1. Init => IInv /\ Tidy
  BY InitInv, TidyInit
<1>2. IInv /\ Tidy /\ [Next]_vars => (IInv /\ Tidy)'
  BY StepInv, TidyStep
<1> QED
  BY <1>1, <1>2, PTL DEF Spec

-----------------------------------------------------------------------------
(* The results                                                             *)

(* As long as no callback overlapped a load, the page on the screen is the *)
(* file on top of the stack whenever nothing is under way, unless go_back  *)
(* could not open its file (renderer.cpp:90-111, 240-282).                 *)
THEOREM ScreenIsTop == Spec => []HistoryAgrees
<1>1. ASSUME IInv, Tidy
      PROVE  HistoryAgrees
  <2>1. SUFFICES ASSUME Quiet, ~spoiled, dom # Null, draw.refused # "last"
                 PROVE  Last(stack) = doc[dom]
    BY DEF HistoryAgrees
  <2>2. Turns /\ OnTop
    BY <1>1, <2>1 DEF Tidy
  <2>3. ~BackPending /\ ~PushPending
    BY <2>1, <2>2 DEF Quiet, BackPending, PushPending
  <2> QED
    BY <2>1, <2>2, <2>3 DEF OnTop
<1> QED
  BY <1>1, TidyAlways, PTL
-----------------------------------------------------------------------------
(* The refinement                                                          *)

(* What the abstract history is mapped to.                                 *)
Shown == IF spoiled \/ draw.refused # "never" THEN <<>> ELSE Seen

LEMMA FrontAppend ==
    ASSUME NEW S, NEW t \in Seq(S), NEW e \in S
    PROVE  /\ Append(t, e) \in Seq(S) /\ Append(t, e) # <<>>
           /\ Len(Append(t, e)) = Len(t) + 1
           /\ Front(Append(t, e)) = t
<1>1. PICK s : s = Append(t, e)
  OBVIOUS
<1>2. /\ s \in Seq(S) /\ s # <<>> /\ Len(s) = Len(t) + 1
      /\ \A i \in 1..Len(t) : s[i] = t[i]
  BY <1>1, AppendProperties
<1>3. Front(s) \in Seq(S) /\ Len(Front(s)) = Len(t) /\ \A i \in 1..Len(t) : Front(s)[i] = t[i]
  <2>1. Len(t) \in Nat /\ Len(s) - 1 = Len(t)
    BY <1>2
  <2>2. /\ Front(s) \in Seq(S) /\ Len(Front(s)) = Len(s) - 1
        /\ \A i \in 1..Len(s) - 1 : Front(s)[i] = s[i]
    BY <1>2, FrontForm
  <2> QED
    BY <1>2, <2>1, <2>2
<1>4. Front(s) = t
  BY <1>3, SeqEqual
<1> QED
  BY <1>1, <1>2, <1>4

LEMMA AppendFront ==
    ASSUME NEW S, NEW s \in Seq(S), s # <<>>
    PROVE  Append(Front(s), Last(s)) = s
<1>1. PICK n \in Nat : n = Len(s) - 1 /\ Len(s) = n + 1
  BY EmptySeq
<1>2. PICK t : t = Front(s)
  OBVIOUS
<1>3. /\ t \in Seq(S) /\ Len(t) = n
      /\ \A i \in 1..n : t[i] = s[i]
      /\ Last(s) \in S /\ Last(s) = s[n + 1]
  BY <1>1, <1>2, FrontForm DEF Last
<1>4. PICK u : u = Append(t, Last(s))
  OBVIOUS
<1>5. /\ u \in Seq(S) /\ Len(u) = n + 1
      /\ \A i \in 1..n : u[i] = t[i]
      /\ u[n + 1] = Last(s)
  BY <1>3, <1>4
<1>6. \A i \in 1..Len(u) : u[i] = s[i]
  <2>1. \A i \in 1..n + 1 : i \in 1..n \/ i = n + 1
    OBVIOUS
  <2> QED
    BY <1>3, <1>5, <2>1
<1>7. u = s
  BY <1>1, <1>5, <1>6
<1> QED
  BY <1>2, <1>4, <1>7

(* The page on the screen is a page, and the files below it are paths.     *)
LEMMA PageForm ==
    ASSUME TypeOK
    PROVE  /\ stack \in Seq(Names \cup {Torn})
           /\ dom # Null => doc[dom] \in Files /\ doc[dom] \in Names \cup {Torn}
BY PageAssumption DEF TypeOK

(* The steps between a request and its answer leave the history as it is.  *)
LEMMA QuietStep ==
    ASSUME IInv, Tidy, Next, ~spoiled', ~Panic,
           draw.refused = "never", draw'.refused = "never",
           ~GoBack, ~Install, ~Push
    PROVE  Seen' = Seen
<1>0. TypeOK /\ Allocated /\ Pending /\ ~spoiled /\ Turns
  BY NotSpoiled DEF IInv
<1>1. CASE SelectNext
  BY <1>1 DEF Seen, BackPending, PushPending, SelectNext
<1>2. CASE SelectPrev
  BY <1>2 DEF Seen, BackPending, PushPending, SelectPrev
<1>3. CASE Interact
  BY <1>3 DEF Seen, BackPending, PushPending, Interact
<1>4. CASE InteractRequest
  BY <1>0, <1>4 DEF TypeOK, Turns, Seen, BackPending, PushPending, InteractRequest, Idle
<1>5. CASE InteractName
  <2>1. PICK f \in Names \cup {Torn} : Assign(f)
    BY <1>0, <1>5, Assigned
  <2>2. draw' = draw
    BY <1>0, <1>5, <2>1, AssignForm DEF Turns, Frame, InteractName
  <2>3. /\ daemon.pc = "href" /\ daemon'.pc = "idle"
        /\ UNCHANGED <<dom, doc, stack, mustReload, goingBack>>
    BY <1>5 DEF InteractName, Idle
  <2> QED
    BY <2>2, <2>3 DEF Seen, BackPending, PushPending
<1>6. CASE GoBackRequest
  BY <1>6 DEF Seen, BackPending, GoBackRequest
<1>7. CASE GoBackFlag
  BY <1>7 DEF Seen, BackPending, GoBackFlag
<1>8. CASE GoBackName
  <2>1. PICK f \in Names \cup {Torn} : Assign(f)
    BY <1>0, <1>8, Assigned
  <2>2. draw' = draw
    BY <1>0, <1>8, <2>1, AssignForm DEF Turns, Frame, GoBackName
  <2>3. daemon.pc = "top" /\ daemon'.pc = "idle" /\ UNCHANGED <<dom, doc, stack, mustReload, goingBack>>
    BY <1>8 DEF GoBackName, Idle
  <2> QED
    BY <1>0, <2>2, <2>3 DEF Turns, Seen, BackPending, PushPending
<1>9. CASE NoReload
  BY <1>9 DEF Seen, BackPending, PushPending, NoReload
<1>10. CASE Reload
  BY <1>10 DEF Seen, BackPending, PushPending, Reload, LoadStep
<1>11. CASE Call
  BY <1>11 DEF Seen, BackPending, PushPending, Call
<1>12. CASE OpenFails
  BY <1>0, <1>12 DEF TypeOK, Turns, Seen, BackPending, PushPending, OpenFails
<1>13. CASE Explore
  BY <1>0, <1>13 DEF TypeOK, Seen, BackPending, PushPending, Explore
<1>14. CASE Free
  <2>1. /\ draw.pc = "free" /\ draw'.pc \in {"render", "clear"} /\ daemon'.pc = daemon.pc
        /\ UNCHANGED <<dom, stack, mustReload, goingBack>>
    BY <1>0, <1>14 DEF TypeOK, Free
  <2>2. doc'[dom] = doc[dom]
    BY <1>0, <1>14, <2>1 DEF TypeOK, Allocated, Replacing, Free
  <2> QED
    BY <2>1, <2>2 DEF Seen, BackPending, PushPending
<1>15. CASE ClearFlag
  BY <1>0, <1>15 DEF Turns, Frame, Seen, BackPending, PushPending, ClearFlag, LoadStep
<1>16. CASE Draw
  BY <1>16 DEF Seen, BackPending, PushPending, Draw
<1>17. CASE Reject
  BY <1>0, <1>17 DEF TypeOK, Turns, Frame, Seen, BackPending, PushPending, Reject, LoadStep
<1>18. CASE NoTitle \/ NoText \/ PopAmidPush
  BY <1>18 DEF NoTitle, NoText, PopAmidPush
<1> QED
  BY <1>1, <1>2, <1>3, <1>4, <1>5, <1>6, <1>7, <1>8,
     <1>9, <1>10, <1>11, <1>12, <1>13, <1>14, <1>15, <1>16, <1>17, <1>18 DEF Next, Daemon, DrawTask

(* go_back takes the page from the stack that is still on the screen.      *)
LEMMA GoBackSeen ==
    ASSUME IInv, Tidy, GoBack, ~spoiled', draw.refused = "never"
    PROVE  Seen' = Seen
<1>1. /\ TypeOK /\ HistoryRooted /\ ~spoiled /\ ~Loading
      /\ daemon.pc = "idle" /\ daemon'.pc = "popped"
      /\ Len(stack) >= 2 /\ stack' = Front(stack) /\ UNCHANGED <<dom, doc, draw>>
  BY DEF IInv, GoBack, Begin, Idle
<1>2. Turns /\ OnTop
  BY <1>1 DEF Tidy
<1>3. ~BackPending /\ ~PushPending
  BY <1>1, <1>2 DEF Loading, BackPending, PushPending
<1>4. stack \in Seq(Names \cup {Torn}) /\ stack # <<>>
  BY <1>1, PageForm
<1>5. dom # Null
  BY <1>1, <1>4 DEF HistoryRooted
<1>6. Last(stack) = doc[dom]
  BY <1>2, <1>3, <1>5 DEF OnTop
<1>7. Seen = stack /\ Seen' = Append(Front(stack), doc[dom])
  BY <1>1, <1>3 DEF Seen, BackPending
<1> QED
  BY <1>4, <1>6, <1>7, AppendFront

(* The page that was followed is pushed.                                   *)
LEMMA PushSeen ==
    ASSUME IInv, Tidy, Push, ~spoiled'
    PROVE  Seen' = Seen
<1>1. TypeOK /\ Allocated /\ ~spoiled /\ daemon.pc = "idle" /\ draw.pc = "push" /\ draw'.pc = "free"
      /\ UNCHANGED <<dom, doc, mustReload, goingBack, daemon>>
  BY DEF IInv, TypeOK, Push
<1>2. Turns /\ Asked
  BY <1>1 DEF Tidy
<1>3. ~BackPending /\ ~BackPending' /\ ~PushPending'
  BY <1>1, <1>2 DEF Turns, Frame, BackPending, PushPending
<1>4. CASE draw.add
  <2>1. PICK f \in Path : stack' = Append(stack, f)
    BY <1>4 DEF Push
  <2>2. f = doc[dom]
    BY <1>1, <1>2, <2>1, AskedPath DEF Asked
  <2> QED
    BY <1>1, <1>3, <1>4, <2>1, <2>2 DEF Seen, PushPending
<1>5. CASE ~draw.add
  BY <1>3, <1>5 DEF Seen, PushPending, Push
<1> QED
  BY <1>4, <1>5

(* A load that succeeds opens the home page, follows a link or goes back.  *)
LEMMA InstallSeen ==
    ASSUME IInv, Tidy, Install, ~spoiled', draw.refused = "never"
    PROVE  \/ Seen = <<>> /\ Seen' = <<Home>>
           \/ /\ Seen # <<>>
              /\ \E f \in Range(Links[Last(Seen)]) \cap Files : Seen' = Append(Seen, f)
           \/ Len(Seen) >= 2 /\ Seen' = Front(Seen)
<1>1. /\ TypeOK /\ Allocated /\ HistoryRooted /\ ~spoiled
      /\ daemon.pc = "idle" /\ draw.pc = "open"
      /\ draw'.pc = "fill" /\ draw'.add = draw.add
      /\ UNCHANGED <<stack, mustReload, goingBack, daemon>>
  BY DEF IInv, TypeOK, Install
<1>2. Turns /\ Asked /\ OnTop /\ Linked
  BY <1>1 DEF Tidy
<1>3. PICK f \in Path \cap Files, d \in DomIds :
           doc' = [doc EXCEPT ![d] = f] /\ dom' = d
  BY DEF Install
<1>4. doc'[dom'] = f
  BY <1>1, <1>3 DEF TypeOK
<1>5. ~mustReload /\ ~BackPending' /\ ~PushPending /\ (BackPending <=> ~draw.add)
  BY <1>1, <1>2 DEF Turns, Frame, BackPending, PushPending
<1>6. stack \in Seq(Names \cup {Torn})
  BY <1>1, PageForm
<1>7. CASE draw.boot
  <2>1. draw.add /\ dom = Null /\ f = Home
    BY <1>1, <1>3, <1>7, PathForm DEF Allocated
  <2>2. stack = <<>>
    BY <1>1, <2>1 DEF HistoryRooted
  <2>3. Seen = <<>> /\ Seen' = Append(stack, Home)
    BY <1>1, <1>4, <1>5, <2>1, <2>2 DEF Seen, PushPending
  <2> QED
    BY <2>2, <2>3
<1>8. CASE ~draw.boot
  <2>0. f = file
    BY <1>1, <1>2, <1>3, <1>8, AskedPath
  <2>1. dom # Null /\ stack # <<>> /\ f = file
    BY <1>1, <1>8, <2>0 DEF Allocated, HistoryRooted
  <2>2. CASE draw.add
    <3>1. Seen = stack /\ Seen' = Append(stack, f)
      BY <1>1, <1>4, <1>5, <2>2 DEF Seen, PushPending
    <3>2. Last(stack) = doc[dom]
      BY <1>1, <1>5, <2>1, <2>2 , <1>2 DEF OnTop
    <3>3. f \in Range(Links[doc[dom]])
      BY <1>1, <1>2, <1>8, <2>1, <2>2 DEF Linked, Turns
    <3> QED
      BY <1>3, <2>1, <3>1, <3>2, <3>3
  <2>3. CASE ~draw.add
    <3>1. Seen = Append(stack, doc[dom]) /\ Seen' = stack
      BY <1>1, <1>5, <2>3 DEF Seen, PushPending
    <3>2. Front(Seen) = stack /\ Len(Seen) = Len(stack) + 1
      BY <1>1, <1>6, <2>1, <3>1, PageForm, FrontAppend
    <3>3. Len(stack) >= 1
      BY <1>6, <2>1
    <3> QED
      BY <1>6, <3>1, <3>2, <3>3
  <2> QED
    BY <2>2, <2>3
<1> QED
  BY <1>7, <1>8

(* What go_back could not open is never forgotten, but by a restart.       *)
LEMMA NeverRefused ==
    ASSUME TypeOK, Next, ~Panic, draw'.refused = "never"
    PROVE  draw.refused = "never"
<1> QED
  BY DEF TypeOK, Next, Assign, Reject, NoTitle, NoText, PopAmidPush, Daemon, DrawTask, SelectNext, SelectPrev, Interact, InteractRequest, InteractName,
         GoBack, GoBackRequest, GoBackFlag, GoBackName, NoReload, Reload, Call,
         OpenFails, Install, Explore, Push, Free, ClearFlag, Draw, LoadStep

LEMMA BrowserStep ==
    ASSUME IInv, Tidy, Next
    PROVE  Shown' = Shown \/ History!Next
<1>1. CASE Shown' = <<>>
  BY <1>1 DEF Shown, History!Next, History!Restart
<1>2. CASE Shown' # <<>>
  <2>1. ~spoiled' /\ draw'.refused = "never" /\ Shown' = Seen'
    BY <1>2 DEF Shown
  <2>2. ~Panic
    BY <1>2 DEF Panic, Shown, Seen, BackPending, PushPending, Booting, Idle
  <2>3. ~spoiled /\ draw.refused = "never" /\ Shown = Seen
    BY <2>1, <2>2, NotSpoiled, NeverRefused DEF Shown, IInv
  <2>4. CASE ~GoBack /\ ~Install /\ ~Push
    BY <2>1, <2>2, <2>3, <2>4, QuietStep
  <2>5. CASE GoBack
    BY <2>1, <2>3, <2>5, GoBackSeen
  <2>6. CASE Push
    BY <2>1, <2>3, <2>6, PushSeen
  <2>7. CASE Install
    <3>1. \/ Seen = <<>> /\ Seen' = <<Home>>
          \/ /\ Seen # <<>>
             /\ \E f \in Range(Links[Last(Seen)]) \cap Files : Seen' = Append(Seen, f)
          \/ Len(Seen) >= 2 /\ Seen' = Front(Seen)
      BY <2>1, <2>3, <2>7, InstallSeen
    <3>2. /\ History!Front(Seen) = Front(Seen) /\ History!Last(Seen) = Last(Seen)
          /\ History!Range(Links[Last(Seen)]) = Range(Links[Last(Seen)])
      BY DEF History!Front, Front, History!Last, Last, History!Range, Range
    <3>3. ~(spoiled \/ draw.refused # "never") /\ ~(spoiled \/ draw.refused # "never")'
      BY <2>1, <2>3
    <3>4. CASE Seen = <<>> /\ Seen' = <<Home>>
      BY <3>3, <3>4 DEF History!Next, History!Start
    <3>5. CASE Seen # <<>> /\ \E f \in Range(Links[Last(Seen)]) \cap Files : Seen' = Append(Seen, f)
      BY <3>2, <3>3, <3>5 DEF History!Next, History!Follow
    <3>6. CASE Len(Seen) >= 2 /\ Seen' = Front(Seen)
      BY <3>2, <3>3, <3>6 DEF History!Next, History!Back
    <3> QED
      BY <3>1, <3>4, <3>5, <3>6
  <2> QED
    BY <2>4, <2>5, <2>6, <2>7
<1> QED
  BY <1>1, <1>2

(* The two tasks implement a browser history until a callback overlaps a   *)
(* load or go_back's page cannot be opened, and again after a restart      *)
(* (renderer.cpp:90-111, 240-298).                                         *)
THEOREM NavigationIsHistory == Spec => Browses
<1>1. Init => History!Init
  BY DEF Init, History!Init, Seen, BackPending, PushPending, Booting, Idle
<1>2. IInv /\ Tidy /\ [Next]_vars => [History!Next]_Shown
  <2> SUFFICES ASSUME IInv, Tidy, [Next]_vars PROVE Shown' = Shown \/ History!Next
    OBVIOUS
  <2>1. CASE UNCHANGED vars
    BY <2>1 DEF vars, Shown, Seen, BackPending, PushPending
  <2> QED
    BY <2>1, BrowserStep
<1> QED
  BY <1>1, <1>2, TidyAlways, PTL DEF Spec, Browses, History!Spec, Shown
=============================================================================
