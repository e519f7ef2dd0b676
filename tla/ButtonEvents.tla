---------------------------- MODULE ButtonEvents ----------------------------
(***************************************************************************)
(* What Button promises a client that registers a callback for every       *)
(* event, from the documentation of Button::Event: a press, then at the    *)
(* release its duration-specific event, then the release itself.           *)
(***************************************************************************)
CONSTANT Buttons
VARIABLE last

Init == last = [b \in Buttons |-> "RELEASE"]

Follows(e) ==
    CASE e = "RELEASE"           -> {"PRESS"}
      [] e = "PRESS"             -> {"CLICK", "HOLD"}
      [] e \in {"CLICK", "HOLD"} -> {"RELEASE"}

Deliver(b) == \E e \in Follows(last[b]) : last' = [last EXCEPT ![b] = e]

Next == \E b \in Buttons : Deliver(b)

Spec == Init /\ [][Next]_last
=============================================================================
