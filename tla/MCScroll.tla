------------------------------ MODULE MCScroll ------------------------------
(* Instances of Scroll for TLC: pages in quarters of the firmware's        *)
(* pixels, so that a link of one line is 1 + 5 high.                       *)
EXTENDS Scroll

Link == [link |-> TRUE, size |-> 6]
Text(lines) == [link |-> FALSE, size |-> 1 + 5 * lines]

(* A page of two and a half viewports and one that fits the viewport.      *)
FirmwarePages ==
    [long  |-> <<Link, Text(6), Link, Text(7), Link>>,
     short |-> <<Link, Text(1), Link>>]
=============================================================================
