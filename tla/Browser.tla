------------------------------- MODULE Browser -------------------------------
(***************************************************************************)
(* What the renderer's navigation promises its user: a history of pages,   *)
(* the last of them on the screen.  HOLD on the down button follows a link *)
(* of that page, HOLD on the up button goes back, and a restart of the     *)
(* firmware begins at the home page again.                                 *)
(***************************************************************************)
EXTENDS Sequences, SequencesExt

CONSTANTS
    Files,  \* the pages that can be opened
    Home,   \* the page the firmware starts with
    Links   \* Links[f]: the targets of the selectable nodes of page f
VARIABLE history

Init == history = <<>>

Start == history = <<>> /\ history' = <<Home>>

Follow ==
    /\ history # <<>>
    /\ \E f \in Range(Links[Last(history)]) \cap Files : history' = Append(history, f)

Back == Len(history) >= 2 /\ history' = Front(history)

Restart == history' = <<>>

Next == Start \/ Follow \/ Back \/ Restart

Spec == Init /\ [][Next]_history
=============================================================================
