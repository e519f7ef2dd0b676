----------------------------- MODULE MCRenderer -----------------------------
(* Instances of Renderer for TLC.                                          *)
EXTENDS Renderer

CONSTANTS home, about, broken, blank

(* The shape of src/data: a home page with three links and a shorter page  *)
(* that links back.  Besides, a file that is no valid page, and a page     *)
(* with a heading that has no text.                                        *)
FirmwareLinks == [f \in {home, about, blank} |->
    CASE f = home  -> <<broken, NotALink, about>>
      [] f = about -> <<home, blank>>
      [] f = blank -> <<>>]
=============================================================================
