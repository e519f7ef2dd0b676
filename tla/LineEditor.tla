----------------------------- MODULE LineEditor -----------------------------
(***************************************************************************)
(* The command line of the debug shell (src/src/state.cpp:1-87, 157-163):  *)
(* one byte at a time from the host goes to the parser on top of a stack,  *)
(* which edits a NUL-terminated buffer in place.  Bytes are one-letter     *)
(* strings or the names of control characters.  The echo is left out.      *)
(***************************************************************************)
EXTENDS Integers, Sequences, SequencesExt

CONSTANTS
    Size,    \* CMD_BUF_SIZE
    Letters, \* the printable bytes the host types as text
    Bytes    \* all bytes the host sends; no NUL

ASSUME BufferAssumption ==
    /\ Size \in Nat \ {0, 1}
    /\ "NUL" \notin Bytes
    /\ Letters \subseteq Bytes \ {"CR", "LF", "BS", "DEL", "ESC"}

VARIABLES
    serialCmd, \* the buffer, indexed from 0
    cmdIdx,    \* the cursor
    parsers,   \* serialParserStack, top last
    second,    \* escapeSeqParser's static second: "[", "other" or "NUL"
    seq,       \* escapeSeqParser's static seq: no longer than "[D", as the code
               \* compares it with nothing longer
    command    \* ghost: the line given to parseCmd, until the text changes

vars == <<serialCmd, cmdIdx, parsers, second, seq, command>>

Index == 0..Size - 1

Init ==
    /\ serialCmd = [i \in Index |-> "NUL"]
    /\ cmdIdx = 0
    /\ parsers = <<"base">>
    /\ second = "NUL" /\ seq = <<>>
    /\ command = <<>>

(* The first NUL at or after i: where "while (serialCmd[cmdIdx])" stops.   *)
Nul(buffer, i) == CHOOSE e \in Index : e >= i /\ buffer[e] = "NUL"
                                        /\ \A k \in i..e - 1 : buffer[k] # "NUL"
End(i) == Nul(serialCmd, i)
Text == [i \in 1..End(0) |-> serialCmd[i - 1]]

(* While the line has its NUL inside the buffer.  Without one the loops    *)
(* run on through the memory behind it: the model ends there.              *)
Terminated == \E e \in Index : serialCmd[e] = "NUL"

Final(c) == c \notin {"CR", "LF", "BS", "ESC", "1", " ", "QUOTE"}  \* '\x40' <= c

-----------------------------------------------------------------------------
(* The loops over the buffer                                               *)

BadShiftRight(from) ==
    LET e == End(from)
        shifted[i \in from..e] ==
            IF i = from THEN [serialCmd EXCEPT ![i + 1] = serialCmd[i]]
            ELSE [shifted[i - 1] EXCEPT ![i + 1] = shifted[i - 1][i]]
    IN  shifted[e]

(* do serialCmd[i+1] = serialCmd[i] while (i-- > from), from the end down. *)
(* What goes to serialCmd[Size] is behind the buffer, and lost to it.      *)
ShiftRight(from) ==
    LET e == End(from)
        shifted[i \in from..e] ==
            IF i = e THEN [serialCmd EXCEPT ![i + 1] = serialCmd[i]]
            ELSE [shifted[i + 1] EXCEPT ![i + 1] = shifted[i + 1][i]]
    IN  shifted[from]

(* do serialCmd[i] = serialCmd[i+1] while (serialCmd[++i]), from cmdIdx up.*)
ShiftLeft(from) ==
    LET last == End(from + 1) - 1
        shifted[i \in from..last] ==
            IF i = from THEN [serialCmd EXCEPT ![i] = serialCmd[i + 1]]
            ELSE [shifted[i - 1] EXCEPT ![i] = shifted[i - 1][i + 1]]
    IN  shifted[last]

-----------------------------------------------------------------------------
(* baseSerialParser                                                        *)

Base == Last(parsers) = "base"

(* Nothing looks at the size of the buffer.                                *)
Insert(c) ==
    /\ Base
    /\ c \in Letters
    /\ serialCmd' = [ShiftRight(cmdIdx) EXCEPT ![cmdIdx] = c]
    /\ cmdIdx' = cmdIdx + 1
    /\ command' = <<>>
    /\ UNCHANGED <<parsers, second, seq>>

Erase(c) ==
    /\ Base
    /\ c \in {"BS", "DEL"}
    /\ serialCmd' = IF cmdIdx > 0 THEN ShiftLeft(cmdIdx - 1) ELSE serialCmd
    /\ cmdIdx' = IF cmdIdx > 0 THEN cmdIdx - 1 ELSE cmdIdx
    /\ command' = IF cmdIdx > 0 THEN <<>> ELSE command
    /\ UNCHANGED <<parsers, second, seq>>

Escape(c) ==
    /\ Base
    /\ c = "ESC"
    /\ parsers' = Append(parsers, "escape")
    /\ UNCHANGED <<serialCmd, cmdIdx, second, seq, command>>

BadEnterCutting(c, cut) ==
    /\ Base
    /\ c = "LF"
    /\ serialCmd[0] # "NUL"
    /\ command' = Text
    /\ serialCmd' = cut
    /\ cmdIdx' = 0
    /\ parsers' = <<Head(parsers)>>
    /\ UNCHANGED <<second, seq>>

(* Enter on a line that is not empty, cut into words by parseCmd.          *)
EnterCutting(c, cut) ==
    /\ Base
    /\ c = "LF"
    /\ serialCmd[0] # "NUL"
    /\ command' = Text
    /\ serialCmd' = [cut EXCEPT ![0] = "NUL"]
    /\ cmdIdx' = 0
    /\ parsers' = <<Head(parsers)>>
    /\ UNCHANGED <<second, seq>>

(* parseCmd writes NULs into the line; which ones is the matter of Shell,  *)
(* as the line is emptied right after.                                     *)
Enter(c) ==
    \E cuts \in SUBSET (0..End(0) - 1) :
        EnterCutting(c, [i \in Index |-> IF i \in cuts THEN "NUL" ELSE serialCmd[i]])

EnterEmpty(c) == Base /\ c = "LF" /\ serialCmd[0] = "NUL" /\ UNCHANGED vars

Ignore(c) == Base /\ c = "CR" /\ UNCHANGED vars

-----------------------------------------------------------------------------
(* escapeSeqParser                                                         *)

Seen(c) == IF c = "[" THEN "[" ELSE "other"
Keep(c) == IF Len(seq) < 2 THEN Append(seq, Seen(c)) ELSE seq

EscapeFirst(c) ==
    /\ ~Base
    /\ second = "NUL"
    /\ second' = Seen(c)
    /\ seq' = Keep(c)
    /\ UNCHANGED <<serialCmd, cmdIdx, parsers, command>>

EscapeCollect(c) ==
    /\ ~Base
    /\ second = "["
    /\ ~Final(c)
    /\ seq' = Keep(c)
    /\ UNCHANGED <<serialCmd, cmdIdx, parsers, second, command>>

BadCursor(c) ==
    CASE Append(seq, c) = <<"[", "D">> /\ cmdIdx > 0 -> cmdIdx - 1
      [] Append(seq, c) = <<"[", "C">>               -> cmdIdx + 1
      [] OTHER                                       -> cmdIdx

Cursor(c) ==
    CASE Append(seq, c) = <<"[", "D">> /\ cmdIdx > 0                   -> cmdIdx - 1
      [] Append(seq, c) = <<"[", "C">> /\ serialCmd[cmdIdx] # "NUL"    -> cmdIdx + 1
      [] OTHER                                                         -> cmdIdx

(* "[D" and "[C" move the cursor; either way the sequence is over and      *)
(* serialDataCB pops the parser.  A sequence that does not start with "["  *)
(* ends with the byte after its first.                                     *)
BadEscapeEnd(c) ==
    /\ ~Base
    /\ second # "NUL"
    /\ second = "[" => Final(c)
    /\ cmdIdx' = IF second = "[" THEN Cursor(c) ELSE cmdIdx
    /\ second' = "NUL"
    /\ parsers' = Front(parsers)
    /\ UNCHANGED <<serialCmd, command, seq>>

EscapeEnd(c) ==
    /\ ~Base
    /\ second # "NUL"
    /\ second = "[" => Final(c)
    /\ cmdIdx' = IF second = "[" THEN Cursor(c) ELSE cmdIdx
    /\ second' = "NUL" /\ seq' = <<>>
    /\ parsers' = Front(parsers)
    /\ UNCHANGED <<serialCmd, command>>

-----------------------------------------------------------------------------
(* Shell::serialDataCB hands every byte to the parser on top.              *)
Edit(c) ==
    \/ Insert(c) \/ Erase(c) \/ Escape(c) \/ EnterEmpty(c) \/ Ignore(c)
    \/ EscapeFirst(c) \/ EscapeCollect(c) \/ EscapeEnd(c)

(* Nothing is known of what the program does after it wrote behind the     *)
(* buffer, nor of how long it goes on.                                     *)
Overrun == ~Terminated /\ UNCHANGED vars

Next ==
    \/ Terminated /\ \E c \in Bytes : Enter(c) \/ Edit(c)
    \/ Overrun

Spec == Init /\ [][Next]_vars

(* Every variable holds values of its type; outside an escape sequence the *)
(* parser's statics are clear, so the next one starts anew (37-38, 43-44). *)
TypeOK ==
    /\ serialCmd \in [Index -> Bytes \cup {"NUL"}]
    /\ cmdIdx \in 0..Size
    /\ parsers \in {<<"base">>, <<"base", "escape">>}
    /\ second \in {"[", "other", "NUL"} /\ seq \in Seq({"[", "other"}) /\ Len(seq) <= 2
    /\ Base => second = "NUL" /\ seq = <<>>
    /\ command \in Seq(Letters)

(* As long as the line has not overrun the buffer, the cursor never leaves *)
(* the text, in spite of the bytes that earlier lines left behind it       *)
(* (state.cpp:33, 55).                                                     *)
CursorInText == Terminated => cmdIdx <= End(0)

(* The buffer holds a line of Size - 1 bytes: one more byte typed into     *)
(* such a line always costs it its NUL, and nothing else the host sends    *)
(* ever does, whatever earlier lines left in the buffer (state.cpp:57-63). *)
OverrunsWhenFull ==
    [][Terminated =>
        (~Terminated' <=> End(0) = Size - 1 /\ \E c \in Letters : Insert(c))]_vars

(* Until a line overruns the buffer, the loops over it do to the text what *)
(* a user expects of a command line, and Enter runs exactly what was typed.*)
CommandLine == INSTANCE Line WITH Printable <- Letters, text <- Text, cursor <- cmdIdx
EditsLine ==
    CommandLine!Init /\ [][~Terminated' \/ CommandLine!Next]_(CommandLine!vars)
=============================================================================
