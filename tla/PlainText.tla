----------------------------- MODULE PlainText ------------------------------
(***************************************************************************)
(* What happens to the text of a page: escape codes are replaced           *)
(* (src/src/3ml_parser.cpp:95-139) and the text is wrapped into lines      *)
(* (src/src/3ml_cleaner.cpp:137-163).  A text is a sequence of one-letter  *)
(* strings; line breaks within a text are left out.                        *)
(***************************************************************************)
EXTENDS Integers, Sequences, SequencesExt, FiniteSetsExt

(* The elements of a sequence that pass a test.                            *)
Filter(seq, Test(_)) ==
    FlattenSeq([i \in DOMAIN seq |-> IF Test(seq[i]) THEN <<seq[i]>> ELSE <<>>])

Digits == <<"0", "1", "2", "3", "4", "5", "6", "7", "8", "9">>
IsDigit(c) == c \in ToSet(Digits)

(* All white space is one character here, and so is what is neither        *)
(* printable nor white space.                                              *)
Unprintable == "DEL"
IsWhite(code) == code = 32 \/ code \in 9..13
Ascii(code) == CASE IsWhite(code) -> " " [] code = 60 -> "<" [] OTHER -> "?"
IsPrintable(code) == code \in 32..126 \/ IsWhite(code)

(* The provers do not take a literal for a string by themselves.           *)
ASSUME PlainTextAssumption == {"", " ", "<", "?"} \subseteq STRING

-----------------------------------------------------------------------------
(* remove_escape_codes: one character after the other.                     *)

EscapeDigit(s, digit) ==
    LET num == s.num * 10 + digit
    IN  [s EXCEPT !.num = num, !.error = s.expect_hashtag \/ num >= 256]

(* The number is not reset: a second code starts from the first.           *)
EscapeEnd(s) ==
    [s EXCEPT !.error = ~IsPrintable(s.num) \/ s.expect_hashtag,
              !.in_escape_code = FALSE,
              !.result = Append(@, Ascii(s.num))]

Unescape(s, c) ==
    IF s.error THEN s
    ELSE CASE ~s.in_escape_code /\ c = "&" ->
                  [s EXCEPT !.in_escape_code = TRUE, !.expect_hashtag = TRUE]
           [] ~s.in_escape_code /\ c # "&" -> [s EXCEPT !.result = Append(@, c)]
           [] s.in_escape_code /\ c = "#" ->
                  [s EXCEPT !.error = ~s.expect_hashtag, !.expect_hashtag = FALSE]
           [] s.in_escape_code /\ IsDigit(c) ->
                  EscapeDigit(s, SelectInSeq(Digits, LAMBDA d : d = c) - 1)
           [] s.in_escape_code /\ c = ";" -> EscapeEnd(s)
           [] OTHER -> [s EXCEPT !.error = TRUE]

RemoveEscapeCodes(escaped) ==
    LET after[n \in 0..Len(escaped)] ==
            IF n = 0 THEN [in_escape_code |-> FALSE, expect_hashtag |-> FALSE, num |-> 0,
                           result |-> <<>>, error |-> FALSE]
            ELSE Unescape(after[n - 1], escaped[n])
    IN  after[Len(escaped)]

(* The positions of the words, from the first to the last.                 *)
Trim(text) ==
    LET solid == {i \in DOMAIN text : text[i] # " "}
    IN  IF solid = {} THEN <<>> ELSE SubSeq(text, Min(solid), Max(solid))

-----------------------------------------------------------------------------
(* The constructor of a plaintext DOMNode: a line takes what fits, back to *)
(* the last space in it, unless all the rest fits.  A line without a space *)
(* is an error.                                                            *)

Fitting(rest, width) == SubSeq(rest, 1, IF Len(rest) > width THEN width ELSE Len(rest))

BadBreak(rest, width) == Len(Fitting(rest, width))

(* The length of the first line; 0 when it cannot be broken.               *)
Break(rest, width) ==
    IF Len(rest) <= width THEN Len(rest)
    ELSE Max({0} \cup {k \in 1..width : rest[k] = " "})

(* The lines of text, or an error.                                         *)
Wrap(text, width) ==
    LET from[start \in 0..Len(text)] ==
            LET rest == SubSeq(text, start + 1, Len(text))
                len == Break(rest, width)
            IN  CASE rest = <<>> -> [error |-> FALSE, lines |-> <<>>]
                  [] rest # <<>> /\ len = 0 -> [error |-> TRUE, lines |-> <<>>]
                  [] OTHER -> LET tail == from[start + len]
                              IN  [tail EXCEPT !.lines = <<SubSeq(rest, 1, len)>> \o @]
    IN  from[0]

(* Property: a word and the space after it go into a line, or a word that  *)
(* ends the text alone.                                                    *)
Wrappable(text, width) ==
    \A first \in DOMAIN text, last \in DOMAIN text :
        (\A i \in first..last : text[i] # " ") =>
            last - first + 1 < width + (IF last = Len(text) THEN 1 ELSE 0)
=============================================================================
