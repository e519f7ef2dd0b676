\* Lines of up to five bytes, and the sixth that overruns the buffer; three
\* words or two of which one is quoted, with cursor keys, erasing and other
\* escape sequences.
SPECIFICATION ShellSpec
CONSTANTS
    Size = 6
    Letters = {"a", " ", "QUOTE"}
    Bytes = {"a", " ", "QUOTE", "[", "C", "D", "BS", "LF", "CR", "ESC"}
    Early <- EarlyMC
    Late <- LateMC
    Words <- WordsMC
    MaxWords = 3
INVARIANTS ShellTypeOK  RunsAsWritten
PROPERTIES EditsLine  FindsCommand
