------------------------------- MODULE Shell --------------------------------
(***************************************************************************)
(* From a line of the debug shell to a command that runs                   *)
(* (src/src/state.cpp:94-155, src/src/main.cpp:351-374): parseCmd cuts the *)
(* line in the buffer into words, looks the first one up in the registry   *)
(* and launches the Shell Evaluator with pointers into the buffer, which   *)
(* the host goes on editing.  The registry gets its last entry from setup  *)
(* while the USB task already takes lines.                                 *)
(***************************************************************************)
EXTENDS LineEditor

CONSTANTS
    Early,      \* the commands registered before the USB task runs
    Late,       \* the one registered after the file system was mounted
    Words,      \* how a user writes words: [quoted : BOOLEAN, text]
    MaxWords    \* bound on the words of a line that the properties look at

ASSUME CommandAssumption ==
    Late \notin Early /\ <<>> \notin Early \cup {Late} /\ MaxWords \in Nat

(* There is no way to write a quote in a word, nor a space in one that is  *)
(* not quoted, nor to leave such a one empty.                              *)
ASSUME WordAssumption ==
    \A w \in Words :
        /\ w \in [quoted : BOOLEAN, text : Seq(Letters)]
        /\ \A k \in 1..Len(w.text) :
               w.text[k] # "QUOTE" /\ (~w.quoted => w.text[k] # " ")
        /\ ~w.quoted => w.text # <<>>

VARIABLES
    registry,   \* the keys of cmdRegistry
    setup,      \* where setup() is: "mounting", "inserting" or "done"
    evaluator,  \* the bound command of the evaluator task, <<>> when it is idle
    answer      \* ghost: what became of a line just entered

shell == <<registry, setup, evaluator, answer>>

ShellInit ==
    /\ Init
    /\ registry = Early /\ setup = "mounting"
    /\ evaluator = <<>>
    /\ answer = "none"

-----------------------------------------------------------------------------
(* parseCmd                                                                *)

CString(buffer, i) == [k \in 1..Nul(buffer, i) - i |-> buffer[i + k - 1]]

BadTake(s) ==
    [s EXCEPT !.name = IF @ = <<>> THEN CString(s.buffer, s.word) ELSE @,
              !.args = Append(@, s.word)]

(* The word that begins at s.word: the name is copied, an argument is      *)
(* kept as a pointer.                                                      *)
Take(s) ==
    IF s.name = <<>> THEN [s EXCEPT !.name = CString(s.buffer, s.word)]
    ELSE [s EXCEPT !.args = Append(@, s.word)]

Quote(s, i) ==
    [s EXCEPT !.quotes = ~@,
              !.word = IF s.quotes THEN @ ELSE i + 1,
              !.buffer = IF s.quotes THEN [@ EXCEPT ![i] = "NUL"] ELSE @]

BadSpace(s, i) == [Take(s) EXCEPT !.word = i + 1]

Space(s, i) == [Take([s EXCEPT !.buffer[i] = "NUL"]) EXCEPT !.word = i + 1]

(* One turn of the loop, at byte i.                                        *)
Turn(s, i) ==
    CASE s.buffer[i] = "QUOTE"                                   -> Quote(s, i)
      [] s.buffer[i] = " " /\ ~s.quotes /\ s.word < i            -> Space(s, i)
      [] OTHER                                                   -> s

Start == [buffer |-> serialCmd, word |-> 0, quotes |-> FALSE, name |-> <<>>, args |-> <<>>]

(* The line in the buffer after the loop, with the words found.            *)
Parsed(length) ==
    LET loop[n \in 0..length] == IF n = 0 THEN Start ELSE Turn(loop[n - 1], n - 1)
    IN  IF loop[length].word < length THEN Take(loop[length]) ELSE loop[length]

BadFound(name) == {name \in Early \cup {Late}}

(* The lookup is exact unless setup is inserting, when it may go either    *)
(* way (that it may crash as well only leads back to the initial state).   *)
Found(name) == IF setup = "inserting" THEN BOOLEAN ELSE {name \in registry}

(* The launch of the evaluator can fail.                                   *)
Answers(name) == UNION {IF found THEN {"launched", "failed"} ELSE {"unknown"} : found \in Found(name)}

(* Enter on a line that is not empty.  A host may type ahead, but sends no *)
(* second line before the evaluator has read the first (see TaskContainer  *)
(* for what happens then).                                                 *)
RunLine(c) ==
    /\ evaluator = <<>>
    /\ LET line == Parsed(End(0))
       IN  /\ EnterCutting(c, line.buffer)
           /\ answer' \in Answers(line.name)
           /\ evaluator' = IF answer' = "launched"
                           THEN <<[name |-> line.name, args |-> line.args]>> ELSE <<>>
    /\ UNCHANGED <<registry, setup>>

(* Every other byte only edits the line.  Bound: one change of the text    *)
(* ahead of the evaluator, as its arguments may be anything from then on.  *)
EditLine(c) ==
    /\ evaluator # <<>> => command # <<>>
    /\ Edit(c)
    /\ answer' = "none"
    /\ UNCHANGED <<registry, setup, evaluator>>

(* The evaluator task: boundCmd() reads its arguments, then it prompts.    *)
Read(bound) ==
    <<bound.name>> \o [k \in DOMAIN bound.args |-> CString(serialCmd, bound.args[k])]

Evaluate ==
    /\ evaluator # <<>>
    /\ evaluator' = <<>>
    /\ answer' = "none"
    /\ UNCHANGED <<vars, registry, setup>>

-----------------------------------------------------------------------------
(* setup() inserts the last command once the file system is mounted; when  *)
(* it cannot be mounted, this never happens.                               *)
Mount ==
    /\ setup = "mounting"
    /\ setup' = "inserting"
    /\ UNCHANGED <<vars, registry, evaluator, answer>>

Inserted ==
    /\ setup = "inserting"
    /\ registry' = registry \cup {Late}
    /\ setup' = "done"
    /\ UNCHANGED <<vars, evaluator, answer>>

ShellNext ==
    \/ Terminated /\ \/ \E c \in Bytes : RunLine(c) \/ EditLine(c)
                     \/ Evaluate \/ Mount \/ Inserted
    \/ Overrun /\ UNCHANGED shell

ShellSpec == ShellInit /\ [][ShellNext]_<<vars, shell>>

-----------------------------------------------------------------------------
(* How words make a line, against which parseCmd is compared               *)

Written(w) == IF w.quoted THEN <<"QUOTE">> \o w.text \o <<"QUOTE">> ELSE w.text

Line(ws) ==
    LET joined[n \in 1..Len(ws)] ==
            IF n = 1 THEN Written(ws[1]) ELSE joined[n - 1] \o <<" ">> \o Written(ws[n])
    IN  joined[Len(ws)]

WordLists == {ws \in UNION {[1..n -> Words] : n \in 1..MaxWords} : ws[1].text # <<>>}
Texts(ws) == [k \in DOMAIN ws |-> ws[k].text]

(* Every variable holds values of its type.                                *)
ShellTypeOK ==
    /\ TypeOK
    /\ registry \in SUBSET (Early \cup {Late})
    /\ setup \in {"mounting", "inserting", "done"}
    /\ \A k \in DOMAIN evaluator : evaluator[k].args \in Seq(Index \ {0})
    /\ Len(evaluator) <= 1
    /\ answer \in {"none", "launched", "failed", "unknown"}

(* Until the host types again, the evaluator reads the words that were     *)
(* written, quoted or not: the NULs that end them outlive the emptied      *)
(* line, although the arguments point into it (state.cpp:82, 129, 139).    *)
RunsAsWritten ==
    evaluator # <<>> /\ command # <<>> =>
        \A ws \in WordLists :
            command \in {Line(ws), Append(Line(ws), " ")} => Read(Head(evaluator)) = Texts(ws)

(* A written line is answered by its own command: it is unknown exactly    *)
(* when its first word is not registered, unless setup is at that very     *)
(* moment inserting (state.cpp:144-153, main.cpp:366-370).                 *)
FindsCommand ==
    [][Terminated /\ (\E c \in Bytes : RunLine(c)) /\ setup # "inserting" =>
        \A ws \in WordLists : command' = Line(ws) =>
            (answer' # "unknown") = (ws[1].text \in registry)]_<<vars, shell>>
=============================================================================
