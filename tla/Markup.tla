------------------------------- MODULE Markup -------------------------------
(***************************************************************************)
(* A page on its way from text to DOM: parse_string                        *)
(* (src/src/3ml_parser.cpp:13-93, 141-194), which reads texts and tags in  *)
(* turn and builds a tree of them with a stack of the tags that are open,  *)
(* and then clean_dom.  The two passes of parse_string are taken together. *)
(***************************************************************************)
EXTENDS Cleaner

CONSTANTS
    TextPieces, \* texts of a page: sequences of [letter] and [code]; <<>> also
                \* stands for white space
    Tags,       \* tags: [name, attributes, is_closing, is_self_closing]
    Inner3ML,   \* what scripts write: forests as parse_string makes them
    Ids,        \* the elements they write to
    MaxElements, \* bound on the elements of a page
    MaxTexts     \* bound on the texts that are not empty

(* An ampersand that is meant as a character is itself written as a code.  *)
ASSUME MarkupAssumption ==
    /\ TextPieces \subseteq Seq([letter : STRING \ {"&"}] \cup [code : 0..999])
    /\ Tags \subseteq [name : STRING, attributes : Attributes,
                      is_closing : BOOLEAN, is_self_closing : BOOLEAN]
    /\ Inner3ML \subseteq Seq(Nodes[MaxDepth])
    /\ Ids \subseteq STRING \ {""}
    /\ MaxElements \in Nat /\ MaxTexts \in Nat

VARIABLES
    mode,       \* is_normal_mode: "text" or "tag"
    top,        \* top_level_nodes
    stack,      \* tag_stack, top last
    dom,        \* what clean_dom returned
    list,       \* m_selectable_nodes, made when the page is loaded
    status,     \* "reading", "cleaned", or "hung" and "fault" for ever
    read,       \* ghost: what was read, a self-closing tag taken for two
    page,       \* ghost: the tree the DOM should show: without the empty texts of
                \* the page, and with what scripts have written
    written     \* ghost: the path to the element a script has written to, or <<>>

parser == <<mode, top, stack, read>>
vars == <<parser, dom, list, status, page, written>>

Init ==
    /\ mode = "text"
    /\ top = <<>> /\ stack = <<>>
    /\ dom = NoDom /\ list = <<>>
    /\ status = "reading"
    /\ read = <<>> /\ page = <<>> /\ written = <<>>

-----------------------------------------------------------------------------
(* Texts as they are written and as they are meant                         *)

IsCode(piece) == "code" \in DOMAIN piece
Letter(piece) == IF IsCode(piece) THEN Ascii(piece.code) ELSE piece.letter
Digit(n) == Digits[n + 1]
Decimal(code) ==
    (IF code >= 100 THEN <<Digit(code \div 100)>> ELSE <<>>)
        \o <<Digit((code % 100) \div 10), Digit(code % 10)>>
Written(piece) ==
    IF IsCode(piece) THEN <<"&", "#">> \o Decimal(piece.code) \o <<";">> ELSE <<piece.letter>>

OneCode(pieces) ==
    \A i, k \in DOMAIN pieces : IsCode(pieces[i]) /\ IsCode(pieces[k]) => i = k
Source(pieces) == FlattenSeq([i \in DOMAIN pieces |-> Written(pieces[i])])
Meant(pieces) == Trim([i \in DOMAIN pieces |-> Letter(pieces[i])])

-----------------------------------------------------------------------------
(* parse_string                                                            *)

Reading(what) == status = "reading" /\ mode = what

(* The endless loop of maybe_error, or a fault: the page is forgotten.     *)
Stops(how) ==
    /\ status' = how
    /\ mode' = "text" /\ top' = <<>> /\ stack' = <<>> /\ read' = <<>>
    /\ dom' = NoDom /\ list' = <<>> /\ page' = <<>> /\ written' = <<>>

BadAttach(node, open) == top' = Append(top, node) /\ stack' = open

(* A finished node goes to the tag that is open, if any.                   *)
Attach(node, open) ==
    IF open = <<>> THEN top' = Append(top, node) /\ stack' = <<>>
    ELSE /\ stack' = [open EXCEPT ![Len(open)].children = Append(@, node)]
         /\ UNCHANGED top

NewTag(t) == [name |-> t.name, attributes |-> t.attributes, children |-> <<>>]

TextsRead == Len(SelectSeq(read, LAMBDA token : token[1] = "text" /\ token[2] # <<>>))
ElementsRead == Len(SelectSeq(read, LAMBDA token : token[1] = "open"))

(* A text whose codes are meant to be independent of each other is read    *)
(* for what it says, except that the code only gets one of them right.     *)
(* Anything unprintable in it, written as it is or as a code, is an error. *)
ReadText(pieces) ==
    /\ Reading("text")
    /\ pieces = <<>> \/ TextsRead < MaxTexts
    /\ \E text \in {RemoveEscapeCodes(Source(pieces))} :
           LET result == Trim(text.result)
           IN  IF Unprintable \in ToSet(Source(pieces)) \/ text.error THEN Stops("hung")
               ELSE /\ Attach([text |-> result], stack)
                    /\ read' = Append(read, <<"text", IF OneCode(pieces) THEN Meant(pieces)
                                                      ELSE result>>)
                    /\ mode' = "tag"
                    /\ UNCHANGED <<dom, list, status, page, written>>

(* parse_tag and parse_attribute find fault with the tag itself.           *)
ReadBadTag == Reading("tag") /\ Stops("hung")

OpenTag(t) ==
    /\ Reading("tag") /\ ElementsRead < MaxElements /\ Len(stack) < MaxDepth
    /\ ~t.is_closing /\ ~t.is_self_closing
    /\ stack' = Append(stack, NewTag(t))
    /\ read' = Append(read, <<"open", t.name>>)
    /\ mode' = "text"
    /\ UNCHANGED <<top, dom, list, status, page, written>>

BadSelfClosingTag(t) ==
    /\ Reading("tag") /\ ElementsRead < MaxElements /\ Len(stack) < MaxDepth
    /\ t.is_self_closing
    /\ Attach(NewTag(t), stack)
    /\ read' = read \o <<<<"open", t.name>>, <<"close", t.name>>>>
    /\ UNCHANGED <<mode, dom, list, status, page, written>>

SelfClosingTag(t) ==
    /\ Reading("tag") /\ ElementsRead < MaxElements /\ Len(stack) < MaxDepth
    /\ t.is_self_closing
    /\ Attach(NewTag(t), stack)
    /\ read' = read \o <<<<"open", t.name>>, <<"close", t.name>>>>
    /\ mode' = "text"
    /\ UNCHANGED <<dom, list, status, page, written>>

(* A closing tag takes the top off the stack; there need not be one.       *)
CloseTag(t) ==
    /\ Reading("tag")
    /\ t.is_closing
    /\ CASE stack = <<>> -> Stops("fault")
         [] stack # <<>> /\ Last(stack).name # t.name -> Stops("hung")
         [] OTHER -> /\ Attach(Last(stack), Front(stack))
                     /\ read' = Append(read, <<"close", t.name>>)
                     /\ mode' = "text"
                     /\ UNCHANGED <<dom, list, status, page, written>>

IsContent(dirty) == ~IsText(dirty) \/ dirty.text # <<>>

(* What is drawn of a node: all but the empty texts in it.                 *)
Pruned[dirty \in Nodes[MaxDepth]] ==
    IF IsText(dirty) THEN dirty
    ELSE [dirty EXCEPT !.children =
             Filter([i \in DOMAIN dirty.children |-> Pruned[dirty.children[i]]], IsContent)]

AllPruned(nodes) == [i \in DOMAIN nodes |-> Pruned[nodes[i]]]

(* At the end of the file the tags that are still open are forgotten, the  *)
(* tree goes to clean_dom, and load_dom lists its selectable nodes         *)
(* (3ml_renderer.cpp:279, 300-306).                                        *)
EndOfFile ==
    /\ status = "reading"
    /\ \E cleaned \in {CleanDom(top)} :
           IF Failed(cleaned) THEN Stops(cleaned.failure)
           ELSE /\ status' = "cleaned"
                /\ dom' = cleaned
                /\ list' = SelectableNodes(cleaned)
                /\ page' = Filter(AllPruned(top), IsContent)
                /\ UNCHANGED <<parser, written>>

(* document.getElementById(id).inner3ML = ... in a script of the page.     *)
(* Without such an element the script ends.  The list stays as it is.      *)
SetInner3ML(id, forest) ==
    /\ status = "cleaned"
    /\ \E path \in {GetElementById(dom, id)} \ {<<>>} :
           LET inner == Inner(forest, NodeAt(dom.top_level_nodes, path))
           IN  /\ forest \in Seq(Nodes[MaxDepth - Len(path)])
               /\ IF \E i \in DOMAIN inner : Failed(inner[i]) THEN Stops("hung")
                  ELSE /\ dom' = [dom EXCEPT !.top_level_nodes = WithChildren(@, path, inner)]
                       /\ page' = WithChildren(page, path, AllPruned(forest))
                       /\ written' = path
                       /\ UNCHANGED <<parser, list, status>>

Next ==
    \/ \E pieces \in TextPieces : ReadText(pieces)
    \/ \E t \in Tags : OpenTag(t) \/ SelfClosingTag(t) \/ CloseTag(t)
    \/ ReadBadTag \/ EndOfFile
    \/ \E id \in Ids, forest \in Inner3ML : SetInner3ML(id, forest)

Spec == Init /\ [][Next]_vars

-----------------------------------------------------------------------------
(* Properties                                                              *)

TokensOf[dirty \in Nodes[MaxDepth]] ==
    IF IsText(dirty) THEN <<<<"text", dirty.text>>>>
    ELSE <<<<"open", dirty.name>>>>
             \o FlattenSeq([i \in DOMAIN dirty.children |-> TokensOf[dirty.children[i]]])
             \o <<<<"close", dirty.name>>>>

Tokens(nodes) == FlattenSeq([i \in DOMAIN nodes |-> TokensOf[nodes[i]]])

(* Every variable holds values of its type; texts and tags alternate.      *)
TypeOK ==
    /\ mode \in {"text", "tag"}
    /\ mode = "tag" <=> read # <<>> /\ Last(read)[1] = "text"
    /\ status \in {"reading", "cleaned", "hung", "fault"}
    /\ \A i \in DOMAIN stack : ~IsText(stack[i])
    /\ dom.num_selectable_nodes \in Nat
    /\ dom # NoDom => status = "cleaned"

(* The nodes and the open tags are together exactly what was read, in its  *)
(* order and nesting (3ml_parser.cpp:163-191), with the text that was      *)
(* meant wherever at most one escape code is in it.                        *)
ReadsAll ==
    read = Tokens(top)
             \o FlattenSeq([i \in DOMAIN stack |->
                              <<<<"open", stack[i].name>>>> \o Tokens(stack[i].children)])

(* What a page may look like, from the messages of 3ml_cleaner.cpp.        *)
Content(dirty) == Filter(dirty.children, IsContent)
TypesIn(dirty) ==
    {IF IsText(child) THEN "PLAINTEXT" ELSE NodeType(child) : child \in ToSet(Content(dirty))}

Valid[dirty \in Elements] ==
    LET type == NodeType(dirty)
        types == TypesIn(dirty)
    IN  /\ type # "invalid" /\ HasAttributes(type, dirty.attributes)
        /\ type \in {"TITLE", "H1", "A", "BUTTON"} =>
               Len(Content(dirty)) <= 1 /\ types \subseteq {"PLAINTEXT"}
        /\ type = "SCRIPT" => types = {}
        /\ type = "HEAD" => types \subseteq {"SCRIPT", "TITLE"}
        /\ type = "BODY" => {"SCRIPT", "TITLE"} \cap types = {}
        /\ \A child \in ToSet(Content(dirty)) :
               IF IsText(child) THEN Wrappable(child.text, Columns[type]) ELSE Valid[child]

(* A page is cleaned exactly when it is valid; every other one stops the   *)
(* firmware, in whatever order its nodes are created and added             *)
(* (3ml_cleaner.cpp:87-127, 158-159, 179-215, 244-288).  What is in tags   *)
(* that are still open at its end is not part of it, valid or not.         *)
CleansValid ==
    [][EndOfFile =>
        (status' = "cleaned") =
            \A dirty \in ToSet(top) :
                IF IsText(dirty) THEN dirty.text = <<>>
                ELSE Valid[dirty] /\ NodeType(dirty) \in {"HEAD", "BODY"}]_vars

TextNodes[node \in DomTrees] ==
    FlattenSeq([i \in DOMAIN node.children |->
        LET child == node.children[i]
        IN  IF child.type # "PLAINTEXT" THEN TextNodes[child]
            ELSE <<[lines |-> child.lines, width |-> Columns[node.type]]>>])

(* How many tags are open after the first n tokens of the page, and the    *)
(* longest part of it that leaves none open.                               *)
OpenAfter(n) ==
    Cardinality({i \in 1..n : read[i][1] = "open"})
        - Cardinality({i \in 1..n : read[i][1] = "close"})
Whole == SubSeq(read, 1, Max({n \in 0..Len(read) : OpenAfter(n) = 0}))

IsShown(token) == token[1] = "text" => token[2] # <<>>

(* The lines of the page are the texts that were read, before the first    *)
(* tag that is never closed, and those its scripts have written, complete  *)
(* and in order, and none is too wide for its place or broken within a     *)
(* word (3ml_parser.cpp:165-193, 3ml_cleaner.cpp:146-163,                  *)
(* 3ml_jsbindings.cpp:53-57).  A tag that is never closed takes the rest   *)
(* of the page with it, without a warning.                                 *)
KeepsText ==
    LET texts == FlattenSeq([i \in DOMAIN dom.top_level_nodes |-> TextNodes[dom.top_level_nodes[i]]])
    IN  status = "cleaned" =>
            /\ written = <<>> => Tokens(page) = Filter(Whole, IsShown)
            /\ [i \in DOMAIN texts |-> <<"text", FlattenSeq(texts[i].lines)>>]
                   = Filter(Tokens(page), LAMBDA token : token[1] = "text")
            /\ \A i \in DOMAIN texts : \A k \in DOMAIN texts[i].lines :
                   LET line == texts[i].lines[k]
                   IN  /\ Len(line) <= texts[i].width
                       /\ k < Len(texts[i].lines) => Last(line) = " "

(* The number of selectable nodes a DOM keeps is the length of the list    *)
(* the renderer makes of it (3ml_cleaner.cpp:129-134, 203-216;             *)
(* 3ml_renderer.cpp:27-44).                                                *)
CountsSelectable == dom.num_selectable_nodes = Len(list)

(* renderer.h:103: the index under which render_link puts the position of  *)
(* a link, which counts the links drawn before it, is "the index in the    *)
(* selectable nodes list of this node" (3ml_renderer.cpp:187-191), also    *)
(* after a script has written other links into the page.                   *)
LinkIndexed ==
    LET drawn == SelectSeq(SelectableNodes(dom), LAMBDA node : node.drawn)
    IN  (\A i \in DOMAIN drawn : drawn[i].text) =>
            \A i \in DOMAIN drawn :
                /\ i <= Len(list) /\ drawn[i].path = list[i].path
                /\ written = <<>> \/ ~IsStrictPrefix(written, drawn[i].path)
=============================================================================
