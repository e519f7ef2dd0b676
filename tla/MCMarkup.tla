------------------------------ MODULE MCMarkup ------------------------------
(* Pages of three elements with texts about as wide as a line: four        *)
(* characters, three in a heading, where "abc" can only be the last word.  *)
EXTENDS Markup

ColumnsMC ==
    [type \in {"TITLE", "DIV", "HEAD", "BODY", "SCRIPT", "H1", "A", "BUTTON", "SLIDER", "TEXT_INPUT"} |->
        IF type = "H1" THEN 3 ELSE 4]

Spell(letters) == [i \in DOMAIN letters |-> [letter |-> letters[i]]]

TextPiecesMC ==
    {<<>>,
     Spell(<<"a", "b", "c">>) \o <<[code |-> 9]>> \o Spell(<<"d", "e", " ", "f">>),
     Spell(<<" ", "a", "b">>) \o <<[code |-> 60]>>,
     <<[code |-> 9]>> \o Spell(<<"a">>) \o <<[code |-> 60]>>,
     Spell(<<"a", Unprintable>>)}

Open(name, attributes) ==
    [name |-> name, attributes |-> attributes, is_closing |-> FALSE, is_self_closing |-> FALSE]
Close(name) == [name |-> name, attributes |-> <<>>, is_closing |-> TRUE, is_self_closing |-> FALSE]
Alone(name, attributes) == [Open(name, attributes) EXCEPT !.is_self_closing = TRUE]

TagsMC ==
    {Open("head", <<>>), Open("div", <<>>),
     Open("body", <<<<"id", "b">>>>), Open("h1", <<<<"id", "x">>>>)}
        \cup {Close(name) : name \in {"head", "body", "div", "h1", "a"}}
        \cup {Open("a", <<<<"href", "f">>, <<"id", "x">>, <<"href", "g">>>>),
              Alone("script", <<<<"src", "f">>>>),
              Alone("input", <<<<"type", "range">>, <<"min", 1>>, <<"max", 2>>>>),
              Alone("input", <<<<"href", "f">>>>)}

AttributesMC == {t.attributes : t \in TagsMC} \cup {<<<<"href", "f">>>>}

(* Scripts write a text as wide as a heading takes, another link with the  *)
(* empty texts around it, or a text too wide for a heading.                *)
TextNode(letters) == [text |-> letters]
TagNode(name, attributes, children) ==
    [name |-> name, attributes |-> attributes, children |-> children]

Inner3MLMC ==
    {<<TextNode(<<"a", "b", " ", "c">>)>>,
     <<TextNode(<<>>),
       TagNode("div", <<>>, <<TextNode(<<>>), TagNode("a", <<<<"href", "f">>>>, <<TextNode(<<"a">>)>>),
                              TextNode(<<>>)>>)>>,
     <<TextNode(<<"a", "b", "c", "d">>)>>}
=============================================================================
