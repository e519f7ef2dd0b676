------------------------------ MODULE Cleaner -------------------------------
(***************************************************************************)
(* clean_dom (src/src/3ml_cleaner.cpp): turns the tree of the parser into  *)
(* the DOM that is drawn.  A node of the parser is [text] or [name,        *)
(* attributes, children], an attribute a pair <<name, value>>.  Whatever   *)
(* is wrong with a page ends in maybe_error's endless loop.                *)
(***************************************************************************)
EXTENDS PlainText

CONSTANTS
    Columns,    \* Columns[type]: the characters of a line in a node of that type
    Attributes, \* the lists of attributes tags are written with
    MaxDepth    \* bound on the nesting of elements

Texts == Seq(STRING)
IsText(dirty) == "text" \in DOMAIN dirty

(* The nodes of the parser with at most that many elements nested.         *)
Nodes[depth \in 0..MaxDepth] ==
    [text : Texts]
        \cup IF depth = 0 THEN {}
             ELSE [name : STRING, attributes : Attributes, children : Seq(Nodes[depth - 1])]

Elements == {node \in Nodes[MaxDepth] : ~IsText(node)}

TagTypes == [title |-> "TITLE", div |-> "DIV", head |-> "HEAD", body |-> "BODY",
             script |-> "SCRIPT", h1 |-> "H1", a |-> "A", button |-> "BUTTON"]

Types == {TagTypes[name] : name \in DOMAIN TagTypes} \cup {"SLIDER", "TEXT_INPUT"}

(* The nodes of the DOM; a text has lines, and no children.                *)
DomNodes[depth \in 0..MaxDepth] ==
    [type : Types \cup {"PLAINTEXT"}, id : STRING, lines : Seq(Texts),
     children : IF depth = 0 THEN {<<>>} ELSE Seq(DomNodes[depth - 1]),
     num_selectable_children : Nat, selectable : BOOLEAN]

DomTrees == DomNodes[MaxDepth]

(* What a constructor or add_child may come to instead of a node.          *)
Hang == [failure |-> "hung"]
Fault == [failure |-> "fault"]
Failed(node) == "failure" \in DOMAIN node

-----------------------------------------------------------------------------
(* Attributes                                                              *)

Values(attributes, name) ==
    LET named == Filter(attributes, LAMBDA attr : attr[1] = name)
    IN  [i \in DOMAIN named |-> named[i][2]]

(* unique_attributes: the first of a name stays; the id is kept elsewhere. *)
Unique(attributes) ==
    [name \in {attributes[i][1] : i \in DOMAIN attributes} \ {"id"} |->
        Head(Values(attributes, name))]

(* verify_slider_attributes; a value that is not a number is -1 here.      *)
IsSlider(unique) ==
    /\ {"min", "max"} \subseteq DOMAIN unique
    /\ 0 <= unique["min"] /\ unique["min"] < unique["max"]

(* The checks of the constructor of a tag's DOMNode.                       *)
HasAttributes(type, attributes) ==
    LET unique == Unique(attributes)
    IN  /\ Len(Values(attributes, "id")) <= 1
        /\ CASE type = "A"          -> "href" \in DOMAIN unique
             [] type = "BUTTON"     -> "onclick" \in DOMAIN unique
             [] type = "SCRIPT"     -> "src" \in DOMAIN unique
             [] type = "SLIDER"     -> IsSlider(unique)
             [] type = "TEXT_INPUT" -> DOMAIN unique = {} \/ "oninput" \in DOMAIN unique
             [] OTHER               -> TRUE

-----------------------------------------------------------------------------
(* Nodes                                                                   *)

(* An input without a type is left with the placeholder, A.                *)
InputType(types) ==
    IF \E i \in DOMAIN types : types[i] \notin {"text", "range"} THEN "invalid"
    ELSE CASE types = <<>>                            -> "A"
           [] types # <<>> /\ Last(types) = "text"    -> "TEXT_INPUT"
           [] types # <<>> /\ Last(types) = "range"   -> "SLIDER"

NodeType(dirty) ==
    CASE dirty.name = "input"          -> InputType(Values(dirty.attributes, "type"))
      [] dirty.name \in DOMAIN TagTypes -> TagTypes[dirty.name]
      [] OTHER                          -> "invalid"

(* Every node has room for a character; an id is a string.                 *)
ASSUME CleanerAssumption ==
    /\ Columns \in [Types -> Nat \ {0}]
    /\ MaxDepth \in Nat \ {0}
    /\ \A attributes \in Attributes :
           /\ attributes \in Seq(ToSet(attributes))
           /\ \A i \in DOMAIN attributes : attributes[i][1] = "id" => attributes[i][2] \in STRING

Id(dirty) == LET ids == Values(dirty.attributes, "id") IN IF ids = <<>> THEN "" ELSE Head(ids)

NewNode(dirty) ==
    LET type == NodeType(dirty)
    IN  IF type # "invalid" /\ HasAttributes(type, dirty.attributes)
        THEN [type |-> type, id |-> Id(dirty), lines |-> <<>>, children |-> <<>>,
              num_selectable_children |-> 0,
              selectable |-> type \in {"A", "BUTTON", "SLIDER", "TEXT_INPUT"}]
        ELSE Hang

(* The parent gives the text its size; at the top level there is none.     *)
NewText(text, parent) ==
    LET wrapped == Wrap(text, Columns[parent])
    IN  IF parent = "none" THEN Fault
        ELSE IF wrapped.error THEN Hang
        ELSE [type |-> "PLAINTEXT", id |-> "", lines |-> wrapped.lines, children |-> <<>>,
              num_selectable_children |-> 0, selectable |-> FALSE]

BadMayHave(node, child) ==
    CASE node.type = "SCRIPT" -> FALSE
      [] node.type \in {"TITLE", "H1", "A", "BUTTON"} ->
             node.children = <<>> /\ child.type = "PLAINTEXT"
      [] node.type = "HEAD" -> child.type \in {"SCRIPT", "TITLE"}
      [] OTHER -> TRUE

MayHave(node, child) ==
    CASE node.type = "SCRIPT" -> FALSE
      [] node.type \in {"TITLE", "H1", "A", "BUTTON"} ->
             node.children = <<>> /\ child.type = "PLAINTEXT"
      [] node.type = "HEAD" -> child.type \in {"SCRIPT", "TITLE"}
      [] node.type = "BODY" -> child.type \notin {"SCRIPT", "TITLE"}
      [] OTHER -> TRUE

BadSelectables(child) == IF child.selectable THEN 1 ELSE 0
Selectables(child) == child.num_selectable_children + IF child.selectable THEN 1 ELSE 0

IsEmptyText(child) == child.type = "PLAINTEXT" /\ child.lines = <<>>

(* add_child deletes a text without lines.                                 *)
AddChild(node, child) ==
    IF Failed(child) THEN child
    ELSE IF IsEmptyText(child) THEN node
    ELSE IF ~MayHave(node, child) THEN Hang
    ELSE [node EXCEPT !.children = Append(@, child),
                      !.num_selectable_children = @ + Selectables(child)]

AddChildren(node, children) ==
    LET added[i \in 0..Len(children)] ==
            IF i = 0 THEN node
            ELSE LET parent == added[i - 1]
                 IN  IF Failed(parent) THEN parent ELSE AddChild(parent, children[i])
    IN  added[Len(children)]

CleanElement[dirty \in Elements] ==
    LET node == NewNode(dirty)
        Clean(child) == IF IsText(child) THEN NewText(child.text, node.type)
                        ELSE CleanElement[child]
    IN  IF Failed(node) THEN node
        ELSE AddChildren(node, [i \in DOMAIN dirty.children |-> Clean(dirty.children[i])])

CleanNode(dirty, parent) ==
    IF IsText(dirty) THEN NewText(dirty.text, parent) ELSE CleanElement[dirty]

(* add_top_level_node                                                      *)
AddTopLevel(dom, node) ==
    IF Failed(node) THEN node
    ELSE IF node.type \notin {"HEAD", "BODY"} THEN Hang
    ELSE [dom EXCEPT !.top_level_nodes = Append(@, node),
                     !.num_selectable_nodes = @ + node.num_selectable_children]

NoDom == [top_level_nodes |-> <<>>, num_selectable_nodes |-> 0]

CleanDom(top_level_nodes) ==
    LET added[i \in 0..Len(top_level_nodes)] ==
            IF i = 0 THEN NoDom
            ELSE LET dom == added[i - 1]
                     dirty == top_level_nodes[i]
                 IN  IF Failed(dom) \/ (IsText(dirty) /\ dirty.text = <<>>) THEN dom
                     ELSE AddTopLevel(dom, CleanNode(dirty, "none"))
    IN  added[Len(top_level_nodes)]

-----------------------------------------------------------------------------
(* The nodes explore_dom finds selectable, in its order, by their paths    *)
(* from the top, and which of them render_node draws as a link             *)
(* (render_link needs the text of a link).                                 *)

(* What was found in the i-th child of a node that is drawn or not.        *)
InChild(found, i, drawn) ==
    [k \in DOMAIN found |-> [found[k] EXCEPT !.path = <<i>> \o @, !.drawn = @ /\ drawn]]

Explore[node \in DomTrees] ==
    LET self == [path |-> <<>>, drawn |-> node.type = "A", text |-> node.children # <<>>]
        reached == node.type \in {"DIV", "BODY"}
    IN  (IF node.selectable THEN <<self>> ELSE <<>>)
            \o FlattenSeq([i \in DOMAIN node.children |->
                              InChild(Explore[node.children[i]], i, reached)])

SelectableNodes(dom) ==
    FlattenSeq([i \in DOMAIN dom.top_level_nodes |->
                   InChild(Explore[dom.top_level_nodes[i]], i, TRUE)])

-----------------------------------------------------------------------------
(* What a script does (src/src/3ml_jsbindings.cpp)                         *)

(* get_element_by_id goes through the nodes level by level.  The path to   *)
(* the first with that id; <<>> without.                                   *)
GetElementById(dom, id) ==
    LET At(above, nodes) ==
            [i \in DOMAIN nodes |-> [path |-> Append(above, i), node |-> nodes[i]]]
        level[depth \in 0..MaxDepth] ==
            IF depth = 0 THEN At(<<>>, dom.top_level_nodes)
            ELSE LET up == level[depth - 1]
                 IN  FlattenSeq([k \in DOMAIN up |-> At(up[k].path, up[k].node.children)])
        found == FlattenSeq([depth \in 1..MaxDepth + 1 |->
                     Filter(level[depth - 1], LAMBDA at : at.node.id = id)])
    IN  IF found = <<>> THEN <<>> ELSE Head(found).path

(* The siblings along a path, from the top.                                *)
Siblings(nodes, path) ==
    LET along[k \in 1..Len(path)] ==
            IF k = 1 THEN nodes ELSE along[k - 1][path[k - 1]].children
    IN  along

NodeAt(nodes, path) == Siblings(nodes, path)[Len(path)][Last(path)]

Replaced(nodes, i, children) == [nodes EXCEPT ![i].children = children]

WithChildren(nodes, path, children) ==
    LET along == Siblings(nodes, path)
        with[k \in 1..Len(path)] ==
            Replaced(along[k], path[k], IF k = Len(path) THEN children ELSE with[k + 1])
    IN  with[1]

BadInner(forest, node) == [i \in DOMAIN forest |-> CleanNode(forest[i], "BODY")]

(* set_inner_3ml pushes what clean_node makes of each node, but does not   *)
(* call add_child: nothing is checked, counted or left out.                *)
Inner(forest, node) == [i \in DOMAIN forest |-> CleanNode(forest[i], node.type)]
=============================================================================
