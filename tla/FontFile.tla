------------------------------ MODULE FontFile ------------------------------
(***************************************************************************)
(* A font file: the constructor of Font (Font.cpp), which has XmlRead      *)
(* (Xml.cpp) make a tree of the file and takes the glyphs out of it.       *)
(*                                                                         *)
(* XmlRead reads the root element and XmlParse, which calls itself, the    *)
(* elements in it; both fetch one token after the other with XmlTok.  Here *)
(* a step is a token, the calls under way are the stack `open` of their    *)
(* nodes, and `goal` is what the innermost call looks for next.            *)
(*                                                                         *)
(* A text is a sequence of pieces: a delimiter, a quote or a word.  Two    *)
(* words side by side have a space between them, all else has none.  The   *)
(* words "?", "!--" and "--" are only special where the code looks for     *)
(* them.  The texts are files a font generator writes, and such files with *)
(* one piece missing, one piece too many, or the end missing.              *)
(***************************************************************************)
EXTENDS Integers, Sequences, FiniteSets, SequencesExt

CONSTANTS
  Documents,  \* files as the generator writes them, with the font they stand for:
              \* [text, font]
  Strays,     \* pieces that may get in by mistake
  Digits      \* the words that are numbers, and their values

ASSUME FontFileAssumption == Documents # {} /\ "'" \notin DOMAIN Digits

VARIABLES
  text,      \* the file
  at,        \* XmlTok's index: the next piece
  seen,      \* history: the tokens so far that took something of the file
  goal,      \* what the innermost call looks for
  open,      \* the calls under way: XmlRead's node, then those of XmlParse
  name,      \* the attribute that is being read
  nodes,     \* the nodes, in the order of their creation
  freed,     \* those of them that were deleted
  outcome,   \* "reading", "read", "failed"; "loaded"; "lost": undefined behaviour
  font       \* the fields of Font

fontVars == <<text, at, seen, goal, open, name, nodes, freed, outcome, font>>
tree == <<open, name, nodes, freed>>

Edited(d) ==
  UNION {{SubSeq(d, 1, i), RemoveAt(d, i)} \cup {InsertAt(d, i, p) : p \in Strays \cup {d[i]}} :
           i \in DOMAIN d}

NewNode(type) == [type |-> type, attributes |-> <<>>, children |-> <<>>]
\* Font does not initialise what it does not find.
NoFont == [image |-> <<>>, height |-> 0, glyphs |-> <<>>]

FontInit ==
  /\ text \in UNION {{d.text} \cup Edited(d.text) : d \in Documents}
  /\ at = 1 /\ seen = <<>> /\ goal = "start"
  /\ open = <<1>> /\ name = <<>> /\ nodes = <<NewNode(<<>>)>> /\ freed = {}
  /\ outcome = "reading" /\ font = NoFont

-----------------------------------------------------------------------------
\* XmlTok
Delimiters == {"<", ">", "/", "="}
Token(type, value, end) == [type |-> type, value |-> value, end |-> end]

\* A string in quotes, which ends the file when nothing ends it.
Quoted ==
  LET ends == {i \in at + 1 .. Len(text) : text[i] = "\""} IN
    IF ends = {} THEN Token("EndOfFile", <<>>, Len(text) + 1)
    ELSE LET e == Min(ends) IN Token("String", SubSeq(text, at + 1, e - 1), e + 1)

\* A defect: nor is a question mark.
WordNarrow ==
  IF text[at] \in {"'", "?"} THEN Token("String", <<>>, at) ELSE Token("String", <<text[at]>>, at + 1)

\* An apostrophe is neither a delimiter nor part of a word: what is found there is
\* an empty string, and the index stays where it is.
Word == IF text[at] = "'" THEN Token("String", <<>>, at) ELSE Token("String", <<text[at]>>, at + 1)

XmlTok ==
  IF at > Len(text) THEN Token("EndOfFile", <<>>, at)
  ELSE IF text[at] \in Delimiters THEN Token(text[at], <<>>, at + 1)
  ELSE IF text[at] = "\"" THEN Quoted
  ELSE Word

\* The beginnings of a declaration and of a comment, and where what begins at i ends.
AtMarkup == at < Len(text) /\ text[at] = "<" /\ text[at + 1] \in {"?", "!--"}
MarkupEnds ==
  {i \in at + (IF text[at + 1] = "?" THEN 1 ELSE 2) .. Len(text) - 1 :
     text[i] = (IF text[at + 1] = "?" THEN "?" ELSE "--") /\ text[i + 1] = ">"}

\* XmlTok steps over it and tokenizes again.  The tests index < length + 1 and
\* index < length + 2 do not keep it inside the file, and once past the end
\* `index == length` never holds.
SkipMarkup ==
  /\ outcome = "reading" /\ AtMarkup
  /\ IF MarkupEnds = {} THEN outcome' = "lost" /\ at' = at
     ELSE outcome' = outcome /\ at' = Min(MarkupEnds) + 2
  /\ UNCHANGED <<text, seen, goal, tree, font>>

\* The character after a last "<" is read, and may look like markup.
ReadBeyond ==
  /\ outcome = "reading" /\ at = Len(text) /\ text[at] = "<"
  /\ outcome' = "lost"
  /\ UNCHANGED <<text, at, seen, goal, tree, font>>

-----------------------------------------------------------------------------
\* XmlRead and XmlParse
Inner == Last(open)
AtRoot == Len(open) = 1

Fetching(g) == outcome = "reading" /\ ~AtMarkup /\ goal = g

Advance ==
  /\ at' = XmlTok.end
  /\ seen' = IF XmlTok.end = at THEN seen ELSE Append(seen, XmlTok)

\* ~XmlNode: the node and all below it.
Below[n \in DOMAIN nodes] == {n} \cup UNION {Below[nodes[n].children[i]] : i \in DOMAIN nodes[n].children}

\* `return NULL` down to XmlRead, which deletes its node.  XmlParse deletes the
\* node of the element that failed, or does not; it never deletes one whose child
\* failed.
Fail(deletes) ==
  /\ outcome' = "failed"
  /\ freed' = Below[1] \cup (IF deletes THEN Below[Inner] ELSE {})
  /\ UNCHANGED <<at, seen, goal, open, name, nodes>>

\* A token that must be of one type and of which no more is wanted.
Expect(type, next) ==
  IF XmlTok.type = type
  THEN Advance /\ goal' = next /\ UNCHANGED <<tree, outcome>>
  ELSE Fail(TRUE)

ReadStart == Fetching("start") /\ Expect("<", "name") /\ UNCHANGED <<text, font>>

ReadName ==
  /\ Fetching("name")
  /\ IF XmlTok.type = "String"
     THEN /\ Advance /\ goal' = "attribute"
          /\ nodes' = [nodes EXCEPT ![Inner].type = XmlTok.value]
          /\ UNCHANGED <<open, name, freed, outcome>>
     ELSE Fail(TRUE)
  /\ UNCHANGED <<text, font>>

\* What follows the attributes: the root cannot be closed in its own tag.
AfterAttributes ==
  IF XmlTok.type = ">" THEN Advance /\ goal' = "content" /\ UNCHANGED <<open, name, freed, outcome>>
  ELSE IF XmlTok.type = "/" /\ ~AtRoot
  THEN Advance /\ goal' = "tag end" /\ UNCHANGED <<open, name, freed, outcome>>
  ELSE Fail(TRUE)

NextAttribute ==
  Advance /\ name' = XmlTok.value /\ goal' = "equals" /\ UNCHANGED <<open, freed, outcome>>

ReadAttribute ==
  /\ Fetching("attribute")
  /\ IF XmlTok.type = "String" THEN NextAttribute ELSE AfterAttributes
  /\ UNCHANGED <<text, nodes, font>>

\* attributes.insert assigns to the attribute if it is there.
WithAttribute(n, value) == [nodes EXCEPT ![n].attributes = (name :> value) @@ @]

\* Without a value the attribute is "true", and the token is looked at again.
ReadEquals ==
  /\ Fetching("equals")
  /\ IF XmlTok.type = "="
     THEN Advance /\ goal' = "value" /\ UNCHANGED <<tree, outcome>>
     ELSE LET with == WithAttribute(Inner, <<"true">>) IN
       IF XmlTok.type = "String" THEN NextAttribute /\ nodes' = with
       ELSE IF XmlTok.type = ">" \/ (XmlTok.type = "/" /\ ~AtRoot)
       THEN AfterAttributes /\ nodes' = with
       ELSE Fail(TRUE)
  /\ UNCHANGED <<text, font>>

ReadValue ==
  /\ Fetching("value")
  /\ IF XmlTok.type = "String"
     THEN /\ Advance /\ goal' = "attribute"
          /\ nodes' = WithAttribute(Inner, XmlTok.value)
          /\ UNCHANGED <<open, name, freed, outcome>>
     ELSE Fail(FALSE)
  /\ UNCHANGED <<text, font>>

\* Only elements: text between tags is refused.
ReadContent == Fetching("content") /\ Expect("<", "child") /\ UNCHANGED <<text, font>>

\* The loop over the children: XmlParse is called with the name.
ReadChild ==
  /\ Fetching("child")
  /\ CASE XmlTok.type = "/" -> Advance /\ goal' = "close name" /\ UNCHANGED <<tree, outcome>>
       [] XmlTok.type = "String" ->
            /\ Advance /\ goal' = "attribute"
            /\ nodes' = Append(nodes, NewNode(XmlTok.value))
            /\ open' = Append(open, Len(nodes) + 1)
            /\ UNCHANGED <<name, freed, outcome>>
       [] OTHER -> Fail(FALSE)
  /\ UNCHANGED <<text, font>>

\* A defect: any name closes an element.
ClosesAny(t, type) == t.type = "String"

Closes(t, type) == t.type = "String" /\ t.value = type

ReadCloseName ==
  /\ Fetching("close name")
  /\ IF Closes(XmlTok, nodes[Inner].type)
     THEN Advance /\ goal' = "tag end" /\ UNCHANGED <<tree, outcome>>
     ELSE Fail(TRUE)
  /\ UNCHANGED <<text, font>>

ReadTagEnd ==
  /\ Fetching("tag end")
  /\ Expect(">", IF AtRoot THEN "end" ELSE "next")
  /\ UNCHANGED <<text, font>>

\* XmlParse returns with the "<" of what follows already taken.
ReadNext ==
  /\ Fetching("next")
  /\ IF XmlTok.type = "<"
     THEN /\ Advance /\ goal' = "child"
          /\ open' = Front(open)
          /\ nodes' = [nodes EXCEPT ![Last(Front(open))].children = Append(@, Inner)]
          /\ UNCHANGED <<name, freed, outcome>>
     ELSE Fail(TRUE)
  /\ UNCHANGED <<text, font>>

ReadEnd ==
  /\ Fetching("end")
  /\ IF XmlTok.type = "EndOfFile"
     THEN Advance /\ outcome' = "read" /\ UNCHANGED <<tree, goal>>
     ELSE Fail(TRUE)
  /\ UNCHANGED <<text, font>>

-----------------------------------------------------------------------------
\* Font::Font after XmlRead
Children(n) == nodes[n].children
ChildrenOfType(type) == SelectSeq(Children(1), LAMBDA n : nodes[n].type = <<type>>)

\* attributes[key] of a node: empty when it is not there.
Attribute(n, key) ==
  IF <<key>> \in DOMAIN nodes[n].attributes THEN nodes[n].attributes[<<key>>] ELSE <<>>

strtol(s) == IF s # <<>> /\ s[1] \in DOMAIN Digits THEN Digits[s[1]] ELSE 0

\* glyphs[id] = readGlyph(node) for each of the nodes ns; of a glyph only x is kept.
Glyphs(ns) ==
  [id \in {strtol(Attribute(ns[i], "id")) : i \in DOMAIN ns} |->
     strtol(Attribute(ns[Max({i \in DOMAIN ns : strtol(Attribute(ns[i], "id")) = id})], "x"))]

\* The constructor looks through a NULL tree, a NULL `chars`, and at the first of no
\* pages; of several elements of a type the last one counts.
Constructor ==
  /\ outcome \in {"read", "failed"}
  /\ LET chars == ChildrenOfType("chars")
         pages == ChildrenOfType("pages")
         common == ChildrenOfType("common")
     IN IF outcome = "failed" \/ chars = <<>> \/ \E i \in DOMAIN pages : Children(pages[i]) = <<>>
        THEN outcome' = "lost" /\ UNCHANGED <<font, freed>>
        ELSE /\ outcome' = "loaded"
             /\ font' = [image |-> IF pages = <<>> THEN <<>>
                                   ELSE Attribute(Children(Last(pages))[1], "file"),
                         height |-> IF common = <<>> THEN 0
                                    ELSE strtol(Attribute(Last(common), "lineHeight")),
                         glyphs |-> Glyphs(Children(Last(chars)))]
             /\ freed' = freed \cup Below[1]
  /\ UNCHANGED <<text, at, seen, goal, open, name, nodes>>

FontNext ==
  \/ SkipMarkup \/ ReadBeyond
  \/ ReadStart \/ ReadName \/ ReadAttribute \/ ReadEquals \/ ReadValue \/ ReadContent
  \/ ReadChild \/ ReadCloseName \/ ReadTagEnd \/ ReadNext \/ ReadEnd
  \/ Constructor

-----------------------------------------------------------------------------
\* How the tokens of a file nest, without a stack: the tags that begin an element,
\* where they end, whether they end the element, and how deep they are.
Starts == {k \in DOMAIN seen : seen[k].type = "<" /\ seen[k + 1].type = "String"}
Ends == {k \in DOMAIN seen : seen[k].type = "<" /\ seen[k + 1].type = "/"}
TagEnd(k) == Min({j \in k .. Len(seen) : seen[j].type = ">"})
Openers == {k \in Starts : seen[TagEnd(k) - 1].type # "/"}
Depth(k) == Cardinality({j \in Openers : j < k}) - Cardinality({j \in Ends : j < k})
Around(k) == Max({j \in Openers : j < k /\ Depth(j) = Depth(k) - 1})
Names(k) == {p \in k + 2 .. TagEnd(k) - 1 : seen[p].type = "String" /\ seen[p - 1].type # "="}
Written(p) == IF seen[p + 1].type = "=" THEN seen[p + 2].value ELSE <<"true">>

\* A file that is read, damaged or not, becomes the tree its tags describe: the same
\* elements in the same order and nesting, closed by their own names, and each
\* attribute with the last value given to it (Xml.cpp:100-203).
ReadAsWritten ==
  outcome = "read" =>
    LET tags == SetToSortSeq(Starts, <)
        Giving(k, a) == {p \in Names(k) : seen[p].value = a}
    IN /\ Len(nodes) = Len(tags)
       /\ \A e \in Ends : seen[Around(e) + 1].value = seen[e + 2].value
       /\ \A i \in DOMAIN nodes :
            /\ nodes[i].type = seen[tags[i] + 1].value
            /\ nodes[i].children =
                 SelectSeq([j \in DOMAIN nodes |-> j],
                           LAMBDA j : j # 1 /\ Around(tags[j]) = tags[i])
            /\ nodes[i].attributes =
                 [a \in {seen[p].value : p \in Names(tags[i])} |-> Written(Max(Giving(tags[i], a)))]

\* An undamaged file loads, declaration, comments and all, and the font is the one it
\* describes (Font.cpp:19-51, Xml.cpp:39-98).
FontsLoad ==
  \A d \in Documents : text = d.text =>
    /\ outcome \in {"reading", "read", "loaded"}
    /\ outcome = "loaded" => font = d.font

\* A file that was cut short is never taken for a whole one (Font.cpp:26 does not
\* look at how much was read).
CutNeverLoads ==
  outcome = "loaded" => \A d \in Documents : text # d.text => ~IsPrefix(text, d.text)

\* Every node is deleted when the font is loaded or the file refused, unless what was
\* wrong was inside an element inside the root's, or was the value of an attribute
\* or the name of a child there: then XmlParse returns without deleting its node
\* (Xml.cpp:115, 131).
NodesGivenBack ==
  /\ outcome = "read" => freed = {} /\ Below[1] = DOMAIN nodes
  /\ outcome = "loaded" => freed = DOMAIN nodes
  /\ outcome = "failed" /\ freed # DOMAIN nodes =>
       Len(open) > 2 \/ (Len(open) = 2 /\ goal \in {"value", "child"})

\* The constructor comes to an end on every file without an apostrophe; one outside
\* quotes and comments is read as an attribute over and over (Xml.cpp:94).
ConstructorEnds == "'" \in Range(text) \/ <>(outcome \in {"loaded", "lost"})
=============================================================================
