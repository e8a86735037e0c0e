----------------------------- MODULE MCFontFile -----------------------------
(***************************************************************************)
(* Two files for TLC, small as they are with everything the generator's    *)
(* files have, and what a careful hand might add: comments, an attribute   *)
(* without a value, one given twice, an id given twice, an empty element   *)
(* with an end tag.                                                        *)
(***************************************************************************)
EXTENDS FontFile

MCDigits == [n \in {"1", "2", "28"} |-> CASE n = "1" -> 1 [] n = "2" -> 2 [] n = "28" -> 28]

A(key, value) == <<key, "=", "\"", value, "\"">>
Leaf(type, attributes) == <<"<", type>> \o attributes \o <<"/", ">">>
End(type) == <<"<", "/", type, ">">>
Element(type, attributes, content) ==
  <<"<", type>> \o attributes \o <<">">> \o content \o End(type)

Declaration == <<"<", "?", "xml", "?", ">">>
Comment(content) == <<"<", "!--">> \o content \o <<"--", ">">>

Plain == [
  text |->
    Declaration \o
    Element("font", <<>>,
      Leaf("common", A("lineHeight", "28")) \o
      Element("pages", <<>>, Leaf("page", A("file", "arial.png"))) \o
      Element("chars", <<>>, Leaf("char", A("id", "1") \o A("x", "28")) \o
                             Leaf("char", A("id", "2") \o A("x", "1")))),
  font |-> [image |-> <<"arial.png">>, height |-> 28, glyphs |-> (1 :> 28) @@ (2 :> 1)]]

Unusual == [
  text |->
    Element("font", <<>>,
      Element("chars", <<>>, Element("char", A("id", "1"), <<>>) \o Comment(<<"<", "'", "\"">>) \o
                             Leaf("char", <<"bold">> \o A("id", "2") \o A("id", "1") \o A("x", "2"))) \o
      Element("pages", <<>>, Leaf("page", <<"file", "=", "arial.png">>) \o Leaf("page", <<>>))),
  font |-> [image |-> <<"arial.png">>, height |-> 0, glyphs |-> (1 :> 2)]]

MCDocuments == {Plain, Unusual}
MCStrays == Delimiters \cup {"\"", "'", "?", "!--", "--", "chars"}
=============================================================================
