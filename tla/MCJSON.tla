------------------------------- MODULE MCJSON -------------------------------
(* Texts that begin with nothing, or in the middle of a member or a comment. *)
EXTENDS JSON

Member_ == <<"{", "Q", "Q", ":">>
String_ == Append(Member_, "Q")
MCNumber == {[text |-> Member_, letters |-> {"-", "0", "9", ".", "e", "inf", "}"}, size |-> 10]}
MCStarts == MCNumber \cup
  {[text |-> <<>>, letters |-> {"{", "}", "[", "]", "Q", ":", ",", "0"}, size |-> 7],
   [text |-> Member_, letters |-> {"[", "]", "{", "}", "0", ",", "Q", "lit"}, size |-> 10],
   [text |-> String_, letters |-> {"utf2", "utf3", "cont", "Q", "}"}, size |-> 12],
   [text |-> String_, letters |-> {"\\", "/", "u", "0", "Q", "}"}, size |-> 10],
   [text |-> String_ \o <<"\\", "u">>, letters |-> {"0", "9", "D", "d", "Q", "}"}, size |-> 13],
   [text |-> String_ \o <<"\\", "u", "D", "9", "0", "0">>, letters |-> {"\\", "u", "0", "Q"}, size |-> 18],
   [text |-> <<"{", "Q", "\\", "u", "d">>, letters |-> {"9", "d", "Q", ":", "}"}, size |-> 12],
   [text |-> <<>>, letters |-> {"/", "*", "nl", "{", "}"}, size |-> 7],
   [text |-> <<"{", "/", "*">>, letters |-> {"/", "*", "nl", "}"}, size |-> 9]}

MCAudiences == {Kinds, {"container"}, {"container", "number"}, {"string", "literal"}}
=============================================================================
