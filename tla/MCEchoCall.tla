----------------------------- MODULE MCEchoCall -----------------------------
(***************************************************************************)
(* An instance of EchoCall for TLC: binary bodies with repeated, unknown   *)
(* and unreadable fields, JSON bodies with the corresponding members, each *)
(* through both dispatchers, and calls to the wrong place.                 *)
(***************************************************************************)
EXTENDS EchoCall

MCNames == {"", "Jane", "Joe"}
MCTexts == MCNames \cup {"Hello, !", "Hello, Jane!", "Hello, Joe!"}
MCTextLen == [t \in MCTexts |-> CASE t = "" -> 0 [] t = "Joe" -> 3 [] t = "Jane" -> 4
                                  [] t = "Hello, !" -> 8 [] t = "Hello, Joe!" -> 11
                                  [] t = "Hello, Jane!" -> 12]
MCGreeting == [n \in MCNames |-> CASE n = "" -> "Hello, !" [] n = "Jane" -> "Hello, Jane!"
                                   [] n = "Joe" -> "Hello, Joe!"]

MCUnknown(type, n) == [TextField("") EXCEPT !.num = 2, !.wire = type, !.inner = n]

MCFields ==
  {TextField(n) : n \in MCNames}
    \cup {MCUnknown("varint", 0), MCUnknown("group", 2),
          [TextField("Jane") EXCEPT !.good = FALSE], [TextField("Jane") EXCEPT !.wire = "varint"]}

MCMembers == {Member("message", v) : v \in MCNames \cup {Null, "number"}} \cup {Member("other", "Jane")}

UpTo(n, elements) == UNION {[1..k -> elements] : k \in 0..n}

MCEcho == [service |-> ServiceName, method |-> "Echo"]

MCCalls ==
  {[path |-> MCEcho, kind |-> "unary", dispatcher |-> d, format |-> "proto", body |-> b] :
     d \in {"router", "mono"}, b \in UpTo(3, MCFields)}
  \cup
  {[path |-> MCEcho, kind |-> "unary", dispatcher |-> d, format |-> "json", body |-> b] :
     d \in {"router", "mono"}, b \in UpTo(2, MCMembers)}
  \cup
  {[path |-> p, kind |-> k, dispatcher |-> d, format |-> "proto", body |-> ClientRequest("Jane").body] :
     d \in {"router", "mono"}, p \in Methods, k \in Kinds}
=============================================================================
