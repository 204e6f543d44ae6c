------------------------- MODULE MCAdapterProperties -------------------------
(* Every property alone and with every other one of its object, in texts   *)
(* that are good and bad; and subscriptions to every filter of up to three *)
(* levels, and to every two filters of which the second has one or two,    *)
(* with levels such that one is the beginning of another, wildcards that   *)
(* are not a level of their own, as in the filter "/bar/#foo" of the unit  *)
(* tests, and, for topics, the empty level.                                *)
EXTENDS AdapterProperties, TLC

a == <<"a">>
ab == <<"a", "b">>

MCCharacters == {"a", "b", "#", "+"}
Paths(levels, longest) == UNION {[1..n -> levels] : n \in 1..longest}
MCTopics == Paths({a, ab, <<>>}, 3) \ {<<<<>>>>}
Plain == {a, ab, <<"+">>}
Filters(longest) == Paths(Plain \cup {<<"#">>, <<"#", "b">>}, longest)
Others == Filters(1) \cup {<<f, g>> : f \in Plain, g \in Plain \cup {<<"#">>}}
            \cup {<<<<"a", "+">>>>, <<a, <<"a", "#">>>>, <<<<>>, a>>}

Number(n) == [is |-> "number", value |-> n]
Word(w) == [is |-> "word", value |-> w]
List(pieces) == [is |-> "list", value |-> pieces]

MCSecond == 2
MCIntMax == 10

Nanoseconds == {"connection_timeout.nanosec", "keep_alive_period.nanosec"}

Texts(p) ==
  CASE Reads(p) = "number" -> {Word("x"), Number(IF p \in Nanoseconds THEN MCSecond ELSE 9), Number(1)}
    [] Reads(p) = "name" -> {Word(""), Word("x")}
    [] p = "servers" -> {List(<<<<"tcp", "broker">>>>),
                         List(<<<<>>, <<"tcp", "broker">>>>),
                         List(<<<<"tcp", "broker">>, <<>>, <<"ssl", "broker">>, <<>>>>)}
    [] p = "topics" -> {List(<<<<a>>>>)}
    [] OTHER -> {Word("other")} \cup {Word(w) : w \in Words[Reads(p)]}

Chosen(p, r) ==
  IF p = r THEN {p :> t : t \in Texts(p)}
  ELSE {p :> t @@ r :> u : t \in Texts(p), u \in Texts(r)}

(* Sets of up to two properties; for a connection, alone, with no server,  *)
(* and with the server and the id that it requires.                        *)
Few(o) == {<<>>} \cup UNION {Chosen(p, r) : p, r \in ToSet(Looked[o])}
Required ==
  {<<>>, "servers" :> List(<<<<>>>>),
   "servers" :> List(<<<<"tcp", "broker">>>>) @@ "id" :> Word("x")}

MCTopicsTexts ==
  {List(<<<<>>>>)} \cup {List(<<f>>) : f \in Filters(3)}
    \cup {List(<<f, <<>>>>) : f \in Others} \cup {List(<<<<>>, f>>) : f \in Others}
    \cup {List(<<f, g>>) : f \in Others, g \in Others}

MCSettings ==
  ({"connection"} \X {f @@ s : f \in Few("connection"), s \in Required})
    \cup ({"output"} \X Few("output")) \cup ({"input"} \X Few("input"))
    \cup ({"input"} \X {"topics" :> t : t \in MCTopicsTexts})
=============================================================================
