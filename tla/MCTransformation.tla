-------------------------- MODULE MCTransformation --------------------------
EXTENDS Transformation

MCHalf == [t \in {"octet", "short", "long", "longlong"} |->
  CASE t = "octet" -> 128 [] t = "short" -> 256 [] t = "long" -> 512 [] t = "longlong" -> 1024]

MCUnset == -1

Member(name, type, optional) ==
  [name |-> name, type |-> type, optional |-> optional, max_len |-> 2]

(* Accepted, not flat, and not a struct with members. *)
MCOutputTypes == {
  <<Member("o", "octet", TRUE), Member("r", "string", FALSE)>>,
  <<Member("o", "octet", TRUE), Member("r", "sequence", FALSE)>>,
  <<>>}

Integer(n) == [is |-> "integer", value |-> n]
String(length) == [is |-> "string", value |-> length]

Message(parses, json, size, value) ==
  [parses |-> parses, json |-> json, size |-> size, value |-> value]

(* Complete, without the optional member, without the required one, with a *)
(* string that is too long, and no JSON.                                   *)
Short == Message(TRUE, [o |-> Integer(7), r |-> String(2)], 2, 256)
MCMessages == {
  Message(TRUE, [o |-> Integer(300), r |-> String(1)], 4, 1),
  Message(TRUE, [r |-> String(2)], 2, 256),
  Message(TRUE, [o |-> Integer(-1)], 1, 0),
  Message(TRUE, [o |-> Integer(7), r |-> String(3)], 3, 2),
  Message(FALSE, [o |-> Integer(0)], 1, 12)}

MCBatches == {<<m>> : m \in MCMessages} \cup {<<Short, m>> : m \in MCMessages}

Size(min, incr, max) == [min |-> min, incr |-> incr, max |-> max]
MCProperties == {
  Size(0, 1, 0), Size(1, 0, 0), Size(1, 0, 3), Size(1, 1, 0), Size(1, Unset, 3),
  Size(1, 2, 3), Size(Unset, Unset, 3), Size(Unset, Unset, Unset), Size(4, 1, 3)}
=============================================================================
