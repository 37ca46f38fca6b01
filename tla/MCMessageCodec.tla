--------------------------- MODULE MCMessageCodec ---------------------------
EXTENDS MessageCodec

(* One message type per group of constructs: a base class with a UUID (in   *)
(* the schema optional) and a choice; an enumeration and a bounded list; a *)
(* float and a text; an optional and a list of a nested type that has an   *)
(* optional of its own.  Spare is not required by a message.               *)
Field(name, t, min, max) == [name |-> name, type |-> t, min |-> min, max |-> max]
One(name, t) == Field(name, t, 1, 1)
Class(base, variants, fields) == [base |-> base, variants |-> variants, fields |-> fields]

MCSchema ==
    [Header |-> Class(None, <<>>, <<Field("id", "UUID", 0, 1)>>),
     Report |-> Class("Header", <<One("speed", "unsignedShort"), One("where", "Point")>>, <<>>),
     Point  |-> Class(None, <<>>, <<Field("alt", "unsignedInt", 0, 1)>>),
     Mode   |-> [items |-> 1],
     Track  |-> Class(None, <<>>, <<One("mode", "Mode"), Field("hits", "unsignedShort", 1, 2)>>),
     Remark |-> Class(None, <<>>, <<One("error", "float"), Field("note", "string", 0, 1)>>),
     Plan   |-> Class(None, <<>>, <<One("rank", "unsignedByte"), Field("best", "Point", 0, 1),
                                    Field("stops", "Point", 0, -1)>>),
     Spare  |-> Class(None, <<>>, <<One("rank", "unsignedByte")>>)]

MCMessageTypes == {"Report", "Track", "Remark", "Plan"}
MCValues == [unsignedByte |-> {1}, unsignedShort |-> {1}, unsignedInt |-> {1},
             float |-> {1234567, NaN}, string |-> {<<65>>}, UUID |-> {0, 1}]
(* Four characters stand for the 36 of a UUID's text.                       *)
MCUuidText == [u \in {0, 1} |-> <<48 + u, 45, 48, 48>>]
=============================================================================
