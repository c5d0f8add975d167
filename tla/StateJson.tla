------------------------------ MODULE StateJson ------------------------------
(* What the JSON columns (the state of a step, stored input, events) give back of what    *)
(* is put in: json_dumps and json_loads of utils/json.py are the serializer and the       *)
(* deserializer of the database engine.                                                   *)
EXTENDS Integers, Sequences

\* Values without parts. A text can look like a time: stamp with a time zone, in whole
\* seconds; odd without a zone, with five digits of a second, and so equally long; short
\* without a zone in whole seconds; almost as long as a stamp, but no date.
Times == {"aware", "micros", "naive"}
Texts == {"text", "stamp", "odd", "short", "almost"}
Leaves == Times \cup Texts \cup {"number", "uuid", "address"}

\* A value: a leaf, or a dict, list, set or model with parts in order.
Leaf(k) == [kind |-> k, parts |-> <<>>]
Whole(k, parts) == [kind |-> k, parts |-> parts]
Bundles == {"dict", "list", "set", "model"}

Flat == {Leaf(k) : k \in Leaves}
Nested == {Whole(k, <<v>>) : k \in Bundles, v \in Flat}
Deep == {Whole(k, <<v>>) : k \in {"dict", "list", "model"}, v \in Nested}
Pairs == {Whole(k, <<v, w>>) : k \in {"dict", "list"}, v \in Flat, w \in Nested}

\* What is stored is a dict or a list of values.
Stored == {v \in Nested \cup Deep \cup Pairs : v.kind \in {"dict", "list", "model"}}

\* isoformat and the rest of to_serializable: the text that stands for a leaf.
TextOf(k) ==
  CASE k \in {"aware", "micros"} -> "stamp"
    [] k = "naive" -> "short"
    [] k \in {"uuid", "address"} -> "text"
    [] OTHER -> k

\* What json_dumps writes: sets become lists, and models dicts.
RECURSIVE Written(_)
Written(v) ==
  IF v.kind \in Leaves THEN Leaf(TextOf(v.kind))
  ELSE Whole(CASE v.kind = "set" -> "list" [] v.kind = "model" -> "dict" [] OTHER -> v.kind,
             [i \in DOMAIN v.parts |-> Written(v.parts[i])])

\* from_serializable: the stamps right in a dict become times, a text of their length
\* without a zone is refused.
Refused == Leaf("refused")

Recognised(d) ==
  IF \E i \in DOMAIN d.parts : d.parts[i].kind = "odd" THEN Refused
  ELSE [d EXCEPT !.parts = [i \in DOMAIN @ |->
                              IF @[i].kind = "stamp" THEN Leaf("aware") ELSE @[i]]]

\* json_loads: a dict, or the dicts of a list, and not what lies deeper.
Read(o) ==
  IF o.kind = "dict" THEN Recognised(o)
  ELSE LET parts == [i \in DOMAIN o.parts |->
                       IF o.parts[i].kind = "dict" THEN Recognised(o.parts[i]) ELSE o.parts[i]]
       IN  IF \E i \in DOMAIN parts : parts[i] = Refused THEN Refused ELSE Whole("list", parts)

Back(v) == Read(Written(v))

\* The dicts of a value of which the fields are looked at.
Looked(v) ==
  IF v.kind \in {"dict", "model"} THEN {v}
  ELSE {v.parts[i] : i \in {j \in DOMAIN v.parts : v.parts[j].kind \in {"dict", "model"}}}

PartsOf(v) == {v.parts[i] : i \in DOMAIN v.parts}
Within(v) == {v} \cup PartsOf(v) \cup UNION {PartsOf(u) : u \in PartsOf(v)}

\* A value comes back unless a field that is looked at is a text of the length of a stamp
\* that tells no zone.
ReadsBack(values) ==
  \A v \in values :
    (Back(v) = Refused) <=> \E d \in Looked(v) : Leaf("odd") \in PartsOf(d)

\* It comes back the same exactly when its times are in whole seconds and right in a dict
\* that is looked at, no text there looks like a stamp, and the rest is plain JSON.
SameBack(values) ==
  \A v \in values :
    (Back(v) = v) <=>
      /\ \A u \in Within(v) : u.kind \notin {"micros", "naive", "uuid", "address", "set", "model"}
      /\ \A d \in Looked(v) : PartsOf(d) \cap {Leaf("stamp"), Leaf("odd")} = {}
      /\ \A u \in Within(v) :
           Leaf("aware") \in PartsOf(u) => u \in Looked(v)

\* What came back once comes back the same ever after, so that a state that steps pass on
\* through the database does not drift.
StableBack(values) ==
  \A v \in values : LET w == Back(v) IN w # Refused => Back(w) = w

JsonExact(values) == ReadsBack(values) /\ SameBack(values) /\ StableBack(values)
=============================================================================
