------------------------------ MODULE Messages ------------------------------
(***************************************************************************)
(* Messages of the server and what src/collector/parser.py and             *)
(* subscriptions.py make of them.                                          *)
(*                                                                         *)
(* A message is binary, no JSON, JSON but no object, or an object: a       *)
(* sequence of pairs of a name and a value.  A value has a type, a text    *)
(* (what a string or a number says, as a sequence of its parts), and pairs *)
(* if it is an object.  Objects are two levels deep: deeper ones are read  *)
(* like those of the second level.                                         *)
(*                                                                         *)
(* The Bug_ operators are plausible slips in the code, used nowhere: each  *)
(* shows that a property fails when it takes the place of its namesake.    *)
(***************************************************************************)
EXTENDS Naturals, Sequences, SequencesExt

Null == [type |-> "null", text |-> << >>, pairs |-> << >>]
True == [type |-> "true", text |-> << >>, pairs |-> << >>]
String(text) == [type |-> "string", text |-> text, pairs |-> << >>]
Integer(text) == [type |-> "integer", text |-> text, pairs |-> << >>]
Float(text) == [type |-> "float", text |-> text, pairs |-> << >>]
Object(pairs) == [type |-> "object", text |-> << >>, pairs |-> pairs]

Names(pairs) == [i \in DOMAIN pairs |-> pairs[i][1]]
Values(pairs) == [i \in DOMAIN pairs |-> pairs[i][2]]

Has(pairs, name) == \E i \in DOMAIN pairs : pairs[i][1] = name

(* dict.get: None for a name that is missing. *)
Get(pairs, name) ==
  IF Has(pairs, name) THEN pairs[CHOOSE i \in DOMAIN pairs : pairs[i][1] = name][2] ELSE Null

Objects(pairs) == {pairs} \union {value.pairs : value \in ToSet(Values(pairs))}

(* json.loads as it is called here: no duplicate names, no numbers that    *)
(* would lose digits, at any level.                                        *)
Decodable(message) ==
  /\ message.form = "object"
  /\ \A pairs \in Objects(message.pairs) :
       /\ IsInjective(Names(pairs))
       /\ \A value \in ToSet(Values(pairs)) : value.type # "float"

(* rename_fields, for names that do not collide. *)
Rename(pairs, fieldNames) ==
  [i \in DOMAIN pairs |->
     <<IF pairs[i][1] \in DOMAIN fieldNames THEN fieldNames[pairs[i][1]] ELSE pairs[i][1],
       pairs[i][2]>>]

Bug_Collides(pairs, fieldNames) ==
  \E name \in ToSet(Names(pairs)) :
    name \in DOMAIN fieldNames /\ fieldNames[name] \in DOMAIN fieldNames

Collides(pairs, fieldNames) == ~ IsInjective(Names(Rename(pairs, fieldNames)))

(* The pairs at some places, in their order. *)
Keep(pairs, places) ==
  [k \in 1 .. Cardinality(places) |->
     pairs[CHOOSE i \in places : Cardinality({j \in places : j <= i}) = k]]

(* Dictionaries keep one value for a name, the last. *)
AsDictionary(pairs) ==
  Keep(pairs, {i \in DOMAIN pairs :
                 \A j \in DOMAIN pairs : j > i => pairs[j][1] # pairs[i][1]})

FieldNames ==
  [e |-> "event_type", s |-> "symbol", E |-> "event_time", T |-> "trade_time", a |-> "trade_id",
   p |-> "price", q |-> "quantity", f |-> "first_trade_id", l |-> "last_trade_id",
   m |-> "is_buyer_maker"]

(* normalize_message: the object renamed, or the message as it is.         *)
Normalize(message) ==
  IF Decodable(message) /\ ~ Collides(message.pairs, FieldNames)
  THEN [raw |-> FALSE, pairs |-> AsDictionary(Rename(message.pairs, FieldNames))]
  ELSE [raw |-> TRUE, pairs |-> << >>]

(* parse_subscription_response; in Python True equals 1. *)
SubscriptionResponse(message) ==
  LET pairs == Normalize(message).pairs
  IN  IF Get(pairs, "id") \notin {Integer(<<"1">>), True} THEN "none"
      ELSE IF Has(pairs, "result") /\ Get(pairs, "result") = Null THEN "ack"
      ELSE IF Has(pairs, "code") \/ Has(pairs, "msg") THEN "rejection" ELSE "none"
============================================================================
