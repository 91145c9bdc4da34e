------------------------------- MODULE MC_Json -------------------------------
(***************************************************************************)
(* The types of examples/src/json.cpp and test/test_json.cpp: car_t,       *)
(* person_t, common_msg_t<person_t>, common_msg_t<yyjson_val*>,            *)
(* std::map<std::string, int> and std::map<std::string, yyjson_val*>; and  *)
(* variants of car_json.  Strings are "alan" and "cc" (the map keys of     *)
(* test map_key_mem); doubles are 1.0, 2.1 (in tenths) and NaN.            *)
(*                                                                         *)
(* Beside it, examples/src/json2.cpp: its person_t and car_t, and key     *)
(* paths of up to three of "car", "cars", "make", "tire_pressure", "1" and *)
(* "-1".  entry says which program runs; the other's variables keep their *)
(* initial values.                                                        *)
(***************************************************************************)
EXTENDS JsonPath

CONSTANTS NaNValue, GarbageText, AbsentValue

Str == [k |-> "string"]
IntT == [k |-> "int"]
Field(n, T) == [name |-> n, type |-> T, opt |-> FALSE]
OptField(n, T) == [name |-> n, type |-> T, opt |-> TRUE]

CarT == [k |-> "struct", fields |-> <<Field("make", Str), Field("model", Str),
           Field("year", IntT), Field("tire_pressure", [k |-> "vector", of |-> [k |-> "double"]]),
           OptField("owner", Str)>>]
PersonT == [k |-> "struct", fields |-> <<Field("age", IntT), Field("name", Str)>>]
MsgT(T) == [k |-> "struct", fields |-> <<Field("code", IntT), Field("msg", Str), Field("data", T)>>]
MCTypes == {CarT, PersonT, MsgT(PersonT), MsgT([k |-> "val"]),
            [k |-> "map", of |-> IntT], [k |-> "map", of |-> [k |-> "val"]]}

MCInts == {-1, 2018}
MCDoubles == {10, 21, NaNValue}
MCStrs == {"alan", "cc"}
MCKeyOrder == <<"alan", "cc">>

U(n) == [t |-> "uint", n |-> n]
S(s) == [t |-> "str", s |-> s]
R(r) == [t |-> "real", r |-> r]
Obj(m) == [t |-> "obj", mem |-> m]

\* yyjson_val* values: a person as read back, and a JSON null.
MCTrees == {Obj(<<<<"age", U(23)>>, <<"name", S("cc")>>>>), [t |-> "null"]}

\* car_json, and car_json without "year", with "year": 2018.5, with an
\* integer tire pressure, with "owner": null; an object with a key twice.
CarDoc(year, tires, extra) ==
  Obj(<<<<"make", S("cc")>>, <<"model", S("alan")>>>> \o year
      \o <<<<"tire_pressure", [t |-> "arr", items |-> tires]>>>> \o extra)
MCForeign == {CarDoc(<<<<"year", U(2018)>>>>, <<R(10), R(21)>>, <<>>),
              CarDoc(<<>>, <<R(10)>>, <<>>),
              CarDoc(<<<<"year", R(20185)>>>>, <<R(10)>>, <<>>),
              CarDoc(<<<<"year", U(2018)>>>>, <<U(40)>>, <<>>),
              CarDoc(<<<<"year", U(2018)>>>>, <<>>, <<<<"owner", [t |-> "null"]>>>>),
              Obj(<<<<"cc", U(1)>>, <<"cc", [t |-> "sint", n |-> -1]>>>>),
              GarbageText}

\* json2.cpp's car_t (without owner) and person_t.
Car2T == [k |-> "struct", fields |-> SubSeq(CarT.fields, 1, 4)]
Person2T == [k |-> "struct", fields |-> <<Field("name", Str), Field("car", Car2T),
               Field("cars", [k |-> "vector", of |-> Car2T])>>]
MCTokens == {"car", "cars", "make", "tire_pressure", "1", "-1"}
MCStoi == ("0" :> 0) @@ ("1" :> 1) @@ ("-1" :> -1)

VARIABLE entry

JsonInit == \/ /\ entry = "json"
               /\ Init
               /\ p = CHOOSE x \in DefaultInit(PersonType) : TRUE
               /\ keys = <<>>
               /\ out = "ok"
            \/ /\ entry = "json2"
               /\ ty = CarT /\ val = CHOOSE x \in Values(CarT) : TRUE
               /\ text = Absent /\ res = Absent
               /\ PathInit

JsonNext == \/ entry = "json" /\ Next /\ UNCHANGED <<entry, pathVars>>
            \/ entry = "json2" /\ PathNext /\ UNCHANGED <<entry, vars>>

JsonSpec == JsonInit /\ [][JsonNext]_<<entry, vars, pathVars>>
=============================================================================
