-------------------------------- MODULE Json --------------------------------
(***************************************************************************)
(* ccl2::json (src/include/ccl2/json.h): dump<T> and parse<T> between a    *)
(* C++ value and JSON text through yyjson, by the yyjson_convert<T>        *)
(* specialisations: hana reflection structs (members in declaration order, *)
(* std::optional members left out when empty), bool, int, double,         *)
(* std::string, yyjson_val*, std::vector<T>, std::map<std::string, V>.     *)
(*                                                                         *)
(* A C++ type is a record: [k |-> "bool" | "int" | "double" | "string" |   *)
(* "val"], [k |-> "vector" | "map", of |-> T], or [k |-> "struct",         *)
(* fields |-> <<[name, type, opt], ...>>].  A value of a struct is the      *)
(* tuple of its members; an optional member is [has, v]; a map is a        *)
(* function from its keys.  A double is an integer number of tenths or    *)
(* NaN.  A JSON value is the yyjson tree: [t |-> "null" | "bool" | "uint" *)
(* | "sint" | "real" | "str" | "arr" | "obj"] with b, n, r, s, items or   *)
(* mem (a sequence of <<key, value>>).  JSON text is the tree yyjson_read  *)
(* gives back for it, or Garbage, which yyjson_read rejects.              *)
(***************************************************************************)
EXTENDS Integers, Sequences, TLC

CONSTANTS Types,     \* the C++ types the program marshals
          Ints,      \* int values
          Doubles,   \* double values (tenths), NaN included
          NaN,
          Strs,      \* std::string values and map keys
          KeyOrder,  \* Strs as a sequence in std::string's operator< order
          Trees,     \* yyjson_val* values: trees as yyjson_read returns them
          MaxItems,  \* bound on the length of a vector
          Foreign,   \* JSON texts the program parses that dump did not make
          Garbage,   \* a text yyjson_read rejects
          Absent     \* nullptr: what yyjson_obj_get returns for a missing key

VARIABLES ty,    \* the type T of the last dump or parse
          val,   \* the C++ value the program holds
          text,  \* the JSON text of the last dump<T>(val), or Absent
          res    \* the outcome of the last parse<T>

vars == <<ty, val, text, res>>

Ok(x) == [st |-> "ok", v |-> x]
Throw == [st |-> "throw", v |-> Absent]        \* std::runtime_error
Terminate == [st |-> "terminate", v |-> Absent]  \* gsl::not_null(nullptr)

Nullopt == [has |-> FALSE, v |-> Absent]
Some(x) == [has |-> TRUE, v |-> x]

-----------------------------------------------------------------------------
(***************************************************************************)
(* to_json: the yyjson_mut_val tree.  int goes through yyjson_mut_int (a  *)
(* signed integer), double through yyjson_mut_real; a std::map is walked *)
(* in key order; a struct member that is an empty optional is skipped.    *)
(***************************************************************************)
RECURSIVE ToJson(_, _)

\* The members of a struct value x, in declaration order.
StructTo(fs, x) ==
  LET idx == SelectSeq([i \in 1..Len(fs) |-> i], LAMBDA i : ~fs[i].opt \/ x[i].has)
  IN  [j \in 1..Len(idx) |->
         LET f == fs[idx[j]]
         IN  <<f.name, ToJson(f.type, IF f.opt THEN x[idx[j]].v ELSE x[idx[j]])>>]

ToJson(T, x) ==
  CASE T.k = "bool"   -> [t |-> "bool", b |-> x]
    [] T.k = "int"    -> [t |-> "sint", n |-> x]
    [] T.k = "double" -> [t |-> "real", r |-> x]
    [] T.k = "string" -> [t |-> "str", s |-> x]
    [] T.k = "val"    -> x
    [] T.k = "vector" -> [t |-> "arr", items |-> [i \in DOMAIN x |-> ToJson(T.of, x[i])]]
    [] T.k = "map"    -> LET ks == SelectSeq(KeyOrder, LAMBDA k : k \in DOMAIN x)
                         IN  [t |-> "obj", mem |-> [i \in DOMAIN ks |-> <<ks[i], ToJson(T.of, x[ks[i]])>>]]
    [] T.k = "struct" -> [t |-> "obj", mem |-> StructTo(T.fields, x)]

(***************************************************************************)
(* yyjson_mut_write_opts with no flags, then yyjson_read of its output:   *)
(* a NaN makes the write fail; a signed integer that is not negative      *)
(* reads back as an unsigned one.                                          *)
(***************************************************************************)
RECURSIVE HasNaN(_), Reread(_)
HasNaN(j) == \/ j.t = "real" /\ j.r = NaN
             \/ j.t = "arr" /\ \E i \in DOMAIN j.items : HasNaN(j.items[i])
             \/ j.t = "obj" /\ \E i \in DOMAIN j.mem : HasNaN(j.mem[i][2])

Reread(j) ==
  CASE j.t = "sint" /\ j.n >= 0 -> [t |-> "uint", n |-> j.n]
    [] j.t = "arr" -> [j EXCEPT !.items = [i \in DOMAIN j.items |-> Reread(j.items[i])]]
    [] j.t = "obj" -> [j EXCEPT !.mem = [i \in DOMAIN j.mem |-> <<j.mem[i][1], Reread(j.mem[i][2])>>]]
    [] OTHER -> j

\* dump<T>: to_json, set the root, write; a write error is thrown.
Dump(T, x) == LET j == ToJson(T, x)
              IN  IF HasNaN(j) THEN Throw ELSE Ok(Reread(j))
-----------------------------------------------------------------------------
(***************************************************************************)
(* from_json into a fresh T.  Its argument is a gsl::not_null, so a       *)
(* nullptr terminates the program; a value of the wrong JSON type throws  *)
(* (detail::expect).  int takes any number, through yyjson_get_int, which *)
(* gives 0 for a real; double takes only a real (yyjson_is_real).         *)
(***************************************************************************)
RECURSIVE FromJson(_, _), ArrFrom(_, _, _), MapFrom(_, _, _, _), StructFrom(_, _, _)

IsNum(j) == j.t \in {"uint", "sint", "real"}

\* yyjson_obj_get: the first member with the key, or nullptr.
ObjGet(j, key) == LET is == {i \in DOMAIN j.mem : j.mem[i][1] = key}
                  IN  IF is = {} THEN Absent
                      ELSE j.mem[CHOOSE i \in is : \A i2 \in is : i <= i2][2]

\* Mutant: the items put in front of those already decoded.
PushFront(acc, x) == <<x>> \o acc

\* rhs.emplace_back((T &&) v).
EmplaceBack(acc, x) == Append(acc, x)

\* yyjson_arr_foreach: each item into a fresh T, emplaced at the back; the
\* first exception propagates.
ArrFrom(T, items, acc) ==
  IF Len(acc) = Len(items) THEN Ok(acc)
  ELSE LET r == FromJson(T, items[Len(acc) + 1])
       IN  IF r.st # "ok" THEN r ELSE ArrFrom(T, items, EmplaceBack(acc, r.v))

\* rhs.emplace(k, v): a key already in the map keeps its first value.
Emplace(m, k, x) == IF k \in DOMAIN m THEN m ELSE m @@ (k :> x)

\* yyjson_obj_foreach: the key through yyjson_convert<std::string>, the
\* value into a fresh V, then emplace.
MapFrom(T, mem, i, acc) ==
  IF i > Len(mem) THEN Ok(acc)
  ELSE LET r == FromJson(T, mem[i][2])
       IN  IF r.st # "ok" THEN r ELSE MapFrom(T, mem, i + 1, Emplace(acc, mem[i][1], r.v))

\* hana::for_each over the keys: yyjson_obj_get of the member's name; an
\* optional member is nullopt for a missing key or a JSON null.
StructFrom(fs, j, acc) ==
  IF Len(acc) = Len(fs) THEN Ok(acc)
  ELSE LET f == fs[Len(acc) + 1]
           g == ObjGet(j, f.name)
           r == IF ~f.opt THEN FromJson(f.type, g)
                ELSE IF g = Absent THEN Ok(Nullopt)
                ELSE IF g.t = "null" THEN Ok(Nullopt)
                ELSE LET ri == FromJson(f.type, g)
                     IN  IF ri.st # "ok" THEN ri ELSE Ok(Some(ri.v))
       IN  IF r.st # "ok" THEN r ELSE StructFrom(fs, j, Append(acc, r.v))

FromJson(T, j) ==
  IF j = Absent THEN Terminate
  ELSE CASE T.k = "bool"   -> IF j.t = "bool" THEN Ok(j.b) ELSE Throw
         [] T.k = "int"    -> IF ~IsNum(j) THEN Throw
                              ELSE Ok(IF j.t = "real" THEN 0 ELSE j.n)
         [] T.k = "double" -> IF j.t = "real" THEN Ok(j.r) ELSE Throw
         [] T.k = "string" -> IF j.t = "str" THEN Ok(j.s) ELSE Throw
         [] T.k = "val"    -> Ok(j)
         [] T.k = "vector" -> IF j.t = "arr" THEN ArrFrom(T.of, j.items, <<>>) ELSE Throw
         [] T.k = "map"    -> IF j.t = "obj" THEN MapFrom(T.of, j.mem, 1, <<>>) ELSE Throw
         [] T.k = "struct" -> IF j.t = "obj" THEN StructFrom(T.fields, j, <<>>) ELSE Throw

\* parse<T>: yyjson_read (nullptr throws "yyjson parse error"), then
\* from_json of the root into a fresh T.
Parse(T, s) == IF s = Garbage THEN Throw ELSE FromJson(T, s)
-----------------------------------------------------------------------------
(***************************************************************************)
(* The values of a type within the bounds: vectors of up to MaxItems      *)
(* items, maps over subsets of Strs.                                      *)
(***************************************************************************)
RECURSIVE Values(_), StructValues(_, _)
FieldValues(f) == IF f.opt THEN {Nullopt} \cup {Some(y) : y \in Values(f.type)}
                  ELSE Values(f.type)

StructValues(fs, i) == IF i > Len(fs) THEN {<<>>}
                       ELSE {<<x>> \o r : x \in FieldValues(fs[i]), r \in StructValues(fs, i + 1)}

Values(T) ==
  CASE T.k = "bool"   -> BOOLEAN
    [] T.k = "int"    -> Ints
    [] T.k = "double" -> Doubles
    [] T.k = "string" -> Strs
    [] T.k = "val"    -> Trees
    [] T.k = "vector" -> UNION {[1..n -> Values(T.of)] : n \in 0..MaxItems}
    [] T.k = "map"    -> UNION {[K -> Values(T.of)] : K \in SUBSET Strs}
    [] T.k = "struct" -> StructValues(T.fields, 1)

-----------------------------------------------------------------------------
\* The program holds a value x of a type T it marshals (built by aggregate
\* initialisation or member assignments, as test_obj_serialize does).
Init == /\ ty \in Types
        /\ val \in Values(ty)
        /\ text = Absent
        /\ res = Absent

\* dump<T>(val).
DumpVal == /\ text = Absent
           /\ text' = Dump(ty, val)
           /\ UNCHANGED <<ty, val, res>>

\* parse<T>(s), of the text dump made or of a text from elsewhere.
ParseText(s) == /\ res' = [in |-> s, out |-> Parse(ty, s)]
                /\ UNCHANGED <<ty, val, text>>

Next == \/ DumpVal
        \/ \E s \in Foreign : ParseText(s)
        \/ text # Absent /\ text.st = "ok" /\ ParseText(text.v)

Spec == Init /\ [][Next]_vars
-----------------------------------------------------------------------------
TypeOK == /\ ty \in Types
          /\ val \in Values(ty)
          /\ text = Absent \/ text.st \in {"ok", "throw"}
          /\ res = Absent \/ res.out.st \in {"ok", "throw", "terminate"}

(***************************************************************************)
(* What dump<T> writes, parse<T> reads back as the same value: the member *)
(* order and empty optionals of to_json, the key order of a std::map, the *)
(* integer that yyjson reads back unsigned, and the items emplaced by     *)
(* from_json have to agree.                                               *)
(***************************************************************************)
RoundTrip == res # Absent /\ text # Absent /\ text.st = "ok" /\ res.in = text.v
               => res.out = Ok(val)
=============================================================================
