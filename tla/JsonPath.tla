------------------------------ MODULE JsonPath ------------------------------
(***************************************************************************)
(* examples/src/json2.cpp: hana_struct_set_impl(t, keys, v) assigns v to   *)
(* the member of a hana struct that the key path names.  At a struct the  *)
(* key selects the member of that name (none: nothing happens); at a      *)
(* std::vector it goes through std::stoi, the vector is resized to hold    *)
(* the index and the element is taken with at().  At the last key the      *)
(* member is assigned when std::is_assignable_v<Element, V> (for a string *)
(* literal V: a std::string member); before it, the walk goes on only     *)
(* into a struct or a vector.                                              *)
(*                                                                         *)
(* main default-initialises a person_t and calls the function; an         *)
(* exception (std::stoi's, at()'s, resize's) is not caught and ends the   *)
(* program.  Types and values are those of module Json.                   *)
(***************************************************************************)
EXTENDS Json

CONSTANTS PersonType,  \* json2.cpp's person_t
          Tokens,      \* the key strings the program may pass
          Stoi,        \* std::stoi on the Tokens that are decimal numbers
          SetValue,    \* the const char* assigned ("Das.Auto")
          MaxKeys      \* bound on the length of a key path

VARIABLES p,     \* main's person_t
          keys,  \* the keys of the last call
          out    \* "ok" while main runs, "throw" once an exception escaped

pathVars == <<p, keys, out>>

\* A member V can be assigned to (std::is_assignable_v), and one the walk
\* goes into (hana_struct_set_impl_t<Element>::value).
Assignable(T) == T.k = "string"
Aggregate(T) == T.k \in {"struct", "vector"}

\* Value-initialisation, as resize does it.
RECURSIVE Default(_)
Default(T) == CASE T.k = "string" -> ""
                [] T.k \in {"int", "double"} -> 0
                [] T.k = "vector" -> <<>>
                [] T.k = "struct" -> [j \in DOMAIN T.fields |-> Default(T.fields[j].type)]

\* Default-initialisation ("person_t p;"): an int member is indeterminate.
RECURSIVE DefaultInit(_), DefaultInitFrom(_, _)
DefaultInitFrom(fs, i) == IF i > Len(fs) THEN {<<>>}
                          ELSE {<<x>> \o r : x \in DefaultInit(fs[i].type),
                                              r \in DefaultInitFrom(fs, i + 1)}

DefaultInit(T) == CASE T.k = "int" -> Ints
                    [] T.k = "struct" -> DefaultInitFrom(T.fields, 1)
                    [] OTHER -> {Default(T)}

Result(st, x) == [st |-> st, v |-> x]

\* Mutant: the last key's struct level assigns every assignable member.
AssignMember(fs, j, ks, i) == TRUE

\* ITER_END's for_each: the member whose name is the last key.
AssignThis(fs, j, ks, i) == fs[j].name = ks[i]

(***************************************************************************)
(* set(t, keys, i, v), with i counted from 1: Len(ks) = i is the test     *)
(* keys.size() - 1 == i.  keys.at(i) past the end (an empty path) throws  *)
(* std::out_of_range; a non-numeric key at a vector throws                 *)
(* invalid_argument; a negative one throws from at() (-1) or from resize  *)
(* (any other).  The result holds the value as the exception left it.     *)
(***************************************************************************)
RECURSIVE Set(_, _, _, _)
Set(T, x, ks, i) ==
  IF i > Len(ks) THEN Result("throw", x)
  ELSE IF T.k = "struct" THEN
    LET fs == T.fields
    IN  IF Len(ks) = i
        THEN Result("ok", [j \in DOMAIN fs |->
               IF AssignThis(fs, j, ks, i) /\ Assignable(fs[j].type) THEN SetValue ELSE x[j]])
        ELSE IF \E j \in DOMAIN fs : fs[j].name = ks[i] /\ Aggregate(fs[j].type)
        THEN LET j == CHOOSE j \in DOMAIN fs : fs[j].name = ks[i]
                 r == Set(fs[j].type, x[j], ks, i + 1)
             IN  Result(r.st, [x EXCEPT ![j] = r.v])
        ELSE Result("ok", x)
  ELSE \* a std::vector
    IF ks[i] \notin DOMAIN Stoi THEN Result("throw", x)
    ELSE IF Stoi[ks[i]] < 0 THEN Result("throw", x)
    ELSE LET n == Stoi[ks[i]] + 1
             y == IF Len(x) < n THEN x \o [k \in 1..(n - Len(x)) |-> Default(T.of)] ELSE x
         IN  IF Len(ks) = i
             THEN Result("ok", IF Assignable(T.of) THEN [y EXCEPT ![n] = SetValue] ELSE y)
             ELSE IF Aggregate(T.of)
             THEN LET r == Set(T.of, y[n], ks, i + 1)
                  IN  Result(r.st, [y EXCEPT ![n] = r.v])
             ELSE Result("ok", y)

PathInit == /\ p \in DefaultInit(PersonType)
            /\ keys = <<>>
            /\ out = "ok"

\* main calls hana_struct_set_impl(p, ks, "Das.Auto").
SetPath(ks) == /\ out = "ok"
               /\ LET r == Set(PersonType, p, ks, 1)
                  IN  /\ p' = r.v
                      /\ out' = r.st
               /\ keys' = ks

Paths == UNION {[1..n -> Tokens] : n \in 0..MaxKeys}

PathNext == \E ks \in Paths : SetPath(ks)
-----------------------------------------------------------------------------
\* The decimal key std::stoi reads as n.
Itos(n) == CHOOSE t \in DOMAIN Stoi : Stoi[t] = n

\* The scalar members of x, as <<key path, value, type>>.
RECURSIVE Leaves(_, _, _)
Leaves(T, x, path) ==
  CASE T.k = "struct" -> UNION {Leaves(T.fields[j].type, x[j], Append(path, T.fields[j].name)) :
                                  j \in DOMAIN T.fields}
    [] T.k = "vector" -> UNION {Leaves(T.of, x[j], Append(path, Itos(j - 1))) : j \in DOMAIN x}
    [] OTHER -> {<<path, x, T>>}

(***************************************************************************)
(* A call that returns writes the string member its path names and        *)
(* nothing else: every scalar member of the person afterwards is as       *)
(* before, or is the one the path names and holds v, or sits in an        *)
(* element that resize added and holds its default; none disappears; and  *)
(* when the path names a std::string member, that member holds v.  The    *)
(* key comparison in both for_each walks, the resize before at() and the   *)
(* is_assignable test have to agree for it.                               *)
(***************************************************************************)
WritesOnlyPath(b, a, ks) ==
  LET lb == Leaves(PersonType, b, <<>>)
      la == Leaves(PersonType, a, <<>>)
      pb == {l[1] : l \in lb}
  IN  /\ pb \subseteq {l[1] : l \in la}
      /\ \A l \in la : \/ l \in lb
                       \/ l[1] = ks /\ Assignable(l[3]) /\ l[2] = SetValue
                       \/ l[1] \notin pb /\ l[2] = Default(l[3])
      /\ \A l \in la : l[1] = ks /\ Assignable(l[3]) => l[2] = SetValue

SetWritesPath == [][out' = "ok" => WritesOnlyPath(p, p', keys')]_pathVars
=============================================================================
