---------------------------- MODULE MC_UrlParse ----------------------------
(* Bounds for UrlParse: four scheme beginnings (default port known and     *)
(* unknown, unix, a missing "//") followed by up to MaxTokens pieces of   *)
(* authority, port and request-target text.                               *)
EXTENDS UrlParse

HttpB == <<104, 116, 116, 112, 58, 47, 47>>       \* "http://"
WssB  == <<119, 115, 115, 58, 47, 47>>            \* "wss://"
FooB  == <<102, 111, 111, 58, 47, 47>>            \* "foo://"
UnixB == <<117, 110, 105, 120, 58, 47, 47>>       \* "unix://"
HalfB == <<104, 116, 116, 112, 58, 47>>           \* "http:/"
MCSchemes == {HttpB, WssB, FooB, UnixB, HalfB}

\* "h" ":" "8" "0" "99999" "[h]" "[" "u@" "*" "/" "?" "-" "%"
MCTokens == {<<104>>, <<58>>, <<56>>, <<48>>, <<57, 57, 57, 57, 57>>,
             <<91, 104, 93>>, <<91>>, <<117, 64>>, <<42>>, <<47>>, <<63>>,
             <<45>>, <<37>>}

\* For the run on accepted URLs, also "/%E0%80%A0": an overlong encoding.
AcceptedTokens == MCTokens \cup {<<47, 37, 69, 48, 37, 56, 48, 37, 65, 48>>}
=============================================================================
