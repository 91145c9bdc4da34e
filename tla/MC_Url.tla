------------------------------- MODULE MC_Url -------------------------------
(***************************************************************************)
(* The two entry points of src/src/url.cpp in one run: a caller of        *)
(* url_parse (the bounds of MC_UrlParse) and a caller of                   *)
(* url_parse_requri (path tokens).  entry says which one the program is;  *)
(* the other's variables keep their initial values, so the states are     *)
(* those of the two specifications side by side.                          *)
(***************************************************************************)
EXTENDS MC_UrlParse

VARIABLES entry,   \* "url_parse" or "url_parse_requri"
          target,  \* UrlRequri's variables
          u

\* "%xy" as bytes.
Esc(x, y) == <<37, x, y>>

\* Path, dot, delimiter and escape tokens: "/", "/a", ".", "..", "?", "#",
\* "%2E" (a safe '.'), "%2f" (an unsafe '/'), "%C3" (a high byte), and a
\* lone "%" (an escape that may be malformed).
PathTokens == {<<47>>, <<47, 97>>, <<46>>, <<46, 46>>, <<63>>, <<35>>,
               Esc(50, 69), Esc(50, 102), Esc(67, 51), <<37>>}

Rq == INSTANCE UrlRequri WITH Tokens <- PathTokens, MaxLen <- 8

UrlInit == \/ /\ entry = "url_parse"
              /\ Init
              /\ Rq!Init
           \/ /\ entry = "url_parse_requri"
              /\ raw = HttpB /\ ntok = 0 /\ out = UrlParse(HttpB)
              /\ Rq!Init

UrlNext == \/ entry = "url_parse" /\ Next /\ UNCHANGED <<entry, target, u>>
           \/ entry = "url_parse_requri" /\ Rq!Next /\ UNCHANGED <<entry, vars>>

UrlSpec == UrlInit /\ [][UrlNext]_<<entry, vars, target, u>>

UrlTypeOK == TypeOK /\ Rq!TypeOK

\* url_parse_requri's canonicalisation agrees with the specification's:
\* UrlRequri's CanonMatchesReference, for the targets of path tokens.
CanonMatchesReference == Rq!CanonMatchesReference

\* url_parse_requri is a fixed point on its canonical output: UrlRequri's
\* CanonIdempotent, for the targets of path tokens.
CanonIdempotent == Rq!CanonIdempotent
=============================================================================
