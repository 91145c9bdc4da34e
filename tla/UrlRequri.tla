----------------------------- MODULE UrlRequri -----------------------------
(***************************************************************************)
(* url_parse_requri (src/src/url.cpp): canonicalisation of an HTTP         *)
(* request-target by url_canonify_uri (percent-decode pass, slash-collapse *)
(* pass, dot-segment pass, UTF-8 validation) and the split of the result   *)
(* into path, query and fragment.                                          *)
(*                                                                         *)
(* Strings are sequences of byte values (naturals 1..255).  The C code     *)
(* works on NUL-terminated buffers; At(s, i) returns 0 past the end, which *)
(* is the terminator the code reads there.  Every loop of the code is a    *)
(* RECURSIVE operator whose parameters are the loop's cursors.             *)
(***************************************************************************)
EXTENDS Integers, Sequences, FiniteSets
LOCAL INSTANCE SequencesExt

CONSTANTS Tokens, \* pieces of request-targets (byte sequences)
          MaxLen  \* the longest request-target, in bytes

VARIABLES target,  \* the argument of the last call of url_parse_requri
          u        \* the url_t record it filled in, with ok = its return value

vars == <<target, u>>

\* A few ASCII bytes by name.
Slash == 47   Dot == 46   Pct == 37   Quest == 63   Hash == 35

At(s, i) == IF i <= Len(s) THEN s[i] ELSE 0

\* isxdigit, toupper and url_hex_val on byte values.
IsXDigit(c) == c \in (48..57) \cup (65..70) \cup (97..102)
ToUpper(c) == IF c \in 97..122 THEN c - 32 ELSE c
HexVal(c) == CASE c \in 48..57  -> c - 48
               [] c \in 65..70  -> c - 55
               [] c \in 97..102 -> c - 87
               [] OTHER         -> 0

\* The bytes the first pass decodes: letters, digits, . ~ _ - and >= 0x80.
IsSafe(c) == c \in (65..90) \cup (97..122) \cup (48..57) \cup {46, 126, 95, 45}
             \/ c >= 128

(***************************************************************************)
(* First pass: '%xx' of a safe byte becomes the byte, any other escape is *)
(* re-emitted with upper-case digits; a '%' not followed by two hex       *)
(* digits fails the whole call.                                            *)
(***************************************************************************)
Decode(s) ==
  LET RECURSIVE Loop(_, _)
      Loop(i, o) ==
        IF At(s, i) = 0 THEN [ok |-> TRUE, out |-> o]
        ELSE IF At(s, i) # Pct THEN Loop(i + 1, Append(o, s[i]))
        ELSE IF ~IsXDigit(At(s, i + 1)) \/ ~IsXDigit(At(s, i + 2))
             THEN [ok |-> FALSE, out |-> o]
        ELSE LET c == HexVal(s[i + 1]) * 16 + HexVal(s[i + 2])
             IN  Loop(i + 3, IF IsSafe(c) THEN Append(o, c)
                             ELSE o \o <<Pct, ToUpper(s[i + 1]), ToUpper(s[i + 2])>>)
  IN  Loop(1, <<>>)

\* Second pass: a run of '/' becomes one '/', until the first '?' or '#'.
Collapse(s) ==
  LET RECURSIVE PastSlashes(_)
      PastSlashes(i) == IF At(s, i) = Slash THEN PastSlashes(i + 1) ELSE i
      RECURSIVE Loop(_, _, _)
      Loop(i, o, skip) ==
        IF At(s, i) = 0 THEN o
        ELSE IF s[i] = Slash /\ ~skip THEN Loop(PastSlashes(i), Append(o, Slash), skip)
        ELSE Loop(i + 1, Append(o, s[i]), skip \/ s[i] \in {Quest, Hash})
  IN  Loop(1, <<>>, FALSE)

\* Mutant: '?' forgotten among the bytes that end a dot segment.
EndsSegmentNoQuest(c) == c \in {0, Hash, Slash}

\* The byte after a dot segment: end of string, '#', '?' or '/'.
EndsSegment(c) == c \in {0, Hash, Quest, Slash}

(***************************************************************************)
(* The backtrack of "/..": do { dst--; } while (dst && out[dst] != '/'),  *)
(* i.e. the output is cut back to its last '/' other than its last byte,  *)
(* or to nothing.                                                          *)
(***************************************************************************)
Backtrack(o) ==
  IF Len(o) = 0 THEN o
  ELSE LET cut == {0} \cup {k \in 1..(Len(o) - 1) : o[k + 1] = Slash}
       IN  SubSeq(o, 1, CHOOSE k \in cut : \A j \in cut : j <= k)

\* Third pass: "/.." backtracks, "/." is dropped, until the first '?'/'#'.
Dots(s) ==
  LET RECURSIVE Loop(_, _, _)
      Loop(i, o, skip) ==
        IF At(s, i) = 0 THEN o
        ELSE IF s[i] = Slash /\ ~skip THEN
          IF At(s, i + 1) = Dot /\ At(s, i + 2) = Dot /\ EndsSegment(At(s, i + 3))
          THEN Loop(i + 3, Backtrack(o), skip)
          ELSE IF At(s, i + 1) = Dot /\ EndsSegment(At(s, i + 2))
          THEN Loop(i + 2, o, skip)
          ELSE Loop(i + 1, Append(o, Slash), skip)
        ELSE Loop(i + 1, Append(o, s[i]), skip \/ s[i] \in {Quest, Hash})
  IN  Loop(1, <<>>, FALSE)

(***************************************************************************)
(* url_utf8_validate, as written.  After checking that a byte is a        *)
(* continuation byte the loop advances s and only then adds s[0] & 0x3f   *)
(* to v, so v is built from the byte AFTER each continuation byte (the    *)
(* terminator 0 after the last one).  Masks are written as ranges and     *)
(* remainders: (b & 0xe0) == 0xc0 is b \in 192..223, b & 0x3f is b % 64.  *)
(***************************************************************************)
Utf8Validate(s) ==
  LET RECURSIVE Cont(_, _, _)
      Cont(i, v, nb) ==     \* i: next continuation byte, nb: how many left
        IF nb = 0 THEN [ok |-> TRUE, next |-> i, v |-> v]
        ELSE IF At(s, i) \notin 128..191 THEN [ok |-> FALSE, next |-> i, v |-> v]
        ELSE Cont(i + 1, v * 64 + (At(s, i + 1) % 64), nb - 1)
      RECURSIVE Loop(_)
      Loop(i) ==
        LET b == At(s, i)
            lead == CASE b \in 192..223 -> [v |-> b % 32, minv |-> 128,   nb |-> 1]
                      [] b \in 224..239 -> [v |-> b % 16, minv |-> 2048,  nb |-> 2]
                      [] b \in 240..247 -> [v |-> b % 8,  minv |-> 65536, nb |-> 3]
                      [] OTHER          -> [v |-> 0,      minv |-> 0,     nb |-> 0]
            r == Cont(i + 1, lead.v, lead.nb)
        IN  IF b = 0 THEN TRUE
            ELSE IF b < 128 THEN Loop(i + 1)
            ELSE IF lead.nb = 0 THEN FALSE
            ELSE IF ~r.ok THEN FALSE
            ELSE IF r.v < lead.minv THEN FALSE
            ELSE IF r.v >= 55296 /\ r.v <= 57343 THEN FALSE
            ELSE IF r.v > 1114111 THEN FALSE
            ELSE Loop(r.next)
  IN  Loop(1)

\* Mutant: the percent-decode pass run last instead of first.
CanonifyDecodeLast(s) ==
  LET d == Decode(Dots(Collapse(s)))
  IN  [ok |-> d.ok /\ Utf8Validate(d.out), out |-> d.out]

\* url_canonify_uri: the three passes, then the UTF-8 check of the result.
Canonify(s) ==
  LET d == Decode(s)
      c == Dots(Collapse(d.out))
  IN  [ok |-> d.ok /\ Utf8Validate(c), out |-> c]

\* The split of the canonical requri at the first '?' / '#'.
FirstOf(s, set) ==
  IF \A i \in 1..Len(s) : s[i] \notin set THEN Len(s) + 1
  ELSE CHOOSE i \in 1..Len(s) : s[i] \in set /\ \A j \in 1..i - 1 : s[j] \notin set

Split(r) ==
  LET p   == FirstOf(r, {Quest, Hash})
      rest == SubSeq(r, p, Len(r))
      q   == FirstOf(Tail(rest), {Hash})
      hasQ == rest # <<>> /\ rest[1] = Quest
      afterQ == IF hasQ THEN SubSeq(rest, q + 1, Len(rest)) ELSE rest
  IN  [path     |-> SubSeq(r, 1, p - 1),
       query    |-> IF hasQ THEN SubSeq(rest, 2, q) ELSE <<>>,
       fragment |-> IF afterQ # <<>> /\ afterQ[1] = Hash
                    THEN Tail(afterQ) ELSE <<>>]

\* Mutant: a failed parse leaves the url_t fields unassigned.
RequriFailUnset(s) ==
  LET c == Canonify(s)
      sp == Split(c.out)
  IN  IF c.ok THEN [ok |-> TRUE, requri |-> c.out, path |-> sp.path,
                    query |-> sp.query, fragment |-> sp.fragment]
      ELSE [ok |-> FALSE]

\* The url_t fields url_parse_requri sets, and its return value.
Requri(s) ==
  LET c == Canonify(s)
      sp == Split(c.out)
  IN  IF c.ok THEN [ok |-> TRUE, requri |-> c.out, path |-> sp.path,
                    query |-> sp.query, fragment |-> sp.fragment]
      ELSE [ok |-> FALSE, requri |-> <<>>, path |-> <<>>, query |-> <<>>,
            fragment |-> <<>>]    \* the caller ignores out on failure

-----------------------------------------------------------------------------
Init == /\ target = <<>>
        /\ u = Requri(<<>>)

\* One call url_parse_requri(t, out) on a fresh url_t.
ParseRequri(t) == /\ target' = t
                  /\ u' = Requri(t)

(***************************************************************************)
(* The caller's successive targets: each call passes the previous target *)
(* with one more token appended, or starts again from the empty target,  *)
(* so that every concatenation of tokens of at most MaxLen bytes is       *)
(* parsed once.                                                            *)
(***************************************************************************)
Next == \/ \E tok \in Tokens : /\ Len(target) + Len(tok) <= MaxLen
                               /\ ParseRequri(target \o tok)
        \/ ParseRequri(<<>>)

Spec == Init /\ [][Next]_vars

-----------------------------------------------------------------------------
(***************************************************************************)
(* Reference semantics, from the specification of the canonicalisation:   *)
(* the path (the decoded text before the first '?' or '#') is cut into    *)
(* pieces, a piece being the text before the first '/' or a '/' and the   *)
(* text up to the next '/'.  An empty piece "/" followed by another piece *)
(* is a doubled slash and goes; then "/." pieces go and a "/.." piece     *)
(* removes itself and the piece before it.  Query and fragment are kept.  *)
(***************************************************************************)
RECURSIVE Pieces(_)
Pieces(p) ==
  IF p = <<>> THEN <<>>
  ELSE LET n == FirstOf(Tail(p), {Slash})
       IN  <<SubSeq(p, 1, n)>> \o Pieces(SubSeq(p, n + 1, Len(p)))

\* Drop a "/" piece that another piece follows: a doubled slash.
RefCollapse(ps) ==
  LET keep == {k \in 1..Len(ps) : ~(ps[k] = <<Slash>> /\ k < Len(ps))}
  IN  [j \in 1..Cardinality(keep) |->
         ps[CHOOSE k \in keep : Cardinality({m \in keep : m <= k}) = j]]

\* "/." goes, "/.." removes itself and the piece before it.
RefDots(ps) ==
  LET Step(stack, pc) ==
        CASE pc = <<Slash, Dot>>      -> stack
          [] pc = <<Slash, Dot, Dot>> -> IF stack = <<>> THEN stack ELSE Front(stack)
          [] OTHER                    -> Append(stack, pc)
  IN  FoldLeft(Step, <<>>, ps)

\* The canonical requri the specification describes for a decoded target.
RefCanonical(d) ==
  LET p == FirstOf(d, {Quest, Hash})
  IN  FlattenSeq(RefDots(RefCollapse(Pieces(SubSeq(d, 1, p - 1)))))
        \o SubSeq(d, p, Len(d))

(***************************************************************************)
(* Well-formed UTF-8 (RFC 3629), from the specification: each character   *)
(* is a lead byte and the continuation bytes it announces, encodes its    *)
(* code point in the fewest bytes, is not a surrogate, and is at most     *)
(* 0x10FFFF.                                                               *)
(***************************************************************************)
CodePoint(e) ==
  LET n == Len(e)
  IN  (e[1] % (2 ^ (7 - n))) * (64 ^ (n - 1))
        + FoldLeft(LAMBDA acc, k : acc * 64 + (e[k] % 64), 0, [k \in 1..(n - 1) |-> k + 1])

WellFormedChar(e) ==
  \/ Len(e) = 1 /\ e[1] < 128
  \/ /\ Len(e) \in 2..4
     /\ e[1] \in CASE Len(e) = 2 -> 192..223 [] Len(e) = 3 -> 224..239
                   [] OTHER -> 240..247
     /\ \A k \in 2..Len(e) : e[k] \in 128..191
     /\ CodePoint(e) >= CASE Len(e) = 2 -> 128 [] Len(e) = 3 -> 2048
                          [] OTHER -> 65536
     /\ CodePoint(e) \notin 55296..57343
     /\ CodePoint(e) <= 1114111

RECURSIVE WellFormedUtf8(_)
WellFormedUtf8(s) ==
  \/ s = <<>>
  \/ \E n \in 1..4 : /\ n <= Len(s)
                     /\ WellFormedChar(SubSeq(s, 1, n))
                     /\ WellFormedUtf8(SubSeq(s, n + 1, Len(s)))

-----------------------------------------------------------------------------
TypeOK ==
  /\ target \in Seq(1..255)
  /\ u \in [ok : BOOLEAN, requri : Seq(1..255), path : Seq(1..255),
            query : Seq(1..255), fragment : Seq(1..255)]

(***************************************************************************)
(* The index juggling of the second and third passes of url_canonify_uri  *)
(* (one buffer, a read and a write cursor, a backtracking write cursor)   *)
(* computes what the specification describes: slashes collapsed and dot   *)
(* segments removed in the path, query and fragment untouched, and the    *)
(* path field is the canonical text before the first '?' or '#'.          *)
(***************************************************************************)
CanonMatchesReference ==
  u.ok => /\ u.requri = RefCanonical(Decode(target).out)
          /\ u.path = SubSeq(u.requri, 1, FirstOf(u.requri, {Quest, Hash}) - 1)

(***************************************************************************)
(* Canonicalisation is idempotent: parsing the canonical requri again     *)
(* succeeds and yields the same requri, path, query and fragment (a        *)
(* decoded "%2E" must not leave a dot segment behind).                     *)
(***************************************************************************)
CanonIdempotent == u.ok => Requri(u.requri) = u
=============================================================================
