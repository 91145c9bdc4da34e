------------------------------ MODULE UrlParse ------------------------------
(***************************************************************************)
(* url_parse (src/src/url.cpp): the scheme, the "unix" short cut, the      *)
(* [user@]host scan, the wildcard host, the request-target (delegated to  *)
(* url_parse_requri, modelled in UrlRequri), the IPv6 bracket, the port   *)
(* (std::stoi) and the default-port table.                                *)
(*                                                                         *)
(* Bytes and NUL-terminated reads are as in UrlRequri.  The C pointer s   *)
(* moving through the string after "://" is an offset st into it, and the *)
(* loop counter len is kept 0-based as in the code, so s[len] is the byte *)
(* At(r, st + len + 1).  A read past the terminator is undefined          *)
(* behaviour: the model does not guess the byte, it marks the call ub.    *)
(***************************************************************************)
EXTENDS Integers, Sequences, FiniteSets

CONSTANTS Schemes,    \* beginnings of URLs (a scheme and what follows it)
          Tokens,     \* pieces appended to them
          MaxTokens,  \* how many pieces at most
          Indeterminate  \* url_t::port before anything assigns it

VARIABLES raw,   \* the argument of the last call of url_parse
          ntok,  \* how many tokens raw has after its beginning
          out    \* the url_t it filled in, ok = the return value

vars == <<raw, ntok, out>>

LOCAL Req == INSTANCE UrlRequri WITH Tokens <- {}, MaxLen <- 0,
                                     target <- <<>>, u <- <<>>

At(s, i) == Req!At(s, i)
FirstOf(s, set) == Req!FirstOf(s, set)
\* The bytes m..n of s that exist: strncmp stops at the terminator.
Part(s, m, n) == SubSeq(s, m, IF n <= Len(s) THEN n ELSE Len(s))

Colon == 58   Slash == 47   Quest == 63   Hash == 35   AtSign == 64
LBrack == 91  RBrack == 93  Star == 42    Plus == 43   Minus == 45

Unix == <<117, 110, 105, 120>>
nport == -1                      \* url_t::nport
IntMax == 2147483647             \* INT_MAX of the 32-bit int stoi returns

\* url_default_port: kDefaultPorts, keyed by the scheme's bytes.
PortTable ==
  { <<<<103, 105, 116>>, 9418>>,                   \* git
    <<<<103, 111, 112, 104, 101, 114>>, 70>>,      \* gopher
    <<<<104, 116, 116, 112>>, 80>>,                \* http
    <<<<104, 116, 116, 112, 115>>, 443>>,          \* https
    <<<<115, 115, 104>>, 22>>,                     \* ssh
    <<<<116, 101, 108, 110, 101, 116>>, 23>>,      \* telnet
    <<<<119, 115>>, 80>>,                          \* ws
    <<<<119, 115, 115>>, 443>> }                   \* wss

UrlDefaultPort(scheme) ==
  IF \E e \in PortTable : e[1] = scheme
  THEN (CHOOSE e \in PortTable : e[1] = scheme)[2]
  ELSE nport

(***************************************************************************)
(* std::stoi (strtol base 10): leading white space, an optional sign, at  *)
(* least one digit, then it stops at the first non-digit; no digit throws *)
(* invalid_argument, a magnitude beyond INT_MAX throws out_of_range.       *)
(***************************************************************************)
IsDigit(c) == c \in 48..57
Stoi(s) ==
  LET RECURSIVE Ws(_)
      Ws(i) == IF At(s, i) \in (9..13) \cup {32} THEN Ws(i + 1) ELSE i
      i0 == Ws(1)
      i1 == IF At(s, i0) \in {Plus, Minus} THEN i0 + 1 ELSE i0
      RECURSIVE Digits(_, _, _)
      Digits(i, v, ovf) ==
        IF ~IsDigit(At(s, i)) THEN [end |-> i, v |-> v, ovf |-> ovf]
        ELSE IF ovf \/ v > (IntMax - (At(s, i) - 48)) \div 10
             THEN Digits(i + 1, 0, TRUE)
             ELSE Digits(i + 1, v * 10 + At(s, i) - 48, FALSE)
      d == Digits(i1, 0, FALSE)
  IN  IF d.end = i1 \/ d.ovf THEN [ok |-> FALSE, v |-> 0]
      ELSE [ok |-> TRUE, v |-> IF At(s, i0) = Minus THEN -d.v ELSE d.v]

(***************************************************************************)
(* The [user@]host loop on r, the text after "://".  On '@' the code sets *)
(* s past it and len = 0, and the for loop's len++ then makes len 1: the  *)
(* byte right after '@' is never examined.  When that byte is the NUL,    *)
(* the next read s[1] is past the end of the string.                      *)
(***************************************************************************)
AuthScan(r) ==
  LET RECURSIVE Loop(_, _, _)
      Loop(st, len, ui) ==
        LET c == At(r, st + len + 1)
        IN  IF st + len > Len(r) THEN [ok |-> FALSE, ub |-> TRUE, st |-> st,
                                       len |-> len, userinfo |-> ui]
            ELSE IF c \in {Slash, 0, Hash, Quest}
            THEN [ok |-> TRUE, ub |-> FALSE, st |-> st, len |-> len, userinfo |-> ui]
            ELSE IF c = AtSign /\ ui # <<>>
            THEN [ok |-> FALSE, ub |-> FALSE, st |-> st, len |-> len, userinfo |-> ui]
            ELSE IF c = AtSign
            THEN Loop(st + len + 1, 1, SubSeq(r, st + 1, st + len))
            ELSE Loop(st, len + 1, ui)
  IN  Loop(0, 0, <<>>)

\* The wildcard test as written: s[len] with len = 1, or a leading "*:".
IsWildcard(r, st, len) ==
  \/ len = 1 /\ At(r, st + len + 1) = Star
  \/ len > 1 /\ At(r, st + 1) = Star /\ At(r, st + 2) = Colon

(***************************************************************************)
(* The host split: "[...]" up to the first ']' (no ']' fails, and the     *)
(* byte after it must be ':' or NUL), else up to the first ':'.  Returns  *)
(* the hostname and the rest of the host, which starts with ':' or is     *)
(* empty.                                                                  *)
(***************************************************************************)
HostSplitNoCloseCheck(h) ==
  IF At(h, 1) = LBrack
  THEN LET t == Tail(h)
           k == FirstOf(t, {RBrack})
       IN  [ok |-> k <= Len(t), hostname |-> SubSeq(t, 1, k - 1),
            rest |-> SubSeq(t, k + 1, Len(t))]
  ELSE LET k == FirstOf(h, {Colon})
       IN  [ok |-> TRUE, hostname |-> SubSeq(h, 1, k - 1), rest |-> SubSeq(h, k, Len(h))]

HostSplit(h) ==
  IF At(h, 1) = LBrack
  THEN LET t == Tail(h)
           k == FirstOf(t, {RBrack})
       IN  [ok |-> k <= Len(t) /\ At(t, k + 1) \in {Colon, 0},
            hostname |-> SubSeq(t, 1, k - 1), rest |-> SubSeq(t, k + 1, Len(t))]
  ELSE LET k == FirstOf(h, {Colon})
       IN  [ok |-> TRUE, hostname |-> SubSeq(h, 1, k - 1), rest |-> SubSeq(h, k, Len(h))]

\* The port: an explicit ":" with nothing after it, or text stoi rejects,
\* is nport; no ':' takes the scheme's default.
PortOf(scheme, p) ==
  IF At(p, 1) = Colon
  THEN IF At(p, 2) = 0 THEN nport
       ELSE LET n == Stoi(Tail(p)) IN IF n.ok THEN n.v ELSE nport
  ELSE UrlDefaultPort(scheme)

\* Mutant: a failing call leaves the fields out.
EmptyBare == [ok |-> FALSE, ub |-> FALSE]

\* What a failing call reports (the callers ignore the fields).
Empty == [ok |-> FALSE, ub |-> FALSE, scheme |-> <<>>, userinfo |-> <<>>,
          host |-> <<>>, hostname |-> <<>>, port |-> Indeterminate,
          requri |-> <<>>, path |-> <<>>, query |-> <<>>, fragment |-> <<>>]

(***************************************************************************)
(* url_parse on a fresh url_t.  Fields a failing call may have assigned   *)
(* are not kept: the callers ignore out when it returns false.            *)
(***************************************************************************)
UrlParse(s) ==
  LET sc == FirstOf(s, {Colon})
      scheme == SubSeq(s, 1, sc - 1)
      r == SubSeq(s, sc + 3, Len(s))
      a == AuthScan(r)
      wild == IsWildcard(r, a.st, a.len)
      st == IF wild THEN a.st + 1 ELSE a.st
      len == IF wild THEN a.len - 1 ELSE a.len
      host == SubSeq(r, st + 1, st + len)
      q == Req!Requri(SubSeq(r, st + len + 1, Len(r)))
      hs == HostSplit(host)
      port == PortOf(scheme, hs.rest)
  IN  IF Part(s, sc, sc + 2) # <<Colon, Slash, Slash>> THEN Empty
      ELSE IF scheme = Unix \/ a.ub
      THEN [ok |-> ~a.ub \/ scheme = Unix, ub |-> a.ub /\ scheme # Unix,
            scheme |-> scheme, userinfo |-> <<>>, host |-> <<>>, hostname |-> <<>>,
            port |-> Indeterminate, requri |-> <<>>,
            path |-> IF scheme = Unix THEN r ELSE <<>>, query |-> <<>>, fragment |-> <<>>]
      ELSE IF ~a.ok \/ ~q.ok \/ ~hs.ok \/ port = nport THEN Empty
      ELSE [ok |-> TRUE, ub |-> FALSE, scheme |-> scheme, userinfo |-> a.userinfo,
            host |-> host, hostname |-> hs.hostname, port |-> port,
            requri |-> q.requri, path |-> q.path, query |-> q.query,
            fragment |-> q.fragment]

-----------------------------------------------------------------------------
Init == /\ raw \in Schemes
        /\ ntok = 0
        /\ out = UrlParse(raw)

\* One call url_parse(s, out).
Parse(s, n) == /\ raw' = s
               /\ ntok' = n
               /\ out' = UrlParse(s)

(***************************************************************************)
(* The caller's successive URLs: the previous one with one more token, or *)
(* a new beginning, so that every beginning followed by at most MaxTokens *)
(* tokens is parsed.                                                       *)
(***************************************************************************)
Next == \/ \E tok \in Tokens : ntok < MaxTokens /\ Parse(raw \o tok, ntok + 1)
        \/ \E b \in Schemes : Parse(b, 0)

Spec == Init /\ [][Next]_vars
-----------------------------------------------------------------------------
(***************************************************************************)
(* Reference decomposition, from the specification of parse_url: the     *)
(* authority runs from "://" to the first '/', '?' or '#'; its first '@'  *)
(* ends the userinfo and a second one fails; a host "*" or a leading "*:" *)
(* loses the '*'; "[...]" is an IPv6 hostname that a port may follow      *)
(* after "]:"; the port is decimal digits denoting 1..65535, else the     *)
(* scheme's default, and a URL without a port fails.                      *)
(***************************************************************************)
AllDigits(t) == t # <<>> /\ \A i \in 1..Len(t) : IsDigit(t[i])

Decimal(t) == LET RECURSIVE D(_)
                  D(k) == IF k = 0 THEN 0 ELSE D(k - 1) * 10 + t[k] - 48
              IN  D(Len(t))

\* Digits denoting 1..65535 (leading zeros allowed).
ValidPort(t) ==
  LET z == {k \in 0..Len(t) : \A i \in 1..k : t[i] = 48}
      sig == SubSeq(t, (CHOOSE k \in z : \A j \in z : j <= k) + 1, Len(t))
  IN  AllDigits(t) /\ Len(sig) <= 5 /\ Decimal(sig) \in 1..65535

RefParts(s) ==
  LET sc == FirstOf(s, {Colon})
      r == SubSeq(s, sc + 3, Len(s))
      ae == FirstOf(r, {Slash, Quest, Hash})
      auth == SubSeq(r, 1, ae - 1)
      a1 == FirstOf(auth, {AtSign})
      hp == IF a1 <= Len(auth) THEN SubSeq(auth, a1 + 1, Len(auth)) ELSE auth
      host == IF hp = <<Star>> THEN <<>>
              ELSE IF Len(hp) > 1 /\ hp[1] = Star /\ hp[2] = Colon THEN Tail(hp)
              ELSE hp
      t == SubSeq(host, 2, Len(host))
      k == IF At(host, 1) = LBrack THEN FirstOf(t, {RBrack}) ELSE FirstOf(host, {Colon})
      after == IF At(host, 1) = LBrack THEN SubSeq(t, k + 1, Len(t))
               ELSE SubSeq(host, k, Len(host))
  IN  [sep      |-> Part(s, sc, sc + 2) = <<Colon, Slash, Slash>>,
       scheme   |-> SubSeq(s, 1, sc - 1),
       r        |-> r,
       hasAt    |-> a1 <= Len(auth),
       dupAt    |-> FirstOf(hp, {AtSign}) <= Len(hp),
       star     |-> hp = <<Star>>,
       userinfo |-> IF a1 <= Len(auth) THEN SubSeq(auth, 1, a1 - 1) ELSE <<>>,
       host     |-> host,
       bracket  |-> At(host, 1) = LBrack,
       closed   |-> At(host, 1) # LBrack \/ (k <= Len(t) /\ At(after, 1) \in {Colon, 0}),
       hostname |-> IF At(host, 1) = LBrack THEN SubSeq(t, 1, k - 1)
                    ELSE SubSeq(host, 1, k - 1),
       explicit |-> At(after, 1) = Colon,
       portText |-> SubSeq(after, 2, Len(after)),
       requri   |-> Req!Requri(SubSeq(r, ae, Len(r)))]

\* The decomposition of parts p = RefParts(s).
RefParse(p) ==
  LET port == IF ~p.explicit THEN UrlDefaultPort(p.scheme)
              ELSE IF ValidPort(p.portText) THEN Decimal(p.portText) ELSE nport
  IN  IF ~p.sep THEN Empty
      ELSE IF p.scheme = Unix
      THEN [Empty EXCEPT !.ok = TRUE, !.scheme = p.scheme, !.path = p.r]
      ELSE IF p.dupAt \/ ~p.requri.ok \/ ~p.closed \/ port = nport THEN Empty
      ELSE [ok |-> TRUE, ub |-> FALSE, scheme |-> p.scheme, userinfo |-> p.userinfo,
            host |-> p.host, hostname |-> p.hostname, port |-> port,
            requri |-> p.requri.requri, path |-> p.requri.path,
            query |-> p.requri.query, fragment |-> p.requri.fragment]

\* Port text std::stoi takes although it is not the digits of a valid port.
LenientPort(p) == p.explicit /\ Stoi(p.portText).ok /\ ~ValidPort(p.portText)

-----------------------------------------------------------------------------
Bytes == Seq(1..255)

\* The url_t fields and the return value of the last call.
TypeOK ==
  /\ raw \in Bytes
  /\ ntok \in 0..MaxTokens
  /\ out \in [ok : BOOLEAN, ub : BOOLEAN, scheme : Bytes, userinfo : Bytes,
             host : Bytes, hostname : Bytes,
             port : Int \cup {Indeterminate},
             requri : Bytes, path : Bytes, query : Bytes, fragment : Bytes]

(***************************************************************************)
(* url_parse returns the specification's decomposition (or fails when it *)
(* fails) for every URL whose authority has no '@', is not the bare       *)
(* wildcard "*", and has no port text that std::stoi reads leniently.     *)
(* Those three cases are what AcceptedAsSpecified is about.              *)
(***************************************************************************)
DecompositionAgrees ==
  \A p \in {RefParts(raw)} :
     ~p.hasAt /\ ~p.star /\ ~LenientPort(p) => out = RefParse(p)

(***************************************************************************)
(* What the specification says of every URL url_parse accepts (other     *)
(* than unix): the scan of the authority never reads past the URL's      *)
(* terminator (url.cpp:296-311); the host holds no '/', '?', '#' or '@',  *)
(* since the authority ends at the first delimiter and a second '@'      *)
(* fails; a host that is just "*" is a wildcard and is skipped (the test *)
(* at url.cpp:315); and the port is in 1..65535 and, when the URL gives  *)
(* one, is written as decimal digits (the stoi at url.cpp:362); and the   *)
(* canonical request-target is well-formed UTF-8 (url_utf8_validate, run *)
(* by url_parse_requri on the text after the authority).                 *)
(***************************************************************************)
AcceptedAsSpecified ==
  /\ ~out.ub
  /\ out.ok /\ out.scheme # Unix => Req!WellFormedUtf8(out.requri)
  /\ out.ok /\ out.scheme # Unix =>
       /\ \A i \in 1..Len(out.host) : out.host[i] \notin {Slash, Quest, Hash, AtSign}
       /\ out.host # <<Star>>
       /\ out.port \in 1..65535
       /\ \A p \in {RefParts(raw)} : p.explicit => ValidPort(p.portText)
=============================================================================
