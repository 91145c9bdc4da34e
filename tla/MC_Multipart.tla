---------------------------- MODULE MC_Multipart ----------------------------
(***************************************************************************)
(* Bodies for Multipart: an optional preamble, the opening delimiter, one *)
(* entry's header lines, its content, then a close delimiter, a second    *)
(* entry or nothing, and an optional epilogue.  Bytes: x data, Q a header *)
(* line the parser does not know.                                         *)
(***************************************************************************)
EXTENDS Multipart

X == 120
Q == 81

Open == DashBoundaryCrlf
Delim == CrlfDashBoundary
Line(h) == <<h>> \o Crlf

Preambles == {<<>>, <<X>>}
HeaderBlocks == {Crlf, Line(D) \o Crlf, Line(D) \o Line(T) \o Crlf, Line(Q) \o Crlf}
Contents == {<<>>, <<X>>, <<CR, LF, Dash>>}
Tails == {<<>>,                                     \* body cut short
          DashCrlf,                                 \* close delimiter
          DashCrlf \o Crlf \o <<X>>,                \* close, then an epilogue
          DashCrlf \o Crlf \o Crlf \o <<X>>,        \* an epilogue with a blank line
          Crlf \o Line(D) \o Crlf \o <<X>> \o Delim \o DashCrlf, \* a second entry
          <<X>>}                                    \* junk after the delimiter

MCBodies == {pre \o Open \o h \o c \o Delim \o t :
               pre \in Preambles, h \in HeaderBlocks, c \in Contents, t \in Tails}
=============================================================================
