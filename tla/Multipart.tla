------------------------------ MODULE Multipart ------------------------------
(***************************************************************************)
(* MultipartFormDataParser (src/include/ccl2/http/multipart_parser.h):    *)
(* an incremental parser of a multipart/form-data body.  Each call of     *)
(* parse(buf, n, content_callback, header_callback) appends the chunk to  *)
(* the parser's buffer and runs the state machine (0 initial boundary,    *)
(* 1 new entry, 2 headers, 3 body, 4 after a boundary) until the buffer  *)
(* is empty or the machine returns.  The boundary is "b"                 *)
(* (set_boundary("b")).                                                   *)
(*                                                                         *)
(* Bytes are integers.  Header text is abstracted to three one-byte       *)
(* lines: D stands for a line that matches re_content_disposition (it     *)
(* sets file_.name), T for a line that starts with "content-type:" (it    *)
(* sets file_.content_type), any other line is neither.  The callbacks   *)
(* are the caller's; they record what they are given and accept it.     *)
(***************************************************************************)
EXTENDS Integers, Sequences
LOCAL INSTANCE SequencesExt

CONSTANTS Bodies   \* the bodies a client may send

VARIABLES body,    \* the body being received
          sent,    \* how many of its bytes have been passed to parse
          first,   \* the size of the first chunk (0 before the first call)
          p,       \* the parser: buf_ (unconsumed bytes), state_, is_valid_,
                   \* file_, and what the callbacks have been given
          ret,     \* what the last parse call returned
          late     \* bytes were passed after the close delimiter was parsed

vars == <<body, sent, first, p, ret, late>>

CR == 13
LF == 10
Dash == 45
D == 68
T == 84

Crlf == <<CR, LF>>
DashCrlf == <<Dash, Dash, CR, LF>>
Boundary == <<98>>
DashBoundaryCrlf == <<Dash, Dash>> \o Boundary \o Crlf
CrlfDashBoundary == Crlf \o <<Dash, Dash>> \o Boundary

HeaderMaxLength == 8192          \* CPPHTTPLIB_HEADER_MAX_LENGTH

NoFile == [name |-> 0, content_type |-> 0]

\* buf_find: the offset of the first occurrence of s in b, or buf_size().
Find(b, s) ==
  IF \A i \in 0..Len(b) - Len(s) : ~IsPrefix(s, SubSeq(b, i + 1, Len(b)))
  THEN Len(b)
  ELSE CHOOSE i \in 0..Len(b) - Len(s) :
         /\ IsPrefix(s, SubSeq(b, i + 1, Len(b)))
         /\ \A j \in 0..i - 1 : ~IsPrefix(s, SubSeq(b, j + 1, Len(b)))

\* buf_start_with(s): start_with(buf_, buf_spos_, buf_epos_, s).
BufStartWith(q, s) == IsPrefix(s, q.buf)

\* buf_erase(n)
Erase(q, n) == [q EXCEPT !.buf = SubSeq(@, n + 1, Len(@))]

\* content_callback(buf_data(), n): the caller appends the bytes to the
\* entry whose headers it was last given.
Content(q, n) ==
  [q EXCEPT !.parts[Len(q.parts)].content = @ \o SubSeq(q.buf, 1, n)]

\* A step of the state machine: the parser after it, and either the value
\* parse returns (Out) or the break that goes round the while loop (Again).
Out(q, r) == [p |-> q, loop |-> FALSE, r |-> r]
Again(q) == [p |-> q, loop |-> TRUE, r |-> TRUE]

\* start_with_case_ignore(header, "content-type:")
IsContentType(line) == line = <<T>>

\* std::regex_match(header, m, re_content_disposition)
IsDisposition(line) == line = <<D>>

\* case 2, the inner loop over header lines; pos = buf_find(crlf_).
RECURSIVE Headers(_)
Headers(q) ==
  LET pos == Find(q.buf, Crlf)
      line == SubSeq(q.buf, 1, pos)
  IN  IF pos >= Len(q.buf) THEN Out(q, TRUE)          \* state_ != 3: return true
      ELSE IF pos = 0
      THEN Again([Erase(q, Len(Crlf)) EXCEPT !.state = 3,
                  !.parts = Append(@, [file |-> q.file, content |-> <<>>])])
      ELSE IF IsContentType(line)
      THEN Headers([Erase(q, pos + Len(Crlf)) EXCEPT !.file.content_type = T])
      ELSE IF IsDisposition(line)
      THEN Headers([Erase(q, pos + Len(Crlf)) EXCEPT !.file.name = D])
      ELSE Out([q EXCEPT !.valid = FALSE], FALSE)

\* case 0: skip to the first dash_boundary_crlf_ (all of the buffer if there
\* is none) and consume it.
InitialBoundary(q) ==
  LET q1 == Erase(q, Find(q.buf, DashBoundaryCrlf))
  IN  IF Len(DashBoundaryCrlf) > Len(q1.buf) THEN Out(q1, TRUE)
      ELSE IF ~BufStartWith(q1, DashBoundaryCrlf) THEN Out(q1, FALSE)
      ELSE Again([Erase(q1, Len(DashBoundaryCrlf)) EXCEPT !.state = 1])

\* case 1: clear_file_info.
NewEntry(q) == Again([q EXCEPT !.file = NoFile, !.state = 2])

\* case 2.
HeaderLines(q) ==
  IF Find(q.buf, Crlf) > HeaderMaxLength THEN Out(q, FALSE) ELSE Headers(q)

\* Body holding back only crlf_.size() bytes: the start of a delimiter cut
\* in two is passed on as content.
BodyHoldShort(q) ==
  LET pos == Find(q.buf, CrlfDashBoundary)
      len == Len(q.buf) - Len(Crlf)
  IN  IF Len(CrlfDashBoundary) > Len(q.buf) THEN Out(q, TRUE)
      ELSE IF pos < Len(q.buf)
      THEN Again([Erase(Content(q, pos), pos + Len(CrlfDashBoundary)) EXCEPT !.state = 4])
      ELSE Out(IF len > 0 THEN Erase(Content(q, len), len) ELSE q, TRUE)

\* case 3: pass the content up to the next crlf_dash_boundary_, holding back
\* as many bytes as a delimiter has while none is in the buffer.
Body(q) ==
  LET pos == Find(q.buf, CrlfDashBoundary)
      len == Len(q.buf) - Len(CrlfDashBoundary)
  IN  IF Len(CrlfDashBoundary) > Len(q.buf) THEN Out(q, TRUE)
      ELSE IF pos < Len(q.buf)
      THEN Again([Erase(Content(q, pos), pos + Len(CrlfDashBoundary)) EXCEPT !.state = 4])
      ELSE Out(IF len > 0 THEN Erase(Content(q, len), len) ELSE q, TRUE)

\* Mutant: the close delimiter moves to a state 5 that the switch has no case for.
AfterBoundaryDone(q) ==
  IF Len(Crlf) > Len(q.buf) THEN Out(q, TRUE)
  ELSE IF BufStartWith(q, Crlf) THEN Again([Erase(q, Len(Crlf)) EXCEPT !.state = 1])
  ELSE IF Len(DashCrlf) > Len(q.buf) THEN Out(q, TRUE)
  ELSE IF BufStartWith(q, DashCrlf) THEN Again([q EXCEPT !.valid = TRUE, !.buf = <<>>, !.state = 5])
  ELSE Out(q, TRUE)

\* case 4: after a delimiter, crlf_ starts a new entry and dash_crlf_ closes
\* the body, the rest of the buffer (the epilogue) being dropped.
AfterBoundary(q) ==
  IF Len(Crlf) > Len(q.buf) THEN Out(q, TRUE)
  ELSE IF BufStartWith(q, Crlf) THEN Again([Erase(q, Len(Crlf)) EXCEPT !.state = 1])
  ELSE IF Len(DashCrlf) > Len(q.buf) THEN Out(q, TRUE)
  ELSE IF BufStartWith(q, DashCrlf) THEN Again([q EXCEPT !.valid = TRUE, !.buf = <<>>])
  ELSE Out(q, TRUE)

Step(q) ==
  CASE q.state = 0 -> InitialBoundary(q)
    [] q.state = 1 -> NewEntry(q)
    [] q.state = 2 -> HeaderLines(q)
    [] q.state = 3 -> Body(q)
    [] q.state = 4 -> AfterBoundary(q)

\* while (buf_size() > 0) { switch (state_) ... } return true;
RECURSIVE Run(_)
Run(q) ==
  IF q.buf = <<>> THEN Out(q, TRUE)
  ELSE LET o == Step(q) IN IF o.loop THEN Run(o.p) ELSE o

\* buf_append that does not keep the bytes left from the last call.
ParseDropsHeld(q, data) == Run([q EXCEPT !.buf = data])

\* parse(data, n, ...): buf_append, then the loop.
Parse(q, data) == Run([q EXCEPT !.buf = @ \o data])

Fresh == [buf |-> <<>>, state |-> 0, valid |-> FALSE, file |-> NoFile, parts |-> <<>>]

-----------------------------------------------------------------------------
Init == /\ body \in Bodies
        /\ sent = 0
        /\ first = 0
        /\ p = Fresh
        /\ ret = TRUE
        /\ late = FALSE

(***************************************************************************)
(* The caller passes the next n bytes of the body, as they arrived from   *)
(* the network, and stops at the first false.                             *)
(***************************************************************************)
Feed(n) == /\ ret = TRUE
           /\ sent + n <= Len(body)
           /\ LET o == Parse(p, SubSeq(body, sent + 1, sent + n))
              IN  /\ p' = o.p
                  /\ ret' = o.r
           /\ sent' = sent + n
           /\ first' = IF first = 0 THEN n ELSE first
           /\ late' = (late \/ p.valid)
           /\ UNCHANGED body

Next == \E n \in 1..Len(body) : Feed(n)

Spec == Init /\ [][Next]_vars
-----------------------------------------------------------------------------
TypeOK ==
  /\ body \in Bodies
  /\ sent \in 0..Len(body) /\ first \in 0..Len(body)
  /\ p.state \in 0..4 /\ p.valid \in BOOLEAN
  /\ ret \in BOOLEAN /\ late \in BOOLEAN

\* The same body passed to a fresh parser in one call.
Whole(b) == Parse(Fresh, b)

Outcome(q, r) == [valid |-> q.valid, parts |-> q.parts, ok |-> r]

OpenedWhole == first >= Find(body, DashBoundaryCrlf) + Len(DashBoundaryCrlf)

Done == sent = Len(body) \/ ret = FALSE

EntryPrefix(e, f) == e.file = f.file /\ IsPrefix(e.content, f.content)

(***************************************************************************)
(* parse() is called with the body as it arrives from the network, in     *)
(* pieces of any size.  ChunkingIndependence: once the caller has passed  *)
(* the whole body (or parse has returned false), the entries the          *)
(* callbacks were given, is_valid() and the last result are what one call *)
(* with the whole body gives.  Case 0 erases up to buf_find, which is all *)
(* of the buffer when the opening delimiter is cut in two, and case 4     *)
(* leaves state_ at 4 after the close delimiter, so an epilogue that      *)
(* comes in a later call is parsed as one more entry.                     *)
(***************************************************************************)
ChunkingIndependence ==
  \A w \in {Whole(body)} : Done => Outcome(p, ret) = Outcome(w.p, w.r)

(***************************************************************************)
(* DeliveredPrefix: when the first chunk holds the opening delimiter and  *)
(* nothing arrives after the close delimiter, what the header and content *)
(* callbacks have been given after any number of calls is a prefix of     *)
(* what the whole-body parse gives them: case 3 never passes on bytes     *)
(* that turn out to begin a delimiter, and a header line cut in two is    *)
(* left in the buffer (multipart_parser.h, case 2 and case 3).            *)
(***************************************************************************)
DeliveredPrefix ==
  \A w \in {Whole(body)} : OpenedWhole /\ ~late =>
     /\ Len(p.parts) <= Len(w.p.parts)
     /\ \A i \in 1..Len(p.parts) - 1 : p.parts[i] = w.p.parts[i]
     /\ p.parts # <<>> => EntryPrefix(p.parts[Len(p.parts)], w.p.parts[Len(p.parts)])

(***************************************************************************)
(* SameOutcome: under the same two conditions the parse ends as the       *)
(* whole-body parse does: the bytes each call leaves in the buffer are    *)
(* kept by buf_append for the next call.                                  *)
(***************************************************************************)
SameOutcome ==
  \A w \in {Whole(body)} : Done /\ OpenedWhole /\ ~late =>
     Outcome(p, ret) = Outcome(w.p, w.r)
=============================================================================
