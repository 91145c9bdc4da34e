------------------------------- MODULE Router -------------------------------
(***************************************************************************)
(* ccl2::Router (src/src/http/router.cpp) behind one HttpServer session   *)
(* (src/src/http/session.cpp): set_prefix, add_route and serve_static     *)
(* during start-up, then request after request read by the session,      *)
(* answered by static_file_handler when its target is under a served     *)
(* directory and by handle_request otherwise, and written back.          *)
(*                                                                         *)
(* Route templates, targets and parameters are byte sequences, as in      *)
(* UrlRequri.  A compiled route regex is a sequence whose elements are    *)
(* literal bytes and the token Group, which stands for "(\S+)".  The      *)
(* handler is abstract: the model records which route's handler was      *)
(* invoked and the parameter map it received.                             *)
(***************************************************************************)
EXTENDS Integers, Sequences, FiniteSets
LOCAL INSTANCE SequencesExt

CONSTANTS Verbs,      \* request methods (beast::http::verb), Unknown included
          Unknown,    \* verb::unknown: a route registered for every method
          Templates,  \* the route templates start-up code may register
          PrefixChoices,   \* the prefixes it may set
          Tokens,     \* pieces of request-targets (byte sequences)
          MaxLen,     \* the longest request-target, in bytes
          MaxRoutes,  \* bound on the number of add_route calls
          MountChoices,    \* the paths start-up may pass to serve_static
          DocRoots    \* the doc_root directories it may pass with them

ASSUME Unknown \in Verbs

VARIABLES prefix,   \* Router::prefix_
          routes,   \* Router::api_routes_: <<[method, keys, re, path]>>
          serving,  \* do_launch has run: registration is over
          req,      \* the request being answered (as parsed), or NoReq
          resp,     \* the response the session produced, or NoResp
          statics,  \* HttpServer::Impl::static_file_routes_: path -> doc_root
          conn      \* the connection do_session serves: "none" before the
                    \* first accept, "open", or how do_session ended

vars == <<prefix, routes, serving, req, resp, statics, conn>>

LOCAL Url == INSTANCE UrlRequri WITH Tokens <- {}, MaxLen <- 0,
                                     target <- <<>>, u <- <<>>

Slash == 47   Colon == 58   Dot == 46   Amp == 38   Eq == 61
Group == -1                      \* "(\S+)" in a compiled regex
NoReq == [none |-> TRUE]
NoResp == [status |-> "none"]

\* Router::not_found and Router::bad_request: the response's status (the
\* body text, headers and keep-alive flag are not modelled).
NotFound == [status |-> "not_found"]
BadRequest == [status |-> "bad_request"]

\* The first index >= from at which s holds a byte of set, or Len(s) + 1
\* (std::string::npos).
FindFrom(s, set, from) ==
  LET hits == {i \in from..Len(s) : s[i] \in set}
  IN  IF hits = {} THEN Len(s) + 1 ELSE CHOOSE i \in hits : \A j \in hits : i <= j

\* Mutant: the empty-key check dropped.
PathParseNoEmptyCheck(t) ==
  LET RECURSIVE Loop(_, _, _)
      Loop(re, keys, start) ==
        LET c == FindFrom(re, {Colon}, start)
            e == LET n == FindFrom(re, {Colon}, c + 1)
                     s == FindFrom(re, {Slash}, c)
                 IN  IF n < s THEN n ELSE s
            key == SubSeq(re, c + 1, e - 1)
        IN  IF c > Len(re) THEN [ok |-> TRUE, re |-> re, keys |-> keys]
            ELSE Loop(SubSeq(re, 1, c - 1) \o <<Group>> \o SubSeq(re, e, Len(re)),
                      Append(keys, key), c)
  IN  Loop(t, <<>>, 1)

(***************************************************************************)
(* http_router_path_parse: each ':' starts a key that ends at the next    *)
(* '/' or ':'; the key is replaced by "(\S+)" in the regex and appended   *)
(* to keys; an empty key throws (ok = FALSE).                             *)
(***************************************************************************)
PathParse(t) ==
  LET RECURSIVE Loop(_, _, _)
      Loop(re, keys, start) ==
        LET c == FindFrom(re, {Colon}, start)
            e == LET n == FindFrom(re, {Colon}, c + 1)
                     s == FindFrom(re, {Slash}, c)
                 IN  IF n < s THEN n ELSE s
            key == SubSeq(re, c + 1, e - 1)
        IN  IF c > Len(re) THEN [ok |-> TRUE, re |-> re, keys |-> keys]
            ELSE IF key = <<>> THEN [ok |-> FALSE, re |-> re, keys |-> keys]
            ELSE Loop(SubSeq(re, 1, c - 1) \o <<Group>> \o SubSeq(re, e, Len(re)),
                      Append(keys, key), c)
  IN  Loop(t, <<>>, 1)

\* Mutant: the key pattern "([^/]+)" (one path segment) instead of "(\S+)".
RECURSIVE RegexMatchSegment(_, _)
RegexMatchSegment(re, p) ==
  IF re = <<>> THEN [ok |-> p = <<>>, caps |-> <<>>]
  ELSE IF re[1] = Group THEN
    LET RECURSIVE Try(_)
        Try(n) == IF n = 0 THEN [ok |-> FALSE, caps |-> <<>>]
                  ELSE LET r == RegexMatchSegment(Tail(re), SubSeq(p, n + 1, Len(p)))
                       IN  IF r.ok /\ \A i \in 1..n : p[i] # Slash
                           THEN [ok |-> TRUE, caps |-> <<SubSeq(p, 1, n)>> \o r.caps]
                           ELSE Try(n - 1)
    IN  Try(Len(p))
  ELSE IF p # <<>> /\ (re[1] = p[1] \/ re[1] = Dot)
       THEN RegexMatchSegment(Tail(re), Tail(p))
  ELSE [ok |-> FALSE, caps |-> <<>>]

(***************************************************************************)
(* std::regex_match of "^" re "$" (ECMAScript): a literal byte matches    *)
(* itself, '.' matches any byte, "(\S+)" one or more bytes (paths hold no *)
(* whitespace), tried longest first; the captures are those of the first  *)
(* full match found by that backtracking order.                           *)
(***************************************************************************)
RECURSIVE RegexMatch(_, _)
RegexMatch(re, p) ==
  IF re = <<>> THEN [ok |-> p = <<>>, caps |-> <<>>]
  ELSE IF re[1] = Group THEN
    LET RECURSIVE Try(_)
        Try(n) == IF n = 0 THEN [ok |-> FALSE, caps |-> <<>>]
                  ELSE LET r == RegexMatch(Tail(re), SubSeq(p, n + 1, Len(p)))
                       IN  IF r.ok THEN [ok |-> TRUE,
                                         caps |-> <<SubSeq(p, 1, n)>> \o r.caps]
                           ELSE Try(n - 1)
    IN  Try(Len(p))
  ELSE IF p # <<>> /\ (re[1] = p[1] \/ re[1] = Dot) THEN RegexMatch(Tail(re), Tail(p))
  ELSE [ok |-> FALSE, caps |-> <<>>]

\* Mutant: insert_or_assign instead of emplace (a later value wins).
EmplaceOverwrite(m, k, v) == [x \in DOMAIN m \cup {k} |-> IF x = k THEN v ELSE m[x]]

\* std::map::emplace: a key already present keeps its value.
Emplace(m, k, v) == [x \in DOMAIN m \cup {k} |-> IF x \in DOMAIN m THEN m[x] ELSE v]

\* http_router_path_apply_rule: on a match, emplace key i -> capture i.
ApplyRule(path, r, params) ==
  LET m == RegexMatch(r.re, path)
      RECURSIVE Put(_, _)
      Put(ps, i) == IF i > Len(r.keys) THEN ps
                    ELSE Put(Emplace(ps, r.keys[i], m.caps[i]), i + 1)
  IN  [ok |-> m.ok, params |-> IF m.ok THEN Put(params, 1) ELSE params]

(***************************************************************************)
(* http_router_query_parse: '&'-separated pairs; a pair whose '=' is      *)
(* missing or last fails the whole parse, but the pairs before it have    *)
(* already been emplaced into the map.                                    *)
(***************************************************************************)
QueryParse(q, params) ==
  LET RECURSIVE Loop(_, _)
      Loop(s, ps) ==
        IF s = <<>> THEN [ok |-> TRUE, params |-> ps]
        ELSE LET len == FindFrom(s, {Amp}, 1) - 1
                 j   == FindFrom(SubSeq(s, 1, len), {Eq}, 1) - 1
             IN  IF j + 1 >= len THEN [ok |-> FALSE, params |-> ps]
                 ELSE Loop(SubSeq(s, len + 2, Len(s)),
                           Emplace(ps, SubSeq(s, 1, j), SubSeq(s, j + 2, len)))
  IN  Loop(q, params)

(***************************************************************************)
(* Router::handle_request: parse the target, check the prefix, try the    *)
(* routes in order (skipping those of another method), and on the first  *)
(* match check the query and invoke the handler.  Note the query test:   *)
(* the code answers bad_request when the query is non-empty and parses.  *)
(***************************************************************************)
HandleResult(m, t) ==
  LET u == Url!Requri(t)
      path == SubSeq(u.path, Len(prefix) + 1, Len(u.path))
      Tries(i) == routes[i].method \in {Unknown, m}
      hits == {i \in 1..Len(routes) : Tries(i) /\ ApplyRule(path, routes[i], <<>>).ok}
      first == CHOOSE i \in hits : \A j \in hits : i <= j
      pp == ApplyRule(path, routes[first], [k \in {} |-> <<>>]).params
      qp == QueryParse(u.query, pp)
  IN  IF ~u.ok THEN BadRequest
      ELSE IF ~IsPrefix(prefix, u.path) \/ hits = {} THEN NotFound
      ELSE IF u.query # <<>> /\ qp.ok THEN BadRequest
      ELSE [status |-> "handler", route |-> first,
            params |-> IF u.query = <<>> THEN pp ELSE qp.params]

(***************************************************************************)
(* The session's choice of a static route: the first entry of the         *)
(* std::map, in key order, whose path followed by '/' ("/" alone for the  *)
(* root) begins the raw request-target.                                   *)
(***************************************************************************)
RECURSIVE SeqLess(_, _)
SeqLess(a, b) == \/ a = <<>> /\ b # <<>>
                 \/ a # <<>> /\ b # <<>> /\ (a[1] < b[1] \/ (a[1] = b[1] /\ SeqLess(Tail(a), Tail(b))))

MountPrefix(m) == IF m = <<Slash>> THEN m ELSE m \o <<Slash>>

Claims(t) == {m \in DOMAIN statics : IsPrefix(MountPrefix(m), t)}

FirstMount(t) == CHOOSE m \in Claims(t) : \A o \in Claims(t) : o = m \/ SeqLess(m, o)

Index == -2                      \* "index.html"

\* Mutant: static_file_handler without the ".." test.
StaticFileNoDotCheck(m, t) ==
  LET path == SubSeq(t, Len(m) + 1, Len(t))
  IN  IF path # <<>> /\ path[1] # Slash THEN BadRequest
      ELSE [status |-> "open", root |-> statics[m],
            rel |-> IF path # <<>> /\ path[Len(path)] = Slash THEN path \o <<Index>> ELSE path]

(***************************************************************************)
(* static_file_handler(req, requri.substr(mount.size()), doc_root): a     *)
(* path that does not start with '/' or holds ".." is a bad request;      *)
(* otherwise path_cat(doc_root, path), with index.html for a directory,   *)
(* is opened and sent ("open": whether the file exists is the file        *)
(* system's answer, not modelled).                                        *)
(***************************************************************************)
StaticFile(m, t) ==
  LET path == SubSeq(t, Len(m) + 1, Len(t))
      dotdot == \E i \in 1..Len(path) - 1 : path[i] = Dot /\ path[i + 1] = Dot
  IN  IF path # <<>> /\ (path[1] # Slash \/ dotdot) THEN BadRequest
      ELSE [status |-> "open", root |-> statics[m],
            rel |-> IF path # <<>> /\ path[Len(path)] = Slash THEN path \o <<Index>> ELSE path]

(***************************************************************************)
(* body.open(path) in static_file_handler: the file system answers that  *)
(* the file is there (200, for GET and HEAD alike), that there is no such *)
(* file (not_found) or another error (server_error).                      *)
(***************************************************************************)
FileOpened(r) == IF r.status # "open" THEN {r}
                 ELSE {[status |-> "open", root |-> r.root, rel |-> r.rel, answer |-> a] :
                         a \in {"ok", "not_found", "server_error"}}

\* The errors a read or write of the stream may end with, and those
\* do_session ignores (errc_to_ignored).
StreamErrors == {"end_of_stream", "connection_reset", "timed_out", "other"}
Ignored == {"connection_reset", "timed_out"}

-----------------------------------------------------------------------------
Init == /\ prefix = <<>>
        /\ routes = <<>>
        /\ serving = FALSE
        /\ req = NoReq
        /\ resp = NoResp
        /\ statics = [m \in {} |-> <<>>]
        /\ conn = "none"

\* Router::set_prefix, before serving starts.
SetPrefix(p) == /\ ~serving
                /\ prefix' = p
                /\ UNCHANGED <<routes, serving, req, resp, statics, conn>>

\* Router::add_route: compile the template; an empty key throws and the
\* route is not appended.
AddRoute(m, t) ==
  LET r == PathParse(t)
  IN  /\ ~serving
      /\ Len(routes) < MaxRoutes
      /\ routes' = IF r.ok THEN Append(routes, [method |-> m, keys |-> r.keys,
                                                re |-> r.re, path |-> t])
                   ELSE routes
      /\ UNCHANGED <<prefix, serving, req, resp, statics, conn>>

\* HttpServer::serve_static: static_file_routes_.emplace(path, doc_root).
ServeStatic(m, r) == /\ ~serving
                     /\ statics' = Emplace(statics, m, r)
                     /\ UNCHANGED <<prefix, routes, serving, req, resp, conn>>

\* HttpServer::do_launch: the listener starts accepting connections.
Launch == /\ ~serving
          /\ serving' = TRUE
          /\ UNCHANGED <<prefix, routes, req, resp, statics, conn>>

\* do_listen: async_accept hands a new connection to do_session; the
\* previous one has ended (one connection is modelled at a time).
Accept == /\ serving /\ conn # "open"
          /\ conn' = "open"
          /\ UNCHANGED <<prefix, routes, serving, req, resp, statics>>

(***************************************************************************)
(* The session reads a request (async_read_header, then async_read),     *)
(* answers it from the first static route that claims its  *)
(* target, or else awaits router_.handle_request on it.  handle_request   *)
(* does not suspend before it invokes the handler, and touches no Router  *)
(* state afterwards, so the whole call is one step.  req keeps the        *)
(* method, the raw target and what url_parse_requri made of the target:  *)
(* ok, path and query.                                                    *)
(***************************************************************************)
HandleRequest(m, t) ==
  LET u == Url!Requri(t)
  IN  /\ serving /\ conn = "open" /\ req = NoReq
      /\ req' = [method |-> m, target |-> t, ok |-> u.ok, path |-> u.path, query |-> u.query]
      /\ resp' \in FileOpened(IF Claims(t) # {} THEN StaticFile(FirstMount(t), t)
                                ELSE HandleResult(m, t))
      /\ UNCHANGED <<prefix, routes, serving, statics, conn>>

\* req_is_a_upload: a POST with a multipart/form-data header.  The branch is
\* a TODO: nothing is read, answered or written, and the loop reads the
\* next header, so the step changes nothing the model records.
ReadUpload == /\ serving /\ conn = "open" /\ req = NoReq
              /\ UNCHANGED vars

(***************************************************************************)
(* async_write of the response, whose keep-alive k is the request's     *)
(* (Router's responses and static_file_handler's copy it) or what the    *)
(* handler set.  The client chooses the request's flag and nothing else *)
(* reads it, so it is chosen here.  Without keep-alive the loop breaks    *)
(* and the socket is shut down; with it the session reads the next one.  *)
(***************************************************************************)
Respond(k) == /\ resp # NoResp /\ conn = "open"
              /\ req' = NoReq
              /\ resp' = NoResp
              /\ conn' = IF k THEN "open" ELSE "shutdown"
              /\ UNCHANGED <<prefix, routes, serving, statics>>

(***************************************************************************)
(* A read or the write fails: the timer set by expires_after fires, the   *)
(* peer resets or closes, or beast rejects the bytes.  do_session returns *)
(* at once on an ignored error, shuts the socket down on end_of_stream,   *)
(* and rethrows anything else to do_listen's completion handler, which    *)
(* logs it.                                                               *)
(***************************************************************************)
StreamError(e) ==
  /\ serving /\ conn = "open" /\ (req = NoReq \/ resp # NoResp)
  /\ conn' = IF e \in Ignored THEN "returned"
             ELSE IF e = "end_of_stream" THEN "shutdown" ELSE "thrown"
  /\ req' = NoReq /\ resp' = NoResp
  /\ UNCHANGED <<prefix, routes, serving, statics>>

(***************************************************************************)
(* The targets a client may send: concatenations of tokens of at most    *)
(* MaxLen bytes.                                                           *)
(***************************************************************************)
Requests ==
  LET RECURSIVE Build(_)
      Build(n) == IF n = 0 THEN {<<>>}
                  ELSE LET b == Build(n - 1)
                       IN  b \cup {x \in {s \o t : s \in b, t \in Tokens} :
                                     Len(x) <= MaxLen}
  IN  Build(MaxLen)

Next == \/ \E p \in PrefixChoices : SetPrefix(p)
        \/ \E m \in Verbs, t \in Templates : AddRoute(m, t)
        \/ \E m \in MountChoices, r \in DocRoots : ServeStatic(m, r)
        \/ Launch
        \/ Accept
        \/ \E m \in Verbs \ {Unknown}, t \in Requests : HandleRequest(m, t)
        \/ ReadUpload
        \/ \E k \in BOOLEAN : Respond(k)
        \/ \E e \in StreamErrors : StreamError(e)

Spec == Init /\ [][Next]_vars

-----------------------------------------------------------------------------
(***************************************************************************)
(* Reference semantics from the specification: a template matches a path *)
(* when the path is the template with every ":name" segment (the name     *)
(* running to the next '/' or ':') replaced by a non-empty string; the    *)
(* route that handles a request is the first registered one that accepts *)
(* its method and matches.                                                *)
(***************************************************************************)
RECURSIVE RefMatch(_, _)
RefMatch(t, p) ==
  IF t = <<>> THEN p = <<>>
  ELSE IF t[1] = Colon THEN
    LET e == LET n == FindFrom(t, {Colon}, 2)
                 s == FindFrom(t, {Slash}, 2)
             IN  IF n < s THEN n ELSE s
    IN  \E n \in 1..Len(p) : RefMatch(SubSeq(t, e, Len(t)), SubSeq(p, n + 1, Len(p)))
  ELSE p # <<>> /\ t[1] = p[1] /\ RefMatch(Tail(t), Tail(p))

\* The path handle_request matches: the canonical path without the prefix.
Stripped(r) == SubSeq(r.path, Len(prefix) + 1, Len(r.path))

Accepts(i, r) == /\ routes[i].method \in {Unknown, r.method}
                 /\ RefMatch(routes[i].path, Stripped(r))

\* The template with each key replaced by its value in params.
RECURSIVE Fill(_, _)
Fill(t, params) ==
  IF t = <<>> THEN <<>>
  ELSE IF t[1] = Colon THEN
    LET e == LET n == FindFrom(t, {Colon}, 2)
                 s == FindFrom(t, {Slash}, 2)
             IN  IF n < s THEN n ELSE s
        key == SubSeq(t, 2, e - 1)
    IN  (IF key \in DOMAIN params THEN params[key] ELSE <<>>)
          \o Fill(SubSeq(t, e, Len(t)), params)
  ELSE <<t[1]>> \o Fill(Tail(t), params)

\* Keys of a template, each occurring once.
DistinctKeys(t) == LET ks == PathParse(t).keys
                   IN  \A a, b \in 1..Len(ks) : ks[a] = ks[b] => a = b

-----------------------------------------------------------------------------
TypeOK ==
  /\ prefix \in PrefixChoices \cup {<<>>}
  /\ routes \in Seq([method : Verbs, keys : Seq(Seq(Int) \ {<<>>}), re : Seq(Int),
                     path : Templates])
  /\ Len(routes) <= MaxRoutes
  /\ serving \in BOOLEAN
  /\ req = NoReq \/ req \in [method : Verbs \ {Unknown}, target : Seq(1..255),
                             ok : BOOLEAN, path : Seq(1..255), query : Seq(1..255)]
  /\ resp.status \in {"none", "bad_request", "not_found", "handler", "open"}
  /\ resp.status = "open" => resp.answer \in {"ok", "not_found", "server_error"}
  /\ conn \in {"none", "open", "shutdown", "returned", "thrown"}
  /\ req # NoReq => conn = "open"
  /\ DOMAIN statics \subseteq MountChoices /\ \A m \in DOMAIN statics : statics[m] \in DocRoots

(***************************************************************************)
(* The route whose handler handle_request invokes is the first registered *)
(* route that accepts the method and whose template, as the specification *)
(* reads it, matches the canonical path minus the prefix; not_found means *)
(* the prefix is missing or no route matches.  This ties the regex built  *)
(* by http_router_path_parse and run by std::regex_match, and the order   *)
(* of the route loop, to the template semantics.                          *)
(***************************************************************************)
RouteSelection ==
  /\ resp.status = "handler" =>
        /\ Accepts(resp.route, req)
        /\ \A j \in 1..(resp.route - 1) : ~Accepts(j, req)
  /\ resp.status = "not_found" =>
        \/ ~IsPrefix(prefix, req.path)
        \/ \A j \in 1..Len(routes) : ~Accepts(j, req)

(***************************************************************************)
(* The parameters a handler receives give back the path it matched: the  *)
(* template with each key replaced by its parameter is the stripped path  *)
(* (for templates whose keys are distinct).  Query pairs that reach the  *)
(* handler never replace a path parameter of the same name.               *)
(***************************************************************************)
ParamsRebuildPath ==
  resp.status = "handler" /\ DistinctKeys(routes[resp.route].path) =>
     Fill(routes[resp.route].path, resp.params) = Stripped(req)

(***************************************************************************)
(* The specification of handle_request: once a route matches, a request  *)
(* with an empty or well-formed query (every '&'-separated pair has a    *)
(* '=' that is not its last byte) goes to the handler, and one with a    *)
(* malformed query is answered bad_request.                              *)
(***************************************************************************)
QueryWellFormed(q) == QueryParse(q, [k \in {} |-> <<>>]).ok

QueryOutcome ==
  (/\ resp.status \in {"handler", "bad_request"}
   /\ req.ok
   /\ IsPrefix(prefix, req.path)
   /\ \E j \in 1..Len(routes) : Accepts(j, req))
  => (resp.status = "handler" <=> QueryWellFormed(req.query))

(***************************************************************************)
(* handle_request as the specification describes it: the route chosen is  *)
(* the one the template semantics selects (RouteSelection) and the query  *)
(* decides between the handler and bad_request (QueryOutcome), for any    *)
(* templates an application registers, literal '.' included.             *)
(***************************************************************************)
RouterAsSpecified == RouteSelection /\ QueryOutcome


(***************************************************************************)
(* Where a relative path leads on the file system: "." and empty segments *)
(* stay, ".." goes up one directory, any other segment goes down one.     *)
(* Escapes(rel) holds when some prefix of rel climbs above the directory  *)
(* it is resolved in.                                                     *)
(***************************************************************************)
Escapes(rel) ==
  LET RECURSIVE Walk(_, _, _)
      \* d: depth so far; seg: the bytes of the segment being read
      Walk(s, d, seg) ==
        LET d2 == IF seg = <<Dot, Dot>> THEN d - 1
                  ELSE IF seg \in {<<>>, <<Dot>>} THEN d ELSE d + 1
        IN  IF s = <<>> THEN d2 < 0
            ELSE IF s[1] = Slash THEN d2 < 0 \/ Walk(Tail(s), d2, <<>>)
            ELSE Walk(Tail(s), d, Append(seg, s[1]))
  IN  Walk(rel, 0, <<>>)

(***************************************************************************)
(* NoEscape: a file the session opens for a static route lies inside that *)
(* route's doc_root.  The session hands static_file_handler the raw       *)
(* request-target minus the mount path, before any decoding or dot-      *)
(* segment removal, and path_cat joins it to doc_root as it is, so only   *)
(* the handler's own test keeps "/public/../x" inside doc_root.           *)
(***************************************************************************)
NoEscape == resp.status = "open" => ~Escapes(resp.rel)

=============================================================================
