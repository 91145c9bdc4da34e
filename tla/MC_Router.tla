----------------------------- MODULE MC_Router -----------------------------
(* Start-up choices and request-targets for the Router runs.              *)
EXTENDS Router

Get == "get"   Post == "post"   UnknownVerb == "unknown"
MCVerbs == {Get, Post, UnknownVerb}

\* "/a", "/:k", "/:k/:j", and "/:" (empty key: rejected).
MCTemplates == {<<47, 97>>, <<47, 58, 107>>, <<47, 58, 107, 47, 58, 106>>, <<47, 58>>}

\* A template with a literal '.': "/a.b", next to "/:k".
DotTemplates == {<<47, 97, 46, 98>>, <<47, 58, 107>>}

\* No prefix, or "/a".
MCPrefixes == {<<>>, <<47, 97>>}

\* Target tokens: "/a", "/b", "?k=b" (a well-formed pair), "&b" (a pair
\* without '='), "?".
MCTokens == {<<47, 97>>, <<47, 98>>, <<63, 107, 61, 98>>, <<38, 98>>}

\* For the run with a static route: "/a", "?k=b", "&b" and "/..".
StaticTokens == {<<47, 97>>, <<63, 107, 61, 98>>, <<38, 98>>, <<47, 46, 46>>}

\* serve_static("/a", root), as http_server.cpp serves "/public"; or nothing.
MCMounts == {<<47, 97>>}
NoMounts == {}
CONSTANT Root
MCRoots == {Root}
=============================================================================
