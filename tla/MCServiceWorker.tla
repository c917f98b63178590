--------------------------- MODULE MCServiceWorker ---------------------------
(***************************************************************************)
(* ServiceWorker with one page beside '/', one asset cached in advance, one *)
(* that is not, one API path, one other path and two builds. Registration,  *)
(* scope and '/' work, as they would have to for a browser to get a worker. *)
(***************************************************************************)
EXTENDS ServiceWorker, TLC

CONSTANTS t1, root, other, css, img, api, robots, v1, v2, sw1, sw2

OneTab   == {t1}
Img      == {img}
JustRoot == {root}
TwoPages == {root, other}
Css      == {css}
Api      == {api}
Robots   == {robots}
None     == {}
Precached == {root, css}

\* '/' is a page rendered from base.html, like the others.
AllAnswered == Paths
AllRegister == Pages

\* Every build has a script of its own...
ScriptPerBuild == [b \in Builds |-> IF b = 0 THEN sw1 ELSE sw2]

\* ... which keeps the name of the cache, or renames it.
NameKept    == [s \in Scripts |-> v1]
NamePerBuild == [s \in Scripts |-> IF s = sw1 THEN v1 ELSE v2]
=============================================================================
