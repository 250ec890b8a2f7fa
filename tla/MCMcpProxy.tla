---------------------------- MODULE MCMcpProxy ----------------------------
(* Three requests, one of which may expand the result of another, against a *)
(* store of one entry: contents that compression leaves alone (plain), that *)
(* it shortens (long) and that the byte cap cannot hold (huge).  The proxy  *)
(* is started again within the 28 minutes in which no stamp recurs.         *)
EXTENDS McpProxy, TLC

CONSTANTS plain, long, huge

RequestSymmetry == Permutations(Requests)

MCSize == [c \in Content |-> CASE c = plain -> 1 [] c = long -> 3 [] c = huge -> 9]
MCCompressible == Content \ {plain}

\* Refs that a put of the first life may have been given.
MCRefs == {r \in Askable : r.stamp = 0 /\ r.seq \in 0..1}
MCOneRef == {r \in MCRefs : r.seq = 0}

\* One stamp for every life.
MCClockReads == [n \in 0..MaxRestarts |-> {n}]

\* The proxy as it is started without options in front of a server with tools;
\* and all the ways to start it.
MCUsual == {[expand |-> TRUE, tools |-> TRUE]}
MCConfigs == [expand : BOOLEAN, tools : BOOLEAN]

\* No run is cut short by the bound on puts.
ASSUME MaxPuts >= MaxCalls
=============================================================================
