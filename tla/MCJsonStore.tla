---------------------------- MODULE MCJsonStore ----------------------------
(* Instances of JsonStore for TLC: entries are numbered in rank order.      *)
EXTENDS JsonStore

Numbered(i) == i

\* Two requests of the HTTP server import memories, the MCP server's loop
\* makes one call at a time.
Server == {"import1", "import2"}

HomeOf == [t \in Threads |-> IF t \in Server THEN "server" ELSE "mcp"]
=============================================================================
