----------------------------- MODULE MCToolsRefresh -----------------------------
(***************************************************************************)
(* An instance of ToolsRefresh for TLC.                                    *)
(***************************************************************************)
EXTENDS ToolsRefresh, MCUrlGuard

McpTransports == {"streamable_http", "sse"}

Server(post, get) == [t \in McpTransports |-> IF t = "sse" THEN get ELSE post]

(* Nobody there; live in one transport, the other refused; live in one,    *)
(* the other left hanging; no MCP server, with a redirect the guard turns  *)
(* away.  Changes between them and what the card names do the rest.        *)
McpServers == {
    Server("network", "network"),
    Server("speaks", "protocol"),
    Server("timeout", "speaks"),
    Server("protocol", "guard")}
=============================================================================
