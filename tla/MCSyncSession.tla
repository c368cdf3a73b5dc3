--------------------------- MODULE MCSyncSession ---------------------------
(* An archive of two parts, a second archive that differs in one of them,  *)
(* and two calls at a time.                                                *)
EXTENDS SyncSession

CONSTANTS r1, r2, right, wrong

MCReq     == {r1, r2}
MCParts   == {0, 1}
MCChunks  == {right, wrong}
MCArchive == [i \in MCParts |-> right]
=============================================================================
