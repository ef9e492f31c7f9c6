--------------------------- MODULE MCPamSessions ---------------------------
(* Small instances of PamSessions for TLC.                                 *)
EXTENDS PamSessions

CONSTANTS alice, xdgA, homeA, disk

XdgPaths == [u \in Users |-> xdgA]
HomePaths == [u \in Users |-> homeA]
NoConfigs == {}
Apart == {}
============================================================================
