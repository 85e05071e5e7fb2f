------------------------------- MODULE MCP3A -------------------------------
(* The analytics service on two metrics, of which the first may be suspended *)
(* or become obsolete.                                                       *)
EXTENDS P3A
=============================================================================
