------------------------------- MODULE MCDcm -------------------------------
(* Values for the constants of DramCacheManager: three lines, two of which *)
(* (1 and 3) share an index.                                               *)
EXTENDS DcmProperties

MCAddr     == {1, 2, 3}
MCPair     == {1, 3}
MCPolicies == {"baseline", "bear", "oracle"}
MCBaseline == {"baseline"}
MCOff      == {FALSE}
MCOn       == {TRUE}
MCOne      == {1}
MCBoth     == {1, 2}
=============================================================================
