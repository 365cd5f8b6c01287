------------------------------ MODULE MCCache ------------------------------
(* Values for the constants of CacheHierarchy. *)
EXTENDS CacheProperties

Prefetcher(c, l) == [cache |-> c, fill_level |-> l]
PerCache(i, d, l2, llc) == [c \in Caches |-> CASE c = "L1I" -> i [] c = "L1D" -> d
                                               [] c = "L2C" -> l2 [] c = "LLC" -> llc]
MCOne      == PerCache(1, 1, 1, 1)
MCWays     == PerCache(1, 1, 1, 2)
MCRq       == PerCache(1, 2, 3, 2)
MCMshr     == PerCache(1, 2, 2, 2)
MCCode     == {1}
MCData     == {2, 3}
MCNone     == {}
MCShared   == {1}
MCNextLine == {Prefetcher("L1D", 1)}
MCWord     == {1}
MCPrefetchers == {Prefetcher("L1D", 1), Prefetcher("L2C", 4)}
MCAllPrefetchers == MCPrefetchers \cup {Prefetcher("L1I", 1), Prefetcher("L2C", 2), Prefetcher("LLC", 4)}
=============================================================================
