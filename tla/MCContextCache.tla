--------------------------- MODULE MCContextCache ---------------------------
(* An instance of ContextCache: six inputs, three of which share a hash.   *)
EXTENDS ContextCache

MCThreads  == {"t1", "t2"}
MCInputs   == {"a", "b", "c", "d", "bad", "slow"}
MCKeys     == {"k1", "k2", "k3", "k4"}
MCcache_key == [i \in MCInputs |->
    CASE i \in {"a", "b", "bad"} -> "k1" [] i = "c" -> "k2" [] i = "d" -> "k3" [] OTHER -> "k4"]
=============================================================================
