--------------------------- MODULE MCSourceRules ---------------------------
(* TLC instances of SourceRules: what a first start may find, with GPU     *)
(* Optimized on.                                                           *)
EXTENDS SourceRules

(* Rules that differ by source.                                            *)
SavedRules ==
  {[enabled |-> TRUE,
    ac |-> [f \in Fields |-> "high"],
    battery |-> [f \in Fields |-> "low"],
    optimized |-> TRUE]}

(* No rules yet.                                                           *)
OptimizedOnly ==
  {[enabled |-> FALSE, ac |-> NoRule, battery |-> NoRule, optimized |-> TRUE]}
=============================================================================
