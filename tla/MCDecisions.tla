---------------------------- MODULE MCDecisions ----------------------------
(* Small instances of Decisions for TLC.                                   *)
EXTENDS Decisions, TLC

Policy(rank) == [kind |-> "other", authority |-> rank, trust |-> "trusted",
                 max_age |-> 0, durable |-> TRUE]
EqualSources == [s \in Source |-> Policy(0)]
MeetsOnlyA == [c \in Content |-> IF c = "a" THEN "Compatible" ELSE "Incompatible"]

\* One decision is kept, and two records.
OneDecision ==
    {[max_devices |-> 1, max_incarnations |-> 1, max_streams |-> 2, max_records |-> 2,
      max_per_stream |-> 2, max_tombstones |-> 2, max_conflicts |-> 1, max_resolutions |-> 1,
      max_ledger |-> 2, max_sources |-> 2, max_decisions |-> 1]}
NoUpserts == {}

\* Sources of equal rank are interchangeable.
Interchangeable == Permutations(Source)
============================================================================
