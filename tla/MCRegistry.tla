----------------------------- MODULE MCRegistry -----------------------------
(***************************************************************************)
(* Small instances of Registry for TLC.                                    *)
(***************************************************************************)
EXTENDS Snapshots

Policy(rank, durable) == [kind |-> "other", authority |-> rank, trust |-> "trusted",
                          max_age |-> 0, durable |-> durable]

\* Two sources of equal rank; only the second survives a restart.
EqualSources == [s \in Source |-> Policy(0, s = "s2")]

NoUpserts == {}

\* The second source has no policy yet; callers install it as an operator source
\* that asks for too low a rank and is not trusted before it is restored.
LateSource == [s \in Source |-> IF s = "s2" THEN [Policy(0, FALSE) EXCEPT !.trust = "unconfigured"]
                                ELSE Policy(0, FALSE)]
LatePolicies == {[Policy(0, TRUE) EXCEPT !.kind = "operator", !.trust = "untrusted"]}

Limits(records_, per_stream) ==
    [max_devices |-> 2, max_incarnations |-> 3, max_streams |-> 4,
     max_records |-> records_, max_per_stream |-> per_stream, max_tombstones |-> 2,
     max_conflicts |-> 4, max_resolutions |-> 2, max_ledger |-> 2, max_sources |-> 2,
     max_decisions |-> 2]

TightLimits == {[Limits(2, 2) EXCEPT !.max_incarnations = 2]}

\* One tombstone.
OneTombstone == {[Limits(2, 2) EXCEPT !.max_tombstones = 1]}

\* One record at a time and a one-entry ledger: every admission meets the bound.
TinyLimits == {[Limits(1, 1) EXCEPT !.max_ledger = 1, !.max_incarnations = 1]}

=============================================================================
