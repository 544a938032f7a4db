------------------------------ MODULE Snapshots ------------------------------
(***************************************************************************)
(* What the readers of a saved state ask of it: decode(RegistryState) of   *)
(* src/src/codec.cpp, which every start of the store goes through, and     *)
(* import_document of src/src/export.cpp.  snapshot_state hands them the   *)
(* variables of Registry as they stand, so what they ask is asked of them. *)
(* The encodings themselves are the subject of Codec and Interchange.      *)
(***************************************************************************)
EXTENDS Registry

Attributed(key) == key.incarnation \in incarnation_table[key.device].history

\* decode(RegistryState), after its parts were decoded.
state_decodes ==
    /\ next_incarnation # 0
    /\ \A r \in records : r.evidence.key.incarnation # 0 /\ r.evidence.generation # 0
    /\ Cardinality(records) <= limits.max_records
    /\ Cardinality(Tombstoned(tombstones)) <= limits.max_tombstones

-----------------------------------------------------------------------------
(* Properties *)

\* Stored evidence always belongs to a registered incarnation of its device, of
\* which the current one is a member: import_document refuses a state with
\* evidence it cannot attribute, and classify would take it for fenced.
EvidenceIsAttributed ==
    /\ \A r \in records : Attributed(r.evidence.key)
    /\ \A d \in Device : Registered(d) =>
         incarnation_table[d].current \in incarnation_table[d].history

-----------------------------------------------------------------------------
(* A statement of the sources that the code does not keep. *)

\* registry.hpp: "Hard upper bounds.  Every one of them is enforced before
\* allocation."  The registry never holds a state that the decoder of its own
\* store refuses because it passes the bounds it declares.
SnapshotIsReadable == Unlocked => state_decodes

=============================================================================
