----------------------------- MODULE VersionScans -----------------------------
(***************************************************************************)
(* Which records the scans of GraphDatabaseFacade return, as conditions on *)
(* the stamp of a record.  A scan reads the stamp of each record in use    *)
(* and skips the records its condition rejects; the conditions for nodes   *)
(* and for relationships are the same.                                     *)
(***************************************************************************)
EXTENDS DGVersion

\* getAllNodes, getAllRelationships
InCurrent(stamp) == ~hasEndVersion(stamp)

\* Mutant of InSingleVersion: a version shows what starts with it.
InSingleVersionAtStart(stamp, version) ==
  getStartVersion(stamp) <= version /\ version <= getEndVersion(stamp)

\* getAllNodesInSingleVersion, getAllRelationshipsInSingleVersion
InSingleVersion(stamp, version) ==
  getStartVersion(stamp) < version /\ version <= getEndVersion(stamp)

\* getAllNodesInVersionDelta, getAllRelationshipsInVersionDelta
InVersionDelta(stamp, startVersion, endVersion) ==
  \/ startVersion <= getStartVersion(stamp) /\ getStartVersion(stamp) < endVersion
  \/ startVersion <= getEndVersion(stamp) /\ getEndVersion(stamp) < endVersion

\* getAllNodesInVersions, getAllRelationshipsInVersions
InVersions(stamp, startVersion, endVersion) ==
  getStartVersion(stamp) < startVersion /\ endVersion <= getEndVersion(stamp)

==============================================================================
