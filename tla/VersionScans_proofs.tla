-------------------------- MODULE VersionScans_proofs --------------------------
(***************************************************************************)
(* How the conditions of the scans fit together, for every stamp and every *)
(* width of a half.                                                        *)
(***************************************************************************)
EXTENDS VersionScans, DGVersion_proofs

(* getAllNodesInVersions returns what every single version scan from the   *)
(* first to the last version returns: the two ends decide.                 *)
THEOREM SeenThroughout ==
  ASSUME NEW stamp \in Stamp, NEW v1 \in HalfVersion, NEW v2 \in HalfVersion, v1 <= v2
  PROVE  InVersions(stamp, v1, v2) <=> \A v \in v1 .. v2 : InSingleVersion(stamp, v)
<1> DEFINE s == getStartVersion(stamp)
           e == getEndVersion(stamp)
<1>1. s \in Int /\ e \in Int /\ v1 \in Int /\ v2 \in Int
  BY HalvesOfStamp, LimitAssumption DEF HalfVersion
<1>2. v1 \in v1 .. v2 /\ v2 \in v1 .. v2
  BY <1>1
<1>3. ASSUME InVersions(stamp, v1, v2), NEW v \in v1 .. v2
      PROVE  InSingleVersion(stamp, v)
  <2>1. s < v1 /\ v2 <= e
    BY <1>3 DEF InVersions
  <2>2. s < v /\ v <= e
    BY <1>1, <2>1
  <2> QED
    BY <2>2 DEF InSingleVersion
<1>4. ASSUME \A v \in v1 .. v2 : InSingleVersion(stamp, v)
      PROVE  InVersions(stamp, v1, v2)
  BY <1>2, <1>4 DEF InSingleVersion, InVersions
<1> QED
  BY <1>3, <1>4

(* getAllNodesInVersionDelta returns at least what the single version      *)
(* scans of its two versions disagree about: nothing that appeared or      *)
(* disappeared between them is missing, and nothing both of them show is   *)
(* reported.                                                               *)
THEOREM DeltaComplete ==
  ASSUME NEW stamp \in Stamp, NEW v1 \in HalfVersion, NEW v2 \in HalfVersion, v1 <= v2
  PROVE  /\ InSingleVersion(stamp, v1) # InSingleVersion(stamp, v2)
              => InVersionDelta(stamp, v1, v2)
         /\ ~ (/\ InVersionDelta(stamp, v1, v2)
               /\ InSingleVersion(stamp, v1) /\ InSingleVersion(stamp, v2))
<1> DEFINE s == getStartVersion(stamp)
           e == getEndVersion(stamp)
<1>1. s \in Int /\ e \in Int /\ v1 \in Int /\ v2 \in Int
  BY HalvesOfStamp, LimitAssumption DEF HalfVersion
<1>2. (s < v1 /\ v1 <= e) /\ ~ (s < v2 /\ v2 <= e) => v1 <= e /\ e < v2
  BY <1>1
<1>3. ~ (s < v1 /\ v1 <= e) /\ (s < v2 /\ v2 <= e) => v1 <= s /\ s < v2
  BY <1>1
<1>4. ~ (s < v1 /\ v2 <= e /\ (v1 <= s \/ e < v2))
  BY <1>1
<1> QED
  BY <1>2, <1>3, <1>4 DEF InSingleVersion, InVersionDelta

(* A versioned deletion rewrites no past: when a stamp that has not ended  *)
(* is ended at a version, the single version scans up to that version show *)
(* what they showed.                                                       *)
THEOREM EndingKeepsPast ==
  ASSUME NEW old \in Stamp, NEW new \in Stamp, ~hasEndVersion(old),
         NEW v \in 0 .. getStartVersion(new)
  PROVE  InSingleVersion(old, v)
           <=> InSingleVersion(setEndVersion(getStartVersion(new), old), v)
<1> DEFINE ended == setEndVersion(getStartVersion(new), old)
<1>1. /\ getStartVersion(ended) = getStartVersion(old)
      /\ getEndVersion(ended) = getStartVersion(new)
  BY EndedBy
<1>2. getStartVersion(new) \in HalfVersion /\ getEndVersion(old) \in HalfVersion
  BY HalvesOfStamp
<1>3. v <= getStartVersion(new) /\ v <= getEndVersion(old)
  BY <1>2, LimitAssumption DEF HalfVersion, hasEndVersion, Alive
<1> QED
  BY <1>1, <1>3 DEF InSingleVersion
===============================================================================
