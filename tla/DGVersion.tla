------------------------------ MODULE DGVersion ------------------------------
(***************************************************************************)
(* The packed version stamp of cn.DynamicGraph.Common.DGVersion: a long    *)
(* whose low half is the end version and whose next half is the start      *)
(* version of an interval.  The code fixes the width of a half at 16 bits; *)
(* here it is the constant Limit, the number of values of one half, so     *)
(* that TLC can reach the boundary (65536 in the code, a handful in a run).*)
(* The shifts and masks of the code are division, multiplication and       *)
(* remainder by Limit: what falls outside a half is lost, as it is there.  *)
(***************************************************************************)
EXTENDS Integers

CONSTANT Limit              \* values of one half of a stamp; 65536 in the code

ASSUME LimitAssumption == Limit \in Nat /\ Limit > 1

HalfVersion == 0 .. Limit - 1
Stamp == 0 .. Limit * Limit - 1

\* The end version of a stamp that nothing has ended: 65535 in the code.
Alive == Limit - 1

setStartEndVersion(startVersion, endVersion) ==
  (startVersion % Limit) * Limit + (endVersion % Limit)

getStartVersion(version) == (version \div Limit) % Limit
getEndVersion(version)   == version % Limit

\* setStartVersion(start): the stamp of something created or written now.
setStartVersion(startVersion) == setStartEndVersion(startVersion, Alive)

\* setEndVersion(end, version): end the interval of a stamp, keeping its start.
setEndVersion(endVersion, version) ==
  setStartEndVersion(getStartVersion(version), endVersion)

hasEndVersion(version) == getEndVersion(version) < Alive

==============================================================================
