--------------------------- MODULE DGVersion_proofs ---------------------------
(***************************************************************************)
(* What packing and unpacking a stamp preserves, for every width of a      *)
(* half.                                                                   *)
(***************************************************************************)
EXTENDS DGVersion, TLAPS

\* A multiple of L that is larger is larger by L at least.
LEMMA MulMono ==
  ASSUME NEW L \in Int, L > 0, NEW a \in Int, NEW b \in Int, a >= b + 1
  PROVE  a * L >= b * L + L
<1>1. (a - b - 1) * L >= 0
  BY SMT
<1>2. (a - b - 1) * L = a * L - b * L - L
  BY SMT
<1> QED
  BY <1>1, <1>2

\* Division with remainder is unique.
LEMMA DivMod ==
  ASSUME NEW L \in Int, L > 0, NEW q \in Int, NEW r \in 0 .. L - 1
  PROVE  (q * L + r) \div L = q /\ (q * L + r) % L = r
<1> DEFINE x == q * L + r
           d == x \div L
           m == x % L
<1>1. x \in Int /\ d \in Int /\ m \in 0 .. L - 1 /\ x = d * L + m
  BY SMT
<1>2. ~ (d >= q + 1)
  <2> SUFFICES ASSUME d >= q + 1 PROVE FALSE
    OBVIOUS
  <2>1. d * L >= q * L + L
    BY <1>1, MulMono
  <2> QED
    BY <1>1, <2>1
<1>3. ~ (q >= d + 1)
  <2> SUFFICES ASSUME q >= d + 1 PROVE FALSE
    OBVIOUS
  <2>1. q * L >= d * L + L
    BY <1>1, MulMono
  <2> QED
    BY <1>1, <2>1
<1>4. d = q
  BY <1>1, <1>2, <1>3
<1> QED
  BY <1>1, <1>4

\* Two half versions, shifted and added, make a stamp.
LEMMA StampOfHalves ==
  ASSUME NEW s \in HalfVersion, NEW e \in HalfVersion
  PROVE  s * Limit + e \in Stamp
<1>0. Limit \in Int /\ Limit > 1
  BY LimitAssumption
<1>1. s \in Int /\ e \in Int /\ s >= 0 /\ e >= 0 /\ Limit >= s + 1 /\ e <= Limit - 1
  BY <1>0 DEF HalfVersion
<1>2. Limit * Limit >= s * Limit + Limit
  BY <1>0, <1>1, MulMono
<1>3. s * Limit >= 0
  BY <1>0, <1>1
<1>4. s * Limit \in Int /\ Limit * Limit \in Int
  BY <1>0, <1>1
<1> QED
  BY <1>0, <1>1, <1>2, <1>3, <1>4 DEF Stamp

(* A stamp packed from any two numbers is a stamp, and unpacking it gives  *)
(* them back up to the width of a half: setStartEndVersion, getStartVersion *)
(* and getEndVersion lose what the masks of the code cut off and no more.  *)
THEOREM Unpack ==
  ASSUME NEW s \in Int, NEW e \in Int
  PROVE  /\ setStartEndVersion(s, e) \in Stamp
         /\ getStartVersion(setStartEndVersion(s, e)) = s % Limit
         /\ getEndVersion(setStartEndVersion(s, e)) = e % Limit
<1>0. Limit \in Int /\ Limit > 1
  BY LimitAssumption
<1> DEFINE a == s % Limit
           b == e % Limit
<1>1. a \in 0 .. Limit - 1 /\ b \in 0 .. Limit - 1
  BY <1>0
<1>2. a * Limit + b \in Stamp
  BY <1>1, StampOfHalves DEF HalfVersion
<1>3. (a * Limit + b) \div Limit = a /\ (a * Limit + b) % Limit = b
  BY <1>0, <1>1, DivMod
<1>4. a % Limit = a
  BY <1>0, <1>1
<1> QED
  BY <1>2, <1>3, <1>4 DEF setStartEndVersion, getStartVersion, getEndVersion

\* Unpacking a stamp gives half versions.
LEMMA HalvesOfStamp ==
  ASSUME NEW version \in Stamp
  PROVE  getStartVersion(version) \in HalfVersion /\ getEndVersion(version) \in HalfVersion
<1>1. Limit \in Int /\ Limit > 1 /\ version \in Int
  BY LimitAssumption DEF Stamp
<1> QED
  BY <1>1 DEF getStartVersion, getEndVersion, HalfVersion

\* The mask that packing applies does not change a half version.
LEMMA HalfMod ==
  ASSUME NEW h \in HalfVersion
  PROVE  h % Limit = h
BY LimitAssumption DEF HalfVersion

\* Ending a stamp at any version keeps its start.
LEMMA EndedAt ==
  ASSUME NEW old \in Stamp, NEW endVersion \in Int
  PROVE  LET ended == setEndVersion(endVersion, old)
         IN  ended \in Stamp /\ getStartVersion(ended) = getStartVersion(old)
<1>1. getStartVersion(old) \in HalfVersion /\ getStartVersion(old) \in Int
  BY HalvesOfStamp DEF HalfVersion
<1> QED
  BY <1>1, Unpack, HalfMod DEF setEndVersion

(* Ending a stamp with the start of another one keeps its start and makes   *)
(* the two intervals adjoin.                                               *)
THEOREM EndedBy ==
  ASSUME NEW old \in Stamp, NEW new \in Stamp
  PROVE  LET ended == setEndVersion(getStartVersion(new), old)
         IN  /\ ended \in Stamp
             /\ getStartVersion(ended) = getStartVersion(old)
             /\ getEndVersion(ended) = getStartVersion(new)
<1>1. /\ getStartVersion(old) \in HalfVersion
      /\ getStartVersion(new) \in HalfVersion
  BY HalvesOfStamp
<1>2. getStartVersion(old) \in Int /\ getStartVersion(new) \in Int
  BY <1>1 DEF HalfVersion
<1> QED
  BY <1>1, <1>2, Unpack, HalfMod DEF setEndVersion
==============================================================================
