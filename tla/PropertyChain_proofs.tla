------------------------- MODULE PropertyChain_proofs -------------------------
(***************************************************************************)
(* Proofs that the safety properties of PropertyChain hold for every set   *)
(* of primitives, keys, values and ids, and every width of a version.      *)
(*                                                                         *)
(* The properties speak of the records a walk visits.  The inductive       *)
(* invariant speaks of the latest records instead, which need no walk:     *)
(* their links are local facts (LatestLinked), and no closed set misses    *)
(* one of them (LatestReached).  Together they give MainChain = Latest.    *)
(*                                                                         *)
(* The last part proves that the records implement PropertyHistory.        *)
(***************************************************************************)
EXTENDS PropertyCursor, DGVersion_proofs, SequenceTheorems

\* The links of a latest record lead to latest records of the same primitive.
LatestLinked ==
  \A p \in Primitive :
    /\ first[p] # NoRecord => first[p] \in Latest(p) /\ prevProp[first[p]] = NoRecord
    /\ \A r \in Latest(p) :
         /\ nextProp[r] # NoRecord =>
              nextProp[r] \in Latest(p) /\ prevProp[nextProp[r]] = r
         /\ prevProp[r] # NoRecord =>
              prevProp[r] \in Latest(p) /\ nextProp[prevProp[r]] = r
         /\ prevProp[r] = NoRecord => first[p] = r

LatestReached ==
  \A p \in Primitive : \A S \in SUBSET PropertyId : Closed(p, S) => Latest(p) \subseteq S

LatestKeys ==
  \A p \in Primitive : \A r, s \in Latest(p) : key[r] = key[s] => r = s

IInv ==
  /\ TypeOK
  /\ LatestLinked
  /\ LatestReached
  /\ LatestKeys
  /\ HistoryAdjoins
  /\ HistoryAcyclic

-----------------------------------------------------------------------------
(* What the invariant says of the walk: it visits the latest records.      *)
LEMMA WalkFindsLatest ==
  ASSUME LatestLinked, LatestReached, NEW p \in Primitive
  PROVE  MainChain(p) = Latest(p)
<1>1. Latest(p) \in SUBSET PropertyId
  BY DEF Latest
<1>2. Closed(p, Latest(p))
  BY DEF LatestLinked, Closed
<1>3. MainChain(p) \subseteq Latest(p)
  BY <1>1, <1>2 DEF MainChain
<1>4. Latest(p) \subseteq MainChain(p)
  BY <1>1 DEF LatestReached, MainChain
<1> QED
  BY <1>3, <1>4

\* Latest records of two primitives are different records.
LEMMA LatestDisjoint ==
  ASSUME NEW p \in Primitive, NEW q \in Primitive, p # q
  PROVE  Latest(p) \cap Latest(q) = {}
BY DEF Latest

\* To show that a set holds every latest record it is enough that the part
\* of it within Latest(p) is closed.
LEMMA ReachWithin ==
  ASSUME LatestReached, NEW p \in Primitive, NEW S,
         Closed(p, S \cap Latest(p))
  PROVE  Latest(p) \subseteq S
<1>1. S \cap Latest(p) \in SUBSET PropertyId
  BY DEF Latest
<1> QED
  BY <1>1 DEF LatestReached

\* No latest record is linked to itself.
LEMMA NoSelfLink ==
  ASSUME PropertyIdAssumption, LatestLinked, LatestReached,
         NEW p \in Primitive, NEW host \in Latest(p)
  PROVE  prevProp[host] # host /\ nextProp[host] # host
<1> DEFINE S == Latest(p) \ {host}
<1>0. host # NoRecord
  BY DEF Latest, PropertyIdAssumption
<1>1. SUFFICES ASSUME prevProp[host] = host \/ nextProp[host] = host
               PROVE  FALSE
  OBVIOUS
<1>2. prevProp[host] = host
  BY <1>0, <1>1 DEF LatestLinked
<1>3. first[p] # host
  BY <1>0, <1>2 DEF LatestLinked
<1>4. \A x \in S : nextProp[x] # NoRecord => nextProp[x] \in S
  BY <1>2 DEF LatestLinked
<1>5. Closed(p, S \cap Latest(p))
  BY <1>3, <1>4 DEF Closed, LatestLinked
<1> QED
  BY <1>5, ReachWithin

\* A new store has no records, so every chain is empty.
LEMMA InitIInv == Init => IInv
<1> SUFFICES ASSUME Init PROVE IInv
  OBVIOUS
<1>1. TypeOK
  <2>1. 0 \in Stamp
    BY LimitAssumption DEF Stamp
  <2> QED
    BY <2>1 DEF Init, TypeOK, Link
<1>2. \A p \in Primitive : Latest(p) = {}
  BY DEF Init, Latest
<1>3. LatestLinked /\ LatestReached /\ LatestKeys
  BY <1>2 DEF Init, LatestLinked, LatestReached, LatestKeys
<1>4. HistoryAdjoins /\ HistoryAcyclic
  BY DEF Init, HistoryAdjoins, HistoryAcyclic
<1> QED
  BY <1>1, <1>3, <1>4 DEF IInv

-----------------------------------------------------------------------------
(* ChangeProperty keeps the invariant: n takes the place of host.          *)
LEMMA ChangeStep ==
  ASSUME PropertyIdAssumption, TxVersionAssumption, IInv,
         NEW p \in Primitive, NEW k \in PropertyKey, NEW v \in Value, NEW ver \in TxVersion,
         NEW host \in Hosts(p, k), NEW n \in FreeIds,
         ChangeProperty(p, k, v, ver, host, n)
  PROVE  IInv'
<1> USE DEF IInv
<1> DEFINE pred == prevProp[host]
           succ == nextProp[host]
<1>1. /\ MainChain(p) = Latest(p)
      /\ host \in Latest(p) /\ host \in PropertyId /\ inUse[host] /\ key[host] = k
      /\ entity[host] = p /\ prevHisProp[host] = NoRecord
  BY WalkFindsLatest DEF Hosts, Latest
<1>2. n \in PropertyId /\ ~inUse[n] /\ n # host /\ n # NoRecord /\ host # NoRecord
  BY <1>1 DEF FreeIds, PropertyIdAssumption
<1>3. pred # host /\ succ # host
  BY <1>1, NoSelfLink
<1>4. \A q \in Primitive : n \notin Latest(q)
  BY <1>2 DEF Latest
<1>5. ASSUME NEW q \in Primitive, q # p
      PROVE  Latest(q)' = Latest(q) /\ host \notin Latest(q)
  BY <1>1, <1>2, <1>5 DEF Latest, ChangeProperty, TakePlace, BecomeHistory, Ending, NewBlock, TypeOK
<1>6. Latest(p)' = (Latest(p) \ {host}) \cup {n}
  BY <1>1, <1>2 DEF Latest, ChangeProperty, TakePlace, BecomeHistory, Ending, NewBlock, TypeOK
<1>7. /\ nextProp'[n] = succ
      /\ prevProp'[n] = pred
      /\ \A r \in PropertyId \ {n} :
           /\ nextProp'[r] = IF r = pred THEN n ELSE nextProp[r]
           /\ prevProp'[r] = IF r = succ THEN n ELSE prevProp[r]
  BY <1>2 DEF ChangeProperty, TakePlace, BecomeHistory, Ending
<1>8. /\ pred # NoRecord => pred \in Latest(p) /\ nextProp[pred] = host /\ first' = first
      /\ succ # NoRecord => succ \in Latest(p) /\ prevProp[succ] = host
      /\ pred = NoRecord => first[p] = host /\ first'[p] = n
      /\ \A q \in Primitive : q # p => first'[q] = first[q]
  BY <1>1 DEF LatestLinked, ChangeProperty, TakePlace, BecomeHistory, Ending, TypeOK
<1>9. /\ version[host] \in Stamp /\ ver \in Stamp
      /\ version'[n] = ver
      /\ version'[host] \in Stamp
      /\ getStartVersion(version'[host]) = getStartVersion(version[host])
      /\ getEndVersion(version'[host]) = getStartVersion(ver)
      /\ \A r \in PropertyId : r \notin {n, host} => version'[r] = version[r]
  <2>1. version[host] \in Stamp /\ ver \in Stamp
    BY <1>1 DEF TypeOK, TxVersionAssumption
  <2>2. /\ version'[n] = ver
        /\ version'[host] = setEndVersion(getStartVersion(ver), version[host])
        /\ \A r \in PropertyId : r \notin {n, host} => version'[r] = version[r]
    BY <1>1, <1>2 DEF ChangeProperty, TakePlace, BecomeHistory, Ending, TypeOK
  <2> QED
    BY <2>1, <2>2, EndedBy
<1>10. TypeOK'
  <2>1. version' \in [PropertyId -> Stamp]
    <3>1. version' = [version EXCEPT ![n] = ver, ![host] = version'[host]]
      BY <1>1, <1>2 DEF ChangeProperty, TakePlace, BecomeHistory, Ending, TypeOK
    <3> QED
      BY <1>9, <3>1 DEF TypeOK
  <2>2. nextProp' \in [PropertyId -> Link] /\ prevProp' \in [PropertyId -> Link]
    BY <1>1, <1>2 DEF TypeOK, ChangeProperty, TakePlace, BecomeHistory, Ending, Link
  <2> QED
    BY <1>1, <1>2, <2>1, <2>2 DEF TypeOK, ChangeProperty, TakePlace, BecomeHistory, Ending, NewBlock, Link
<1>11. LatestLinked'
  <2> SUFFICES ASSUME NEW q \in Primitive
               PROVE  /\ first'[q] # NoRecord =>
                            first'[q] \in Latest(q)' /\ prevProp'[first'[q]] = NoRecord
                      /\ \A r \in Latest(q)' :
                           /\ nextProp'[r] # NoRecord =>
                                nextProp'[r] \in Latest(q)' /\ prevProp'[nextProp'[r]] = r
                           /\ prevProp'[r] # NoRecord =>
                                prevProp'[r] \in Latest(q)' /\ nextProp'[prevProp'[r]] = r
                           /\ prevProp'[r] = NoRecord => first'[q] = r
    BY DEF LatestLinked
  <2> Latest(q) \subseteq PropertyId /\ Latest(p) \subseteq PropertyId
    BY DEF Latest
  <2>1. CASE q # p
    <3>1. pred \notin Latest(q) /\ succ \notin Latest(q)
      BY <1>1, <1>8, <2>1, LatestDisjoint DEF Latest, PropertyIdAssumption
    <3>2. \A r \in Latest(q) : nextProp'[r] = nextProp[r] /\ prevProp'[r] = prevProp[r]
      BY <1>4, <1>7, <3>1
    <3> QED
      BY <1>5, <1>8, <2>1, <3>2 DEF LatestLinked
  <2>2. CASE q = p
    <3> USE <2>2
    <3>1. /\ first'[p] # NoRecord
          /\ first'[p] \in Latest(p)' /\ prevProp'[first'[p]] = NoRecord
      <4>1. CASE pred = NoRecord
        BY <1>2, <1>6, <1>7, <1>8, <4>1
      <4>2. CASE pred # NoRecord
        <5>0. first[p] # NoRecord
          <6>1. SUFFICES ASSUME first[p] = NoRecord PROVE FALSE
            OBVIOUS
          <6>2. Closed(p, {} \cap Latest(p))
            BY <6>1 DEF Closed
          <6> QED
            BY <1>1, <6>2, ReachWithin
        <5>1. first'[p] = first[p] /\ first[p] # NoRecord /\ first[p] # host
          BY <1>1, <1>8, <4>2, <5>0 DEF LatestLinked
        <5>2. first[p] # succ
          BY <1>2, <1>8, <5>1 DEF LatestLinked
        <5> QED
          BY <1>4, <1>6, <1>7, <5>1, <5>2 DEF LatestLinked
      <4> QED
        BY <4>1, <4>2
    <3>2. ASSUME NEW r \in Latest(p)', nextProp'[r] # NoRecord
          PROVE  nextProp'[r] \in Latest(p)' /\ prevProp'[nextProp'[r]] = r
      <4>1. CASE r = n
        BY <1>3, <1>4, <1>6, <1>7, <1>8, <3>2, <4>1
      <4>2. CASE r # n /\ r = pred
        BY <1>2, <1>6, <1>7, <4>2
      <4>3. CASE r # n /\ r # pred
        <5>1. r \in Latest(p) /\ r # host /\ nextProp'[r] = nextProp[r]
          BY <1>6, <1>7, <4>3
        <5>2. nextProp[r] \in Latest(p) /\ prevProp[nextProp[r]] = r
          BY <3>2, <5>1 DEF LatestLinked
        <5>3. nextProp[r] # host /\ nextProp[r] # succ /\ nextProp[r] # n
          BY <1>4, <1>8, <4>3, <5>1, <5>2, <3>2
        <5> QED
          BY <1>6, <1>7, <5>1, <5>2, <5>3
      <4> QED
        BY <4>1, <4>2, <4>3
    <3>3. ASSUME NEW r \in Latest(p)', prevProp'[r] # NoRecord
          PROVE  prevProp'[r] \in Latest(p)' /\ nextProp'[prevProp'[r]] = r
      <4>1. CASE r = n
        BY <1>3, <1>4, <1>6, <1>7, <1>8, <3>3, <4>1
      <4>2. CASE r # n /\ r = succ
        BY <1>2, <1>6, <1>7, <4>2
      <4>3. CASE r # n /\ r # succ
        <5>1. r \in Latest(p) /\ r # host /\ prevProp'[r] = prevProp[r]
          BY <1>6, <1>7, <4>3
        <5>2. prevProp[r] \in Latest(p) /\ nextProp[prevProp[r]] = r
          BY <3>3, <5>1 DEF LatestLinked
        <5>3. prevProp[r] # host /\ prevProp[r] # pred /\ prevProp[r] # n
          BY <1>4, <1>8, <4>3, <5>1, <5>2, <3>3
        <5> QED
          BY <1>6, <1>7, <5>1, <5>2, <5>3
      <4> QED
        BY <4>1, <4>2, <4>3
    <3>4. ASSUME NEW r \in Latest(p)', prevProp'[r] = NoRecord
          PROVE  first'[p] = r
      <4>1. CASE r = n
        BY <1>7, <1>8, <3>4, <4>1
      <4>2. CASE r # n
        <5>1. r \in Latest(p) /\ r # host /\ prevProp[r] = NoRecord
          BY <1>2, <1>6, <1>7, <3>4, <4>2
        <5> QED
          BY <1>8, <5>1 DEF LatestLinked
      <4> QED
        BY <4>1, <4>2
    <3> QED
      BY <3>1, <3>2, <3>3, <3>4
  <2> QED
    BY <2>1, <2>2
<1>12. LatestReached'
  <2> SUFFICES ASSUME NEW q \in Primitive, NEW S \in SUBSET PropertyId, Closed(q, S)'
               PROVE  Latest(q)' \subseteq S
    BY DEF LatestReached
  <2>1. /\ first'[q] # NoRecord => first'[q] \in S
        /\ \A r \in S : nextProp'[r] # NoRecord => nextProp'[r] \in S
    BY DEF Closed
  <2>2. CASE q # p
    <3>1. pred \notin Latest(q)
      BY <1>1, <1>8, <2>2, LatestDisjoint DEF Latest, PropertyIdAssumption
    <3>2. \A r \in Latest(q) : nextProp'[r] = nextProp[r]
      BY <1>4, <1>7, <3>1 DEF Latest
    <3>3. Closed(q, S \cap Latest(q))
      BY <1>8, <2>1, <2>2, <3>2 DEF Closed, LatestLinked
    <3> QED
      BY <1>5, <2>2, <3>3, ReachWithin
  <2>3. CASE q = p
    <3>1. n \in S
      <4> SUFFICES ASSUME n \notin S PROVE FALSE
        OBVIOUS
      <4>1. pred # NoRecord
        BY <1>2, <1>8, <2>1, <2>3
      <4>2. pred \notin S
        BY <1>2, <1>4, <1>7, <1>8, <2>1, <4>1
      <4>3. \A r \in S : nextProp'[r] = nextProp[r]
        BY <1>7, <4>2
      <4>4. Closed(p, S \cap Latest(p))
        BY <1>8, <2>1, <2>3, <4>1, <4>3 DEF Closed, LatestLinked
      <4> QED
        BY <1>8, <4>1, <4>2, <4>4, ReachWithin
    <3>2. Closed(p, (S \cup {host}) \cap Latest(p))
      <4>1. first[p] # NoRecord => first[p] \in (S \cup {host}) \cap Latest(p)
        BY <1>1, <1>8, <2>1, <2>3 DEF LatestLinked
      <4>2. ASSUME NEW r \in (S \cup {host}) \cap Latest(p), nextProp[r] # NoRecord
            PROVE  nextProp[r] \in (S \cup {host}) \cap Latest(p)
        <5>1. nextProp[r] \in Latest(p)
          BY <4>2 DEF LatestLinked
        <5>2. CASE r = host
          BY <1>7, <2>1, <3>1, <4>2, <5>1, <5>2
        <5>3. CASE r = pred
          BY <1>1, <1>2, <1>8, <4>2, <5>3 DEF Latest, PropertyIdAssumption
        <5>4. CASE r # host /\ r # pred
          BY <1>4, <1>7, <2>1, <4>2, <5>1, <5>4 DEF Latest
        <5> QED
          BY <5>2, <5>3, <5>4
      <4> QED
        BY <4>1, <4>2 DEF Closed
    <3> QED
      BY <1>6, <2>3, <3>1, <3>2, ReachWithin
  <2> QED
    BY <2>2, <2>3
<1>13. LatestKeys'
  <2>1. key'[n] = k /\ \A r \in PropertyId \ {n} : key'[r] = key[r]
    BY <1>2 DEF ChangeProperty, TakePlace, BecomeHistory, Ending, NewBlock, TypeOK
  <2>2. ASSUME NEW q \in Primitive, NEW r \in Latest(q)', NEW s \in Latest(q)', key'[r] = key'[s]
        PROVE  r = s
    <3>1. CASE q # p
      BY <1>4, <1>5, <2>1, <2>2, <3>1 DEF LatestKeys, Latest
    <3>2. CASE q = p
      BY <1>1, <1>4, <1>6, <2>1, <2>2, <3>2 DEF LatestKeys, Latest
    <3> QED
      BY <3>1, <3>2
  <2> QED
    BY <2>2 DEF LatestKeys
<1>14. HistoryAdjoins'
  <2> SUFFICES ASSUME NEW r \in PropertyId, inUse'[r], nextHisProp'[r] # NoRecord
               PROVE  LET h == nextHisProp'[r] IN
                        /\ inUse'[h] /\ entity'[h] = entity'[r] /\ key'[h] = key'[r]
                        /\ prevHisProp'[h] = r
                        /\ getEndVersion(version'[h]) = getStartVersion(version'[r])
    BY DEF HistoryAdjoins
  <2>1. /\ \A x \in PropertyId \ {n} :
             /\ inUse'[x] = inUse[x] /\ entity'[x] = entity[x] /\ key'[x] = key[x]
             /\ nextHisProp'[x] = nextHisProp[x]
        /\ \A x \in PropertyId \ {n, host} : prevHisProp'[x] = prevHisProp[x]
        /\ nextHisProp'[n] = host /\ prevHisProp'[host] = n
        /\ entity'[n] = p /\ key'[n] = k
    BY <1>1, <1>2 DEF ChangeProperty, TakePlace, BecomeHistory, Ending, NewBlock, TypeOK
  <2>2. CASE r = n
    BY <1>1, <1>2, <1>9, <2>1, <2>2
  <2>3. CASE r # n
    <3> DEFINE h == nextHisProp[r]
    <3>1. inUse[r] /\ h # NoRecord /\ nextHisProp'[r] = h
      BY <2>1, <2>3
    <3>2. /\ inUse[h] /\ entity[h] = entity[r] /\ key[h] = key[r]
          /\ prevHisProp[h] = r
          /\ getEndVersion(version[h]) = getStartVersion(version[r])
      BY <3>1 DEF HistoryAdjoins
    <3>3. h \in PropertyId /\ h # n /\ h # host
      BY <1>1, <1>2, <3>1, <3>2 DEF TypeOK, Link, PropertyIdAssumption
    <3>4. getStartVersion(version'[r]) = getStartVersion(version[r])
      BY <1>9, <2>3
    <3> QED
      BY <1>9, <2>1, <2>3, <3>1, <3>2, <3>3, <3>4
  <2> QED
    BY <2>2, <2>3
<1>15. HistoryAcyclic'
  <2> SUFFICES ASSUME NEW S \in SUBSET {r \in PropertyId : inUse'[r]}, S # {}
               PROVE  \E r \in S : nextHisProp'[r] \notin S
    BY DEF HistoryAcyclic
  <2>1. /\ nextHisProp'[n] = host
        /\ \A x \in PropertyId \ {n} :
             inUse'[x] = inUse[x] /\ nextHisProp'[x] = nextHisProp[x]
    BY <1>2 DEF ChangeProperty, TakePlace, BecomeHistory, Ending, NewBlock, TypeOK
  <2>2. CASE S = {n}
    BY <1>2, <2>1, <2>2
  <2>3. CASE S # {n}
    <3>1. S \ {n} # {} /\ S \ {n} \in SUBSET {r \in PropertyId : inUse[r]}
      BY <2>1, <2>3
    <3>2. PICK r \in S \ {n} : nextHisProp[r] \notin S \ {n}
      BY <3>1 DEF HistoryAcyclic
    <3>3. nextHisProp[r] # n
      BY <1>2, <3>1, <3>2 DEF HistoryAdjoins
    <3> QED
      BY <2>1, <3>1, <3>2, <3>3
  <2> QED
    BY <2>2, <2>3
<1> QED
  BY <1>10, <1>11, <1>12, <1>13, <1>14, <1>15

-----------------------------------------------------------------------------
(* AddProperty keeps the invariant: n becomes the head.                    *)
LEMMA AddStep ==
  ASSUME PropertyIdAssumption, TxVersionAssumption, IInv,
         NEW p \in Primitive, NEW k \in PropertyKey, NEW v \in Value, NEW ver \in TxVersion,
         Hosts(p, k) = {}, NEW n \in FreeIds,
         AddProperty(p, k, v, ver, n)
  PROVE  IInv'
<1> USE DEF IInv
<1>1. /\ MainChain(p) = Latest(p)
      /\ \A r \in Latest(p) : key[r] # k
  BY WalkFindsLatest DEF Hosts, Latest
<1>2. n \in PropertyId /\ ~inUse[n] /\ n # NoRecord
  BY DEF FreeIds, PropertyIdAssumption
<1>3. \A q \in Primitive : n \notin Latest(q)
  BY <1>2 DEF Latest
<1>4. ASSUME NEW q \in Primitive, q # p
      PROVE  Latest(q)' = Latest(q)
  BY <1>2, <1>4 DEF Latest, AddProperty, NewHead, NewBlock, TypeOK
<1>5. Latest(p)' = Latest(p) \cup {n}
  BY <1>2 DEF Latest, AddProperty, NewHead, NewBlock, TypeOK
<1>6. /\ first'[p] = n
      /\ \A q \in Primitive : q # p => first'[q] = first[q]
      /\ nextProp'[n] = first[p] /\ prevProp'[n] = NoRecord
      /\ \A r \in PropertyId \ {n} :
           /\ nextProp'[r] = nextProp[r]
           /\ prevProp'[r] = IF r = first[p] THEN n ELSE prevProp[r]
  BY <1>2 DEF AddProperty, NewHead, TypeOK
<1>7. TypeOK'
  <2>1. version' \in [PropertyId -> Stamp]
    BY <1>2 DEF TypeOK, AddProperty, NewHead, TxVersionAssumption
  <2>2. nextProp' \in [PropertyId -> Link] /\ prevProp' \in [PropertyId -> Link]
    BY <1>2 DEF TypeOK, AddProperty, NewHead, Link
  <2> QED
    BY <1>2, <2>1, <2>2 DEF TypeOK, AddProperty, NewHead, NewBlock, Link
<1>8. LatestLinked'
  <2> SUFFICES ASSUME NEW q \in Primitive
               PROVE  /\ first'[q] # NoRecord =>
                            first'[q] \in Latest(q)' /\ prevProp'[first'[q]] = NoRecord
                      /\ \A r \in Latest(q)' :
                           /\ nextProp'[r] # NoRecord =>
                                nextProp'[r] \in Latest(q)' /\ prevProp'[nextProp'[r]] = r
                           /\ prevProp'[r] # NoRecord =>
                                prevProp'[r] \in Latest(q)' /\ nextProp'[prevProp'[r]] = r
                           /\ prevProp'[r] = NoRecord => first'[q] = r
    BY DEF LatestLinked
  <2> Latest(q) \subseteq PropertyId /\ Latest(p) \subseteq PropertyId
    BY DEF Latest
  <2>1. CASE q # p
    <3>1. first[p] \notin Latest(q)
      BY <2>1, LatestDisjoint DEF LatestLinked, Latest, PropertyIdAssumption
    <3>2. \A r \in Latest(q) : nextProp'[r] = nextProp[r] /\ prevProp'[r] = prevProp[r]
      BY <1>3, <1>6, <3>1
    <3> QED
      BY <1>4, <1>6, <2>1, <3>2 DEF LatestLinked
  <2>2. CASE q = p
    <3>1. ASSUME NEW r \in Latest(p), r # first[p]
          PROVE  prevProp[r] # NoRecord /\ prevProp'[r] = prevProp[r]
      BY <1>3, <1>6, <3>1 DEF LatestLinked
    <3>2. ASSUME first[p] # NoRecord
          PROVE  first[p] \in Latest(p) /\ prevProp'[first[p]] = n
      BY <1>3, <1>6, <3>2 DEF LatestLinked
    <3>3. \A r \in Latest(p) : nextProp[r] # NoRecord => nextProp[r] # first[p]
      BY <3>2 DEF LatestLinked, Latest, PropertyIdAssumption
    <3> QED
      BY <1>2, <1>3, <1>5, <1>6, <2>2, <3>1, <3>2, <3>3 DEF LatestLinked
  <2> QED
    BY <2>1, <2>2
<1>9. LatestReached'
  <2> SUFFICES ASSUME NEW q \in Primitive, NEW S \in SUBSET PropertyId, Closed(q, S)'
               PROVE  Latest(q)' \subseteq S
    BY DEF LatestReached
  <2>1. /\ first'[q] # NoRecord => first'[q] \in S
        /\ \A r \in S : nextProp'[r] # NoRecord => nextProp'[r] \in S
    BY DEF Closed
  <2>2. \A r \in Latest(q) : nextProp'[r] = nextProp[r]
    BY <1>3, <1>6 DEF Latest
  <2>3. q = p => n \in S
    BY <1>2, <1>6, <2>1
  <2>4. first[q] # NoRecord => first[q] \in S
    BY <1>6, <2>1, <2>3
  <2>5. Closed(q, S \cap Latest(q))
    BY <2>1, <2>2, <2>4 DEF Closed, LatestLinked
  <2> QED
    BY <1>4, <1>5, <2>3, <2>5, ReachWithin
<1>10. LatestKeys'
  <2>1. key'[n] = k /\ \A r \in PropertyId \ {n} : key'[r] = key[r]
    BY <1>2 DEF AddProperty, NewHead, NewBlock, TypeOK
  <2>2. ASSUME NEW q \in Primitive, NEW r \in Latest(q)', NEW s \in Latest(q)', key'[r] = key'[s]
        PROVE  r = s
    BY <1>1, <1>3, <1>4, <1>5, <2>1, <2>2 DEF LatestKeys, Latest
  <2> QED
    BY <2>2 DEF LatestKeys
<1>11. /\ \A x \in PropertyId \ {n} :
           /\ inUse'[x] = inUse[x] /\ entity'[x] = entity[x] /\ key'[x] = key[x]
           /\ version'[x] = version[x]
           /\ nextHisProp'[x] = nextHisProp[x] /\ prevHisProp'[x] = prevHisProp[x]
       /\ nextHisProp'[n] = NoRecord
  BY <1>2 DEF AddProperty, NewHead, NewBlock, TypeOK
<1>12. HistoryAdjoins'
  <2>1. \A r \in PropertyId : inUse[r] /\ nextHisProp[r] # NoRecord =>
          nextHisProp[r] \in PropertyId \ {n}
    BY <1>2 DEF HistoryAdjoins, TypeOK, Link
  <2> QED
    BY <1>2, <1>11, <2>1 DEF HistoryAdjoins
<1>13. HistoryAcyclic'
  <2> SUFFICES ASSUME NEW S \in SUBSET {r \in PropertyId : inUse'[r]}, S # {}
               PROVE  \E r \in S : nextHisProp'[r] \notin S
    BY DEF HistoryAcyclic
  <2>1. CASE n \in S
    BY <1>2, <1>11, <2>1, PropertyIdAssumption
  <2>2. CASE n \notin S
    <3>1. S \in SUBSET {r \in PropertyId : inUse[r]}
      BY <1>11, <2>2
    <3> QED
      BY <1>11, <2>2, <3>1 DEF HistoryAcyclic
  <2> QED
    BY <2>1, <2>2
<1> QED
  BY <1>7, <1>8, <1>9, <1>10, <1>12, <1>13

-----------------------------------------------------------------------------
(* RemoveProperty keeps the invariant: it touches the interval of the      *)
(* newest entry of a history, which adjoins none.                          *)
LEMMA RemoveStep ==
  ASSUME PropertyIdAssumption, TxVersionAssumption, IInv,
         NEW p \in Primitive, NEW k \in PropertyKey, NEW ver \in TxVersion,
         NEW host \in Hosts(p, k),
         RemoveProperty(p, k, ver, host)
  PROVE  IInv'
<1> USE DEF IInv
<1>1. host \in PropertyId /\ prevHisProp[host] = NoRecord
  BY WalkFindsLatest DEF Hosts, Latest
<1>2. UNCHANGED <<first, inUse, entity, key, value, nextProp, prevProp, nextHisProp, prevHisProp>>
  BY DEF RemoveProperty, content, links, hisLinks
<1>3. /\ version'[host] \in Stamp
      /\ getStartVersion(version'[host]) = getStartVersion(version[host])
      /\ version' = [version EXCEPT ![host] = version'[host]]
  <2>1. version[host] \in Stamp /\ ver \in Stamp
    BY <1>1 DEF TypeOK, TxVersionAssumption
  <2>2. version'[host] = setEndVersion(getStartVersion(ver), version[host])
    BY <1>1 DEF RemoveProperty, Ending, TypeOK
  <2>3. version' = [version EXCEPT ![host] = version'[host]]
    BY <2>2 DEF RemoveProperty, Ending
  <2> QED
    BY <2>1, <2>2, <2>3, EndedBy
<1>4. \A q \in Primitive : Latest(q)' = Latest(q)
  BY <1>2 DEF Latest
<1>5. TypeOK'
  BY <1>2, <1>3 DEF TypeOK
<1>6. LatestLinked'
  BY <1>2, <1>4 DEF LatestLinked
<1>7. LatestReached'
  BY <1>2, <1>4 DEF LatestReached, Closed
<1>8. LatestKeys'
  BY <1>2, <1>4 DEF LatestKeys
<1>9. HistoryAdjoins'
  <2>1. \A r \in PropertyId : inUse[r] /\ nextHisProp[r] # NoRecord =>
          nextHisProp[r] \in PropertyId \ {host}
    BY <1>1 DEF HistoryAdjoins, TypeOK, Link, PropertyIdAssumption
  <2>2. \A r \in PropertyId : r # host => version'[r] = version[r]
    BY <1>1, <1>3 DEF TypeOK
  <2>3. \A r \in PropertyId : getStartVersion(version'[r]) = getStartVersion(version[r])
    BY <1>3, <2>2
  <2> QED
    BY <1>2, <2>1, <2>2, <2>3 DEF HistoryAdjoins
<1>10. HistoryAcyclic'
  BY <1>2 DEF HistoryAcyclic
<1> QED
  BY <1>5, <1>6, <1>7, <1>8, <1>9, <1>10

\* DeletePropertyChain keeps the invariant: all the latest records of p go,
\* and no other record is linked to them.
LEMMA DeleteStep ==
  ASSUME PropertyIdAssumption, TxVersionAssumption, IInv,
         NEW p \in Primitive, DeletePropertyChain(p)
  PROVE  IInv'
<1> USE DEF IInv
<1>1. MainChain(p) = Latest(p)
  BY WalkFindsLatest
<1>2. first'[p] = NoRecord /\ \A q \in Primitive : q # p => first'[q] = first[q]
  BY DEF DeletePropertyChain, TypeOK
<1>3. \A r \in Latest(p) : ~inUse'[r]
  BY <1>1 DEF DeletePropertyChain, Blanked, Latest
<1>4. \A r \in PropertyId \ Latest(p) :
        /\ inUse'[r] = inUse[r] /\ entity'[r] = entity[r] /\ key'[r] = key[r]
        /\ version'[r] = version[r]
        /\ nextProp'[r] = nextProp[r] /\ prevProp'[r] = prevProp[r]
        /\ nextHisProp'[r] = nextHisProp[r] /\ prevHisProp'[r] = prevHisProp[r]
  BY <1>1 DEF DeletePropertyChain, Blanked
<1>5. Latest(p)' = {}
  BY <1>3, <1>4 DEF Latest
<1>6. ASSUME NEW q \in Primitive, q # p
      PROVE  Latest(q)' = Latest(q) /\ Latest(q) \subseteq PropertyId \ Latest(p)
  BY <1>3, <1>4, <1>6 DEF Latest
<1>7. TypeOK'
  <2>1. 0 \in Stamp
    BY LimitAssumption DEF Stamp
  <2> QED
    BY <2>1 DEF TypeOK, DeletePropertyChain, Blanked, Link
<1>8. LatestLinked'
  <2> SUFFICES ASSUME NEW q \in Primitive
               PROVE  /\ first'[q] # NoRecord =>
                            first'[q] \in Latest(q)' /\ prevProp'[first'[q]] = NoRecord
                      /\ \A r \in Latest(q)' :
                           /\ nextProp'[r] # NoRecord =>
                                nextProp'[r] \in Latest(q)' /\ prevProp'[nextProp'[r]] = r
                           /\ prevProp'[r] # NoRecord =>
                                prevProp'[r] \in Latest(q)' /\ nextProp'[prevProp'[r]] = r
                           /\ prevProp'[r] = NoRecord => first'[q] = r
    BY DEF LatestLinked
  <2>1. CASE q = p
    BY <1>2, <1>5, <2>1
  <2>2. CASE q # p
    BY <1>2, <1>4, <1>6, <2>2 DEF LatestLinked
  <2> QED
    BY <2>1, <2>2
<1>9. LatestReached'
  <2> SUFFICES ASSUME NEW q \in Primitive, NEW S \in SUBSET PropertyId, Closed(q, S)'
               PROVE  Latest(q)' \subseteq S
    BY DEF LatestReached
  <2>1. CASE q = p
    BY <1>5, <2>1
  <2>2. CASE q # p
    <3>1. Closed(q, S \cap Latest(q))
      BY <1>2, <1>4, <1>6, <2>2 DEF Closed, LatestLinked
    <3> QED
      BY <1>6, <2>2, <3>1, ReachWithin
  <2> QED
    BY <2>1, <2>2
<1>10. LatestKeys'
  BY <1>4, <1>5, <1>6 DEF LatestKeys
<1>11. HistoryAdjoins'
  <2> SUFFICES ASSUME NEW r \in PropertyId, inUse'[r], nextHisProp'[r] # NoRecord
               PROVE  LET h == nextHisProp'[r] IN
                        /\ inUse'[h] /\ entity'[h] = entity'[r] /\ key'[h] = key'[r]
                        /\ prevHisProp'[h] = r
                        /\ getEndVersion(version'[h]) = getStartVersion(version'[r])
    BY DEF HistoryAdjoins
  <2>1. r \in PropertyId \ Latest(p) /\ inUse[r] /\ nextHisProp[r] # NoRecord
    BY <1>3, <1>4
  <2>2. nextHisProp[r] \in PropertyId \ Latest(p)
    BY <2>1 DEF HistoryAdjoins, TypeOK, Link, Latest, PropertyIdAssumption
  <2> QED
    BY <1>4, <2>1, <2>2 DEF HistoryAdjoins
<1>12. HistoryAcyclic'
  BY <1>3, <1>4 DEF HistoryAcyclic
<1> QED
  BY <1>7, <1>8, <1>9, <1>10, <1>11, <1>12

-----------------------------------------------------------------------------
\* Every operation keeps the invariant.
LEMMA NextIInv == IInv /\ [Next]_vars => IInv'
<1> SUFFICES ASSUME IInv, [Next]_vars PROVE IInv'
  OBVIOUS
<1>0. PropertyIdAssumption /\ TxVersionAssumption
  BY PropertyIdAssumption, TxVersionAssumption
<1>1. ASSUME NEW p \in Primitive, NEW k \in PropertyKey, NEW v \in Value, NEW ver \in TxVersion,
             Set(p, k, v, ver)
      PROVE  IInv'
  BY <1>0, <1>1, ChangeStep, AddStep DEF Set
<1>2. ASSUME NEW p \in Primitive, NEW k \in PropertyKey, NEW ver \in TxVersion, Remove(p, k, ver)
      PROVE  IInv'
  BY <1>0, <1>2, RemoveStep DEF Remove
<1>3. ASSUME NEW p \in Primitive, DeletePropertyChain(p)
      PROVE  IInv'
  BY <1>0, <1>3, DeleteStep
<1>4. CASE UNCHANGED vars
  BY <1>4 DEF vars, content, links, hisLinks, IInv, TypeOK, LatestLinked, LatestReached,
    LatestKeys, HistoryAdjoins, HistoryAcyclic, Latest, Closed
<1> QED
  BY <1>1, <1>2, <1>3, <1>4 DEF Next

\* The invariant holds in every state the program reaches.
LEMMA Invariance == Spec => []IInv
BY InitIInv, NextIInv, PTL DEF Spec

\* Every field keeps a value of its type: a version always fits its stamp.
THEOREM TypeCorrect == Spec => []TypeOK
BY Invariance, PTL DEF IInv

(* A walk from a primitive finds exactly its latest records: no operation   *)
(* of PropertyCreator or PropertyDeleter loses a property or lets a chain   *)
(* run into another one.                                                   *)
THEOREM NothingLost == Spec => []NoLostProperty
<1>1. IInv => NoLostProperty
  BY WalkFindsLatest DEF IInv, NoLostProperty
<1> QED
  BY <1>1, Invariance, PTL

\* The links of PropertyCreator's new host are consistent in both directions.
THEOREM Linked == Spec => []MainChainLinked
<1>1. IInv => MainChainLinked
  BY WalkFindsLatest DEF IInv, MainChainLinked, LatestLinked
<1> QED
  BY <1>1, Invariance, PTL

\* A read of a key meets one record, whatever the order of the chain.
THEOREM OneHost == Spec => []OneHostPerKey
<1>1. IInv => OneHostPerKey
  BY WalkFindsLatest DEF IInv, OneHostPerKey, LatestKeys
<1> QED
  BY <1>1, Invariance, PTL

\* Histories have no gap and no overlap, in whatever order writers commit.
THEOREM Adjoining == Spec => []HistoryAdjoins
BY Invariance, PTL DEF IInv

\* RecordPropertyCursor.nextHistory terminates on every history.
THEOREM Acyclic == Spec => []HistoryAcyclic
BY Invariance, PTL DEF IInv

FrozenStep ==
  \A r \in PropertyId : Superseded(r) =>
    /\ Superseded(r)'
    /\ UNCHANGED <<entity[r], key[r], value[r], version[r], nextHisProp[r]>>

\* No operation rewrites a superseded record: the past is append only.
THEOREM Frozen == Spec => HistoryFrozen
<1>1. IInv /\ [Next]_vars => [FrozenStep]_vars
  <2> SUFFICES ASSUME IInv, Next PROVE FrozenStep
    OBVIOUS
  <2> USE DEF FrozenStep, Superseded
  <2>1. \A p \in Primitive : \A r \in MainChain(p) :
          r \in PropertyId /\ inUse[r] /\ prevHisProp[r] = NoRecord
    BY WalkFindsLatest DEF IInv, Latest
  <2>2. ASSUME NEW p \in Primitive, NEW k \in PropertyKey, NEW v \in Value, NEW ver \in TxVersion,
               NEW host \in Hosts(p, k), NEW n \in FreeIds, ChangeProperty(p, k, v, ver, host, n)
        PROVE  FrozenStep
    BY <2>1, <2>2 DEF IInv, TypeOK, Hosts, FreeIds, ChangeProperty, TakePlace, BecomeHistory, Ending, NewBlock
  <2>3. ASSUME NEW p \in Primitive, NEW k \in PropertyKey, NEW v \in Value, NEW ver \in TxVersion,
               NEW n \in FreeIds, AddProperty(p, k, v, ver, n)
        PROVE  FrozenStep
    BY <2>1, <2>3 DEF IInv, TypeOK, FreeIds, AddProperty, NewHead, NewBlock
  <2>4. ASSUME NEW p \in Primitive, NEW k \in PropertyKey, NEW ver \in TxVersion,
               NEW host \in Hosts(p, k), RemoveProperty(p, k, ver, host)
        PROVE  FrozenStep
    BY <2>1, <2>4 DEF IInv, TypeOK, Hosts, RemoveProperty, Ending, content, links, hisLinks
  <2>5. ASSUME NEW p \in Primitive, DeletePropertyChain(p)
        PROVE  FrozenStep
    BY <2>1, <2>5 DEF DeletePropertyChain, Blanked
  <2> QED
    BY <2>2, <2>3, <2>4, <2>5 DEF Next, Set, Remove
<1>2. Spec => [][FrozenStep]_vars
  BY <1>1, Invariance, PTL DEF Spec
<1> QED
  BY <1>2, PTL DEF HistoryFrozen, FrozenStep

-----------------------------------------------------------------------------
(* The implementation of PropertyHistory.  The mapping reads a history     *)
(* link by link, so what it yields is defined by an equation.  That the    *)
(* equation has a solution is ReadBackExists; all that follows uses the    *)
(* equation only (FollowsLinks), in the states before and after a step,    *)
(* and reasons about a record nearest to the end of its history among      *)
(* those a claim fails for, which HistoryAcyclic provides.                 *)

\* A chain of next from any member of P ends: no set of members is a loop.
Grounded(P, None, next) ==
  /\ None \notin P
  /\ \A r \in P : next[r] = None \/ next[r] \in P
  /\ \A S \in SUBSET P : S # {} => \E r \in S : next[r] \notin S

\* f gives each member its entry behind those of its successors.
ReadsBack(f, P, None, next, entry) ==
  f = [r \in P |-> IF next[r] = None THEN <<entry[r]>> ELSE Append(f[next[r]], entry[r])]

(* Where chains end there is such an f: the least relation that follows    *)
(* the equation relates each member to exactly one sequence.               *)
LEMMA ReadBackExists ==
  ASSUME NEW P, NEW None, NEW next, NEW entry, Grounded(P, None, next)
  PROVE  \E f : ReadsBack(f, P, None, next, entry)
<1> USE DEF Grounded
<1> DEFINE E == {entry[r] : r \in P}
           Rel == [P -> SUBSET Seq(E)]
           Follows(T) == \A r \in P : IF next[r] = None THEN <<entry[r]>> \in T[r]
                                      ELSE \A h \in T[next[r]] : Append(h, entry[r]) \in T[r]
           G == [r \in P |-> {h \in Seq(E) : \A T \in Rel : Follows(T) => h \in T[r]}]
           single == {r \in P : \E h : G[r] = {h}}
           only(r) == CHOOSE h : G[r] = {h}
           f == [r \in P |-> only(r)]
<1>0. \A r \in P : /\ entry[r] \in E
                   /\ <<entry[r]>> \in Seq(E)
                   /\ \A h \in Seq(E) : Append(h, entry[r]) \in Seq(E)
  <2> TAKE r \in P
  <2>1. entry[r] \in E
    OBVIOUS
  <2> HIDE DEF E
  <2> QED
    BY <2>1
<1> HIDE DEF E
<1>1. G \in Rel /\ \A r \in P : G[r] \subseteq Seq(E)
  OBVIOUS
<1>2. \A T \in Rel : Follows(T) => \A r \in P : G[r] \subseteq T[r]
  OBVIOUS
<1>3. Follows(G)
  <2> SUFFICES ASSUME NEW r \in P
               PROVE  IF next[r] = None THEN <<entry[r]>> \in G[r]
                      ELSE \A h \in G[next[r]] : Append(h, entry[r]) \in G[r]
    OBVIOUS
  <2>1. CASE next[r] = None
    BY <1>0, <2>1
  <2>2. CASE next[r] # None
    <3> SUFFICES ASSUME NEW h \in G[next[r]] PROVE Append(h, entry[r]) \in G[r]
      BY <2>2
    <3>1. next[r] \in P
      BY <2>2
    <3>2. h \in Seq(E)
      BY <1>1, <3>1
    <3>3. ASSUME NEW T \in Rel, Follows(T) PROVE Append(h, entry[r]) \in T[r]
      <4>1. h \in T[next[r]]
        BY <1>2, <3>1, <3>3
      <4> QED
        BY <2>2, <3>3, <4>1
    <3> QED
      BY <1>0, <3>2, <3>3
  <2> QED
    BY <2>1, <2>2
<1> HIDE DEF G
<1>4. ASSUME NEW r \in P, NEW v \in G[r],
             IF next[r] = None THEN v = <<entry[r]>>
             ELSE \A h \in G[next[r]] : v = Append(h, entry[r])
      PROVE  G[r] = {v}
  <2> SUFFICES ASSUME NEW w \in G[r], w # v PROVE FALSE
    OBVIOUS
  <2> DEFINE T == [G EXCEPT ![r] = G[r] \ {w}]
  <2>1. T \in Rel /\ T[r] = G[r] \ {w} /\ \A s \in P : T[s] \subseteq G[s] /\ (s # r => T[s] = G[s])
    BY <1>1
  <2> HIDE DEF T
  <2>2. ASSUME NEW s \in P
        PROVE  IF next[s] = None THEN <<entry[s]>> \in T[s]
               ELSE \A h \in T[next[s]] : Append(h, entry[s]) \in T[s]
    <3>1. CASE s = r
      BY <1>4, <2>1, <3>1
    <3>2. CASE s # r
      BY <1>3, <2>1, <3>2
    <3> QED
      BY <3>1, <3>2
  <2>3. Follows(T)
    BY <2>2
  <2>4. w \in T[r]
    BY <1>2, <2>1, <2>3
  <2> QED
    BY <2>1, <2>4
<1>5. P = single
  <2> SUFFICES ASSUME P \ single # {} PROVE FALSE
    OBVIOUS
  <2>1. PICK r \in P \ single : next[r] \notin P \ single
    OBVIOUS
  <2>2. CASE next[r] = None
    <3>1. <<entry[r]>> \in G[r]
      BY <1>3, <2>2
    <3>2. G[r] = {<<entry[r]>>}
      BY <1>4, <2>2, <3>1
    <3> QED
      BY <2>1, <3>2
  <2>3. CASE next[r] # None
    <3>1. next[r] \in P /\ next[r] \in single
      BY <2>1, <2>3
    <3>2. PICK h : G[next[r]] = {h}
      BY <3>1
    <3>3. Append(h, entry[r]) \in G[r]
      BY <1>3, <2>3, <3>2
    <3>4. \A g \in G[next[r]] : Append(h, entry[r]) = Append(g, entry[r])
      BY <3>2
    <3>5. G[r] = {Append(h, entry[r])}
      BY <1>4, <2>3, <3>3, <3>4
    <3> QED
      BY <2>1, <3>5
  <2> QED
    BY <2>2, <2>3
<1>6. \A r \in P : G[r] = {only(r)}
  BY <1>5
<1> HIDE DEF only
<1>7. ASSUME NEW r \in P
      PROVE  only(r) = IF next[r] = None THEN <<entry[r]>> ELSE Append(f[next[r]], entry[r])
  <2>1. CASE next[r] = None
    <3>1. <<entry[r]>> \in {only(r)}
      BY <1>3, <1>6, <2>1
    <3> QED
      BY <2>1, <3>1
  <2>2. CASE next[r] # None
    <3>1. next[r] \in P /\ f[next[r]] \in G[next[r]]
      BY <1>6, <2>2
    <3>2. Append(f[next[r]], entry[r]) \in G[r]
      BY <1>3, <2>2, <3>1
    <3>3. Append(f[next[r]], entry[r]) \in {only(r)}
      BY <1>6, <3>2
    <3> HIDE DEF f
    <3> QED
      BY <2>2, <3>3
  <2> QED
    BY <2>1, <2>2
<1>8. f = [r \in P |-> IF next[r] = None THEN <<entry[r]>> ELSE Append(f[next[r]], entry[r])]
  <2> DEFINE rhs(r) == IF next[r] = None THEN <<entry[r]>> ELSE Append(f[next[r]], entry[r])
  <2>1. \A r \in P : only(r) = rhs(r)
    BY <1>7
  <2> HIDE DEF rhs
  <2>2. f = [r \in P |-> rhs(r)]
    BY <2>1
  <2> QED
    BY <2>2 DEF rhs
<1> QED
  BY <1>8 DEF ReadsBack

\* What nextHistory gives is what following the links gives.
FollowsLinks ==
  \A r \in InUseIds :
    nextHistory[r] = IF nextHisProp[r] = NoRecord THEN <<EntryOf(r)>>
                     ELSE Append(nextHistory[nextHisProp[r]], EntryOf(r))

LEMMA HistoryRead == IInv => FollowsLinks
<1> SUFFICES ASSUME IInv
             PROVE  nextHistory = [r \in InUseIds |->
                      IF nextHisProp[r] = NoRecord THEN <<EntryOf(r)>>
                      ELSE Append(nextHistory[nextHisProp[r]], EntryOf(r))]
  BY DEF FollowsLinks
<1> DEFINE entry == [r \in InUseIds |-> EntryOf(r)]
<1>1. NoRecord \notin InUseIds
  BY PropertyIdAssumption DEF InUseIds
<1>2. \A r \in InUseIds : nextHisProp[r] = NoRecord \/ nextHisProp[r] \in InUseIds
  BY DEF IInv, TypeOK, HistoryAdjoins, InUseIds, Link
<1>3. \A S \in SUBSET InUseIds : S # {} => \E r \in S : nextHisProp[r] \notin S
  BY DEF IInv, HistoryAcyclic, InUseIds
<1>4. \A r \in InUseIds : entry[r] = EntryOf(r)
  OBVIOUS
<1> HIDE DEF entry
<1>5. PICK f : ReadsBack(f, InUseIds, NoRecord, nextHisProp, entry)
  <2>1. Grounded(InUseIds, NoRecord, nextHisProp)
    BY <1>1, <1>2, <1>3 DEF Grounded
  <2> QED
    BY <2>1, ReadBackExists
<1>6. f = [r \in InUseIds |-> IF nextHisProp[r] = NoRecord THEN <<EntryOf(r)>>
                              ELSE Append(f[nextHisProp[r]], EntryOf(r))]
  BY <1>4, <1>5 DEF ReadsBack
<1> QED
  BY <1>6 DEF nextHistory

HistoryEntry == [value : Value \cup {NoRecord}, start : HalfVersion, end : HalfVersion]

\* Every history is a sequence that the entry of its newest record ends.
LEMMA HistoryTyped ==
  IInv => \A r \in InUseIds : \E s \in Seq(HistoryEntry) :
            /\ nextHistory[r] = Append(s, EntryOf(r))
            /\ s = IF nextHisProp[r] = NoRecord THEN <<>> ELSE nextHistory[nextHisProp[r]]
<1> SUFFICES ASSUME IInv
             PROVE  \A r \in InUseIds : \E s \in Seq(HistoryEntry) :
                      /\ nextHistory[r] = Append(s, EntryOf(r))
                      /\ s = IF nextHisProp[r] = NoRecord THEN <<>> ELSE nextHistory[nextHisProp[r]]
  OBVIOUS
<1>1. \A r \in InUseIds : EntryOf(r) \in HistoryEntry
  BY HalvesOfStamp DEF IInv, TypeOK, InUseIds, EntryOf, HistoryEntry
<1>2. \A r \in InUseIds : nextHisProp[r] # NoRecord => nextHisProp[r] \in InUseIds
  BY DEF IInv, TypeOK, HistoryAdjoins, InUseIds, Link
<1> DEFINE odd == {r \in InUseIds : nextHistory[r] \notin Seq(HistoryEntry)}
<1>3. odd = {}
  <2> SUFFICES ASSUME odd # {} PROVE FALSE
    OBVIOUS
  <2>1. odd \in SUBSET {r \in PropertyId : inUse[r]}
    BY DEF InUseIds
  <2>2. PICK r \in InUseIds : nextHistory[r] \notin Seq(HistoryEntry) /\ nextHisProp[r] \notin odd
    BY <2>1 DEF IInv, HistoryAcyclic
  <2>3. CASE nextHisProp[r] = NoRecord
    <3>1. EntryOf(r) \in HistoryEntry
      BY <1>1
    <3>2. <<EntryOf(r)>> \in Seq(HistoryEntry)
      BY <3>1
    <3>3. nextHistory[r] = <<EntryOf(r)>>
      BY <2>2, <2>3, HistoryRead DEF FollowsLinks
    <3> QED
      BY <2>2, <3>2, <3>3
  <2>4. CASE nextHisProp[r] # NoRecord
    <3>1. nextHistory[nextHisProp[r]] \in Seq(HistoryEntry)
      BY <1>2, <2>2, <2>4
    <3>2. EntryOf(r) \in HistoryEntry
      BY <1>1
    <3>3. nextHistory[r] = Append(nextHistory[nextHisProp[r]], EntryOf(r))
      BY <2>4, HistoryRead DEF FollowsLinks
    <3> QED
      BY <2>2, <3>1, <3>2, <3>3
  <2> QED
    BY <2>3, <2>4
<1>4. \A r \in InUseIds : nextHistory[r] \in Seq(HistoryEntry)
  BY <1>3
<1> SUFFICES ASSUME NEW r \in InUseIds
             PROVE  \E s \in Seq(HistoryEntry) :
                      /\ nextHistory[r] = Append(s, EntryOf(r))
                      /\ s = IF nextHisProp[r] = NoRecord THEN <<>> ELSE nextHistory[nextHisProp[r]]
  OBVIOUS
<1> HIDE DEF odd
<1>5. CASE nextHisProp[r] = NoRecord
  <2>1. nextHistory[r] = <<EntryOf(r)>>
    BY <1>5, HistoryRead DEF FollowsLinks
  <2>2. <<EntryOf(r)>> = Append(<<>>, EntryOf(r)) /\ <<>> \in Seq(HistoryEntry)
    OBVIOUS
  <2> QED
    BY <1>5, <2>1, <2>2
<1>6. CASE nextHisProp[r] # NoRecord
  <2>1. nextHistory[r] = Append(nextHistory[nextHisProp[r]], EntryOf(r))
    BY <1>6, HistoryRead DEF FollowsLinks
  <2> QED
    BY <1>2, <1>4, <1>6, <2>1
<1> QED
  BY <1>5, <1>6

\* The histories of records that no step of X touches stay as they are.
LEMMA HistoryKept ==
  ASSUME IInv, IInv', NEW X,
         \A r \in InUseIds \ X :
           /\ r \in InUseIds'
           /\ nextHisProp'[r] = nextHisProp[r] /\ nextHisProp[r] \notin X
           /\ EntryOf(r)' = EntryOf(r)
  PROVE  \A r \in InUseIds \ X : nextHistory'[r] = nextHistory[r]
<1>1. \A r \in InUseIds' :
        nextHistory'[r] = IF nextHisProp'[r] = NoRecord THEN <<EntryOf(r)'>>
                          ELSE Append(nextHistory'[nextHisProp'[r]], EntryOf(r)')
  <2>1. FollowsLinks'
    BY HistoryRead, PTL
  <2> QED
    BY <2>1 DEF FollowsLinks
<1>2. \A r \in InUseIds : nextHisProp[r] # NoRecord => nextHisProp[r] \in InUseIds
  BY DEF IInv, TypeOK, HistoryAdjoins, InUseIds, Link
<1> DEFINE moved == {r \in InUseIds \ X : nextHistory'[r] # nextHistory[r]}
<1> SUFFICES ASSUME moved # {} PROVE FALSE
  OBVIOUS
<1>3. moved \in SUBSET {r \in PropertyId : inUse[r]}
  BY DEF InUseIds
<1>4. PICK r \in moved : nextHisProp[r] \notin moved
  BY <1>3 DEF IInv, HistoryAcyclic
<1>5. CASE nextHisProp[r] = NoRecord
  BY <1>1, <1>4, <1>5, HistoryRead DEF FollowsLinks
<1>6. CASE nextHisProp[r] # NoRecord
  <2>1. nextHistory'[nextHisProp[r]] = nextHistory[nextHisProp[r]]
    BY <1>2, <1>4, <1>6
  <2>2. nextHistory[r] = Append(nextHistory[nextHisProp[r]], EntryOf(r))
    BY <1>4, <1>6, HistoryRead DEF FollowsLinks
  <2>3. nextHistory'[r] = Append(nextHistory'[nextHisProp[r]], EntryOf(r))
    BY <1>1, <1>4, <1>6
  <2> QED
    BY <1>4, <2>1, <2>2, <2>3
<1> QED
  BY <1>5, <1>6

\* The walk finds one record of a key at most, and its history is what is read.
Mapped ==
  /\ \A p \in Primitive, k \in PropertyKey : Hosts(p, k) = {r \in Latest(p) : key[r] = k}
  /\ \A p \in Primitive, k \in PropertyKey : \A host \in Hosts(p, k) :
       Histories[p][k] = nextHistory[host]
  /\ \A p \in Primitive, k \in PropertyKey : Hosts(p, k) = {} => Histories[p][k] = <<>>

LEMMA MappedHolds == IInv => Mapped
<1> SUFFICES ASSUME IInv PROVE Mapped
  OBVIOUS
<1>1. \A p \in Primitive, k \in PropertyKey : Hosts(p, k) = {r \in Latest(p) : key[r] = k}
  BY WalkFindsLatest DEF IInv, Hosts, Latest
<1>2. ASSUME NEW p \in Primitive, NEW k \in PropertyKey, NEW host \in Hosts(p, k)
      PROVE  Histories[p][k] = nextHistory[host]
  <2>1. \A r \in Hosts(p, k) : r = host
    BY <1>1, <1>2 DEF IInv, LatestKeys
  <2>2. Hosts(p, k) # {} /\ (CHOOSE r \in Hosts(p, k) : TRUE) = host
    BY <1>2, <2>1
  <2> QED
    BY <2>2 DEF Histories
<1>3. ASSUME NEW p \in Primitive, NEW k \in PropertyKey, Hosts(p, k) = {}
      PROVE  Histories[p][k] = <<>>
  BY <1>3 DEF Histories
<1> QED
  BY <1>1, <1>2, <1>3 DEF Mapped

\* Ending the newest entry of a history.
LEMMA EndedLast ==
  ASSUME NEW s \in Seq(HistoryEntry), NEW x \in HistoryEntry, NEW e \in HalfVersion
  PROVE  /\ PH!Ended(Append(s, x), e) = Append(s, [x EXCEPT !.end = e])
         /\ Append(s, x) # <<>>
<1> DEFINE y == [x EXCEPT !.end = e]
           h == Append(s, x)
<1>1. /\ h \in Seq(HistoryEntry) /\ h # <<>>
      /\ Len(h) = Len(s) + 1
      /\ \A i \in 1 .. Len(s) : h[i] = s[i]
      /\ h[Len(s) + 1] = x
  BY AppendProperties
<1>2. y \in HistoryEntry
  BY DEF HistoryEntry
<1>3. /\ Append(s, y) \in Seq(HistoryEntry)
      /\ Len(Append(s, y)) = Len(s) + 1
      /\ \A i \in 1 .. Len(s) : Append(s, y)[i] = s[i]
      /\ Append(s, y)[Len(s) + 1] = y
  BY <1>2, AppendProperties
<1> HIDE DEF h
<1>4. PH!Ended(h, e) = [h EXCEPT ![Len(h)] = y]
  BY <1>1 DEF PH!Ended
<1> HIDE DEF y
<1>5. Len(s) \in Nat
  BY LenProperties
<1>6. Len(h) \in 1 .. Len(h)
  BY <1>1, <1>5
<1>7. /\ [h EXCEPT ![Len(h)] = y] \in Seq(HistoryEntry)
      /\ Len([h EXCEPT ![Len(h)] = y]) = Len(h)
      /\ \A i \in 1 .. Len(h) : [h EXCEPT ![Len(h)] = y][i] = IF i = Len(h) THEN y ELSE h[i]
  BY <1>1, <1>2, <1>6, ExceptSeq
<1>8. \A i \in 1 .. Len(h) : i = Len(s) + 1 \/ i \in 1 .. Len(s)
  BY <1>1, <1>5
<1>9. \A i \in 1 .. Len(h) : [h EXCEPT ![Len(h)] = y][i] = Append(s, y)[i]
  BY <1>1, <1>3, <1>5, <1>7, <1>8
<1>10. [h EXCEPT ![Len(h)] = y] = Append(s, y)
  BY <1>1, <1>3, <1>7, <1>9, SeqEqual
<1> QED
  BY <1>1, <1>4, <1>10 DEF h, y

(* An operation that leaves the records of other properties alone changes  *)
(* the history of its own property only.                                   *)
LEMMA OnlyOne ==
  ASSUME IInv, IInv', NEW p \in Primitive, NEW k \in PropertyKey, NEW X,
         \A r \in InUseIds \ X : nextHistory'[r] = nextHistory[r],
         \A q \in Primitive, j \in PropertyKey :
           q # p \/ j # k => Hosts(q, j)' = Hosts(q, j) /\ X \cap Hosts(q, j) = {}
  PROVE  Histories' = [Histories EXCEPT ![p][k] = Histories'[p][k]]
<1>1. Mapped /\ Mapped'
  BY MappedHolds, PTL
<1>2. \A q \in Primitive, j \in PropertyKey : Hosts(q, j) \subseteq InUseIds
  BY DEF Hosts, InUseIds, MainChain
<1>3. ASSUME NEW q \in Primitive, NEW j \in PropertyKey, q # p \/ j # k
      PROVE  Histories'[q][j] = Histories[q][j]
  <2>1. CASE Hosts(q, j) = {}
    BY <1>1, <1>3, <2>1 DEF Mapped
  <2>2. CASE Hosts(q, j) # {}
    <3>1. PICK host \in Hosts(q, j) : TRUE
      BY <2>2
    <3>2. host \in InUseIds \ X /\ host \in Hosts(q, j)'
      BY <1>2, <1>3
    <3>3. Histories[q][j] = nextHistory[host] /\ Histories'[q][j] = nextHistory'[host]
      BY <1>1, <3>2 DEF Mapped
    <3> QED
      BY <3>2, <3>3
  <2> QED
    BY <2>1, <2>2
<1>4. /\ Histories = [q \in Primitive |-> [j \in PropertyKey |-> Histories[q][j]]]
      /\ Histories' = [q \in Primitive |-> [j \in PropertyKey |-> Histories'[q][j]]]
  BY DEF Histories
<1> HIDE DEF Histories
<1> QED
  BY <1>3, <1>4

\* Ending a record ends the newest entry of its history.
LEMMA EndedRecord ==
  ASSUME IInv, IInv', NEW host \in InUseIds, NEW ver \in Stamp,
         host \in InUseIds', value'[host] = value[host],
         nextHisProp'[host] = nextHisProp[host],
         version'[host] = setEndVersion(getStartVersion(ver), version[host]),
         \A r \in InUseIds \ {host} : nextHistory'[r] = nextHistory[r]
  PROVE  /\ nextHistory[host] # <<>>
         /\ nextHistory'[host] = PH!Ended(nextHistory[host], getStartVersion(ver))
<1> DEFINE e == getStartVersion(ver)
           next == nextHisProp[host]
           x == EntryOf(host)
<1>1. PICK s \in Seq(HistoryEntry) :
        /\ nextHistory[host] = Append(s, x)
        /\ s = IF next = NoRecord THEN <<>> ELSE nextHistory[next]
  BY HistoryTyped
<1>2. x \in HistoryEntry /\ e \in HalfVersion
  BY HalvesOfStamp DEF IInv, TypeOK, InUseIds, EntryOf, HistoryEntry
<1>3. EntryOf(host)' = [x EXCEPT !.end = e]
  <2>1. version[host] \in Stamp
    BY DEF IInv, TypeOK, InUseIds
  <2> QED
    BY <2>1, EndedBy DEF EntryOf
<1>4. nextHistory'[host] = IF nextHisProp'[host] = NoRecord THEN <<EntryOf(host)'>>
                           ELSE Append(nextHistory'[nextHisProp'[host]], EntryOf(host)')
  <2>1. FollowsLinks'
    BY HistoryRead, PTL
  <2> QED
    BY <2>1 DEF FollowsLinks
<1>5. nextHistory'[host] = Append(s, [x EXCEPT !.end = e])
  <2>1. CASE next = NoRecord
    <3>1. Append(<<>>, [x EXCEPT !.end = e]) = <<[x EXCEPT !.end = e]>>
      OBVIOUS
    <3> QED
      BY <1>1, <1>3, <1>4, <2>1, <3>1
  <2>2. CASE next # NoRecord
    <3>1. next \in InUseIds \ {host}
      <4>1. {host} \in SUBSET {r \in PropertyId : inUse[r]} /\ {host} # {}
        BY DEF InUseIds
      <4>2. next # host
        BY <4>1 DEF IInv, HistoryAcyclic
      <4> QED
        BY <2>2, <4>2 DEF IInv, TypeOK, HistoryAdjoins, InUseIds, Link
    <3> QED
      BY <1>1, <1>3, <1>4, <2>2, <3>1
  <2> QED
    BY <2>1, <2>2
<1> QED
  BY <1>1, <1>2, <1>5, EndedLast

\* The two getters of the instance are those of DGVersion.
LEMMA SameStamps ==
  ASSUME NEW ver
  PROVE  /\ PH!getStartVersion(ver) = getStartVersion(ver)
         /\ PH!getEndVersion(ver) = getEndVersion(ver)
BY DEF PH!getStartVersion, PH!getEndVersion, getStartVersion, getEndVersion

\* A removal ends the newest value of its property's history.
LEMMA RemoveMaps ==
  ASSUME IInv, IInv',
         NEW p \in Primitive, NEW k \in PropertyKey, NEW ver \in TxVersion,
         NEW host \in Hosts(p, k), RemoveProperty(p, k, ver, host)
  PROVE  PH!RemoveProperty(p, k, ver)
<1> DEFINE e == getStartVersion(ver)
<1>1. Mapped /\ Mapped'
  BY MappedHolds, PTL
<1>2. host \in InUseIds /\ host \in PropertyId /\ prevHisProp[host] = NoRecord /\ ver \in Stamp
  BY <1>1, TxVersionAssumption DEF Mapped, Latest, InUseIds
<1>3. UNCHANGED <<first, inUse, entity, key, value, nextProp, prevProp, nextHisProp, prevHisProp>>
  BY DEF RemoveProperty, content, links, hisLinks
<1>4. /\ version'[host] = setEndVersion(e, version[host])
      /\ \A r \in PropertyId \ {host} : version'[r] = version[r]
  BY <1>2 DEF RemoveProperty, Ending, IInv, TypeOK
<1>5. \A q \in Primitive, j \in PropertyKey :
        q # p \/ j # k => Hosts(q, j)' = Hosts(q, j) /\ {host} \cap Hosts(q, j) = {}
  <2>1. \A q \in Primitive : Latest(q)' = Latest(q)
    BY <1>3 DEF Latest
  <2>2. \A q \in Primitive, j \in PropertyKey : Hosts(q, j)' = Hosts(q, j)
    BY <1>3 DEF Hosts, MainChain, Closed
  <2>3. entity[host] = p /\ key[host] = k
    BY <1>1 DEF Mapped, Latest
  <2>4. \A q \in Primitive, j \in PropertyKey : q # p \/ j # k => host \notin Hosts(q, j)
    BY <1>1, <2>3 DEF Mapped, Latest
  <2> QED
    BY <2>2, <2>4
<1>6. \A r \in InUseIds \ {host} :
        /\ r \in InUseIds'
        /\ nextHisProp'[r] = nextHisProp[r] /\ nextHisProp[r] \notin {host}
        /\ EntryOf(r)' = EntryOf(r)
  BY <1>2, <1>3, <1>4, PropertyIdAssumption DEF IInv, TypeOK, HistoryAdjoins, InUseIds, EntryOf
<1>7. \A r \in InUseIds \ {host} : nextHistory'[r] = nextHistory[r]
  BY <1>6, HistoryKept
<1>8. Histories' = [Histories EXCEPT ![p][k] = Histories'[p][k]]
  BY <1>5, <1>7, OnlyOne
<1>9. Histories[p][k] = nextHistory[host] /\ Histories'[p][k] = nextHistory'[host]
  <2>1. host \in Hosts(p, k)'
    BY <1>1, <1>3 DEF Mapped, Latest
  <2> QED
    BY <1>1, <2>1 DEF Mapped
<1>10. /\ nextHistory[host] # <<>>
       /\ nextHistory'[host] = PH!Ended(nextHistory[host], e)
  BY <1>2, <1>3, <1>4, <1>7, EndedRecord DEF InUseIds
<1> QED
  BY <1>8, <1>9, <1>10, SameStamps DEF PH!RemoveProperty

\* A write of a key that is there: the new record continues the history of the old.
LEMMA ChangeMaps ==
  ASSUME IInv, IInv',
         NEW p \in Primitive, NEW k \in PropertyKey, NEW v \in Value, NEW ver \in TxVersion,
         NEW host \in Hosts(p, k), NEW n \in FreeIds,
         ChangeProperty(p, k, v, ver, host, n)
  PROVE  PH!SetProperty(p, k, v, ver)
<1> DEFINE e == getStartVersion(ver)
<1>1. Mapped /\ Mapped'
  BY MappedHolds, PTL
<1>2. /\ host \in InUseIds /\ host \in PropertyId /\ prevHisProp[host] = NoRecord
      /\ entity[host] = p /\ key[host] = k
  BY <1>1 DEF Mapped, Latest, InUseIds
<1>3. n \in PropertyId /\ n \notin InUseIds /\ n # host /\ ver \in Stamp
  BY <1>2, TxVersionAssumption DEF FreeIds, InUseIds
<1>4. /\ inUse' = [inUse EXCEPT ![n] = TRUE] /\ entity' = [entity EXCEPT ![n] = p]
      /\ key' = [key EXCEPT ![n] = k] /\ value' = [value EXCEPT ![n] = v]
      /\ version' = [version EXCEPT ![n] = ver, ![host] = setEndVersion(e, version[host])]
      /\ nextHisProp' = [nextHisProp EXCEPT ![n] = host]
      /\ prevHisProp' = [prevHisProp EXCEPT ![n] = NoRecord, ![host] = n]
  BY DEF ChangeProperty, NewBlock, TakePlace, BecomeHistory, Ending
<1>5. /\ inUse'[n] /\ entity'[n] = p /\ key'[n] = k /\ value'[n] = v /\ version'[n] = ver
      /\ nextHisProp'[n] = host /\ prevHisProp'[n] = NoRecord
      /\ inUse'[host] /\ value'[host] = value[host] /\ nextHisProp'[host] = nextHisProp[host]
      /\ version'[host] = setEndVersion(e, version[host]) /\ prevHisProp'[host] = n
  BY <1>2, <1>3, <1>4 DEF IInv, TypeOK, InUseIds
<1>6. \A r \in PropertyId \ {n, host} :
        /\ inUse'[r] = inUse[r] /\ entity'[r] = entity[r] /\ key'[r] = key[r]
        /\ value'[r] = value[r] /\ version'[r] = version[r]
        /\ nextHisProp'[r] = nextHisProp[r] /\ prevHisProp'[r] = prevHisProp[r]
  BY <1>4 DEF IInv, TypeOK
<1>7. \A q \in Primitive, j \in PropertyKey :
        q # p \/ j # k => Hosts(q, j)' = Hosts(q, j) /\ {host} \cap Hosts(q, j) = {}
  <2> SUFFICES ASSUME NEW q \in Primitive, NEW j \in PropertyKey, q # p \/ j # k
               PROVE  Hosts(q, j)' = Hosts(q, j) /\ host \notin Hosts(q, j)
    OBVIOUS
  <2>1. \A r : r \in Hosts(q, j) <=> r \in PropertyId /\ inUse[r] /\ prevHisProp[r] = NoRecord
                                     /\ entity[r] = q /\ key[r] = j
    BY <1>1 DEF Mapped, Latest
  <2>2. \A r : r \in Hosts(q, j)' <=> r \in PropertyId /\ inUse'[r] /\ prevHisProp'[r] = NoRecord
                                      /\ entity'[r] = q /\ key'[r] = j
    BY <1>1 DEF Mapped, Latest
  <2>3. n # NoRecord
    BY <1>3, PropertyIdAssumption
  <2>4. ~inUse[n] /\ inUse[host]
    BY <1>2, <1>3 DEF InUseIds
  <2>5. \A r \in PropertyId \ {n, host} : r \in Hosts(q, j)' <=> r \in Hosts(q, j)
    BY <1>6, <2>1, <2>2
  <2>6. n \notin Hosts(q, j)' /\ n \notin Hosts(q, j)
    BY <1>5, <2>1, <2>2, <2>4
  <2>7. host \notin Hosts(q, j)' /\ host \notin Hosts(q, j)
    BY <1>2, <1>5, <2>1, <2>2, <2>3
  <2>8. \A r : r \in Hosts(q, j)' <=> r \in Hosts(q, j)
    BY <2>1, <2>2, <2>5, <2>6, <2>7
  <2> QED
    BY <2>7, <2>8
<1>8. \A r \in InUseIds \ {host} :
        /\ r \in InUseIds'
        /\ nextHisProp'[r] = nextHisProp[r] /\ nextHisProp[r] \notin {host}
        /\ EntryOf(r)' = EntryOf(r)
  BY <1>2, <1>3, <1>6, PropertyIdAssumption DEF IInv, TypeOK, HistoryAdjoins, InUseIds, EntryOf
<1>9. \A r \in InUseIds \ {host} : nextHistory'[r] = nextHistory[r]
  BY <1>8, HistoryKept
<1>10. Histories' = [Histories EXCEPT ![p][k] = Histories'[p][k]]
  BY <1>7, <1>9, OnlyOne
<1>11. Histories[p][k] = nextHistory[host] /\ Histories'[p][k] = nextHistory'[n]
  <2>1. n \in Hosts(p, k)'
    BY <1>1, <1>3, <1>5 DEF Mapped, Latest
  <2> QED
    BY <1>1, <2>1 DEF Mapped
<1>12. nextHistory'[host] = PH!Ended(nextHistory[host], e)
  BY <1>2, <1>3, <1>5, <1>9, EndedRecord DEF InUseIds
<1>13. nextHistory'[n] = Append(nextHistory'[host], EntryOf(n)')
  <2>1. FollowsLinks'
    BY HistoryRead, PTL
  <2>2. n \in InUseIds' /\ nextHisProp'[n] = host /\ host # NoRecord
    BY <1>2, <1>3, <1>5, PropertyIdAssumption DEF InUseIds
  <2> QED
    BY <2>1, <2>2 DEF FollowsLinks
<1>14. EntryOf(n)' = PH!Entry(v, ver)
  BY <1>5, SameStamps DEF EntryOf, PH!Entry
<1> QED
  BY <1>10, <1>11, <1>12, <1>13, <1>14, SameStamps DEF PH!SetProperty

\* A write of a key that is not there begins a history.
LEMMA AddMaps ==
  ASSUME IInv, IInv',
         NEW p \in Primitive, NEW k \in PropertyKey, NEW v \in Value, NEW ver \in TxVersion,
         Hosts(p, k) = {}, NEW n \in FreeIds,
         AddProperty(p, k, v, ver, n)
  PROVE  PH!SetProperty(p, k, v, ver)
<1>1. Mapped /\ Mapped'
  BY MappedHolds, PTL
<1>2. n \in PropertyId /\ n \notin InUseIds
  BY DEF FreeIds, InUseIds
<1>3. /\ inUse' = [inUse EXCEPT ![n] = TRUE] /\ entity' = [entity EXCEPT ![n] = p]
      /\ key' = [key EXCEPT ![n] = k] /\ value' = [value EXCEPT ![n] = v]
      /\ version' = [version EXCEPT ![n] = ver]
      /\ nextHisProp' = [nextHisProp EXCEPT ![n] = NoRecord]
      /\ prevHisProp' = [prevHisProp EXCEPT ![n] = NoRecord]
  BY DEF AddProperty, NewBlock, NewHead
<1>4. /\ inUse'[n] /\ entity'[n] = p /\ key'[n] = k /\ value'[n] = v /\ version'[n] = ver
      /\ nextHisProp'[n] = NoRecord /\ prevHisProp'[n] = NoRecord
  BY <1>2, <1>3 DEF IInv, TypeOK
<1>5. \A r \in PropertyId \ {n} :
        /\ inUse'[r] = inUse[r] /\ entity'[r] = entity[r] /\ key'[r] = key[r]
        /\ value'[r] = value[r] /\ version'[r] = version[r]
        /\ nextHisProp'[r] = nextHisProp[r] /\ prevHisProp'[r] = prevHisProp[r]
  BY <1>3 DEF IInv, TypeOK
<1>6. \A q \in Primitive, j \in PropertyKey :
        q # p \/ j # k => Hosts(q, j)' = Hosts(q, j) /\ {} \cap Hosts(q, j) = {}
  <2> SUFFICES ASSUME NEW q \in Primitive, NEW j \in PropertyKey, q # p \/ j # k
               PROVE  Hosts(q, j)' = Hosts(q, j)
    OBVIOUS
  <2>1. \A r : r \in Hosts(q, j) <=> r \in PropertyId /\ inUse[r] /\ prevHisProp[r] = NoRecord
                                     /\ entity[r] = q /\ key[r] = j
    BY <1>1 DEF Mapped, Latest
  <2>2. \A r : r \in Hosts(q, j)' <=> r \in PropertyId /\ inUse'[r] /\ prevHisProp'[r] = NoRecord
                                      /\ entity'[r] = q /\ key'[r] = j
    BY <1>1 DEF Mapped, Latest
  <2>3. \A r \in PropertyId \ {n} : r \in Hosts(q, j)' <=> r \in Hosts(q, j)
    BY <1>5, <2>1, <2>2
  <2>4. n \notin Hosts(q, j)' /\ n \notin Hosts(q, j)
    BY <1>2, <1>4, <2>1, <2>2 DEF InUseIds
  <2>5. \A r : r \in Hosts(q, j)' <=> r \in Hosts(q, j)
    BY <2>1, <2>2, <2>3, <2>4
  <2> QED
    BY <2>5
<1>7. \A r \in InUseIds \ {} :
        /\ r \in InUseIds'
        /\ nextHisProp'[r] = nextHisProp[r] /\ nextHisProp[r] \notin {}
        /\ EntryOf(r)' = EntryOf(r)
  BY <1>2, <1>5 DEF InUseIds, EntryOf
<1>8. \A r \in InUseIds \ {} : nextHistory'[r] = nextHistory[r]
  BY <1>7, HistoryKept
<1>9. Histories' = [Histories EXCEPT ![p][k] = Histories'[p][k]]
  BY <1>6, <1>8, OnlyOne
<1>10. Histories[p][k] = <<>> /\ Histories'[p][k] = nextHistory'[n]
  <2>1. n \in Hosts(p, k)'
    BY <1>1, <1>2, <1>4 DEF Mapped, Latest
  <2> QED
    BY <1>1, <2>1 DEF Mapped
<1>11. nextHistory'[n] = <<EntryOf(n)'>>
  <2>1. FollowsLinks'
    BY HistoryRead, PTL
  <2> QED
    BY <1>2, <1>4, <2>1 DEF FollowsLinks, InUseIds
<1>12. EntryOf(n)' = PH!Entry(v, ver)
  BY <1>4, SameStamps DEF EntryOf, PH!Entry
<1>13. /\ PH!Ended(<<>>, PH!getStartVersion(ver)) = <<>>
       /\ Append(<<>>, PH!Entry(v, ver)) = <<PH!Entry(v, ver)>>
  BY DEF PH!Ended
<1> QED
  BY <1>9, <1>10, <1>11, <1>12, <1>13 DEF PH!SetProperty

\* A physical deletion forgets the histories of its primitive.
LEMMA DeleteMaps ==
  ASSUME IInv, IInv', NEW p \in Primitive, DeletePropertyChain(p)
  PROVE  PH!Forget(p)
<1> DEFINE X == Latest(p)
<1>1. Mapped /\ Mapped'
  BY MappedHolds, PTL
<1>2. MainChain(p) = X
  BY WalkFindsLatest DEF IInv
<1>3. \A r \in X : ~inUse'[r]
  BY <1>2 DEF DeletePropertyChain, Blanked, Latest
<1>4. \A r \in PropertyId \ X :
        /\ inUse'[r] = inUse[r] /\ entity'[r] = entity[r] /\ key'[r] = key[r]
        /\ value'[r] = value[r] /\ version'[r] = version[r]
        /\ nextHisProp'[r] = nextHisProp[r] /\ prevHisProp'[r] = prevHisProp[r]
  BY <1>2 DEF DeletePropertyChain, Blanked
<1>5. \A r \in InUseIds \ X :
        /\ r \in InUseIds'
        /\ nextHisProp'[r] = nextHisProp[r] /\ nextHisProp[r] \notin X
        /\ EntryOf(r)' = EntryOf(r)
  BY <1>4, PropertyIdAssumption DEF IInv, TypeOK, HistoryAdjoins, InUseIds, EntryOf, Latest
<1>6. \A r \in InUseIds \ X : nextHistory'[r] = nextHistory[r]
  BY <1>5, HistoryKept
<1>7. ASSUME NEW j \in PropertyKey
      PROVE  Histories'[p][j] = <<>>
  <2>1. Latest(p)' = {}
    BY <1>3, <1>4 DEF Latest
  <2>2. Hosts(p, j)' = {}
    BY <1>1, <2>1 DEF Mapped
  <2> QED
    BY <1>1, <2>2 DEF Mapped
<1>8. ASSUME NEW q \in Primitive, q # p, NEW j \in PropertyKey
      PROVE  Histories'[q][j] = Histories[q][j]
  <2>1. Hosts(q, j)' = Hosts(q, j) /\ Hosts(q, j) \subseteq InUseIds \ X
    <3>1. \A r : r \in Hosts(q, j) <=> r \in PropertyId /\ inUse[r] /\ prevHisProp[r] = NoRecord
                                       /\ entity[r] = q /\ key[r] = j
      BY <1>1 DEF Mapped, Latest
    <3>2. \A r : r \in Hosts(q, j)' <=> r \in PropertyId /\ inUse'[r] /\ prevHisProp'[r] = NoRecord
                                        /\ entity'[r] = q /\ key'[r] = j
      BY <1>1 DEF Mapped, Latest
    <3>3. \A r \in X : entity[r] = p
      BY DEF Latest
    <3> HIDE DEF X
    <3> QED
      BY <1>3, <1>4, <1>8, <3>1, <3>2, <3>3 DEF InUseIds
  <2>2. CASE Hosts(q, j) = {}
    BY <1>1, <2>1, <2>2 DEF Mapped
  <2>3. CASE Hosts(q, j) # {}
    <3>1. PICK host \in Hosts(q, j) : TRUE
      BY <2>3
    <3>2. host \in InUseIds \ X /\ host \in Hosts(q, j)'
      BY <2>1
    <3>3. Histories[q][j] = nextHistory[host] /\ Histories'[q][j] = nextHistory'[host]
      BY <1>1, <3>2 DEF Mapped
    <3> QED
      BY <1>6, <3>2, <3>3
  <2> QED
    BY <2>2, <2>3
<1>9. /\ Histories = [q \in Primitive |-> [j \in PropertyKey |-> Histories[q][j]]]
      /\ Histories' = [q \in Primitive |-> [j \in PropertyKey |-> Histories'[q][j]]]
  BY DEF Histories
<1> HIDE DEF Histories
<1>10. Histories' = [Histories EXCEPT ![p] = [j \in PropertyKey |-> <<>>]]
  BY <1>7, <1>8, <1>9
<1> QED
  BY <1>10 DEF PH!Forget

(* The records implement the histories: what RecordPropertyCursor reads of *)
(* a property changes as a write, a removal or a deletion of PropertyHistory *)
(* says, and of no other property, whatever is stored and in what order    *)
(* versions come.                                                          *)
THEOREM Implementation == Spec => ImplementsHistory
<1>1. Init => PH!Init
  <2> SUFFICES ASSUME Init PROVE PH!Init
    OBVIOUS
  <2>1. \A p \in Primitive, k \in PropertyKey : Hosts(p, k) = {}
    BY DEF Init, Hosts, MainChain
  <2> QED
    BY <2>1 DEF PH!Init, Histories
<1>2. IInv /\ IInv' /\ [Next]_vars => [PH!Next]_Histories
  <2> SUFFICES ASSUME IInv, IInv', [Next]_vars PROVE [PH!Next]_Histories
    OBVIOUS
  <2>1. ASSUME NEW p \in Primitive, NEW k \in PropertyKey, NEW v \in Value, NEW ver \in TxVersion,
               Set(p, k, v, ver)
        PROVE  PH!SetProperty(p, k, v, ver)
    BY <2>1, ChangeMaps, AddMaps DEF Set
  <2>2. ASSUME NEW p \in Primitive, NEW k \in PropertyKey, NEW ver \in TxVersion, Remove(p, k, ver)
        PROVE  PH!RemoveProperty(p, k, ver)
    BY <2>2, RemoveMaps DEF Remove
  <2>3. ASSUME NEW p \in Primitive, DeletePropertyChain(p)
        PROVE  PH!Forget(p)
    BY <2>3, DeleteMaps
  <2>4. CASE UNCHANGED vars
    BY <2>4 DEF vars, content, links, hisLinks, Histories, Hosts, MainChain, Closed, nextHistory,
      InUseIds, EntryOf
  <2> QED
    BY <2>1, <2>2, <2>3, <2>4 DEF Next, PH!Next
<1> QED
  BY <1>1, <1>2, Invariance, PTL DEF Spec, ImplementsHistory, PH!Spec

==============================================================================
