---------------------------- MODULE RunGCProofs ----------------------------
(***************************************************************************)
(* Proofs about the garbage collection of builds, for any number of builds *)
(* and of replicas, and any retention count.                               *)
(***************************************************************************)
EXTENDS RunGC, ClusterProofs, FiniteSetTheorems

(***************************************************************************)
(* What is known of the CIB named n, to the API server or to a cache.      *)
(***************************************************************************)
Records(n) == ({cib[n]} \cup {cibCache[r][n] : r \in Replicas}) \ {NoCib}

(***************************************************************************)
(* A record, however old, has the uid that was given out with its name,    *)
(* was not created in the future, and if it is finished its CIB has been.  *)
(***************************************************************************)
RecordOK(n, x) ==
  /\ Given(n, x.uid)
  /\ x.created <= clock
  /\ x.state \in Finished => x.uid \in everFinished

RecordInv == \A n \in Names : \A x \in Records(n) : RecordOK(n, x)

(***************************************************************************)
(* Creation times are in the order of the uids.                            *)
(***************************************************************************)
InOrder(x, y) == x.uid < y.uid => x.created < y.created

StampInv == \A m, n \in Names : \A x \in Records(m), y \in Records(n) : InOrder(x, y)

(***************************************************************************)
(* The finished builds that are newer than u.                              *)
(***************************************************************************)
Newer(u) == {v \in everFinished : v > u}

(***************************************************************************)
(* A sweep has listed finished builds, and each of them when there were    *)
(* Retention newer ones, deleted or not.  Other sweeps may have deleted    *)
(* those by now.                                                           *)
(***************************************************************************)
SweepInv ==
  \A r \in Replicas : \A i \in DOMAIN sweep[r] :
    sweep[r][i] \in DOMAIN nameOf /\ sweep[r][i] \in everFinished

SweepCount ==
  \A r \in Replicas : \A i \in DOMAIN sweep[r] : Cardinality(Newer(sweep[r][i])) >= Retention

(***************************************************************************)
(* No two CIBs are created in the same second.                             *)
(***************************************************************************)
DistinctStamps == 0 \notin StampSteps

IInv ==
  /\ TypeOK
  /\ RecordInv
  /\ SweepInv
  /\ NoReuse => NamesDiffer /\ OnlyFinishedCollected
  /\ NoReuse /\ DistinctStamps => StampInv /\ SweepCount /\ NewestKept

-----------------------------------------------------------------------------
(***************************************************************************)
(* Facts about the sets that are counted                                   *)
(***************************************************************************)

(***************************************************************************)
(* A set of CIBs is finite and can be counted.                             *)
(***************************************************************************)
LEMMA UidSets ==
  ASSUME NEW S, S \subseteq Uids
  PROVE  IsFiniteSet(S) /\ Cardinality(S) \in Nat
<1>1. IsFiniteSet(Uids)
  BY MaxUidAssumption, FS_Interval DEF Uids
<1>2. IsFiniteSet(S)
  BY <1>1, FS_Subset
<1> QED
  BY <1>2, FS_CardinalityType

(***************************************************************************)
(* A set that has Retention elements still has them when it grows.         *)
(***************************************************************************)
LEMMA LargerSet ==
  ASSUME NEW S, NEW T, S \subseteq T, T \subseteq Uids, Cardinality(S) >= Retention
  PROVE  Cardinality(T) >= Retention
<1>1. IsFiniteSet(T) /\ Cardinality(T) \in Nat /\ Cardinality(S) \in Nat
  BY UidSets
<1>2. Cardinality(S) <= Cardinality(T)
  BY <1>1, FS_Subset
<1> QED
  BY <1>1, <1>2, RetentionAssumption

(***************************************************************************)
(* One more deletion, of a build with Retention newer ones, takes nothing  *)
(* from what has to be kept: if it is the newest of those deleted, none of *)
(* the newer ones is deleted; else what is kept of a newer one will do.    *)
(***************************************************************************)
LEMMA OneMoreDeleted ==
  ASSUME TypeOK, NewestKept, NEW u \in Uids, Cardinality(Newer(u)) >= Retention
  PROVE  \A w \in collected \cup {u} :
           Cardinality({v \in everFinished \ (collected \cup {u}) : v > w}) >= Retention
<1> DEFINE Kept(w) == {v \in everFinished \ (collected \cup {u}) : v > w}
           KeptBefore(w) == {v \in everFinished \ collected : v > w}
<1>0. Uids \subseteq Nat /\ collected \subseteq Uids /\ everFinished \subseteq Uids
  BY DEF Uids, TypeOK
<1> SUFFICES ASSUME NEW w \in collected \cup {u} PROVE Cardinality(Kept(w)) >= Retention
  BY Zenon
<1>1. CASE \E c \in collected : c >= u
  <2>1. PICK c \in collected : c >= u
    BY <1>1
  <2>2. PICK d \in collected : d >= u /\ d >= w
    BY <1>0, <2>1
  <2>3. KeptBefore(d) \subseteq Kept(w)
    <3>1. ASSUME NEW v \in KeptBefore(d) PROVE v \in Kept(w)
      <4>1. v \in everFinished \ collected /\ v > d
        OBVIOUS
      <4>2. v \in Nat /\ w \in Nat /\ d \in Nat /\ u \in Nat
        BY <1>0, <4>1
      <4>3. v > w /\ v # u
        BY <2>2, <4>1, <4>2
      <4> QED
        BY <4>1, <4>3
    <3> QED
      BY <3>1
  <2>4. Cardinality(KeptBefore(d)) >= Retention
    BY <2>2 DEF NewestKept
  <2> QED
    BY Zenon, <1>0, <2>3, <2>4, LargerSet
<1>2. CASE \A c \in collected : c < u
  <2>1. Newer(u) \subseteq Kept(w)
    <3>1. ASSUME NEW v \in Newer(u) PROVE v \in Kept(w)
      <4>1. v \in everFinished /\ v > u
        BY DEF Newer
      <4>2. v \in Nat /\ w \in Nat /\ u \in Nat /\ w <= u
        BY <1>0, <1>2, <4>1
      <4>3. v > w /\ v # u /\ v \notin collected
        BY <1>0, <1>2, <4>1, <4>2
      <4> QED
        BY <4>1, <4>3
    <3> QED
      BY <3>1
  <2> QED
    BY Zenon, <1>0, <2>1, LargerSet
<1> QED
  BY <1>0, <1>1, <1>2

-----------------------------------------------------------------------------
(***************************************************************************)
(* Records                                                                 *)
(***************************************************************************)

(***************************************************************************)
(* A record of a CIB, in the cluster or in a cache, is well typed.         *)
(***************************************************************************)
LEMMA RecordType ==
  ASSUME TypeOK, NEW n \in Names, NEW x \in Records(n)
  PROVE  x \in Cibs /\ x.uid \in Uids /\ x.created \in Nat
  BY DEF TypeOK, ClusterTypeOK, Records, Cibs, Stamps

\* Record y comes from record x.
From(y, x) ==
  /\ y.uid = x.uid
  /\ y.created = x.created
  /\ y.state \in Finished => x.state \in Finished \/ x.uid \in everFinished'

Derived ==
  /\ UNCHANGED <<nameOf, clock>>
  /\ everFinished \subseteq everFinished'
  /\ \A n \in Names : \A y \in Records(n)' : \E x \in Records(n) : From(y, x)

(***************************************************************************)
(* When every record comes from an earlier one of the same CIB, which has  *)
(* finished if the new one says so, the records stay in order.  This is    *)
(* every step but the creation of a CIB.                                   *)
(***************************************************************************)
LEMMA DerivedRecords ==
  ASSUME Derived, RecordInv
  PROVE  /\ RecordInv'
         /\ NamesDiffer => NamesDiffer'
         /\ StampInv => StampInv'
<1>1. RecordInv'
  <2> SUFFICES ASSUME NEW n \in Names, NEW y \in Records(n)' PROVE RecordOK(n, y)'
    BY Zenon DEF RecordInv
  <2>1. PICK x \in Records(n) : From(y, x)
    BY DEF Derived
  <2>2. RecordOK(n, x)
    BY DEF RecordInv
  <2> QED
    BY <2>1, <2>2 DEF From, RecordOK, Given, Derived
<1>2. NamesDiffer => NamesDiffer'
  BY DEF Derived, NamesDiffer
<1>3. ASSUME StampInv PROVE StampInv'
  <2> SUFFICES ASSUME NEW m \in Names, NEW n \in Names,
                      NEW y \in Records(m)', NEW z \in Records(n)'
               PROVE  InOrder(y, z)
    BY Zenon DEF StampInv, InOrder
  <2>1. PICK w \in Records(m) : From(y, w)
    BY DEF Derived
  <2>2. PICK x \in Records(n) : From(z, x)
    BY DEF Derived
  <2>3. InOrder(w, x)
    BY <1>3 DEF StampInv
  <2> QED
    BY <2>1, <2>2, <2>3 DEF From, InOrder
<1> QED
  BY <1>1, <1>2, <1>3

(***************************************************************************)
(* A write to one CIB, or its removal, derives the records.                *)
(***************************************************************************)
LEMMA WriteDerives ==
  ASSUME TypeOK, NEW n \in Names, Exists(n), NEW s \in BuildStates,
         \/ WriteState(n, s) /\ cib[n].uid \in everFinished'
         \/ ForegroundDelete(n)
         \/ RemoveCib(n),
         UNCHANGED <<nameOf, clock, cibCache>>, everFinished \subseteq everFinished'
  PROVE  Derived
<1>1. cib \in [Names -> Cibs \cup {NoCib}] /\ cib[n] \in Cibs
  BY DEF TypeOK, ClusterTypeOK, Exists
<1> SUFFICES ASSUME NEW m \in Names, NEW y \in Records(m)'
             PROVE  \E x \in Records(m) : From(y, x)
  BY Zenon DEF Derived
<1>2. CASE y \in Records(m)
  BY <1>2 DEF From
<1>3. CASE y \notin Records(m)
  <2>1. y = cib'[m] /\ y # NoCib /\ y # cib[m]
    BY <1>3 DEF Records
  <2>2. m = n
    BY <1>1, <2>1 DEF WriteState, ForegroundDelete, RemoveCib
  <2>3. From(y, cib[n])
    BY <1>1, <2>1, <2>2 DEF From, WriteState, ForegroundDelete, RemoveCib, Cibs
  <2>4. cib[n] \in Records(n)
    BY DEF Records, Exists
  <2> QED
    BY <2>2, <2>3, <2>4
<1> QED
  BY <1>2, <1>3

(***************************************************************************)
(* So does a cache that is brought up to date, in part or as a whole.      *)
(***************************************************************************)
LEMMA CacheDerives ==
  ASSUME TypeOK, NEW r \in Replicas, UNCHANGED <<cib, nameOf, clock, everFinished>>,
         \/ \E n \in Names : cibCache' = [cibCache EXCEPT ![r][n] = cib[n]]
         \/ cibCache' = [cibCache EXCEPT ![r] = cib]
  PROVE  Derived
<1>1. cibCache \in [Replicas -> [Names -> Cibs \cup {NoCib}]]
  BY DEF TypeOK, ClusterTypeOK
<1>2. \A q \in Replicas, m \in Names : cibCache'[q][m] \in {cibCache[q][m], cib[m]}
  BY <1>1
<1> SUFFICES ASSUME NEW m \in Names, NEW y \in Records(m)'
             PROVE  \E x \in Records(m) : From(y, x)
  BY Zenon DEF Derived
<1>3. y \in Records(m)
  BY <1>2 DEF Records
<1> QED
  BY <1>3 DEF From

-----------------------------------------------------------------------------
(***************************************************************************)
(* The list of builds                                                      *)
(***************************************************************************)

(***************************************************************************)
(* What a cache knows of a finished build: two builds have two uids.       *)
(***************************************************************************)
LEMMA FinishedRecords ==
  ASSUME TypeOK, RecordInv, NEW r \in Replicas, NEW n \in FinishedBuilds(r)
  PROVE  /\ n \in Names
         /\ cibCache[r][n] \in Records(n)
         /\ cibCache[r][n].uid \in Uids
         /\ cibCache[r][n].uid \in everFinished
         /\ cibCache[r][n].uid \in DOMAIN nameOf
         /\ nameOf[cibCache[r][n].uid] = n
         /\ cibCache[r][n].created \in Nat
<1>1. n \in Names /\ cibCache[r][n] \in Records(n) /\ cibCache[r][n].state \in Finished
  BY DEF FinishedBuilds, Records
<1>2. RecordOK(n, cibCache[r][n])
  BY <1>1 DEF RecordInv
<1> QED
  BY <1>1, <1>2, RecordType DEF RecordOK, Given

(***************************************************************************)
(* There are finitely many of them, whatever the names are.                *)
(***************************************************************************)
LEMMA FinitelyMany ==
  ASSUME TypeOK, RecordInv, NEW r \in Replicas
  PROVE  Cardinality(FinishedBuilds(r)) \in Nat
<1> DEFINE f == [n \in FinishedBuilds(r) |-> cibCache[r][n].uid]
<1>1. f \in [FinishedBuilds(r) -> Uids]
  BY FinishedRecords
<1>2. ASSUME NEW m \in FinishedBuilds(r), NEW n \in FinishedBuilds(r), f[m] = f[n]
      PROVE  m = n
  BY <1>2, FinishedRecords
<1>3. f \in Injection(FinishedBuilds(r), Uids)
  BY <1>1, <1>2 DEF Injection, IsInjective
<1>4. IsFiniteSet(Uids)
  BY UidSets
<1>5. IsFiniteSet(FinishedBuilds(r))
  BY <1>3, <1>4, FS_Injection
<1> QED
  BY <1>5, FS_CardinalityType

(***************************************************************************)
(* sort.Slice puts the Retention newest builds behind those listed.        *)
(***************************************************************************)
LEMMA ListedHasNewer ==
  ASSUME TypeOK, RecordInv, StampInv, NEW r \in Replicas,
         NEW s \in SortedBuilds(r), NEW i \in 1..Excess(r)
  PROVE  Cardinality(Newer(cibCache[r][s[i]].uid)) >= Retention
<1> DEFINE N == Cardinality(FinishedBuilds(r))
           Kept == (N - Retention + 1)..N
           U(j) == cibCache[r][s[j]].uid
           g == [j \in Kept |-> U(j)]
<1>1. N \in Nat /\ Retention \in Nat
  BY FinitelyMany, RetentionAssumption
<1>2. s \in [1..N -> FinishedBuilds(r)]
  BY DEF SortedBuilds
<1>3. \A j, k \in 1..N :
         j < k => /\ s[j] # s[k]
                  /\ cibCache[r][s[j]].created <= cibCache[r][s[k]].created
  BY <1>2 DEF SortedBuilds
<1>4. i \in 1..N /\ Kept \subseteq 1..N /\ \A j \in Kept : i < j
  BY <1>1 DEF Excess
<1>5. \A j, k \in 1..N : j # k => U(j) # U(k)
  <2>1. \A j, k \in 1..N : j # k => s[j] # s[k]
    BY <1>1, <1>3
  <2> QED
    BY <1>2, <2>1, FinishedRecords
<1>6. ASSUME NEW j \in Kept PROVE U(j) \in Newer(U(i))
  <2>1. j \in 1..N /\ i < j
    BY <1>4
  <2>2. U(i) # U(j)
    BY <1>4, <1>5, <2>1
  <2>3. cibCache[r][s[i]].created <= cibCache[r][s[j]].created
    BY <1>3, <1>4, <2>1
  <2>4. s[i] \in FinishedBuilds(r) /\ s[j] \in FinishedBuilds(r)
    BY <1>2, <1>4, <2>1
  <2>5. InOrder(cibCache[r][s[j]], cibCache[r][s[i]])
    BY <2>4, FinishedRecords DEF StampInv
  <2>6. /\ cibCache[r][s[i]].created \in Nat /\ cibCache[r][s[j]].created \in Nat
        /\ U(i) \in Uids /\ U(j) \in Uids /\ U(j) \in everFinished
    BY <2>4, FinishedRecords
  <2>7. U(j) > U(i)
    BY <2>2, <2>3, <2>5, <2>6 DEF InOrder, Uids
  <2> QED
    BY <2>6, <2>7 DEF Newer
<1>7. g \in Injection(Kept, Newer(U(i)))
  <2>1. g \in [Kept -> Newer(U(i))]
    BY <1>6
  <2>2. \A j, k \in Kept : g[j] = g[k] => j = k
    BY <1>4, <1>5
  <2> QED
    BY <2>1, <2>2 DEF Injection, IsInjective
<1>8. IsFiniteSet(Newer(U(i))) /\ Cardinality(Newer(U(i))) \in Nat
  BY UidSets DEF Newer, TypeOK
<1>9. Cardinality(Kept) <= Cardinality(Newer(U(i)))
  BY <1>7, <1>8, FS_Injection
<1>10. Cardinality(Kept) = Retention
  <2>1. N - Retention + 1 \in Int /\ N \in Int
    BY <1>1
  <2>2. Cardinality(Kept) = IF N - Retention + 1 > N THEN 0 ELSE N - (N - Retention + 1) + 1
    BY <2>1, FS_Interval
  <2> QED
    BY <1>1, <2>2
<1> QED
  BY <1>1, <1>8, <1>9, <1>10

-----------------------------------------------------------------------------
(***************************************************************************)
(* The steps                                                               *)
(***************************************************************************)

(***************************************************************************)
(* Nothing is created, listed or deleted at first.                         *)
(***************************************************************************)
LEMMA InitInv == Init => IInv
<1> SUFFICES ASSUME Init PROVE IInv
  OBVIOUS
<1>1. ClusterTypeOK
  BY ClusterInitType DEF Init
<1>2. \A n \in Names : Records(n) = {}
  BY DEF Init, ClusterInit, Records
<1>3. nameOf = <<>> /\ DOMAIN nameOf = {}
  BY DEF Init, ClusterInit
<1>4. \A r \in Replicas : sweep[r] = <<>> /\ DOMAIN sweep[r] = {}
  BY DEF Init
<1>5. TypeOK
  BY <1>1 DEF Init, TypeOK
<1>6. RecordInv /\ StampInv
  BY <1>2 DEF RecordInv, StampInv
<1>7. SweepInv /\ SweepCount
  BY <1>4 DEF SweepInv, SweepCount
<1>8. NamesDiffer /\ OnlyFinishedCollected /\ NewestKept
  BY <1>3 DEF NamesDiffer, Init, OnlyFinishedCollected, NewestKept
<1> QED
  BY <1>5, <1>6, <1>7, <1>8 DEF IInv

(***************************************************************************)
(* A step that leaves the collector alone and derives the records.         *)
(***************************************************************************)
LEMMA DerivedInv ==
  ASSUME IInv, Derived, TypeOK', UNCHANGED gcVars
  PROVE  IInv'
<1>1. /\ RecordInv'
      /\ NamesDiffer => NamesDiffer'
      /\ StampInv => StampInv'
  BY DerivedRecords DEF IInv
<1>2. SweepInv'
  BY DEF IInv, SweepInv, Derived, gcVars
<1>3. /\ SweepCount => SweepCount'
      /\ OnlyFinishedCollected => OnlyFinishedCollected'
      /\ NewestKept => NewestKept'
  BY DEF SweepCount, Newer, OnlyFinishedCollected, NewestKept, gcVars
<1> QED
  BY <1>1, <1>2, <1>3 DEF IInv, NoReuse, DistinctStamps

(***************************************************************************)
(* The new CIB has a uid above all others and, when the clock advances     *)
(* between two creates, a creationTimestamp above all others.              *)
(***************************************************************************)
LEMMA CreateInv ==
  ASSUME IInv, NEW n \in Names, CreateCib(n), UNCHANGED gcVars
  PROVE  IInv'
<1> DEFINE u == Len(nameOf) + 1
           new == [uid |-> u, created |-> clock', state |-> "", ver |-> 1,
                   deleting |-> FALSE]
<1>1. /\ cib \in [Names -> Cibs \cup {NoCib}] /\ nameOf \in Seq(Names)
      /\ Len(nameOf) \in Nat /\ clock \in Nat
  BY DEF IInv, TypeOK, ClusterTypeOK, Stamps
<1>2. cib' = [cib EXCEPT ![n] = new] /\ UNCHANGED cibCache
  BY Zenon DEF CreateCib
<1>3. PICK d \in StampSteps : clock' = clock + d
  BY Zenon DEF CreateCib
<1>4. clock' \in Nat /\ clock <= clock' /\ (DistinctStamps => clock < clock')
  BY <1>1, <1>3, StampStepsAssumption DEF DistinctStamps
<1>5. /\ DOMAIN nameOf = 1..Len(nameOf) /\ DOMAIN nameOf' = DOMAIN nameOf \cup {u}
      /\ nameOf'[u] = n
      /\ \A m, v : Given(m, v) => Given(m, v)'
  <2>1. DOMAIN nameOf = 1..Len(nameOf)
    BY <1>1
  <2>2. ClusterTypeOK
    BY DEF IInv, TypeOK
  <2> QED
    BY Zenon, <2>1, <2>2, CreateGives
<1>6. ASSUME NEW m \in Names, NEW x \in Records(m)' PROVE x \in Records(m) \/ (m = n /\ x = new)
  BY Zenon, <1>1, <1>2 DEF Records
<1>7. TypeOK'
  BY CreateType DEF IInv, TypeOK, gcVars
<1>8. RecordInv'
  <2> SUFFICES ASSUME NEW m \in Names, NEW x \in Records(m)' PROVE RecordOK(m, x)'
    BY Zenon DEF RecordInv
  <2>1. CASE x \in Records(m)
    <3>1. RecordOK(m, x) /\ x.created \in Nat
      BY <2>1, RecordType DEF IInv, RecordInv
    <3>2. x.created <= clock'
      BY <1>1, <1>4, <3>1 DEF RecordOK
    <3>3. Given(m, x.uid)'
      BY <1>5, <3>1 DEF RecordOK
    <3> QED
      BY <3>1, <3>2, <3>3 DEF RecordOK, gcVars
  <2>2. CASE m = n /\ x = new
    <3>1. x.uid = u /\ x.created = clock' /\ x.state = ""
      BY Zenon, <2>2
    <3>2. u \in DOMAIN nameOf' /\ clock' <= clock'
      BY <1>1, <1>4, <1>5
    <3>3. nameOf'[u] = m
      BY Zenon, <1>5, <2>2
    <3> QED
      BY Zenon, <3>1, <3>2, <3>3 DEF RecordOK, Given, Finished
  <2> QED
    BY Zenon, <1>6, <2>1, <2>2
<1>9. SweepInv'
  <2>1. DOMAIN nameOf \subseteq DOMAIN nameOf'
    BY <1>1, <1>5
  <2> QED
    BY <2>1 DEF IInv, SweepInv, gcVars
<1>10. NoReuse => NamesDiffer'
  BY CreateNames DEF IInv, TypeOK
<1>11. ASSUME NoReuse, DistinctStamps PROVE StampInv'
  <2> SUFFICES ASSUME NEW l \in Names, NEW m \in Names,
                      NEW x \in Records(l)', NEW y \in Records(m)'
               PROVE  InOrder(x, y)
    BY Zenon DEF StampInv, InOrder
  <2>1. CASE x \in Records(l) /\ y \in Records(m)
    BY <1>11, <2>1 DEF IInv, StampInv
  <2>2. CASE x \in Records(l) /\ y = new
    <3>1. RecordOK(l, x) /\ x.created \in Nat
      BY Zenon, <2>2, RecordType DEF IInv, RecordInv
    <3>2. x.created < clock'
      BY <1>1, <1>4, <1>11, <3>1 DEF RecordOK
    <3>3. y.created = clock'
      BY Zenon, <2>2
    <3> QED
      BY <3>2, <3>3 DEF InOrder
  <2>3. CASE x = new /\ y \in Records(m)
    <3>1. y.uid \in DOMAIN nameOf
      BY Zenon, <2>3 DEF IInv, RecordInv, RecordOK, Given
    <3>2. x.uid = u
      BY Zenon, <2>3
    <3>3. ~(u < y.uid)
      BY <1>1, <1>5, <3>1
    <3> QED
      BY <3>2, <3>3 DEF InOrder
  <2>4. CASE x = new /\ y = new
    <3>1. x.uid = u /\ y.uid = u
      BY Zenon, <2>4
    <3>2. ~(u < u)
      BY <1>1
    <3> QED
      BY <3>1, <3>2 DEF InOrder
  <2> QED
    BY Zenon, <1>6, <2>1, <2>2, <2>3, <2>4
<1>12. /\ SweepCount => SweepCount'
       /\ OnlyFinishedCollected => OnlyFinishedCollected'
       /\ NewestKept => NewestKept'
  BY DEF SweepCount, Newer, OnlyFinishedCollected, NewestKept, gcVars
<1> QED
  BY Zenon, <1>7, <1>8, <1>9, <1>10, <1>11, <1>12 DEF IInv, NoReuse, DistinctStamps

(***************************************************************************)
(* RunGC lists builds.                                                     *)
(***************************************************************************)
LEMMA ListInv ==
  ASSUME IInv, NEW r \in Replicas, ListBuilds(r)
  PROVE  IInv'
<1>1. PICK s \in SortedBuilds(r) :
        sweep' = [sweep EXCEPT ![r] = [i \in 1..Excess(r) |-> cibCache[r][s[i]].uid]]
  BY Zenon DEF ListBuilds
<1>2. UNCHANGED <<cib, nameOf, clock, cibCache, owner, everFinished, collected>>
  BY DEF ListBuilds, clusterVars
<1>3. Cardinality(FinishedBuilds(r)) \in Nat
  BY FinitelyMany DEF IInv
<1>4. Excess(r) \in Nat /\ Excess(r) <= Cardinality(FinishedBuilds(r))
  BY <1>3, RetentionAssumption DEF ListBuilds, Excess
<1>5. s \in [1..Cardinality(FinishedBuilds(r)) -> FinishedBuilds(r)]
  BY DEF SortedBuilds
<1>6. \A i \in 1..Excess(r) : s[i] \in FinishedBuilds(r)
  BY <1>3, <1>4, <1>5
<1>7. \A i \in 1..Excess(r) : /\ cibCache[r][s[i]].uid \in Uids
                              /\ cibCache[r][s[i]].uid \in DOMAIN nameOf
                              /\ cibCache[r][s[i]].uid \in everFinished
  BY <1>6, FinishedRecords DEF IInv
<1>8. /\ sweep'[r] = [i \in 1..Excess(r) |-> cibCache[r][s[i]].uid]
      /\ DOMAIN sweep'[r] = 1..Excess(r)
      /\ \A q \in Replicas \ {r} : sweep'[q] = sweep[q]
  BY <1>1 DEF IInv, TypeOK
<1>9. TypeOK'
  <2>1. [i \in 1..Excess(r) |-> cibCache[r][s[i]].uid] \in Seq(Uids)
    BY <1>4, <1>7
  <2> QED
    BY <1>1, <1>2, <2>1 DEF IInv, TypeOK, ClusterTypeOK
<1>10. /\ RecordInv' /\ (NamesDiffer => NamesDiffer') /\ (StampInv => StampInv')
       /\ (OnlyFinishedCollected => OnlyFinishedCollected')
       /\ (NewestKept => NewestKept')
  BY <1>2
  DEF IInv, RecordInv, RecordOK, Given, Records, NamesDiffer, StampInv, OnlyFinishedCollected, NewestKept
<1>11. SweepInv'
  <2> SUFFICES ASSUME NEW q \in Replicas, NEW i \in DOMAIN sweep'[q]
               PROVE  sweep'[q][i] \in DOMAIN nameOf /\ sweep'[q][i] \in everFinished
    BY <1>2 DEF SweepInv
  <2>1. CASE q = r
    BY Zenon, <1>7, <1>8, <2>1
  <2>2. CASE q # r
    BY <1>8, <2>2 DEF IInv, SweepInv
  <2> QED
    BY <2>1, <2>2
<1>12. ASSUME NoReuse, DistinctStamps PROVE SweepCount'
  <2>1. \A i \in 1..Excess(r) : Cardinality(Newer(cibCache[r][s[i]].uid)) >= Retention
    BY <1>12, ListedHasNewer DEF IInv
  <2>2. SweepCount
    BY <1>12 DEF IInv
  <2>3. \A v : Newer(v)' = Newer(v)
    BY <1>2 DEF Newer
  <2> SUFFICES ASSUME NEW q \in Replicas, NEW i \in DOMAIN sweep'[q]
               PROVE  Cardinality(Newer(sweep'[q][i])) >= Retention
    BY <2>3 DEF SweepCount
  <2>4. CASE q = r
    BY Zenon, <1>8, <2>1, <2>4
  <2>5. CASE q # r
    BY <1>8, <2>2, <2>5 DEF SweepCount
  <2> QED
    BY <2>4, <2>5
<1> QED
  BY Zenon, <1>9, <1>10, <1>11, <1>12 DEF IInv, NoReuse, DistinctStamps

(***************************************************************************)
(* The loop of RunGC goes on to the next build of its list.                *)
(***************************************************************************)
LEMMA NextBuild ==
  ASSUME IInv, NEW r \in Replicas, sweep[r] # <<>>,
         sweep' = [sweep EXCEPT ![r] = Tail(@)], UNCHANGED <<nameOf, everFinished>>
  PROVE  /\ sweep' \in [Replicas -> Seq(Uids)]
         /\ SweepInv'
         /\ SweepCount => SweepCount'
         /\ Head(sweep[r]) = sweep[r][1]
         /\ 1 \in DOMAIN sweep[r]
<1>1. sweep \in [Replicas -> Seq(Uids)] /\ sweep[r] \in Seq(Uids)
  BY DEF IInv, TypeOK
<1>2. /\ Head(sweep[r]) = sweep[r][1] /\ 1 \in DOMAIN sweep[r] /\ Tail(sweep[r]) \in Seq(Uids)
  BY <1>1
<1>3. \A i \in DOMAIN Tail(sweep[r]) :
        i + 1 \in DOMAIN sweep[r] /\ Tail(sweep[r])[i] = sweep[r][i + 1]
  BY <1>1
<1>4. sweep'[r] = Tail(sweep[r]) /\ \A q \in Replicas \ {r} : sweep'[q] = sweep[q]
  BY <1>1
<1>5. \A q \in Replicas : \A i \in DOMAIN sweep'[q] :
        \E j \in DOMAIN sweep[q] : sweep'[q][i] = sweep[q][j]
  BY <1>3, <1>4
<1>6. SweepInv'
  BY <1>5 DEF IInv, SweepInv
<1>7. \A v : Newer(v)' = Newer(v)
  BY DEF Newer
<1>8. SweepCount => SweepCount'
  BY <1>5, <1>7 DEF SweepCount
<1> QED
  BY <1>1, <1>2, <1>6, <1>8

(***************************************************************************)
(* RunGC deletes a build by its name.  Since names are not used again that *)
(* is the build it listed.                                                 *)
(***************************************************************************)
LEMMA DeleteInv ==
  ASSUME IInv, NEW r \in Replicas, DeleteBuild(r)
  PROVE  IInv'
<1> DEFINE n == Target(r)
           u == Head(sweep[r])
           v == cib[n].uid
<1>1. /\ sweep' \in [Replicas -> Seq(Uids)] /\ SweepInv' /\ (SweepCount => SweepCount')
      /\ u = sweep[r][1] /\ 1 \in DOMAIN sweep[r]
  BY Zenon, NextBuild DEF DeleteBuild
<1>2. u \in DOMAIN nameOf /\ u \in everFinished /\ u \in Uids
  BY <1>1 DEF IInv, TypeOK, SweepInv
<1>3. n \in Names /\ n = nameOf[u]
  BY <1>2 DEF Target, IInv, TypeOK, ClusterTypeOK
<1>4. Exists(n) /\ (UNCHANGED cib \/ ForegroundDelete(n))
      /\ collected' = collected \cup {v}
      /\ UNCHANGED <<nameOf, clock, cibCache, owner, everFinished>>
  BY DEF DeleteBuild
<1>5. RecordOK(n, cib[n]) /\ v \in Uids
  <2>1. cib[n] \in Records(n)
    BY <1>4 DEF Exists, Records
  <2> QED
    BY <1>3, <2>1, RecordType DEF IInv, RecordInv
<1>6. NamesDiffer => v = u
  BY <1>2, <1>3, <1>5 DEF NamesDiffer, RecordOK, Given
<1>7. Derived
  <2>1. CASE UNCHANGED cib
    BY <1>4, <2>1 DEF Derived, From, Records
  <2>2. CASE ForegroundDelete(n)
    BY Zenon, <1>3, <1>4, <2>2, WriteDerives DEF IInv, BuildStates
  <2> QED
    BY <1>4, <2>1, <2>2
<1>8. /\ RecordInv' /\ (NamesDiffer => NamesDiffer') /\ (StampInv => StampInv')
  BY <1>7, DerivedRecords DEF IInv
<1>9. TypeOK'
  <2>1. cib' \in [Names -> Cibs \cup {NoCib}]
    BY Zenon, <1>3, <1>4, WriteType DEF IInv, TypeOK, ClusterTypeOK, BuildStates
  <2> QED
    BY <1>1, <1>4, <1>5, <2>1 DEF IInv, TypeOK, ClusterTypeOK
<1>10. NoReuse => OnlyFinishedCollected'
  BY <1>2, <1>4, <1>6 DEF IInv, OnlyFinishedCollected
<1>11. ASSUME NoReuse, DistinctStamps PROVE NewestKept'
  <2>1. Cardinality(Newer(u)) >= Retention
    BY <1>1, <1>11 DEF IInv, SweepCount
  <2>2. \A w \in collected \cup {u} :
          Cardinality({x \in everFinished \ (collected \cup {u}) : x > w}) >= Retention
    BY <1>2, <1>11, <2>1, OneMoreDeleted DEF IInv
  <2>3. collected' = collected \cup {u} /\ everFinished' = everFinished
    BY <1>4, <1>6, <1>11 DEF IInv
  <2> QED
    BY <2>2, <2>3 DEF NewestKept
<1> QED
  BY Zenon, <1>1, <1>8, <1>9, <1>10, <1>11 DEF IInv, NoReuse, DistinctStamps

(***************************************************************************)
(* A failed deletion and a restart only make lists shorter.                *)
(***************************************************************************)
LEMMA GiveUpInv ==
  ASSUME IInv, NEW r \in Replicas, DeleteFails(r) \/ ReplicaRestarts(r)
  PROVE  IInv'
<1>1. UNCHANGED <<cib, nameOf, clock, owner, everFinished, collected>>
  BY DEF DeleteFails, ReplicaRestarts, clusterVars
<1>2. Derived
  <2>1. CASE DeleteFails(r)
    BY <1>1, <2>1 DEF DeleteFails, clusterVars, Derived, From, Records
  <2>2. CASE ReplicaRestarts(r)
    BY Zenon, <2>2, CacheDerives DEF IInv, ReplicaRestarts
  <2> QED
    BY <2>1, <2>2
<1>3. /\ RecordInv' /\ (NamesDiffer => NamesDiffer') /\ (StampInv => StampInv')
  BY <1>2, DerivedRecords DEF IInv
<1>4. sweep' \in [Replicas -> Seq(Uids)] /\ SweepInv' /\ (SweepCount => SweepCount')
  <2>1. CASE DeleteFails(r)
    BY Zenon, <1>1, <2>1, NextBuild DEF DeleteFails
  <2>2. CASE ReplicaRestarts(r)
    <3>1. sweep \in [Replicas -> Seq(Uids)] /\ sweep' = [sweep EXCEPT ![r] = <<>>]
      BY <2>2 DEF IInv, TypeOK, ReplicaRestarts
    <3>2. sweep'[r] = <<>> /\ DOMAIN sweep'[r] = {}
          /\ \A q \in Replicas \ {r} : sweep'[q] = sweep[q]
      BY <3>1
    <3>3. sweep' \in [Replicas -> Seq(Uids)]
      BY <3>1
    <3>4. SweepInv'
      BY <1>1, <3>2 DEF IInv, SweepInv
    <3>5. SweepCount => SweepCount'
      BY <1>1, <3>2 DEF SweepCount, Newer
    <3> QED
      BY <3>3, <3>4, <3>5
  <2> QED
    BY <2>1, <2>2
<1>5. TypeOK'
  <2>1. cibCache' \in [Replicas -> [Names -> Cibs \cup {NoCib}]]
    BY Zenon DEF IInv, TypeOK, ClusterTypeOK, DeleteFails, ReplicaRestarts, clusterVars
  <2> QED
    BY <1>1, <1>4, <2>1 DEF IInv, TypeOK, ClusterTypeOK
<1>6. /\ OnlyFinishedCollected => OnlyFinishedCollected'
      /\ NewestKept => NewestKept'
  BY <1>1 DEF OnlyFinishedCollected, NewestKept
<1> QED
  BY <1>3, <1>4, <1>5, <1>6 DEF IInv, NoReuse, DistinctStamps

(***************************************************************************)
(* A build finishes: there may be one more newer build everywhere.         *)
(***************************************************************************)
LEMMA FinishInv ==
  ASSUME IInv, NEW n \in Names, BuildFinishes(n)
  PROVE  IInv'
<1>1. PICK s \in Finished : WriteState(n, s)
  BY DEF BuildFinishes
<1>2. /\ Exists(n) /\ s \in BuildStates
      /\ everFinished' = everFinished \cup {cib[n].uid}
      /\ UNCHANGED <<nameOf, clock, cibCache, owner, sweep, collected>>
  BY Zenon DEF BuildFinishes, Finished, BuildStates
<1>3. cib[n].uid \in Uids
  BY <1>2, RecordType DEF IInv, Exists, Records
<1>4. TypeOK'
  <2>1. cib' \in [Names -> Cibs \cup {NoCib}]
    BY <1>1, <1>2, WriteType DEF IInv, TypeOK
  <2> QED
    BY <1>2, <1>3, <2>1 DEF IInv, TypeOK, ClusterTypeOK
<1>5. Derived
  BY <1>1, <1>2, WriteDerives DEF IInv
<1>6. /\ RecordInv' /\ (NamesDiffer => NamesDiffer') /\ (StampInv => StampInv')
  BY <1>5, DerivedRecords DEF IInv
<1>7. SweepInv'
  BY <1>2 DEF IInv, SweepInv
<1>8. OnlyFinishedCollected => OnlyFinishedCollected'
  BY <1>2 DEF OnlyFinishedCollected
<1>9. everFinished \subseteq everFinished' /\ everFinished' \subseteq Uids
  BY <1>2, <1>4 DEF TypeOK
<1>10. SweepCount => SweepCount'
  <2> SUFFICES ASSUME SweepCount, NEW r \in Replicas, NEW i \in DOMAIN sweep[r]
               PROVE  Cardinality(Newer(sweep[r][i])') >= Retention
    BY <1>2 DEF SweepCount, Newer
  <2>1. Newer(sweep[r][i]) \subseteq {v \in everFinished' : v > sweep[r][i]}
    BY <1>9 DEF Newer
  <2>2. {v \in everFinished' : v > sweep[r][i]} \subseteq Uids
    BY <1>9
  <2>3. Cardinality(Newer(sweep[r][i])) >= Retention
    BY DEF SweepCount
  <2>4. Cardinality({v \in everFinished' : v > sweep[r][i]}) >= Retention
    BY <2>1, <2>2, <2>3, LargerSet
  <2> QED
    BY <1>2, <2>4 DEF Newer
<1>11. NewestKept => NewestKept'
  <2> SUFFICES ASSUME NewestKept, NEW u \in collected
               PROVE  Cardinality({v \in everFinished' \ collected : v > u}) >= Retention
    BY <1>2 DEF NewestKept
  <2>1. {v \in everFinished \ collected : v > u} \subseteq {v \in everFinished' \ collected : v > u}
    BY <1>9
  <2>2. {v \in everFinished' \ collected : v > u} \subseteq Uids
    BY <1>9
  <2>3. Cardinality({v \in everFinished \ collected : v > u}) >= Retention
    BY DEF NewestKept
  <2> QED
    BY <2>1, <2>2, <2>3, LargerSet
<1> QED
  BY <1>4, <1>6, <1>7, <1>8, <1>10, <1>11 DEF IInv, NoReuse, DistinctStamps

(***************************************************************************)
(* What users, the cluster and the watch do.                               *)
(***************************************************************************)
LEMMA ClusterStepInv ==
  ASSUME IInv, NEW n \in Names, ClusterStep(n)
  PROVE  IInv'
<1>1. UNCHANGED gcVars
  BY DEF ClusterStep
<1>2. CASE CreateCib(n)
  BY <1>1, <1>2, CreateInv
<1>3. CASE UserDeletes(n) \/ UserDeletesForeground(n) \/ FinalizeCib(n)
  <2>1. TypeOK'
    BY <1>1, <1>3, DeleteType DEF IInv, TypeOK, gcVars
  <2>2. /\ Exists(n) /\ (ForegroundDelete(n) \/ RemoveCib(n))
        /\ UNCHANGED <<nameOf, clock, cibCache, everFinished>>
    BY <1>1, <1>3 DEF UserDeletes, UserDeletesForeground, FinalizeCib, RemoveCib, gcVars
  <2>3. Derived
    BY Zenon, <2>2, WriteDerives DEF IInv, BuildStates
  <2> QED
    BY <1>1, <2>1, <2>3, DerivedInv
<1> QED
  BY <1>2, <1>3 DEF ClusterStep

(***************************************************************************)
(* An event of the informer puts the record of the cluster into a cache.   *)
(***************************************************************************)
LEMMA CacheEventInv ==
  ASSUME IInv, NEW r \in Replicas, NEW n \in Names, CacheEvent(r, n)
  PROVE  IInv'
<1>1. TypeOK'
  BY SyncType DEF IInv, TypeOK, CacheEvent, gcVars
<1>2. Derived
  BY Zenon, CacheDerives DEF IInv, CacheEvent, SyncCib, gcVars
<1> QED
  BY <1>1, <1>2, DerivedInv DEF CacheEvent

(***************************************************************************)
(* The inductive invariant holds in every reachable state.                 *)
(***************************************************************************)
THEOREM Invariance == Spec => []IInv
<1>1. IInv /\ [Next]_vars => IInv'
  <2> SUFFICES ASSUME IInv, [Next]_vars PROVE IInv'
    OBVIOUS
  <2>1. ASSUME NEW r \in Replicas, ListBuilds(r) PROVE IInv'
    BY <2>1, ListInv
  <2>2. ASSUME NEW r \in Replicas, DeleteBuild(r) PROVE IInv'
    BY <2>2, DeleteInv
  <2>3. ASSUME NEW r \in Replicas, DeleteFails(r) \/ ReplicaRestarts(r) PROVE IInv'
    BY <2>3, GiveUpInv
  <2>4. ASSUME NEW r \in Replicas, NEW n \in Names, CacheEvent(r, n) PROVE IInv'
    BY <2>4, CacheEventInv
  <2>5. ASSUME NEW n \in Names, BuildFinishes(n) PROVE IInv'
    BY <2>5, FinishInv
  <2>6. ASSUME NEW n \in Names, ClusterStep(n) PROVE IInv'
    BY <2>6, ClusterStepInv
  <2>7. CASE UNCHANGED vars
    <3>1. Derived /\ TypeOK' /\ UNCHANGED gcVars
      BY Zenon, <2>7 DEF vars, clusterVars, gcVars, Derived, From, Records, IInv, TypeOK, ClusterTypeOK
    <3> QED
      BY <3>1, DerivedInv
  <2> QED
    BY <2>1, <2>2, <2>3, <2>4, <2>5, <2>6, <2>7 DEF Next
<1> QED
  BY <1>1, InitInv, PTL DEF Spec

(***************************************************************************)
(* RunGC keeps the types, whatever order and however often its replicas    *)
(* list and delete.                                                        *)
(***************************************************************************)
THEOREM TypeCorrect == Spec => []TypeOK
<1>1. IInv => TypeOK
  BY DEF IInv
<1> QED
  BY <1>1, Invariance, PTL

(***************************************************************************)
(* RunGC deletes finished builds only, although it deletes by name and     *)
(* from a list that may be old, as long as no name is used again.          *)
(***************************************************************************)
THEOREM FinishedSafe ==
  ASSUME NoReuse
  PROVE  Spec => []OnlyFinishedCollected
<1>1. IInv => OnlyFinishedCollected
  BY DEF IInv
<1> QED
  BY <1>1, Invariance, PTL

(***************************************************************************)
(* Whatever RunGC deletes, in any number of replicas at once, there are    *)
(* Retention newer finished builds that it never deletes, as long as no    *)
(* name is used again and no two builds are created in one second.         *)
(***************************************************************************)
THEOREM RetentionSafe ==
  ASSUME NoReuse, DistinctStamps
  PROVE  Spec => []NewestKept
<1>1. IInv => NewestKept
  BY DEF IInv
<1> QED
  BY <1>1, Invariance, PTL
=============================================================================
