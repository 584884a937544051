------------------------- MODULE SyncRecordsProofs -------------------------
(***************************************************************************)
(* What scan, export and apply do to one database, for every table of      *)
(* rows: the lemmas that the theorems of SyncSessionProofs rest on.        *)
(***************************************************************************)
EXTENDS SyncRecords, FiniteSetTheorems, TLAPS

\* A finite set of numbers has a greatest one: a smallest counterexample would
\* stay one without one of its elements.
LEMMA MaxFacts ==
  ASSUME NEW S \in SUBSET Nat, IsFiniteSet(S), S # {}
  PROVE  Max(S) \in S /\ \A x \in S : x <= Max(S)
<1> DEFINE Top(T) == \E m \in T : \A x \in T : x <= m
           B == {T \in FiniteSubsetsOf(S) : T # {} /\ ~Top(T)}
<1>1. B = {}
  <2>1. SUFFICES ASSUME B # {} PROVE FALSE
    OBVIOUS
  <2>2. PICK T \in B : \A U \in B : <<U, T>> \notin StrictSubsetOrdering(S)
    <3>1. IsWellFoundedOn(StrictSubsetOrdering(S), FiniteSubsetsOf(S))
      BY FS_StrictSubsetOrderingWellFounded
    <3>2. B \subseteq FiniteSubsetsOf(S)
      OBVIOUS
    <3> HIDE DEF B
    <3> QED BY <2>1, <3>1, <3>2, WFMin
  <2>3. T \in SUBSET S /\ IsFiniteSet(T) /\ T # {} /\ ~Top(T)
    BY DEF FiniteSubsetsOf
  <2>4. PICK x \in T : TRUE
    BY <2>3
  <2>5. IsFiniteSet(T \ {x})
    BY <2>3, FS_RemoveElement
  <2>6. <<T \ {x}, T>> \in StrictSubsetOrdering(S)
    BY <2>3 DEF StrictSubsetOrdering
  <2>7. T \ {x} \notin B
    BY <2>2, <2>6
  <2>8. T \ {x} = {} \/ Top(T \ {x})
    BY <2>3, <2>5, <2>7 DEF FiniteSubsetsOf
  <2>9. CASE T \ {x} = {}
    BY <2>3, <2>4, <2>9
  <2>10. CASE Top(T \ {x})
    <3>1. PICK m \in T \ {x} : \A y \in T \ {x} : y <= m
      BY <2>10
    <3>2. m \in Nat /\ x \in Nat /\ T \subseteq Nat
      BY <2>3, <2>4
    <3>3. CASE x <= m
      BY <2>3, <3>1, <3>2, <3>3
    <3>4. CASE m <= x
      <4>1. \A y \in T : y <= x
        BY <3>1, <3>2, <3>4
      <4> QED BY <2>3, <4>1
    <3> QED BY <3>2, <3>3, <3>4
  <2> QED BY <2>8, <2>9, <2>10
<1>2. PICK m \in S : \A x \in S : x <= m
  BY <1>1 DEF FiniteSubsetsOf
<1>3. \A y \in S : m >= y
  BY <1>2
<1> QED BY <1>3 DEF Max

LEMMA ImageFinite ==
  ASSUME NEW S, IsFiniteSet(S), NEW f, DOMAIN f = S, NEW T, T = {f[x] : x \in S},
         f \in [S -> T]
  PROVE  IsFiniteSet(T)
<1>1. f \in Surjection(S, T)
  BY DEF Surjection
<1> QED BY <1>1, FS_Surjection

LEMMA KeySubset ==
  ASSUME NEW S \in SUBSET Key
  PROVE  IsFiniteSet(S) /\ Cardinality(S) \in Nat
BY SyncRecordsAssumption, FS_Subset, FS_CardinalityType

\* Rank numbers the members of S from 1 to Cardinality(S).
LEMMA RankFacts ==
  ASSUME NEW S \in SUBSET Key, NEW k \in S
  PROVE  /\ Rank(k, S) \in 1..Cardinality(S)
         /\ \A j \in S : j # k => Rank(j, S) # Rank(k, S)
<1> DEFINE Below(j) == {x \in S : x <= j}
<1>1. Key \subseteq Nat /\ IsFiniteSet(S) /\ Cardinality(S) \in Nat
  BY KeySubset, SyncRecordsAssumption
<1>2. \A j \in S : /\ IsFiniteSet(Below(j)) /\ Cardinality(Below(j)) \in Nat
                   /\ Cardinality(Below(j)) <= Cardinality(S)
  BY <1>1, FS_Subset, FS_CardinalityType
<1>3. Cardinality(Below(k)) # 0
  <2>1. k \in Below(k)
    BY <1>1
  <2> QED BY <1>2, <2>1, FS_EmptySet
<1>4. ASSUME NEW i \in S, NEW j \in S, i < j
      PROVE  Cardinality(Below(i)) # Cardinality(Below(j))
  <2>0. S \subseteq Nat
    BY <1>1
  <2>1. Below(i) \subseteq Below(j) /\ j \in Below(j) /\ j \notin Below(i)
    <3>1. i \in Nat /\ j \in Nat /\ i < j
      BY <2>0, <1>4
    <3>2. Below(i) \subseteq Below(j)
      <4>1. \A x \in S : x \in Nat /\ (x <= i => x <= j)
        BY <2>0, <3>1
      <4> QED BY <4>1
    <3>3. j \in Below(j) /\ j \notin Below(i)
      BY <3>1
    <3> QED BY <3>2, <3>3
  <2> HIDE DEF Below
  <2> QED BY <1>2, <2>1, FS_Subset
<1> QED BY <1>1, <1>2, <1>3, <1>4 DEF Rank

-----------------------------------------------------------------------------
(* Scan *)

LEMMA NextHlcFacts ==
  ASSUME NEW last \in Nat, NEW now \in Nat
  PROVE  NextHlc(last, now) \in Nat /\ NextHlc(last, now) > last
<1>1. now * W \in Nat
  BY SyncRecordsAssumption
<1> QED BY <1>1 DEF NextHlc

LEMMA DirtyParts ==
  ASSUME NEW s \in Store
  PROVE  /\ Changed(s) \subseteq Key /\ Gone(s) \subseteq Key
         /\ Changed(s) \cap Gone(s) = {}
         /\ Cardinality(Changed(s)) \in Nat /\ Cardinality(Gone(s)) \in Nat
BY KeySubset DEF Changed, Gone

\* ScanPlace numbers the rows that a scan stamps from 1 to their count.
LEMMA ScanPlaceFacts ==
  ASSUME NEW s \in Store, NEW k \in Dirty(s)
  PROVE  /\ ScanPlace(s, k) \in 1..(Cardinality(Changed(s)) + Cardinality(Gone(s)))
         /\ \A j \in Dirty(s) : j # k => ScanPlace(s, j) # ScanPlace(s, k)
<1> DEFINE C == Changed(s)
           G == Gone(s)
<1>1. /\ C \subseteq Key /\ G \subseteq Key /\ C \cap G = {}
      /\ Cardinality(C) \in Nat /\ Cardinality(G) \in Nat
  BY DirtyParts
<1>2. \A j \in C : ScanPlace(s, j) = Rank(j, C) /\ Rank(j, C) \in 1..Cardinality(C)
  BY <1>1, RankFacts DEF ScanPlace
<1>3. \A j \in G : /\ ScanPlace(s, j) = Cardinality(C) + Rank(j, G)
                   /\ Rank(j, G) \in 1..Cardinality(G)
  BY <1>1, RankFacts DEF ScanPlace
<1>4. \A i, j \in C : i # j => Rank(i, C) # Rank(j, C)
  BY <1>1, RankFacts
<1>5. \A i, j \in G : i # j => Rank(i, G) # Rank(j, G)
  BY <1>1, RankFacts
<1>6. Dirty(s) = C \cup G
  BY DEF Dirty
<1> HIDE DEF C, G
<1>7. ScanPlace(s, k) \in 1..(Cardinality(C) + Cardinality(G))
  BY <1>1, <1>2, <1>3, <1>6
<1>8. ASSUME NEW j \in Dirty(s), j # k
      PROVE  ScanPlace(s, j) # ScanPlace(s, k)
  <2>1. CASE j \in C /\ k \in C
    BY <2>1, <1>2, <1>4, <1>8
  <2>2. CASE j \in G /\ k \in G
    <3>1. Rank(j, G) # Rank(k, G) /\ Rank(j, G) \in Nat /\ Rank(k, G) \in Nat
      BY <2>2, <1>1, <1>3, <1>5, <1>8
    <3> QED BY <3>1, <2>2, <1>1, <1>3
  <2>3. CASE j \in C /\ k \in G
    BY <2>3, <1>1, <1>2, <1>3
  <2>4. CASE j \in G /\ k \in C
    BY <2>4, <1>1, <1>2, <1>3
  <2> QED BY <1>6, <2>1, <2>2, <2>3, <2>4
<1> QED BY <1>7, <1>8 DEF C, G

\* A scan gives every dirty row a stamp and a cursor place above all that this
\* database used, no two of them the same, and leaves the other rows alone.
LEMMA ScanFacts ==
  ASSUME NEW s \in Store, NEW d \in Device, NEW now \in Nat,
         NEW t, t = Scan(s, d, now)
  PROVE  /\ t \in Store
         /\ t.live = s.live /\ t.chosen = s.chosen /\ t.quar = s.quar
         /\ s.hlc <= t.hlc /\ s.seq <= t.seq
         /\ \A k \in Key \ Dirty(s) : t.rec[k] = s.rec[k]
         /\ \A k \in Dirty(s) :
              /\ t.rec[k] \in Record
              /\ t.rec[k].dev = d /\ t.rec[k].val = s.live[k]
              /\ t.rec[k].hlc > s.hlc /\ t.rec[k].hlc <= t.hlc
              /\ t.rec[k].seq > s.seq /\ t.rec[k].seq <= t.seq
              /\ \A j \in Dirty(s) : j # k => t.rec[j].hlc # t.rec[k].hlc
<1> DEFINE first == NextHlc(s.hlc, now)
           count == Cardinality(Changed(s)) + Cardinality(Gone(s))
           row(k) == [hlc |-> first + ScanPlace(s, k) - 1, dev |-> d,
                      val |-> s.live[k], seq |-> s.seq + ScanPlace(s, k)]
<1>1. /\ s.live \in [Key -> Content] /\ s.rec \in [Key -> Record]
      /\ s.chosen \in BOOLEAN /\ s.quar \subseteq Version
      /\ s.hlc \in Nat /\ s.seq \in Nat
  BY DEF Store
<1>2. first \in Nat /\ first > s.hlc /\ count \in Nat
  <2>1. first \in Nat /\ first > s.hlc
    BY <1>1, NextHlcFacts
  <2>2. count \in Nat
    BY DirtyParts
  <2> QED BY <2>1, <2>2
<1>3. \A k \in Dirty(s) :
        /\ k \in Key /\ ScanPlace(s, k) \in 1..count
        /\ \A j \in Dirty(s) : j # k => ScanPlace(s, j) # ScanPlace(s, k)
  BY DirtyParts, ScanPlaceFacts DEF Dirty
<1>4. t = [s EXCEPT !.rec = [k \in Key |-> IF k \in Dirty(s) THEN row(k) ELSE s.rec[k]],
                    !.hlc = IF count = 0 THEN s.hlc ELSE first + count - 1,
                    !.seq = s.seq + count]
  BY DEF Scan
<1>5. /\ t.rec = [k \in Key |-> IF k \in Dirty(s) THEN row(k) ELSE s.rec[k]]
      /\ t.hlc = IF count = 0 THEN s.hlc ELSE first + count - 1
      /\ t.seq = s.seq + count
      /\ t.live = s.live /\ t.chosen = s.chosen /\ t.quar = s.quar
  BY <1>4 DEF Store
<1> HIDE DEF first, count
<1>6. ASSUME NEW k \in Dirty(s)
      PROVE  /\ t.rec[k] = row(k)
             /\ t.rec[k].hlc = first + ScanPlace(s, k) - 1
             /\ t.rec[k].seq = s.seq + ScanPlace(s, k)
             /\ t.rec[k].dev = d /\ t.rec[k].val = s.live[k]
  BY <1>3, <1>5
<1>7. ASSUME NEW k \in Dirty(s) PROVE row(k) \in Record
  <2>1. /\ first + ScanPlace(s, k) - 1 \in Nat
        /\ s.seq + ScanPlace(s, k) \in Nat \ {0}
    BY <1>1, <1>2, <1>3
  <2> QED BY <2>1, <1>1, <1>3 DEF Record
<1>8. t.rec \in [Key -> Record] /\ t.hlc \in Nat /\ t.seq \in Nat
  BY <1>1, <1>2, <1>5, <1>7
<1>9. t \in Store
  BY <1>4, <1>8 DEF Store
<1>10. s.hlc <= t.hlc /\ s.seq <= t.seq
  BY <1>1, <1>2, <1>5
<1>11. ASSUME NEW k \in Dirty(s)
       PROVE  /\ t.rec[k].hlc > s.hlc /\ t.rec[k].hlc <= t.hlc
              /\ t.rec[k].seq > s.seq /\ t.rec[k].seq <= t.seq
  <2>1. ScanPlace(s, k) \in Nat /\ 1 <= ScanPlace(s, k) /\ ScanPlace(s, k) <= count
    BY <1>2, <1>3
  <2>2. t.rec[k].hlc = first + ScanPlace(s, k) - 1 /\ t.rec[k].seq = s.seq + ScanPlace(s, k)
    BY <1>6
  <2> QED BY <2>1, <2>2, <1>1, <1>2, <1>5
<1>12. ASSUME NEW j \in Dirty(s), NEW k \in Dirty(s), j # k
       PROVE  t.rec[j].hlc # t.rec[k].hlc
  <2>1. ScanPlace(s, j) \in Nat /\ ScanPlace(s, k) \in Nat /\ ScanPlace(s, j) # ScanPlace(s, k)
    BY <1>2, <1>3, <1>12
  <2>2. /\ t.rec[j].hlc = first + ScanPlace(s, j) - 1
        /\ t.rec[k].hlc = first + ScanPlace(s, k) - 1
    BY <1>6
  <2> QED BY <2>1, <2>2, <1>2
<1> QED BY <1>5, <1>6, <1>7, <1>9, <1>10, <1>11, <1>12

-----------------------------------------------------------------------------
(* Export *)

\* A batch holds rows as they are; it ends after the cursor it began at and
\* not after the last row, and what it passes over is the receiver's own.
LEMMA ExportFacts ==
  ASSUME NEW s \in Store, NEW since \in Nat, NEW to \in Device, NEW cut \in Nat,
         NEW b, b = Export(s, since, to, cut)
  PROVE  /\ b \in Batch
         /\ \A k \in Key : b.recs[k] \in {s.rec[k], NoRecord}
         /\ \A n \in Nat : since <= n /\ (\A k \in Key : s.rec[k].seq <= n) => b.next <= n
         /\ \A k \in Key : /\ since < s.rec[k].seq /\ s.rec[k].seq <= b.next
                           /\ s.rec[k].dev # to
                           => b.recs[k] = s.rec[k]
<1> DEFINE P == Passed(s, since, to, cut)
           f == [k \in P |-> s.rec[k].seq]
           I == {f[k] : k \in P}
           J == {since} \cup {s.rec[k].seq : k \in P}
<1>1. s.rec \in [Key -> Record] /\ \A k \in Key : s.rec[k].seq \in Nat
  BY DEF Store, Record, NoRecord
<1>2. P \subseteq Key
  BY DEF Passed, Rows
<1>3. IsFiniteSet(J) /\ J \subseteq Nat /\ since \in J
  <2>1. IsFiniteSet(P)
    BY <1>2, KeySubset
  <2>2. DOMAIN f = P /\ f \in [P -> I]
    OBVIOUS
  <2>3. IsFiniteSet(I)
    <3> HIDE DEF f, P
    <3> QED BY <2>1, <2>2, ImageFinite
  <2>4. J = I \cup {since}
    OBVIOUS
  <2>5. IsFiniteSet(J)
    BY <2>3, <2>4, FS_AddElement
  <2> QED BY <1>1, <1>2, <2>5
<1>4. Max(J) \in J /\ \A x \in J : x <= Max(J)
  <2> HIDE DEF J
  <2> QED BY <1>3, MaxFacts
<1>5. /\ b.recs = [k \in Key |-> IF k \in Sent(s, since, to, cut) THEN s.rec[k] ELSE NoRecord]
      /\ b.lead = Leads(s, since, to) /\ b.next = Max(J)
      /\ b = [recs |-> b.recs, lead |-> b.lead, next |-> b.next]
  BY DEF Export
<1>6. b.next \in Nat
  BY <1>3, <1>4, <1>5
<1>7. b \in Batch
  <2>1. b.recs \in [Key -> Record]
    BY <1>1, <1>5 DEF Record
  <2>2. b.lead \in BOOLEAN
    BY <1>5 DEF Leads
  <2> QED BY <2>1, <2>2, <1>5, <1>6 DEF Batch
<1>8. ASSUME NEW n \in Nat, since <= n, \A k \in Key : s.rec[k].seq <= n
      PROVE  b.next <= n
  <2>1. \A x \in J : x <= n
    BY <1>2, <1>8
  <2> QED BY <2>1, <1>4, <1>5
<1>9. ASSUME NEW k \in Key, since < s.rec[k].seq, s.rec[k].seq <= b.next, s.rec[k].dev # to
      PROVE  b.recs[k] = s.rec[k]
  <2>1. k \in Foreign(s, since, to)
    BY <1>9 DEF Foreign, Rows
  <2>2. SUFFICES ASSUME k \notin Sent(s, since, to, cut) PROVE FALSE
    BY <1>5
  <2>3. \A j \in P : s.rec[j].seq < s.rec[k].seq
    BY <2>1, <2>2 DEF Passed
  <2>4. \A x \in J : x < s.rec[k].seq
    BY <2>3, <1>9
  <2>5. b.next < s.rec[k].seq
    BY <2>4, <1>4, <1>5
  <2> QED BY <2>5, <1>1, <1>6, <1>9
<1>10. \A k \in Key : b.recs[k] \in {s.rec[k], NoRecord}
  BY <1>5
<1> QED BY <1>7, <1>8, <1>9, <1>10

-----------------------------------------------------------------------------
(* Apply *)

LEMMA TakenFacts ==
  ASSUME NEW t \in Store, NEW d \in Device, NEW b \in Batch, NEW now \in Nat,
         NEW taken, taken = Taken(t, d, b, now)
  PROVE  /\ taken \subseteq Key /\ IsFiniteSet(taken) /\ Cardinality(taken) \in Nat
         /\ \A k \in taken : /\ Known(b.recs[k]) /\ b.recs[k].dev # d
                            /\ Wins(k, b.recs[k], t.rec[k])
                            /\ ~Bad(d, k, b.recs[k])
                            /\ ApplyPlace(b, taken, k) \in 1..Cardinality(taken)
<1>1. taken \subseteq Key /\ IsFiniteSet(taken) /\ Cardinality(taken) \in Nat
  BY KeySubset DEF Taken, Winners
<1>2. ASSUME NEW k \in taken
      PROVE  /\ Known(b.recs[k]) /\ b.recs[k].dev # d
             /\ Wins(k, b.recs[k], t.rec[k]) /\ ~Bad(d, k, b.recs[k])
  BY <1>2 DEF Taken, Winners, SetAside
<1>3. ASSUME NEW k \in taken
      PROVE  ApplyPlace(b, taken, k) \in 1..Cardinality(taken)
  <2> DEFINE S == {j \in taken : \/ b.recs[j].seq <= b.recs[k].seq
                                 \/ j = Account /\ b.lead}
  <2>1. S \subseteq taken
    OBVIOUS
  <2>2. k \in S
    <3>1. b.recs[k].seq \in Nat
      BY <1>1 DEF Batch, Record, NoRecord
    <3> QED BY <3>1
  <2>3. Cardinality(S) \in Nat /\ Cardinality(S) # 0 /\ Cardinality(S) <= Cardinality(taken)
    <3> HIDE DEF S
    <3> QED BY <1>1, <2>1, <2>2, FS_Subset, FS_CardinalityType, FS_EmptySet
  <2> QED BY <1>1, <2>3 DEF ApplyPlace
<1> QED BY <1>1, <1>2, <1>3

LEMMA ObservedFacts ==
  ASSUME NEW t \in Store, NEW d \in Device, NEW b \in Batch, NEW now \in Nat,
         NEW taken, taken = Taken(t, d, b, now),
         NEW h, h = Observed(t, b, taken, now)
  PROVE  h \in Nat /\ t.hlc <= h /\ \A k \in taken : b.recs[k].hlc <= h
<1> DEFINE count == Cardinality(taken)
           f == [k \in taken |-> b.recs[k].hlc + 1 + count - ApplyPlace(b, taken, k)]
           I == {f[k] : k \in taken}
           N == NextHlc(t.hlc, now) + count - 1
           J == {N} \cup {b.recs[k].hlc + 1 + count - ApplyPlace(b, taken, k) : k \in taken}
<1>1. /\ taken \subseteq Key /\ IsFiniteSet(taken) /\ count \in Nat
      /\ \A k \in taken : ApplyPlace(b, taken, k) \in 1..count
  BY TakenFacts
<1>2. t.hlc \in Nat /\ NextHlc(t.hlc, now) \in Nat /\ NextHlc(t.hlc, now) > t.hlc
  <2>1. t.hlc \in Nat
    BY DEF Store
  <2> QED BY <2>1, NextHlcFacts
<1>3. \A k \in taken : b.recs[k].hlc \in Nat
  BY <1>1 DEF Batch, Record, NoRecord
<1>4. CASE taken = {}
  BY <1>2, <1>4 DEF Observed
<1>5. CASE taken # {}
  <2>1. count > 0
    BY <1>1, <1>5, FS_EmptySet
  <2>2. N \in Nat /\ t.hlc <= N
    BY <1>1, <1>2, <2>1
  <2>3. \A k \in taken : f[k] \in Nat /\ b.recs[k].hlc <= f[k]
    BY <1>1, <1>3
  <2>4. J = I \cup {N} /\ I \subseteq Nat
    BY <2>3
  <2>5. IsFiniteSet(I)
    <3>1. DOMAIN f = taken /\ f \in [taken -> I]
      OBVIOUS
    <3> HIDE DEF f
    <3> QED BY <1>1, <3>1, ImageFinite
  <2>6. IsFiniteSet(J) /\ J \subseteq Nat /\ J # {}
    <3> HIDE DEF I, N, J
    <3> QED BY <2>2, <2>4, <2>5, FS_AddElement
  <2>7. h = Max(J)
    BY <1>5 DEF Observed
  <2>8. h \in J /\ \A x \in J : x <= h
    <3> HIDE DEF J
    <3> QED BY <2>6, <2>7, MaxFacts
  <2>9. \A k \in taken : f[k] <= h
    BY <2>4, <2>8
  <2>10. h \in Nat /\ t.hlc <= h
    <3> HIDE DEF I, N, J
    <3> QED BY <2>2, <2>4, <2>6, <2>8, <1>2
  <2> HIDE DEF f
  <2> QED BY <1>3, <2>3, <2>9, <2>10
<1> QED BY <1>4, <1>5

\* Applying a batch takes records under the stamps they have, at cursor places
\* above all that were used, observes their stamps, and leaves no record of the
\* batch that would still win, except those that it put aside.
LEMMA ApplyFacts ==
  ASSUME NEW t \in Store, NEW d \in Device, NEW b \in Batch, NEW now \in Nat,
         NEW u, u = ApplyScanned(t, d, b, now),
         NEW taken, taken = Taken(t, d, b, now)
  PROVE  /\ u \in Store
         /\ u.chosen = t.chosen /\ t.quar \subseteq u.quar
         /\ t.hlc <= u.hlc /\ t.seq <= u.seq
         /\ \A k \in Key \ taken : u.rec[k] = t.rec[k]
         /\ \A k \in Key \ (taken \cup Prefs) : u.live[k] = t.live[k]
         /\ taken \subseteq Key
         /\ \A k \in taken :
              /\ Known(b.recs[k]) /\ Wins(k, b.recs[k], t.rec[k])
              /\ u.rec[k].hlc = b.recs[k].hlc /\ u.rec[k].dev = b.recs[k].dev
              /\ u.rec[k].val = b.recs[k].val /\ u.live[k] = b.recs[k].val
              /\ u.rec[k].hlc <= u.hlc
              /\ u.rec[k].seq > t.seq /\ u.rec[k].seq <= u.seq
         /\ \A k \in Key : Known(b.recs[k]) /\ b.recs[k].dev # d =>
              \/ k \in taken
              \/ ~Wins(k, b.recs[k], t.rec[k])
              \/ VersionOf(k, b.recs[k]) \in u.quar
<1> DEFINE count == Cardinality(taken)
           aside == {VersionOf(k, b.recs[k]) : k \in SetAside(t, d, b, now)}
<1>1. /\ t.live \in [Key -> Content] /\ t.rec \in [Key -> Record]
      /\ t.chosen \in BOOLEAN /\ t.quar \subseteq Version
      /\ t.hlc \in Nat /\ t.seq \in Nat /\ b.recs \in [Key -> Record]
  BY DEF Store, Batch
<1>2. /\ taken \subseteq Key /\ count \in Nat
      /\ \A k \in taken : /\ Known(b.recs[k])
                         /\ Wins(k, b.recs[k], t.rec[k])
                         /\ ApplyPlace(b, taken, k) \in 1..count
  BY TakenFacts
<1>3. u = [t EXCEPT !.live = LiveAfter(t, b, taken),
                    !.rec = [k \in Key |->
                               IF k \in taken
                               THEN [b.recs[k] EXCEPT !.seq = t.seq + ApplyPlace(b, taken, k)]
                               ELSE t.rec[k]],
                    !.hlc = Observed(t, b, taken, now),
                    !.seq = t.seq + count,
                    !.quar = t.quar \cup aside]
  BY DEF ApplyScanned
<1>4. /\ u.live = LiveAfter(t, b, taken)
      /\ u.rec = [k \in Key |-> IF k \in taken
                               THEN [b.recs[k] EXCEPT !.seq = t.seq + ApplyPlace(b, taken, k)]
                               ELSE t.rec[k]]
      /\ u.hlc = Observed(t, b, taken, now)
      /\ u.seq = t.seq + count
      /\ u.quar = t.quar \cup aside
      /\ u.chosen = t.chosen
  BY <1>3 DEF Store
<1>5. u.hlc \in Nat /\ t.hlc <= u.hlc /\ \A k \in taken : b.recs[k].hlc <= u.hlc
  BY <1>4, ObservedFacts
<1>6. \A k \in Key : Known(b.recs[k]) =>
        b.recs[k] \in [hlc : Nat, dev : Device, val : Content, seq : Nat \ {0}]
  BY <1>1 DEF Record, NoRecord, Known
<1>7. ASSUME NEW k \in taken
      PROVE  /\ u.rec[k].hlc = b.recs[k].hlc /\ u.rec[k].dev = b.recs[k].dev
             /\ u.rec[k].val = b.recs[k].val
             /\ u.rec[k].seq = t.seq + ApplyPlace(b, taken, k)
             /\ u.rec[k] \in Record /\ u.rec[k].hlc <= u.hlc
             /\ u.rec[k].seq > t.seq /\ u.rec[k].seq <= u.seq
  <2>1. ApplyPlace(b, taken, k) \in Nat /\ 1 <= ApplyPlace(b, taken, k)
          /\ ApplyPlace(b, taken, k) <= count
    BY <1>2
  <2>2. t.seq + ApplyPlace(b, taken, k) \in Nat \ {0}
    BY <2>1, <1>1
  <2>3. b.recs[k] \in [hlc : Nat, dev : Device, val : Content, seq : Nat \ {0}]
    BY <1>2, <1>6
  <2>4. u.rec[k] = [b.recs[k] EXCEPT !.seq = t.seq + ApplyPlace(b, taken, k)]
    BY <1>2, <1>4
  <2>5. /\ u.rec[k].hlc = b.recs[k].hlc /\ u.rec[k].dev = b.recs[k].dev
        /\ u.rec[k].val = b.recs[k].val
        /\ u.rec[k].seq = t.seq + ApplyPlace(b, taken, k)
        /\ u.rec[k] \in Record
    BY <2>2, <2>3, <2>4 DEF Record
  <2>6. u.rec[k].seq > t.seq /\ u.rec[k].seq <= u.seq
    BY <2>1, <2>5, <1>1, <1>2, <1>4
  <2> QED BY <2>5, <2>6, <1>5
<1>8. u.rec \in [Key -> Record] /\ u.seq \in Nat /\ t.seq <= u.seq
  <2>1. u.seq \in Nat /\ t.seq <= u.seq
    BY <1>1, <1>2, <1>4
  <2>2. \A k \in Key : u.rec[k] \in Record
    <3>1. \A k \in Key \ taken : u.rec[k] = t.rec[k]
      BY <1>4
    <3> QED BY <3>1, <1>1, <1>7
  <2>3. u.rec = [k \in Key |-> u.rec[k]]
    BY <1>4
  <2> QED BY <2>1, <2>2, <2>3
<1>9. u.live \in [Key -> Content] /\ \A k \in taken : u.live[k] = b.recs[k].val
  <2>1. \A k \in Key : b.recs[k].val \in Content
    BY <1>1 DEF Record, NoRecord, Content
  <2>2. \A k \in Prefs : Default[k] \in Content
    BY SyncRecordsAssumption DEF Content
  <2> QED BY <1>1, <1>2, <1>4, <2>1, <2>2 DEF LiveAfter
<1>10. aside \subseteq Version
  <2>1. ASSUME NEW k \in SetAside(t, d, b, now)
        PROVE  VersionOf(k, b.recs[k]) \in Version
    <3>1. k \in Key /\ Known(b.recs[k])
      BY <2>1 DEF SetAside
    <3> QED BY <3>1, <1>6 DEF VersionOf, Version
  <2> QED BY <2>1
<1>11. u \in Store
  <2>1. u.quar \subseteq Version
    BY <1>1, <1>4, <1>10
  <2> QED BY <2>1, <1>1, <1>3, <1>4, <1>5, <1>8, <1>9 DEF Store
<1>12. \A k \in Key \ (taken \cup Prefs) : u.live[k] = t.live[k]
  BY <1>4 DEF LiveAfter
<1>13. ASSUME NEW k \in Key, Known(b.recs[k]), b.recs[k].dev # d, k \notin taken,
              Wins(k, b.recs[k], t.rec[k])
       PROVE  VersionOf(k, b.recs[k]) \in u.quar
  <2>1. k \in SetAside(t, d, b, now)
    BY <1>13 DEF Taken, Winners
  <2> QED BY <2>1, <1>4
<1>14. \A k \in Key \ taken : u.rec[k] = t.rec[k]
  BY <1>4
<1>15. t.quar \subseteq u.quar /\ u.chosen = t.chosen
  BY <1>4
<1> QED BY <1>2, <1>5, <1>7, <1>8, <1>9, <1>11, <1>12, <1>13, <1>14, <1>15
=============================================================================
