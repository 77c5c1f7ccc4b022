-------------------------- MODULE ValidationProofs --------------------------
(***************************************************************************)
(* Proofs about Validation, for any universe of symbols, any history of    *)
(* the service, any request and any sizes of windows, batches and pages:   *)
(* what is replayed is exactly the history that was asked for, and the     *)
(* holdout is unseen.                                                      *)
(***************************************************************************)
EXTENDS Validation, FiniteSetTheorems, SequenceTheorems, TLAPS

(***************************************************************************)
(* Windows and batches.                                                    *)
(***************************************************************************)
LEMMA MinPair ==
  ASSUME NEW a \in Int, NEW b \in Int
  PROVE  /\ Min({a, b}) \in Int
         /\ Min({a, b}) <= a /\ Min({a, b}) <= b
         /\ Min({a, b}) = a \/ Min({a, b}) = b
<1>1. \E x \in {a, b} : \A y \in {a, b} : x =< y
  OBVIOUS
<1>2. Min({a, b}) \in {a, b} /\ \A y \in {a, b} : Min({a, b}) =< y
  BY <1>1 DEF Min
<1> QED
  BY <1>2

\* Division with its remainder, and the number of pieces of size d that n has: every point that is
\* counted from 1 to n lies in one of them.
LEMMA Division ==
  ASSUME NEW a \in Nat, NEW d \in Nat \ {0}
  PROVE  /\ a \div d \in Nat /\ a % d \in 0 .. d - 1
         /\ (a \div d) * d <= a /\ a < (a \div d) * d + d
  OBVIOUS

LEMMA SamePiece ==
  ASSUME NEW k \in Nat, NEW d \in Nat \ {0}, NEW j \in 0 .. d - 1
  PROVE  (k * d + j) \div d = k /\ (k * d + j) % d = j
  OBVIOUS

LEMMA PieceOf ==
  ASSUME NEW n \in Nat \ {0}, NEW d \in Nat \ {0}, NEW x \in 1 .. n
  PROVE  /\ (x - 1) \div d \in Nat
         /\ (x - 1) \div d < PiecesOf(n, d)
         /\ PiecesOf(n, d) \in Nat \ {0}
<1> DEFINE q == (x - 1) \div d
           p == (n + d - 1) \div d
<1>1. q \in Nat /\ q * d <= x - 1
  BY Division, x - 1 \in Nat
<1>2. p \in Nat /\ n + d - 1 < p * d + d
  BY Division, n + d - 1 \in Nat
<1>3. q * d \in Nat /\ p * d \in Nat
  BY <1>1, <1>2
<1>4. q * d < p * d
  <2> HIDE DEF q, p
  <2> QED
    BY <1>1, <1>2, <1>3
<1>5. q < p
  <2>1. ASSUME p <= q PROVE p * d <= q * d
    <3> HIDE DEF q, p
    <3> QED
      BY <2>1, <1>1, <1>2
  <2> HIDE DEF q, p
  <2> QED
    BY <2>1, <1>1, <1>2, <1>3, <1>4
<1> QED
  <2>1. p = PiecesOf(n, d)
    BY DEF PiecesOf
  <2> HIDE DEF p
  <2> QED
    BY <1>1, <1>2, <1>5, <2>1

(***************************************************************************)
(* Days in order.                                                          *)
(***************************************************************************)
LEMMA ImageFinite ==
  ASSUME NEW bars, IsFiniteSet(bars), NEW s
  PROVE  IsFiniteSet({b[2] : b \in {c \in bars : c[1] = s}})
<1> DEFINE source == {c \in bars : c[1] = s}
           image  == {b[2] : b \in source}
           f      == [b \in source |-> b[2]]
<1>1. IsFiniteSet(source)
  BY FS_Subset
<1>2. f \in Surjection(source, image)
  BY DEF Surjection
<1> QED
  BY <1>1, <1>2, FS_Surjection

\* InOrder lists every day once, the earlier first.  The number of days up to a day is an injection
\* into as many numbers as there are days, so it reaches each of them.
LEMMA Ordered ==
  ASSUME NEW days, IsFiniteSet(days), days \subseteq Int
  PROVE  /\ Cardinality(days) \in Nat
         /\ Len(InOrder(days)) = Cardinality(days)
         /\ \A n \in 1 .. Cardinality(days) : InOrder(days)[n] \in days
         /\ \A n, m \in 1 .. Cardinality(days) : n < m => InOrder(days)[n] < InOrder(days)[m]
<1> DEFINE N    == Cardinality(days)
           up(d) == {e \in days : e <= d}
           upTo == [d \in days |-> Cardinality(up(d))]
<1>1. N \in Nat /\ IsFiniteSet(1 .. N) /\ Cardinality(1 .. N) = N
  BY FS_CardinalityType, FS_Interval
<1>2. ASSUME NEW d \in days
      PROVE  IsFiniteSet(up(d)) /\ Cardinality(up(d)) \in 1 .. N
  <2>1. up(d) \in SUBSET days /\ d \in up(d)
    OBVIOUS
  <2>2. IsFiniteSet(up(d)) /\ Cardinality(up(d)) <= N
    BY <2>1, FS_Subset
  <2>3. Cardinality(up(d)) \in Nat /\ Cardinality(up(d)) # 0
    BY <2>1, <2>2, FS_CardinalityType, FS_EmptySet
  <2> QED
    BY <1>1, <2>2, <2>3
<1>3. ASSUME NEW d \in days, NEW e \in days, d < e
      PROVE  Cardinality(up(d)) < Cardinality(up(e))
  <2>1. up(d) \in SUBSET up(e) /\ up(d) # up(e)
    <3>1. e \in up(e) /\ e \notin up(d)
      BY <1>3
    <3>2. ASSUME NEW x \in up(d) PROVE x \in up(e)
      <4>1. x \in days /\ x <= d
        OBVIOUS
      <4> QED
        BY <1>3, <4>1
    <3> QED
      BY <3>1, <3>2
  <2>2. IsFiniteSet(up(e)) /\ Cardinality(up(d)) \in Int /\ Cardinality(up(e)) \in Int
    BY <1>2
  <2> HIDE DEF up
  <2>3. Cardinality(up(d)) <= Cardinality(up(e)) /\ Cardinality(up(d)) # Cardinality(up(e))
    BY <2>1, <2>2, FS_Subset
  <2> QED
    BY <2>2, <2>3
<1>4. upTo \in Surjection(days, 1 .. N)
  <2>1. upTo \in [days -> 1 .. N]
    BY <1>2
  <2>2. ASSUME NEW d \in days, NEW e \in days, upTo[d] = upTo[e] PROVE d = e
    <3>1. Cardinality(up(d)) = Cardinality(up(e))
      BY <2>2
    <3>2. ~ d < e /\ ~ e < d
      BY <1>2, <1>3, <3>1
    <3> QED
      BY <3>2
  <2>3. upTo \in Injection(days, 1 .. N)
    BY <2>1, <2>2 DEF Injection, IsInjective
  <2> QED
    BY <1>1, <2>3, FS_Injection
<1> DEFINE s(n) == CHOOSE d \in days : upTo[d] = n
<1>5. ASSUME NEW n \in 1 .. N PROVE s(n) \in days /\ upTo[s(n)] = n
  <2>1. \E d \in days : upTo[d] = n
    BY <1>4 DEF Surjection
  <2> QED
    BY <2>1
<1>6. ASSUME NEW n \in 1 .. N, NEW m \in 1 .. N, n < m PROVE s(n) < s(m)
  <2>1. PICK d \in days : d = s(n) /\ upTo[d] = n
    BY <1>5
  <2>2. PICK e \in days : e = s(m) /\ upTo[e] = m
    BY <1>5
  <2>3. Cardinality(up(d)) = n /\ Cardinality(up(e)) = m
    BY <2>1, <2>2
  <2>4. ~ e < d /\ e # d
    <3>1. e < d => Cardinality(up(e)) < Cardinality(up(d))
      BY <1>3
    <3> HIDE DEF up, N
    <3> QED
      BY <1>1, <1>6, <2>3, <3>1
  <2>5. d < e
    BY <2>4
  <2> HIDE DEF s, upTo
  <2> QED
    BY <2>1, <2>2, <2>5
<1>7. InOrder(days) = [n \in 1 .. N |-> s(n)]
  BY DEF InOrder
<1> HIDE DEF s
<1>8. InOrder(days) \in Seq(days) /\ DOMAIN InOrder(days) = 1 .. N
  <2>1. InOrder(days) \in [1 .. N -> days]
    BY <1>5, <1>7
  <2> QED
    BY <1>1, <2>1, SeqDef
<1>9. Len(InOrder(days)) = N
  <2>1. Len(InOrder(days)) \in Nat /\ 1 .. Len(InOrder(days)) = 1 .. N
    BY <1>8, LenProperties
  <2> QED
    BY <1>1, <2>1
<1> QED
  BY <1>1, <1>5, <1>6, <1>7, <1>9

LEMMA DaysOrdered ==
  ASSUME NEW bars, IsFiniteSet(bars), \A b \in bars : b[2] \in Int, NEW s
  PROVE  /\ Len(DaysOf(bars, s)) \in Nat
         /\ \A n \in 1 .. Len(DaysOf(bars, s)) :
              /\ DaysOf(bars, s)[n] \in Int
              /\ \E b \in bars : b[1] = s /\ b[2] = DaysOf(bars, s)[n]
         /\ \A n, m \in 1 .. Len(DaysOf(bars, s)) :
              n < m => DaysOf(bars, s)[n] < DaysOf(bars, s)[m]
<1> DEFINE days == {b[2] : b \in {c \in bars : c[1] = s}}
<1>1. IsFiniteSet(days) /\ days \subseteq Int
  BY ImageFinite
<1>2. DaysOf(bars, s) = InOrder(days)
  BY DEF DaysOf
<1>3. \A x \in days : x \in Int /\ \E b \in bars : b[1] = s /\ b[2] = x
  OBVIOUS
<1> HIDE DEF days
<1> QED
  BY <1>1, <1>2, <1>3, Ordered

(***************************************************************************)
(* The download.                                                           *)
(***************************************************************************)
Between(from, to) == {b \in data : b[1] \in ToSet(Symbols) /\ from <= b[2] /\ b[2] <= to}

Served ==
  /\ IsFiniteSet(data)
  /\ \A b \in data : b[2] \in Int
  /\ range.from \in Int /\ range.to \in Int

LEMMA Universe ==
  /\ Len(Symbols) \in Nat \ {0}
  /\ \A x \in ToSet(Symbols) : \E n \in 1 .. Len(Symbols) : Symbols[n] = x
  /\ \A n \in 1 .. Len(Symbols) : Symbols[n] \in ToSet(Symbols)
<1>1. Symbols \in Seq(ToSet(Symbols)) /\ Symbols # <<>>
  BY ValidationAssumption
<1>2. Len(Symbols) \in Nat \ {0} /\ DOMAIN Symbols = 1 .. Len(Symbols)
  BY <1>1, LenProperties, EmptySeq
<1> QED
  BY <1>2 DEF ToSet

LEMMA Sizes ==
  /\ ChunkDays \in Nat \ {0} /\ BatchSize \in Nat \ {0} /\ LongSpan \in Nat
  /\ Batches \in Nat \ {0}
<1>1. ChunkDays \in Nat \ {0} /\ BatchSize \in Nat \ {0} /\ LongSpan \in Nat
  BY ValidationAssumption
<1>2. 1 \in 1 .. Len(Symbols)
  BY Universe
<1> QED
  BY <1>1, <1>2, Universe, PieceOf DEF Batches

\* A part stays within the request: its symbols are of the universe, its end is not later.
LEMMA PartWithin ==
  ASSUME Served, NEW i \in Nat
  PROVE  /\ Part(i).symbols \subseteq ToSet(Symbols)
         /\ Part(i).to \in Int /\ Part(i).to <= range.to
<1>1. CASE ~Windowed
  BY <1>1 DEF Part, Served
<1>2. CASE Windowed
  <2> DEFINE k    == i \div Batches
             j    == i % Batches
             last == Min({(j + 1) * BatchSize, Len(Symbols)})
  <2>1. k \in Nat /\ j \in Nat
    BY Sizes, Division
  <2>2. Part(i) = [symbols |-> {Symbols[n] : n \in (j * BatchSize + 1) .. last},
                   from |-> Cursor(k), to |-> Min({Cursor(k) + ChunkDays, range.to})]
    BY <1>2 DEF Part
  <2> HIDE DEF k, j
  <2>3. Cursor(k) + ChunkDays \in Int
    BY <2>1, Sizes DEF Cursor, Served
  <2>4. Min({Cursor(k) + ChunkDays, range.to}) \in Int
        /\ Min({Cursor(k) + ChunkDays, range.to}) <= range.to
    BY <2>3, MinPair DEF Served
  <2>5. j * BatchSize \in Nat /\ (j + 1) * BatchSize \in Int
    BY <2>1, Sizes
  <2>6. last \in Int /\ last <= Len(Symbols)
    <3> DEFINE e == (j + 1) * BatchSize
    <3> HIDE DEF e
    <3>1. e \in Int
      BY <2>5 DEF e
    <3>2. Len(Symbols) \in Int
      BY Universe
    <3>3. Min({e, Len(Symbols)}) \in Int /\ Min({e, Len(Symbols)}) <= Len(Symbols)
      BY <3>1, <3>2, MinPair
    <3> QED
      BY <3>3 DEF e
  <2> HIDE DEF last
  <2>7. \A n \in (j * BatchSize + 1) .. last : n \in 1 .. Len(Symbols)
    <3> DEFINE offset == j * BatchSize
    <3> HIDE DEF offset
    <3>1. offset \in Nat
      BY <2>5 DEF offset
    <3>2. \A n \in (offset + 1) .. last : n \in 1 .. Len(Symbols)
      BY <3>1, <2>6, Universe
    <3> QED
      BY <3>2 DEF offset
  <2> QED
    BY <2>2, <2>4, <2>7, Universe
<1> QED
  BY <1>1, <1>2

\* Together the parts are the request: every bar between its bounds is asked for in one of them.
LEMMA PartsCover ==
  ASSUME Served, NEW b \in Between(range.from, range.to)
  PROVE  \E i \in 0 .. Parts - 1 : b \in Asked(i)
<1>1. b \in data /\ b[1] \in ToSet(Symbols) /\ b[2] \in Int
      /\ range.from <= b[2] /\ b[2] <= range.to
  BY DEF Between, Served
<1>2. CASE ~Windowed
  BY <1>1, <1>2 DEF Parts, Asked, Part
<1>3. CASE Windowed
  <2> DEFINE span == range.to - range.from
             x    == IF b[2] = range.from THEN 1 ELSE b[2] - range.from
             k    == (x - 1) \div ChunkDays
  <2>1. span \in Nat \ {0} /\ x \in 1 .. span
    BY <1>1, <1>3, Sizes DEF Windowed, Served
  <2>2. k \in Nat /\ Windows \in Nat \ {0} /\ k < Windows
    BY <2>1, Sizes, PieceOf DEF Windows
  <2>3. k * ChunkDays <= x - 1 /\ x - 1 < k * ChunkDays + ChunkDays
    BY <2>1, Sizes, Division, x - 1 \in Nat
  <2>4. /\ Cursor(k) <= b[2] /\ b[2] <= Cursor(k) + ChunkDays /\ Cursor(k) + ChunkDays \in Int
    <3> DEFINE kc == k * ChunkDays
    <3>1. kc \in Int
      BY <2>2, Sizes
    <3>2. Cursor(k) = range.from + kc
      BY DEF Cursor
    <3>3. kc <= x - 1 /\ x - 1 < kc + ChunkDays
      BY <2>3
    <3> HIDE DEF kc, k
    <3> QED
      BY <1>1, <2>1, <3>1, <3>2, <3>3, Sizes DEF Served
  <2>5. PICK n \in 1 .. Len(Symbols) : Symbols[n] = b[1]
    BY <1>1, Universe
  <2> DEFINE j == (n - 1) \div BatchSize
             i == k * Batches + j
  <2>6. j \in Nat /\ j < Batches
    BY Sizes, Universe, PieceOf DEF Batches
  <2>7. j * BatchSize <= n - 1 /\ n - 1 < j * BatchSize + BatchSize
    BY Sizes, Division, n - 1 \in Nat
  <2>8. n \in (j * BatchSize + 1) .. Min({(j + 1) * BatchSize, Len(Symbols)})
    <3> DEFINE jb == j * BatchSize
    <3>1. jb \in Int /\ (j + 1) * BatchSize = jb + BatchSize
      BY <2>6, Sizes
    <3>2. jb <= n - 1 /\ n - 1 < jb + BatchSize
      BY <2>7
    <3> HIDE DEF jb, j
    <3> DEFINE last == Min({jb + BatchSize, Len(Symbols)})
    <3>3. Len(Symbols) \in Int /\ jb + BatchSize \in Int
      BY <3>1, Sizes, Universe
    <3>4. last = jb + BatchSize \/ last = Len(Symbols)
      BY <3>3, MinPair
    <3> HIDE DEF last
    <3>5. n \in (jb + 1) .. last
      BY <3>1, <3>2, <3>3, <3>4, Sizes
    <3> QED
      BY <3>1, <3>5 DEF jb, last
  <2> HIDE DEF k, j
  <2>9. i \in Nat /\ i \div Batches = k /\ i % Batches = j
    BY <2>2, <2>6, Sizes, SamePiece
  <2>10. i < Parts /\ Parts \in Int
    <3>1. (k + 1) * Batches <= Windows * Batches
      BY <2>2, Sizes
    <3>2. (k + 1) * Batches = k * Batches + Batches /\ k * Batches \in Nat
      BY <2>2, Sizes
    <3>3. Windows * Batches \in Nat /\ Parts = Windows * Batches
      BY <1>3, <2>2, Sizes DEF Parts
    <3> QED
      BY <2>6, <3>1, <3>2, <3>3, Sizes
  <2> HIDE DEF i
  <2>11. Part(i) = [symbols |-> {Symbols[m] : m \in (j * BatchSize + 1) ..
                                   Min({(j + 1) * BatchSize, Len(Symbols)})},
                    from |-> Cursor(k), to |-> Min({Cursor(k) + ChunkDays, range.to})]
    BY <1>3, <2>9 DEF Part
  <2>12. Min({Cursor(k) + ChunkDays, range.to}) \in {Cursor(k) + ChunkDays, range.to}
    BY <2>4, MinPair DEF Served
  <2>13. b[1] \in Part(i).symbols
    <3> DEFINE batch == (j * BatchSize + 1) .. Min({(j + 1) * BatchSize, Len(Symbols)})
    <3>1. Part(i).symbols = {Symbols[m] : m \in batch}
      BY <2>11
    <3>2. n \in batch
      BY <2>8
    <3> HIDE DEF batch
    <3> QED
      BY <2>5, <3>1, <3>2
  <2>14. Part(i).from <= b[2] /\ b[2] <= Part(i).to
    <3> DEFINE end == Min({Cursor(k) + ChunkDays, range.to})
    <3>1. end = Cursor(k) + ChunkDays \/ end = range.to
      BY <2>12
    <3> HIDE DEF end
    <3>2. Part(i).from = Cursor(k) /\ Part(i).to = end
      BY <2>11 DEF end
    <3> QED
      BY <1>1, <2>4, <3>1, <3>2
  <2>15. b \in Asked(i)
    BY <1>1, <2>13, <2>14 DEF Asked
  <2> QED
    BY <2>9, <2>10, <2>15
<1> QED
  BY <1>2, <1>3

\* The parts before the n-th have been received.
Collected(n) == \A i \in 0 .. n - 1 : Asked(i) \subseteq fetched

\* Of the part under way, what was not received is what remains; nothing is kept that was not
\* asked for, up to bars of a short request from before its start, which CheckHistory refuses.
Download ==
  /\ Served
  /\ fetched \subseteq {b \in data : b[1] \in ToSet(Symbols) /\ b[2] <= range.to}
  /\ phase = "FETCHING" => /\ at \in 0 .. Parts - 1
                           /\ Collected(at)
                           /\ remaining \subseteq Asked(at)
                           /\ Asked(at) \subseteq fetched \cup remaining
  /\ phase \notin {"FETCHING", "FAILED"} => Collected(Parts)
  /\ phase \notin {"FETCHING", "CHECKING", "FAILED"} => Usable

LEMMA PartsPositive ==
  ASSUME Served
  PROVE  Parts \in Nat \ {0}
<1>1. CASE ~Windowed
  BY <1>1 DEF Parts
<1>2. CASE Windowed
  <2>1. range.to - range.from \in Nat \ {0}
    BY <1>2, Sizes DEF Windowed, Served
  <2>2. Windows \in Nat \ {0}
    <3>1. 1 \in 1 .. range.to - range.from
      BY <2>1
    <3> QED
      BY <2>1, <3>1, Sizes, PieceOf DEF Windows
  <2>3. Windows * Batches \in Nat /\ Windows * Batches # 0
    BY <2>2, Sizes
  <2> QED
    BY <1>2, <2>3 DEF Parts
<1> QED
  BY <1>1, <1>2

\* The history of the service is finite, its days are numbers.
LEMMA ServiceFinite ==
  ASSUME NEW h \in Histories
  PROVE  LET bars == UNION {{s} \X h[s] : s \in DOMAIN h}
         IN  IsFiniteSet(bars) /\ \A b \in bars : b[2] \in Int
<1> DEFINE parts == {{s} \X h[s] : s \in DOMAIN h}
           f     == [s \in DOMAIN h |-> {s} \X h[s]]
<1>1. IsFiniteSet(DOMAIN h) /\ \A s \in DOMAIN h : IsFiniteSet(h[s]) /\ h[s] \subseteq Int
  BY ValidationAssumption
<1>2. f \in Surjection(DOMAIN h, parts)
  BY DEF Surjection
<1>3. IsFiniteSet(parts)
  BY <1>1, <1>2, FS_Surjection
<1>4. ASSUME NEW P \in parts PROVE IsFiniteSet(P)
  <2>1. PICK s \in DOMAIN h : P = {s} \X h[s]
    OBVIOUS
  <2> QED
    BY <1>1, <2>1, FS_Singleton, FS_Product
<1>5. IsFiniteSet(UNION parts)
  BY <1>3, <1>4, FS_UNION
<1>6. \A b \in UNION parts : b[2] \in Int
  BY <1>1
<1> QED
  BY <1>5, <1>6

LEMMA InitDownload ==
  ASSUME Init
  PROVE  Download
<1>1. Served
  <2>1. PICK h \in Histories : data = UNION {{s} \X h[s] : s \in DOMAIN h}
    BY DEF Init
  <2>2. range.from \in Int /\ range.to \in Int
    BY ValidationAssumption DEF Init
  <2> QED
    BY <2>1, <2>2, ServiceFinite DEF Served
<1>2. 0 \in 0 .. Parts - 1
  BY <1>1, PartsPositive
<1> QED
  BY <1>1, <1>2 DEF Init, Download, Collected

\* A page that is not refused adds bars of the request only, and every bar it owes.
LEMMA PageKept ==
  ASSUME Download, phase = "FETCHING", NEW page \in Pages, ~Refused(page)
  PROVE  /\ Received(page) \subseteq {b \in data : b[1] \in ToSet(Symbols) /\ b[2] <= range.to}
         /\ remaining \cap page \subseteq Received(page)
<1>1. Served /\ at \in Nat /\ remaining \subseteq Asked(at)
  BY PartsPositive DEF Download
<1>2. Part(at).symbols \subseteq ToSet(Symbols) /\ Part(at).to \in Int /\ Part(at).to <= range.to
  BY <1>1, PartWithin
<1>3. remaining \subseteq data /\ \A b \in remaining : b[1] \in Part(at).symbols
  BY <1>1 DEF Asked
<1>4. page \subseteq data
  BY <1>3 DEF Pages, UpTo
<1>5. ASSUME NEW b \in Received(page)
      PROVE  b \in data /\ b[1] \in ToSet(Symbols) /\ b[2] <= range.to
  <2>1. b \in page /\ b[1] \in Part(at).symbols
    BY DEF Received
  <2>2. b[2] \in Int /\ ~(b[2] > Part(at).to)
    BY <1>1, <1>4, <2>1 DEF Refused, Served
  <2> QED
    BY <1>1, <1>2, <1>4, <2>1, <2>2 DEF Served
<1> QED
  BY <1>3, <1>5 DEF Received

LEMMA NextDownload ==
  ASSUME Download, [Next]_vars
  PROVE  Download'
<1>1. ASSUME UNCHANGED <<data, range>>
      PROVE  /\ Served' = Served /\ Parts' = Parts
             /\ \A i : Asked(i)' = Asked(i)
  BY <1>1 DEF Served, Parts, Asked, Part, Windowed, Windows, Batches, Cursor
<1>2. ASSUME UNCHANGED <<data, range, fetched>>
      PROVE  Usable' = Usable
  BY <1>2 DEF Usable, SplitIndex, BenchmarkDays, DaysOf
<1>3. CASE ReceivePage
  <2>1. PICK page \in Pages :
          /\ ~Refused(page)
          /\ fetched' = fetched \cup Received(page)
          /\ \/ /\ remaining \ page # {} /\ pages + 1 < MaxPages
                /\ pages' = pages + 1 /\ remaining' = remaining \ page
                /\ UNCHANGED <<at, phase>>
             \/ /\ remaining \subseteq page /\ at + 1 < Parts
                /\ at' = at + 1 /\ pages' = 0 /\ remaining' = Asked(at + 1)
                /\ UNCHANGED phase
             \/ /\ remaining \subseteq page /\ at + 1 = Parts
                /\ phase' = "CHECKING" /\ remaining' = {}
                /\ UNCHANGED <<at, pages>>
    BY <1>3 DEF ReceivePage
  <2>2. phase = "FETCHING" /\ UNCHANGED <<data, range>>
    BY <1>3 DEF ReceivePage
  <2>3. Served /\ Served' /\ Parts' = Parts /\ Parts \in Nat \ {0}
        /\ \A i : Asked(i)' = Asked(i)
    BY <1>1, <2>2, PartsPositive DEF Download
  <2>4. /\ at \in 0 .. Parts - 1 /\ Collected(at)
        /\ remaining \subseteq Asked(at) /\ Asked(at) \subseteq fetched \cup remaining
    BY <2>2 DEF Download
  <2>5. /\ Received(page) \subseteq {b \in data : b[1] \in ToSet(Symbols) /\ b[2] <= range.to}
        /\ remaining \cap page \subseteq Received(page)
    BY <2>1, <2>2, PageKept
  <2>6. fetched' \subseteq {b \in data' : b[1] \in ToSet(Symbols) /\ b[2] <= range'.to}
    BY <2>1, <2>2, <2>5 DEF Download
  <2>7. \A i \in 0 .. at - 1 : Asked(i)' \subseteq fetched'
    BY <2>1, <2>3, <2>4 DEF Collected
  <2>8. CASE remaining' = remaining \ page /\ UNCHANGED <<at, phase>>
    <3>1. Collected(at)'
      BY <2>7, <2>8 DEF Collected
    <3>2. remaining' \subseteq Asked(at)' /\ Asked(at)' \subseteq fetched' \cup remaining'
      BY <2>1, <2>3, <2>4, <2>5, <2>8
    <3> QED
      BY <2>2, <2>3, <2>4, <2>6, <2>8, <3>1, <3>2 DEF Download
  <2>9. ASSUME NEW i, i = at, remaining \subseteq page PROVE Asked(i)' \subseteq fetched'
    BY <2>1, <2>3, <2>4, <2>5, <2>9
  <2>10. CASE remaining \subseteq page /\ at + 1 < Parts /\ at' = at + 1
              /\ remaining' = Asked(at + 1) /\ UNCHANGED phase
    <3>1. \A i \in 0 .. at : Asked(i)' \subseteq fetched'
      BY <2>4, <2>7, <2>9, <2>10
    <3>2. Collected(at)'
      BY <2>4, <2>10, <3>1 DEF Collected
    <3> QED
      BY <2>2, <2>3, <2>4, <2>6, <2>10, <3>2 DEF Download
  <2>11. CASE remaining \subseteq page /\ at + 1 = Parts /\ phase' = "CHECKING"
    <3>1. \A i \in 0 .. Parts - 1 : Asked(i)' \subseteq fetched'
      BY <2>3, <2>4, <2>7, <2>9, <2>11
    <3>2. Collected(Parts)'
      BY <2>3, <3>1 DEF Collected
    <3> QED
      BY <2>3, <2>6, <2>11, <3>2 DEF Download
  <2> QED
    BY <2>1, <2>8, <2>10, <2>11
<1>4. ASSUME UNCHANGED <<data, range, fetched>>,
             phase \notin {"FETCHING", "FAILED"} \/ phase' = "FAILED",
             phase' \notin {"FETCHING", "CHECKING", "FAILED"} => Usable,
             phase' = "FAILED" \/ phase' \notin {"FETCHING", "CHECKING"}
      PROVE  Download'
  <2>1. fetched' \subseteq {b \in data' : b[1] \in ToSet(Symbols) /\ b[2] <= range'.to}
    BY <1>4 DEF Download
  <2>2. phase' # "FAILED" => Collected(Parts)'
    BY <1>1, <1>4 DEF Download, Collected
  <2> QED
    BY <1>1, <1>2, <1>4, <2>1, <2>2 DEF Download
<1>5. CASE FetchFails
  BY <1>4, <1>5 DEF FetchFails, Raise
<1>6. CASE CheckHistory
  BY <1>4, <1>6 DEF CheckHistory, Raise
<1>7. ASSUME phase \notin {"FETCHING", "CHECKING", "FAILED"}
      PROVE  Usable
  BY <1>7 DEF Download
<1>8. CASE RunDevelopment
  BY <1>4, <1>7, <1>8 DEF RunDevelopment, Replay
<1>9. CASE RunHoldout
  BY <1>4, <1>7, <1>9 DEF RunHoldout, Replay
<1>10. CASE RunWindow
  BY <1>4, <1>7, <1>10 DEF RunWindow, Replay
<1>11. CASE Report
  BY <1>4, <1>7, <1>11 DEF Report
<1>12. CASE UNCHANGED vars
  <2>1. UNCHANGED <<data, range, fetched, at, remaining, phase>>
    BY <1>12 DEF vars
  <2>2. /\ Served' = Served /\ Parts' = Parts /\ Usable' = Usable
        /\ \A i : Asked(i)' = Asked(i)
    BY <1>1, <1>2, <2>1
  <2>3. Collected(at)' = Collected(at) /\ Collected(Parts)' = Collected(Parts)
    BY <2>1, <2>2 DEF Collected
  <2> QED
    BY <2>1, <2>2, <2>3 DEF Download
<1> QED
  BY <1>3, <1>5, <1>6, <1>8, <1>9, <1>10, <1>11, <1>12 DEF Next

\* Every bar the service has between the bounds of the request is replayed, and no other bar: no
\* window, batch or page of get_bars_windowed loses or adds one.
THEOREM Complete == Spec => []HistoryComplete
<1>1. Download => HistoryComplete
  <2> SUFFICES ASSUME Download, phase \notin {"FETCHING", "CHECKING", "FAILED"}
               PROVE  fetched = Between(range.from, range.to)
    BY DEF HistoryComplete, Between
  <2>1. Served /\ Usable /\ Collected(Parts)
        /\ fetched \subseteq {b \in data : b[1] \in ToSet(Symbols) /\ b[2] <= range.to}
    BY DEF Download
  <2>2. fetched \subseteq Between(range.from, range.to)
    BY <2>1 DEF Usable, Between
  <2>3. Between(range.from, range.to) \subseteq fetched
    BY <2>1, PartsCover DEF Collected
  <2> QED
    BY <2>2, <2>3
<1> QED
  BY <1>1, InitDownload, NextDownload, PTL DEF Spec

(***************************************************************************)
(* The holdout.                                                            *)
(***************************************************************************)
LEMMA MaxPair ==
  ASSUME NEW a \in Int, NEW b \in Int
  PROVE  Max({a, b}) \in {a, b} /\ a <= Max({a, b}) /\ b <= Max({a, b})
<1>1. \E x \in {a, b} : \A y \in {a, b} : x >= y
  OBVIOUS
<1>2. Max({a, b}) \in {a, b} /\ \A y \in {a, b} : Max({a, b}) >= y
  BY <1>1 DEF Max
<1> QED
  BY <1>2

LEMMA Lengths ==
  /\ {TrainBars, TestBars, StepBars, WarmupBars} \subseteq Nat \ {0}
  /\ {MinDevelopment, HoldoutRoom} \subseteq Nat
BY ValidationAssumption

\* A replay decides before it trades, at days it has, from its evaluation start on, and trades at a
\* day for one decision only.
LEMMA ReplayedDays ==
  ASSUME NEW of, NEW bars, IsFiniteSet(bars), \A b \in bars : b[2] \in Int, NEW start,
         NEW p \in Replayed(of, bars, start)
  PROVE  /\ p.of = of /\ p.window = windowStart
         /\ p.decision \in Int /\ p.execution \in Int /\ p.decision < p.execution
         /\ p.decision >= start
         /\ \E b \in bars : b[2] = p.execution
         /\ \A q \in Replayed(of, bars, start) : p.execution = q.execution => p = q
<1> DEFINE days == DaysOf(bars, Benchmark)
           entry(i) == [of |-> of, window |-> windowStart, decision |-> days[i],
                       execution |-> days[i + 1]]
           from == {n \in WarmupBars .. Len(days) - 1 : days[n] >= start}
<1>1. /\ Len(days) \in Nat
      /\ \A n \in 1 .. Len(days) : days[n] \in Int /\ \E b \in bars : b[2] = days[n]
      /\ \A n, m \in 1 .. Len(days) : n < m => days[n] < days[m]
  BY DaysOrdered
<1>2. Replayed(of, bars, start) = {entry(i) : i \in from}
  BY DEF Replayed
<1> HIDE DEF days
<1>3. ASSUME NEW i \in from
      PROVE  i \in 1 .. Len(days) /\ i + 1 \in 1 .. Len(days) /\ i < i + 1 /\ days[i] >= start
  BY <1>1, Lengths
<1> HIDE DEF from
<1>4. PICK i \in from : p = entry(i)
  BY <1>2
<1>5. ASSUME NEW q \in Replayed(of, bars, start), p.execution = q.execution
      PROVE  p = q
  <2>1. PICK j \in from : q = entry(j)
    BY <1>2
  <2>2. days[i + 1] = days[j + 1]
    BY <1>4, <1>5, <2>1
  <2>3. i = j
    BY <1>1, <1>3, <2>2
  <2> QED
    BY <1>4, <2>1, <2>3
<1> QED
  BY <1>1, <1>3, <1>4, <1>5

\* What the windows that count have in common: each traded between its first day and its last, and
\* those that were different are at least a step apart.
OfWindow(p) ==
  /\ p.window \in Nat /\ p.decision \in Int /\ p.execution \in Int
  /\ p.window + StepBars <= windowStart
  /\ p.window + TestBars + 1 <= Len(BenchmarkDays)
  /\ BenchmarkDays[p.window + 1] <= p.decision
  /\ p.decision < p.execution
  /\ p.execution <= BenchmarkDays[p.window + TestBars + 1]

Apart(p, q) ==
  /\ \/ p.window = q.window
     \/ p.window + StepBars <= q.window
     \/ q.window + StepBars <= p.window
  /\ p.window = q.window /\ p.execution = q.execution => p = q

Walk ==
  /\ windowStart \in Nat
  /\ phase \in {"FETCHING", "CHECKING"} => points = {}
  /\ \A p \in points :
       /\ p.of = "development" => p.execution < HoldoutStart
       /\ p.of \in {"holdout", "window"} => HoldoutStart <= p.decision
       /\ p.of = "window" => OfWindow(p)
       /\ \A q \in points : p.of = "window" /\ q.of = "window" => Apart(p, q)

LEMMA FetchedDays ==
  ASSUME Download
  PROVE  /\ IsFiniteSet(fetched)
         /\ \A b \in fetched : b[2] \in Int
         /\ Len(BenchmarkDays) \in Nat
         /\ \A n \in 1 .. Len(BenchmarkDays) : BenchmarkDays[n] \in Int
         /\ \A n, m \in 1 .. Len(BenchmarkDays) :
              n < m => BenchmarkDays[n] < BenchmarkDays[m]
<1>1. IsFiniteSet(fetched) /\ \A b \in fetched : b[2] \in Int
  <2>1. fetched \in SUBSET data /\ IsFiniteSet(data) /\ \A b \in data : b[2] \in Int
    BY DEF Download, Served
  <2> QED
    BY <2>1, FS_Subset
<1> QED
  BY <1>1, DaysOrdered DEF BenchmarkDays

LEMMA HoldoutDay ==
  ASSUME Download, Usable
  PROVE  HoldoutStart \in Int
<1>1. Len(BenchmarkDays) \in Nat
  BY FetchedDays
<1>2. SplitIndex \in Int /\ MinDevelopment <= SplitIndex
  <2> DEFINE share == (70 * Len(BenchmarkDays)) \div 100
  <2>1. share \in Int /\ MinDevelopment \in Int
    BY <1>1, Lengths
  <2>2. SplitIndex = Max({MinDevelopment, share})
    BY DEF SplitIndex
  <2> HIDE DEF share
  <2> QED
    BY <2>1, <2>2, MaxPair
<1>3. SplitIndex + 1 \in 1 .. Len(BenchmarkDays)
  BY <1>1, <1>2, Lengths DEF Usable
<1> QED
  BY <1>3, FetchedDays DEF HoldoutStart

LEMMA NextWalk ==
  ASSUME Download, Walk, [Next]_vars, TestBars <= StepBars
  PROVE  Walk'
<1>1. ASSUME UNCHANGED fetched
      PROVE  HoldoutStart' = HoldoutStart /\ BenchmarkDays' = BenchmarkDays
  BY <1>1 DEF HoldoutStart, SplitIndex, BenchmarkDays, DaysOf
\* Old decisions keep what they had, windows that are still to come being later.
<1>2. ASSUME UNCHANGED fetched, windowStart' \in Nat, windowStart <= windowStart',
             NEW p \in points
      PROVE  /\ p.of = "development" => p.execution < HoldoutStart'
             /\ p.of \in {"holdout", "window"} => HoldoutStart' <= p.decision
             /\ p.of = "window" => OfWindow(p)'
  BY <1>1, <1>2, Lengths DEF Walk, OfWindow
<1>3. ASSUME UNCHANGED <<fetched, points>>, windowStart' \in Nat, windowStart <= windowStart',
             phase' \in {"FETCHING", "CHECKING"} => points = {}
      PROVE  Walk'
  BY <1>2, <1>3 DEF Walk, Apart
<1>4. CASE ReceivePage
  BY <1>4 DEF ReceivePage, Walk
<1>5. CASE FetchFails \/ CheckHistory \/ Report \/ UNCHANGED vars
  BY <1>3, <1>5 DEF FetchFails, CheckHistory, Report, Raise, vars, Walk
<1>6. ASSUME UNCHANGED fetched, windowStart' \in Nat, windowStart <= windowStart',
             NEW new, points' = points \cup new, phase' \notin {"FETCHING", "CHECKING"},
             \A p \in new : /\ p.of = "development" => p.execution < HoldoutStart
                            /\ p.of \in {"holdout", "window"} => HoldoutStart <= p.decision
                            /\ p.of = "window" => OfWindow(p)',
             \A p, q \in new : p.of = "window" /\ q.of = "window" => Apart(p, q),
             \A p \in points, q \in new :
               p.of = "window" /\ q.of = "window" => Apart(p, q) /\ Apart(q, p)
      PROVE  Walk'
  <2>1. ASSUME NEW p \in points'
        PROVE  /\ p.of = "development" => p.execution < HoldoutStart'
               /\ p.of \in {"holdout", "window"} => HoldoutStart' <= p.decision
               /\ p.of = "window" => OfWindow(p)'
    BY <1>1, <1>2, <1>6, <2>1
  <2>2. ASSUME NEW p \in points', NEW q \in points', p.of = "window", q.of = "window"
        PROVE  Apart(p, q)
    BY <1>6, <2>2 DEF Walk
  <2> QED
    BY <1>6, <2>1, <2>2 DEF Walk, Apart
<1>7. IsFiniteSet(fetched) /\ \A b \in fetched : b[2] \in Int
  BY FetchedDays
<1>8. ASSUME phase \notin {"FETCHING", "CHECKING", "FAILED"} PROVE HoldoutStart \in Int
  BY <1>8, HoldoutDay DEF Download
<1>9. CASE RunDevelopment
  <2> DEFINE bars == SubsetBefore(HoldoutStart)
             new  == Replayed("development", bars, 0)
  <2>1. /\ UNCHANGED <<fetched, windowStart>> /\ phase' \in {"HOLDOUT", "FAILED"}
        /\ points' = points \cup new \/ points' = points
    BY <1>9 DEF RunDevelopment, Replay
  <2>2. CASE points' = points
    BY <1>3, <2>1, <2>2 DEF Walk
  <2>3. CASE points' = points \cup new
    <3>1. bars \in SUBSET fetched /\ \A b \in bars : b[2] < HoldoutStart
      BY DEF SubsetBefore
    <3>2. IsFiniteSet(bars) /\ \A b \in bars : b[2] \in Int
      BY <1>7, <3>1, FS_Subset
    <3> HIDE DEF bars
    <3>3. \A p \in new : p.of = "development" /\ \E b \in bars : b[2] = p.execution
      BY <3>2, ReplayedDays
    <3> HIDE DEF new
    <3>4. \A p \in new : p.of = "development" /\ p.execution < HoldoutStart
      BY <3>1, <3>3
    <3> QED
      BY <1>6, <2>1, <2>3, <3>4 DEF Walk
  <2> QED
    BY <2>1, <2>2, <2>3
<1>10. CASE RunHoldout
  <2> DEFINE new == Replayed("holdout", fetched, HoldoutStart)
  <2>1. /\ UNCHANGED <<fetched, windowStart>> /\ phase' \in {"WALK_FORWARD", "FAILED"}
        /\ points' = points \cup new \/ points' = points
        /\ HoldoutStart \in Int
    BY <1>8, <1>10 DEF RunHoldout, Replay
  <2>2. CASE points' = points
    BY <1>3, <2>1, <2>2 DEF Walk
  <2>3. CASE points' = points \cup new
    <3>1. \A p \in new : p.of = "holdout" /\ p.decision \in Int /\ p.decision >= HoldoutStart
      BY <1>7, ReplayedDays
    <3> HIDE DEF new
    <3>2. \A p \in new : p.of = "holdout" /\ HoldoutStart <= p.decision
      BY <2>1, <3>1
    <3> QED
      BY <1>6, <2>1, <2>3, <3>2 DEF Walk
  <2> QED
    BY <2>1, <2>2, <2>3
<1>11. CASE RunWindow
  <2> DEFINE of   == IF HoldoutStart <= TestStart THEN "window" ELSE "unused"
             bars == WindowHistory(TestEnd)
             new  == Replayed(of, bars, TestStart)
  <2>1. /\ UNCHANGED fetched /\ phase' \in {"WALK_FORWARD", "FAILED"}
        /\ windowStart' = windowStart + StepBars /\ windowStart + TestBars < Len(BenchmarkDays)
        /\ points' = points \cup new \/ points' = points
        /\ HoldoutStart \in Int /\ windowStart \in Nat
    BY <1>8, <1>11 DEF RunWindow, Replay, Walk
  <2>2. windowStart' \in Nat /\ windowStart <= windowStart'
    BY <2>1, Lengths
  <2>3. CASE points' = points
    BY <1>3, <2>1, <2>2, <2>3 DEF Walk
  <2>4. CASE points' = points \cup new
    <3>1. /\ TestStart \in Int /\ TestStart = BenchmarkDays[windowStart + 1]
          /\ TestEnd \in Int /\ TestEnd = BenchmarkDays[windowStart + TestBars + 1]
      <4>1. /\ windowStart + 1 \in 1 .. Len(BenchmarkDays)
            /\ windowStart + TestBars + 1 \in 1 .. Len(BenchmarkDays)
        BY <2>1, FetchedDays, Lengths
      <4> QED
        BY <4>1, FetchedDays DEF TestStart, TestEnd
    <3>2. bars \in SUBSET fetched /\ \A b \in bars : b[2] <= TestEnd
      BY DEF WindowHistory
    <3>3. IsFiniteSet(bars) /\ \A b \in bars : b[2] \in Int
      BY <1>7, <3>2, FS_Subset
    <3> HIDE DEF bars, of
    <3>4. ASSUME NEW p \in new
          PROVE  /\ p.of = of /\ p.window = windowStart
                 /\ p.decision \in Int /\ p.execution \in Int /\ p.decision < p.execution
                 /\ p.decision >= TestStart
                 /\ \E b \in bars : b[2] = p.execution
                 /\ \A q \in new : p.execution = q.execution => p = q
      BY <3>3, ReplayedDays
    <3> HIDE DEF new
    <3>5. of \in {"window", "unused"} /\ (of = "window" => HoldoutStart <= TestStart)
      BY DEF of
    <3>6. ASSUME NEW p \in new
          PROVE  /\ TestStart <= p.decision /\ p.execution <= TestEnd
                 /\ p.of = "window" => HoldoutStart <= p.decision
      BY <2>1, <3>1, <3>2, <3>4, <3>5
    <3>7. ASSUME NEW p \in new PROVE OfWindow(p)'
      <4>1. /\ p.window + StepBars <= windowStart'
            /\ p.window + TestBars + 1 <= Len(BenchmarkDays)
        BY <2>1, <3>4, FetchedDays, Lengths
      <4> QED
        BY <1>1, <2>1, <3>1, <3>4, <3>6, <4>1 DEF OfWindow
    <3>8. \A p, q \in new : Apart(p, q)
      BY <3>4 DEF Apart
    <3>9. ASSUME NEW p \in points, p.of = "window", NEW q \in new
          PROVE  Apart(p, q) /\ Apart(q, p)
      <4>1. p.window \in Nat /\ p.window + StepBars <= q.window /\ q.window \in Nat
        BY <2>1, <3>4, <3>9 DEF Walk, OfWindow
      <4>2. p.window # q.window
        BY <4>1, Lengths
      <4> QED
        BY <4>1, <4>2 DEF Apart
    <3>10. \A p \in new : /\ p.of = "development" => p.execution < HoldoutStart
                          /\ p.of \in {"holdout", "window"} => HoldoutStart <= p.decision
                          /\ p.of = "window" => OfWindow(p)'
      BY <3>4, <3>5, <3>6, <3>7
    <3> QED
      BY <1>6, <2>1, <2>2, <2>4, <3>8, <3>9, <3>10
  <2> QED
    BY <2>1, <2>3, <2>4
<1> QED
  BY <1>4, <1>5, <1>9, <1>10, <1>11 DEF Next

LEMMA NoOverlap ==
  ASSUME NEW v \in Nat, NEW w \in Nat, NEW test \in Nat, NEW step \in Nat, NEW n \in Nat,
         test <= step, v + step <= w, v + test + 1 <= n, w + test + 1 <= n
  PROVE  v + test + 1 \in 1 .. n /\ w + 1 \in 1 .. n /\ v + test + 1 <= w + 1
OBVIOUS

\* The development replay trades at no bar of the holdout, the holdout replay and the windows that
\* count decide on no bar before it, and no two of these windows trade at the same bar.  The last
\* holds if windows are not shorter apart than they are long; every script steps by the length.
THEOREM Unseen ==
  ASSUME TestBars <= StepBars
  PROVE  Spec => []HoldoutUnseen
<1>1. Init => Download /\ Walk
  BY InitDownload, Lengths DEF Init, Walk
<1>2. Download /\ Walk /\ [Next]_vars => (Download /\ Walk)'
  BY NextDownload, NextWalk
<1>3. Download /\ Walk => HoldoutUnseen
  <2> SUFFICES ASSUME Download, Walk PROVE HoldoutUnseen
    OBVIOUS
  <2>1. ASSUME NEW p \in points, NEW q \in points, p.of = "window", q.of = "window",
               p.execution = q.execution, p.window + StepBars <= q.window
        PROVE  FALSE
    <3>1. OfWindow(p) /\ OfWindow(q)
      BY <2>1 DEF Walk
    <3> DEFINE a == p.window + TestBars + 1
               b == q.window + 1
    <3>2. a \in 1 .. Len(BenchmarkDays) /\ b \in 1 .. Len(BenchmarkDays) /\ a <= b
      <4>1. /\ p.window \in Nat /\ p.window + TestBars + 1 <= Len(BenchmarkDays)
            /\ q.window \in Nat /\ q.window + TestBars + 1 <= Len(BenchmarkDays)
        BY <3>1 DEF OfWindow
      <4>2. Len(BenchmarkDays) \in Nat /\ TestBars \in Nat /\ StepBars \in Nat
        BY FetchedDays, Lengths
      <4>3. p.window + StepBars <= q.window
        BY <2>1
      <4> QED
        BY <4>1, <4>2, <4>3, NoOverlap
    <3>3. /\ p.execution <= BenchmarkDays[a] /\ BenchmarkDays[b] <= q.decision
          /\ q.decision < q.execution /\ q.decision \in Int /\ q.execution \in Int
          /\ p.execution \in Int
      BY <3>1 DEF OfWindow
    <3> HIDE DEF a, b
    <3>4. BenchmarkDays[a] \in Int /\ BenchmarkDays[b] \in Int
          /\ BenchmarkDays[a] <= BenchmarkDays[b]
      BY <3>2, FetchedDays
    <3> QED
      BY <2>1, <3>3, <3>4
  <2>2. ASSUME NEW p \in points, NEW q \in points, p.of = "window", q.of = "window",
               p.execution = q.execution
        PROVE  p = q
    BY <2>1, <2>2 DEF Walk, Apart
  <2> QED
    BY <2>2 DEF HoldoutUnseen, Walk
<1> QED
  BY <1>1, <1>2, <1>3, PTL DEF Spec
=============================================================================
