--------------------------- MODULE AutoMergeProofs ---------------------------
(***************************************************************************)
(* Theorems about the auto-merge transaction, for any number of cards and  *)
(* any bounds.  First type correctness, by one step per action; the        *)
(* lemmas before it say what the record updates of the actions yield.      *)
(***************************************************************************)
EXTENDS AutoMerge, FiniteSetTheorems, SequenceTheorems, TLAPS

-----------------------------------------------------------------------------
(* Card bodies and hand-off files.                                          *)

\* The blank body is a card body.
LEMMA BlankType == BlankBody \in Body
BY ConstantsAssumption DEF Body, Heads, BlankBody

\* The empty hand-off is one.
LEMMA NoFilesType == NoFiles \in Files
BY ConstantsAssumption DEF Files, NoFiles

\* The fields of a card body.
LEMMA BodyFields ==
    ASSUME NEW b \in Body
    PROVE  /\ b.head \in Heads /\ b.verdict \in BOOLEAN /\ b.hold \in BOOLEAN
           /\ b.tick \in BOOLEAN /\ b.audit \in {"none", "intent", "pending"}
BY DEF Body

\* The fields of a hand-off.
LEMMA FilesFields ==
    ASSUME NEW f \in Files
    PROVE  /\ f.listed \in SUBSET Cards /\ f.ready \in SUBSET Cards
           /\ f.seen \in [Cards -> 0..MaxHead]
           /\ f.pre \in SUBSET Cards /\ f.claims \in SUBSET Cards
           /\ f.valid \in SUBSET Cards /\ f.merges \in SUBSET Cards
           /\ f.backfill \in SUBSET Cards /\ f.releases \in SUBSET Cards
           /\ f.holds \in SUBSET Cards /\ f.staged \in SUBSET Cards
           /\ f.written \in BOOLEAN
BY DEF Files

\* Replacing one field of a card body.
LEMMA BodyWith ==
    ASSUME NEW b \in Body
    PROVE  /\ \A x \in {"none", "intent", "pending"} : [b EXCEPT !.audit = x] \in Body
           /\ \A x \in BOOLEAN : [b EXCEPT !.hold = x] \in Body
           /\ \A x \in BOOLEAN : [b EXCEPT !.tick = x] \in Body
           /\ \A x \in BOOLEAN : [b EXCEPT !.verdict = x] \in Body
<1>1. ASSUME NEW x \in {"none", "intent", "pending"}
      PROVE  [b EXCEPT !.audit = x] \in Body
  BY DEF Body
<1>2. ASSUME NEW x \in BOOLEAN PROVE [b EXCEPT !.hold = x] \in Body
  BY DEF Body
<1>3. ASSUME NEW x \in BOOLEAN PROVE [b EXCEPT !.tick = x] \in Body
  BY DEF Body
<1>4. ASSUME NEW x \in BOOLEAN PROVE [b EXCEPT !.verdict = x] \in Body
  BY DEF Body
<1>5. QED BY <1>1, <1>2, <1>3, <1>4

\* Replacing one of the sets the steps hand to each other.
LEMMA FilesWith ==
    ASSUME NEW f \in Files, NEW S \in SUBSET Cards
    PROVE  /\ [f EXCEPT !.claims = S] \in Files
           /\ [f EXCEPT !.valid = S] \in Files
           /\ [f EXCEPT !.merges = S] \in Files
           /\ [f EXCEPT !.releases = S] \in Files
           /\ [f EXCEPT !.holds = S] \in Files
           /\ [f EXCEPT !.staged = S] \in Files
           /\ [f EXCEPT !.pre = S] \in Files
<1>1. [f EXCEPT !.claims = S] \in Files    BY DEF Files
<1>2. [f EXCEPT !.valid = S] \in Files     BY DEF Files
<1>3. [f EXCEPT !.merges = S] \in Files    BY DEF Files
<1>4. [f EXCEPT !.releases = S] \in Files  BY DEF Files
<1>5. [f EXCEPT !.holds = S] \in Files     BY DEF Files
<1>6. [f EXCEPT !.staged = S] \in Files    BY DEF Files
<1>7. [f EXCEPT !.pre = S] \in Files       BY DEF Files
<1>8. QED BY <1>1, <1>2, <1>3, <1>4, <1>5, <1>6, <1>7

\* Taking the claim labels off some cards.
LEMMA UnlabelType ==
    ASSUME TypeOK, NEW S, Unlabel(S)
    PROVE  labels' \in [Cards -> SUBSET Labels] /\ fresh' \in [Cards -> BOOLEAN]
BY DEF TypeOK, Unlabel

-----------------------------------------------------------------------------
(* The ledger.                                                              *)

\* The rows a batch adds are finitely many rows, all new.
LEMMA NewRowsFinite ==
    ASSUME TypeOK, NEW S \in SUBSET Cards
    PROVE  /\ NewRows(S) \in SUBSET (Cards \X Heads)
           /\ Cardinality(NewRows(S)) \in Nat
           /\ ExistsBijection(1..Cardinality(NewRows(S)), NewRows(S))
<1>1. \A c \in Cards : Identity(c) \in Cards \X Heads
  <2>1. ASSUME NEW b \in Body PROVE b.head \in Heads
    BY DEF Body
  <2>2. QED BY <2>1 DEF TypeOK, Identity
<1>2. NewRows(S) \in SUBSET (Cards \X Heads)
  BY <1>1 DEF NewRows
<1>3. IsFiniteSet(NewRows(S))
  <2>1. IsFiniteSet({c \in S : ~InLedger(Identity(c))})
    BY ConstantsAssumption, FS_Subset
  <2> DEFINE T == {c \in S : ~InLedger(Identity(c))}
             f == [c \in T |-> Identity(c)]
  <2>2. f \in Surjection(T, NewRows(S))
    <3>1. f \in [T -> NewRows(S)]
      BY DEF NewRows
    <3>2. \A id \in NewRows(S) : \E c \in T : f[c] = id
      BY DEF NewRows
    <3>3. QED BY <3>1, <3>2 DEF Surjection
  <2>3. QED BY <2>1, <2>2, FS_Surjection
<1>4. QED BY <1>2, <1>3, FS_CardinalityType

\* An order of the new rows lists each of them once and nothing else.
LEMMA OrdersList ==
    ASSUME TypeOK, NEW S \in SUBSET Cards, NEW rows \in Orders(NewRows(S))
    PROVE  /\ rows \in Seq(Cards \X Heads)
           /\ \A i, j \in 1..Len(rows) : rows[i] = rows[j] => i = j
           /\ \A i \in 1..Len(rows) : rows[i] \in NewRows(S)
           /\ \A id \in NewRows(S) : \E i \in 1..Len(rows) : rows[i] = id
<1> DEFINE n == Cardinality(NewRows(S))
<1>1. /\ NewRows(S) \in SUBSET (Cards \X Heads) /\ n \in Nat
      /\ ExistsBijection(1..n, NewRows(S))
  BY NewRowsFinite
<1>2. rows \in [1..n -> NewRows(S)]
      /\ \A i, j \in 1..n : rows[i] = rows[j] => i = j
  BY DEF Orders
<1> HIDE DEF n
<1>3. rows \in Seq(NewRows(S)) /\ Len(rows) = n
  BY <1>1, <1>2
<1>4. rows \in Seq(Cards \X Heads)
  BY <1>1, <1>2
<1>5. \A id \in NewRows(S) : \E i \in 1..n : rows[i] = id
  <2>1. IsFiniteSet(1..n) /\ Cardinality(1..n) = n
    BY <1>1, FS_Interval
  <2>2. IsFiniteSet(NewRows(S)) /\ Cardinality(NewRows(S)) = n
    BY <1>1, <2>1, FS_Bijection
  <2>3. rows \in Injection(1..n, NewRows(S))
    BY <1>2 DEF Injection, IsInjective
  <2>4. rows \in Surjection(1..n, NewRows(S))
    BY <2>1, <2>2, <2>3, FS_Injection
  <2>5. QED BY <2>4 DEF Surjection
<1>6. QED BY <1>2, <1>3, <1>4, <1>5

\* What is left of a sequence without its first k elements.
LEMMA FromProperties ==
    ASSUME NEW T, NEW s \in Seq(T), NEW k \in 0..Len(s)
    PROVE  /\ From(s, k) \in Seq(T)
           /\ Len(From(s, k)) = Len(s) - k
           /\ \A i \in 1..Len(s)-k : From(s, k)[i] = s[k+i]
<1>1. k + 1 \in Int /\ Len(s) \in Int /\ \A i \in k+1..Len(s) : s[i] \in T
  OBVIOUS
<1>2. /\ SubSeq(s, k + 1, Len(s)) \in Seq(T)
      /\ Len(SubSeq(s, k + 1, Len(s))) =
            IF k + 1 <= Len(s) THEN Len(s) - (k + 1) + 1 ELSE 0
      /\ \A i \in 1..Len(s)-(k+1)+1 : SubSeq(s, k + 1, Len(s))[i] = s[k+1+i-1]
  BY <1>1, SubSeqProperties
<1>3. QED BY <1>1, <1>2 DEF From

\* Dropping first elements and appending are independent.
LEMMA FromConcat ==
    ASSUME NEW T, NEW s \in Seq(T), NEW r \in Seq(T), NEW k \in 0..Len(s)
    PROVE  From(s, k) \o r = From(s \o r, k)
<1> DEFINE a == From(s, k)
           b == s \o r
           c == From(b, k)
           m == Len(s)
           n == Len(r)
<1>1. m \in Nat /\ n \in Nat /\ k \in 0..m
  OBVIOUS
<1>2. /\ a \in Seq(T) /\ Len(a) = m - k
      /\ \A i \in 1..m-k : a[i] = s[k+i]
  BY FromProperties
<1>3. /\ b \in Seq(T) /\ Len(b) = m + n
      /\ \A i \in 1..m+n : b[i] = IF i <= m THEN s[i] ELSE r[i - m]
  BY ConcatProperties
<1>4. /\ c \in Seq(T) /\ Len(c) = m + n - k
      /\ \A i \in 1..m+n-k : c[i] = b[k+i]
  <2> HIDE DEF b, c, m, n
  <2>1. k \in 0..Len(b) /\ Len(b) - k = m + n - k
    BY <1>1, <1>3
  <2>2. /\ From(b, k) \in Seq(T) /\ Len(From(b, k)) = Len(b) - k
        /\ \A i \in 1..Len(b)-k : From(b, k)[i] = b[k+i]
    BY <1>3, <2>1, FromProperties
  <2>3. QED BY <2>1, <2>2 DEF c
<1>5. /\ a \o r \in Seq(T) /\ Len(a \o r) = Len(a) + n
      /\ \A i \in 1..Len(a)+n : (a \o r)[i] = IF i <= Len(a) THEN a[i] ELSE r[i - Len(a)]
  BY <1>2, ConcatProperties
<1> HIDE DEF a, b, c, m, n
<1>6. Len(a \o r) = Len(c)
  BY <1>1, <1>2, <1>4, <1>5
<1>7. ASSUME NEW i \in 1..Len(a \o r) PROVE (a \o r)[i] = c[i]
  <2>1. i \in 1..m-k+n /\ k + i \in 1..m+n
    BY <1>1, <1>2, <1>5
  <2>2. c[i] = b[k+i] /\ i \in 1..Len(a)+n
    BY <1>1, <1>2, <1>4, <2>1
  <2>3. CASE i <= m - k
    <3>1. i <= Len(a) /\ i \in 1..m-k /\ k + i <= m
      BY <1>1, <1>2, <2>1, <2>3
    <3>2. (a \o r)[i] = s[k+i]
      BY <1>2, <1>5, <2>2, <3>1
    <3>3. QED BY <1>3, <2>1, <2>2, <3>1, <3>2
  <2>4. CASE ~(i <= m - k)
    <3>1. ~(i <= Len(a)) /\ i - Len(a) = k + i - m /\ ~(k + i <= m)
      BY <1>1, <1>2, <2>1, <2>4
    <3>2. (a \o r)[i] = r[k + i - m]
      BY <1>5, <2>2, <3>1
    <3>3. b[k+i] = r[k + i - m]
      <4>1. b[k+i] = IF k + i <= m THEN s[k+i] ELSE r[k + i - m]
        BY <1>1, <1>3, <2>1
      <4>2. QED BY <3>1, <4>1
    <3>4. QED BY <2>2, <3>2, <3>3
  <2>5. QED BY <2>3, <2>4
<1>8. a \o r = c
  BY <1>4, <1>5, <1>6, <1>7, SeqEqual
<1>9. QED BY <1>8 DEF a, b, c

\* Dropping first elements twice.
LEMMA FromFrom ==
    ASSUME NEW T, NEW s \in Seq(T), NEW k \in 0..Len(s), NEW j \in 0..Len(s)-k
    PROVE  From(From(s, k), j) = From(s, k + j)
<1> DEFINE a == From(s, k)
           b == From(a, j)
           c == From(s, k + j)
           m == Len(s)
<1>1. m \in Nat /\ k \in 0..m /\ j \in 0..m-k /\ k + j \in 0..m
  OBVIOUS
<1>2. /\ a \in Seq(T) /\ Len(a) = m - k
      /\ \A i \in 1..m-k : a[i] = s[k+i]
  BY FromProperties
<1>3. /\ b \in Seq(T) /\ Len(b) = m - k - j
      /\ \A i \in 1..m-k-j : b[i] = a[j+i]
  <2> HIDE DEF a, b, m
  <2>1. j \in 0..Len(a) /\ Len(a) - j = m - k - j
    BY <1>1, <1>2
  <2>2. /\ From(a, j) \in Seq(T) /\ Len(From(a, j)) = Len(a) - j
        /\ \A i \in 1..Len(a)-j : From(a, j)[i] = a[j+i]
    BY <1>2, <2>1, FromProperties
  <2>3. QED BY <2>1, <2>2 DEF b
<1>4. /\ c \in Seq(T) /\ Len(c) = m - (k + j)
      /\ \A i \in 1..m-(k+j) : c[i] = s[k+j+i]
  BY <1>1, FromProperties
<1> HIDE DEF a, b, c, m
<1>5. Len(b) = Len(c)
  BY <1>1, <1>3, <1>4
<1>6. ASSUME NEW i \in 1..Len(b) PROVE b[i] = c[i]
  <2>1. i \in 1..m-k-j /\ i \in 1..m-(k+j) /\ j + i \in 1..m-k /\ k+(j+i) = k+j+i
    BY <1>1, <1>3
  <2>2. QED BY <1>2, <1>3, <1>4, <2>1
<1>7. b = c
  BY <1>3, <1>4, <1>5, <1>6, SeqEqual
<1>8. QED BY <1>7 DEF a, b, c

\* The ledger is the newest rows of all, and what is gone once did not fit.
LedgerTail(rows, all) ==
    \E d \in 0..Len(all) :
        /\ rows = From(all, d)
        /\ \A p \in 1..d : \E e \in p..Len(all) : ~Fits(SubSeq(all, p, e))

\* Appending rows and dropping the oldest that do not fit keeps that.
LEMMA TailKept ==
    ASSUME NEW T, NEW old \in Seq(T), NEW ever \in Seq(T), NEW rows \in Seq(T),
           LedgerTail(old, ever), NEW kept \in KeepNewest(old \o rows)
    PROVE  LedgerTail(kept, ever \o rows)
<1> DEFINE all == old \o rows
           now == ever \o rows
           m == Len(ever)
           n == Len(rows)
<1>1. PICK d \in 0..m :
         /\ old = From(ever, d)
         /\ \A p \in 1..d : \E e \in p..m : ~Fits(SubSeq(ever, p, e))
  BY DEF LedgerTail
<1>2. PICK k \in 0..Len(all) :
         /\ kept = From(all, k)
         /\ \A j \in 0..k-1 : ~Fits(From(all, j))
  BY DEF KeepNewest
<1>3. all = From(now, d)
  BY <1>1, FromConcat
<1>4. /\ now \in Seq(T) /\ Len(now) = m + n /\ m \in Nat /\ n \in Nat
  BY ConcatProperties
<1> HIDE DEF all, now, m, n
<1>5. d \in 0..Len(now) /\ Len(all) = Len(now) - d
  <2>1. d \in 0..Len(now)
    BY <1>1, <1>4
  <2>2. QED BY <1>3, <1>4, <2>1, FromProperties
<1>6. \A j \in 0..k : From(all, j) = From(now, d + j)
  <2>1. ASSUME NEW j \in 0..k PROVE From(all, j) = From(now, d + j)
    <3>1. j \in 0..Len(now)-d
      BY <1>2, <1>4, <1>5
    <3>2. QED BY <1>3, <1>4, <1>5, <3>1, FromFrom
  <2>2. QED BY <2>1
<1>7. d + k \in 0..Len(now) /\ kept = From(now, d + k)
  BY <1>2, <1>4, <1>5, <1>6
<1>8. ASSUME NEW p \in 1..d+k PROVE \E e \in p..Len(now) : ~Fits(SubSeq(now, p, e))
  <2>1. CASE p <= d
    <3>1. PICK e \in p..m : ~Fits(SubSeq(ever, p, e))
      BY <1>1, <1>4, <1>5, <1>8, <2>1
    <3>2. p \in 1..Len(ever) /\ e \in 1..Len(ever)
      BY <1>4, <1>8, <3>1 DEF m
    <3>3. SubSeq(now, p, e) = SubSeq(ever, p, e)
      BY <3>2, SubSeqOfConcat1 DEF now
    <3>4. e \in p..Len(now)
      BY <1>4, <1>8, <3>1
    <3>5. QED BY <3>1, <3>3, <3>4
  <2>2. CASE p > d
    <3>1. p - d - 1 \in 0..k-1 /\ p - d - 1 \in 0..k /\ d + (p - d - 1) + 1 = p
      BY <1>2, <1>5, <1>8, <2>2
    <3>2. ~Fits(From(now, d + (p - d - 1)))
      BY <1>2, <1>6, <3>1
    <3>3. From(now, d + (p - d - 1)) = SubSeq(now, p, Len(now))
      BY <3>1 DEF From
    <3>4. Len(now) \in p..Len(now)
      BY <1>4, <1>5, <1>7, <1>8
    <3>5. QED BY <3>2, <3>3, <3>4
  <2>3. QED BY <1>5, <1>8, <2>1, <2>2
<1>9. QED BY <1>7, <1>8 DEF LedgerTail, now

\* LedgerSound, for any ledger, all rows ever and recorded identities.
SoundLedger(rows, all, ids) ==
    /\ \A i, j \in 1..Len(rows) : rows[i] = rows[j] => i = j
    /\ rows = <<>> \/ Fits(rows)
    /\ \A id \in ids : \E i \in 1..Len(all) : all[i] = id
    /\ LedgerTail(rows, all)

\* Appending a batch to a sound ledger gives a sound ledger.
LEMMA AppendedLedger ==
    ASSUME TypeOK, LedgerSound, NEW S \in SUBSET Cards,
           NEW rows \in Orders(NewRows(S)), NEW kept \in KeepNewest(ledger \o rows)
    PROVE  /\ kept \in Seq(Cards \X Heads)
           /\ appended \o rows \in Seq(Cards \X Heads)
           /\ SoundLedger(kept, appended \o rows, recorded \cup {Identity(c) : c \in S})
<1> DEFINE all == ledger \o rows
           m == Len(ledger)
           n == Len(rows)
<1>1. /\ rows \in Seq(Cards \X Heads)
      /\ \A i, j \in 1..n : rows[i] = rows[j] => i = j
      /\ \A i \in 1..n : rows[i] \in NewRows(S)
      /\ \A id \in NewRows(S) : \E i \in 1..n : rows[i] = id
  BY OrdersList
<1>2. ledger \in Seq(Cards \X Heads) /\ m \in Nat /\ n \in Nat
  BY <1>1 DEF TypeOK
<1>3. /\ all \in Seq(Cards \X Heads) /\ Len(all) = m + n
      /\ \A i \in 1..m+n : all[i] = IF i <= m THEN ledger[i] ELSE rows[i - m]
  BY <1>1, <1>2, ConcatProperties
<1>4. /\ \A i, j \in 1..m : ledger[i] = ledger[j] => i = j
      /\ \A id \in recorded : \E i \in 1..Len(appended) : appended[i] = id
      /\ LedgerTail(ledger, appended)
  BY DEF LedgerSound, LedgerTail
<1>5. /\ appended \in Seq(Cards \X Heads) /\ Len(appended) \in Nat
      /\ appended \o rows \in Seq(Cards \X Heads)
      /\ Len(appended \o rows) = Len(appended) + n
      /\ \A i \in 1..Len(appended)+n : (appended \o rows)[i] =
            IF i <= Len(appended) THEN appended[i] ELSE rows[i - Len(appended)]
  BY <1>1, ConcatProperties DEF TypeOK
<1> HIDE DEF all, m, n
<1>6. ASSUME NEW i \in 1..m+n, NEW j \in 1..m+n, all[i] = all[j]
      PROVE  i = j
  <2>1. ASSUME NEW k \in 1..m, NEW l \in 1..n PROVE ledger[k] # rows[l]
    BY <1>1 DEF NewRows, InLedger, m
  <2>2. CASE i <= m /\ j <= m
    BY <1>2, <1>3, <1>4, <1>6, <2>2
  <2>3. CASE i <= m /\ j > m
    <3>1. i \in 1..m /\ j - m \in 1..n
      BY <1>2, <2>3
    <3>2. all[i] = ledger[i] /\ all[j] = rows[j - m]
      BY <1>2, <1>3, <2>3
    <3>3. QED BY <1>6, <2>1, <3>1, <3>2
  <2>4. CASE i > m /\ j <= m
    <3>1. j \in 1..m /\ i - m \in 1..n
      BY <1>2, <2>4
    <3>2. all[j] = ledger[j] /\ all[i] = rows[i - m]
      BY <1>2, <1>3, <2>4
    <3>3. QED BY <1>6, <2>1, <3>1, <3>2
  <2>5. CASE i > m /\ j > m
    <3>1. i - m \in 1..n /\ j - m \in 1..n /\ rows[i - m] = rows[j - m]
      BY <1>2, <1>3, <1>6, <2>5
    <3>2. i - m = j - m
      BY <1>1, <3>1
    <3>3. QED BY <1>2, <3>2
  <2>6. QED BY <1>2, <2>2, <2>3, <2>4, <2>5
<1>7. PICK k \in 0..Len(all) :
         kept = From(all, k) /\ (k = Len(all) \/ Fits(From(all, k)))
  BY DEF KeepNewest, all
<1>8. /\ kept \in Seq(Cards \X Heads) /\ Len(kept) = m + n - k
      /\ \A i \in 1..m+n-k : kept[i] = all[k+i]
  <2>1. /\ From(all, k) \in Seq(Cards \X Heads) /\ Len(From(all, k)) = Len(all) - k
        /\ \A i \in 1..Len(all)-k : From(all, k)[i] = all[k+i]
    BY <1>3, <1>7, FromProperties
  <2>2. Len(all) = m + n
    BY <1>3
  <2>3. Len(all) - k = m + n - k
    BY <1>2, <2>2
  <2>4. QED BY <1>7, <2>1, <2>3
<1>9. ASSUME NEW i \in 1..Len(kept), NEW j \in 1..Len(kept), kept[i] = kept[j]
      PROVE  i = j
  <2>1. k + i \in 1..m+n /\ k + j \in 1..m+n /\ all[k+i] = all[k+j]
    BY <1>2, <1>3, <1>7, <1>8, <1>9
  <2>2. k + i = k + j
    BY <1>6, <2>1
  <2>3. QED BY <1>2, <1>7, <1>8, <2>2
<1>10. kept = <<>> \/ Fits(kept)
  <2>1. CASE k = Len(all)
    <3>1. Len(kept) = 0
      BY <1>2, <1>3, <1>8, <2>1
    <3>2. QED BY <1>8, <3>1
  <2>2. QED BY <1>7, <2>1
<1>11. LedgerTail(kept, appended \o rows)
  BY <1>1, <1>2, <1>4, <1>5, TailKept
<1>12. ASSUME NEW id, \E i \in 1..Len(appended) : appended[i] = id
       PROVE  \E i \in 1..Len(appended \o rows) : (appended \o rows)[i] = id
  <2>1. PICK i \in 1..Len(appended) : appended[i] = id
    BY <1>12
  <2>2. i \in 1..Len(appended)+n /\ i <= Len(appended)
    BY <1>2, <1>5
  <2>3. QED BY <1>5, <2>1, <2>2
<1>13. ASSUME NEW c \in S
       PROVE  \E i \in 1..Len(appended \o rows) : (appended \o rows)[i] = Identity(c)
  <2>1. CASE InLedger(Identity(c))
    <3>1. PICK d \in 0..Len(appended) : ledger = From(appended, d)
      BY <1>4 DEF LedgerTail
    <3>2. PICK j \in 1..Len(ledger) : ledger[j] = Identity(c)
      BY <2>1 DEF InLedger
    <3>3. /\ Len(ledger) = Len(appended) - d
          /\ \A i \in 1..Len(appended)-d : ledger[i] = appended[d+i]
      BY <1>5, <3>1, FromProperties
    <3>4. d + j \in 1..Len(appended) /\ appended[d+j] = Identity(c)
      BY <1>5, <3>2, <3>3
    <3>5. QED BY <1>12, <3>4
  <2>2. CASE ~InLedger(Identity(c))
    <3>1. PICK j \in 1..n : rows[j] = Identity(c)
      BY <1>1, <2>2 DEF NewRows
    <3>2. Len(appended) + j \in 1..Len(appended)+n /\ ~(Len(appended) + j <= Len(appended))
          /\ Len(appended) + j - Len(appended) = j
      BY <1>2, <1>5
    <3>3. QED BY <1>5, <3>1, <3>2
  <2>3. QED BY <2>1, <2>2
<1>14. \A id \in recorded \cup {Identity(c) : c \in S} :
          \E i \in 1..Len(appended \o rows) : (appended \o rows)[i] = id
  BY <1>4, <1>12, <1>13
<1>15. QED BY <1>5, <1>8, <1>9, <1>10, <1>11, <1>14 DEF SoundLedger

-----------------------------------------------------------------------------
(* Type correctness.  TypeOK needs to know that cur is a card in the stages  *)
(* that work on one.                                                         *)

(* The initial state has the types: no file is written, every card is open.   *)
LEMMA TypeInit == Init => TypeInv
<1> SUFFICES ASSUME Init PROVE TypeInv
  OBVIOUS
<1>1. /\ stage \in Stages /\ todo \in SUBSET Cards /\ buf \in Body
      /\ cur \in Cards \cup {NoCard} /\ files \in Files
  BY BlankType, NoFilesType DEF Init, Stages
<1>2. body \in [Cards -> Body]
  <2>1. \A c \in Cards, a \in {"intent", "none"} :
           [head |-> 1, verdict |-> TRUE, hold |-> FALSE, tick |-> FALSE, audit |-> a] \in Body
    BY ConstantsAssumption DEF Body, Heads
  <2>2. QED BY <2>1 DEF Init
<1>3. /\ prHead \in [Cards -> Heads] /\ labels \in [Cards -> SUBSET Labels]
      /\ faults \in 0..MaxFaults /\ disturbances \in 0..MaxDisturbances
  BY ConstantsAssumption DEF Init, Heads, Labels, ClaimLabels
<1>4. CursorInv
  BY DEF Init, CursorInv, CardStages, CandidateStages, PendingStages
<1>5. QED BY <1>1, <1>2, <1>3, <1>4 DEF Init, TypeOK, TypeInv

\* What people and the triage do.
LEMMA TypePeople ==
    ASSUME TypeInv, NEW c \in Cards,
           \/ People \/ TriagePublishes(c)
    PROVE  TypeInv'
<1> USE ConstantsAssumption
    DEF TypeInv, TypeOK, CursorInv, targets, card, audit, loop, bounds, Disturb
<1>1. ASSUME NEW d \in Cards, Push(d) PROVE TypeInv'
  BY <1>1 DEF Push, Heads
<1>2. ASSUME NEW d \in Cards, GatesFlip(d) PROVE TypeInv'
  BY <1>2 DEF GatesFlip
<1>3. ASSUME NEW d \in Cards, NEW s \in {"merged", "closed"}, PersonEnds(d, s)
      PROVE  TypeInv'
  BY <1>3 DEF PersonEnds
<1>4. ASSUME NEW d \in Cards, OwnerTicks(d) PROVE TypeInv'
  <2>1. body' \in [Cards -> Body]
    BY <1>4, BodyWith DEF OwnerTicks
  <2>2. QED BY <1>4, <2>1 DEF OwnerTicks
<1>5. ASSUME NEW d \in Cards, OwnerComments(d) PROVE TypeInv'
  BY <1>5 DEF OwnerComments
<1>6. ASSUME NEW d \in Cards, OwnerCloses(d) PROVE TypeInv'
  BY <1>6 DEF OwnerCloses
<1>7. ASSUME NEW d \in Cards, BystanderComments(d) PROVE TypeInv'
  BY <1>7 DEF BystanderComments
<1>8. ASSUME TriagePublishes(c) PROVE TypeInv'
  <2>1. body' \in [Cards -> Body]
    BY <1>8, BodyWith DEF TriagePublishes
  <2>2. QED BY <1>8, <2>1 DEF TriagePublishes
<1>9. QED BY <1>1, <1>2, <1>3, <1>4, <1>5, <1>6, <1>7, <1>8 DEF People

\* What fails.
LEMMA TypeFaults ==
    ASSUME TypeInv, RunnerLost \/ StepDies \/ CallFails \/ WriteHandoffFails
    PROVE  TypeInv'
<1> USE ConstantsAssumption, BlankType, NoFilesType
    DEF TypeInv, TypeOK, CursorInv, CardStages, CandidateStages, PendingStages,
        targets, card, audit, loop, bounds, Fault, Enter, Stages
<1>1. CASE RunnerLost
  BY <1>1 DEF RunnerLost
<1>2. CASE StepDies
  <2>1. files' \in Files
    <3>1. \A S \in SUBSET Cards :
             [files EXCEPT !.merges = {}, !.backfill = {}, !.releases = {},
                           !.holds = {}, !.claims = {}, !.valid = S] \in Files
      BY DEF Files
    <3>2. QED BY <1>2, <3>1, FilesFields DEF StepDies
  <2>2. QED BY <1>2, <2>1 DEF StepDies
<1>3. CASE CallFails
  <2>1. files' \in Files
    <3>1. cur \in Cards => [files EXCEPT !.holds = files.holds \cup {cur}] \in Files
      BY FilesFields, FilesWith
    <3>2. QED BY <1>3, <3>1 DEF CallFails
  <2>2. QED BY <1>3, <2>1 DEF CallFails
<1>4. CASE WriteHandoffFails
  <2>1. files' \in Files
    BY <1>4 DEF WriteHandoffFails, Files
  <2>2. ASSUME NEW S \in SUBSET Cards, Unlabel(S)
        PROVE  labels' \in [Cards -> SUBSET Labels] /\ fresh' \in [Cards -> BOOLEAN]
    BY <2>2 DEF Unlabel
  <2>3. labels' \in [Cards -> SUBSET Labels] /\ fresh' \in [Cards -> BOOLEAN]
    BY <1>4, <2>2, FilesFields DEF WriteHandoffFails
  <2>4. QED BY <1>4, <2>1, <2>3 DEF WriteHandoffFails
<1>5. QED BY <1>1, <1>2, <1>3, <1>4

\* Listing, scanning, claiming and validating.
LEMMA TypeClaim == ASSUME TypeInv, ClaimStep PROVE TypeInv'
<1> USE ConstantsAssumption, BlankType, NoFilesType
    DEF TypeInv, TypeOK, CursorInv, CardStages, CandidateStages, PendingStages,
        targets, card, audit, loop, bounds, Stages, Enter, OnCard, DoneWith, Goto
<1>1. CASE ListCards
  <2>1. files' \in Files
    <3>1. \A S \in SUBSET Cards : [NoFiles EXCEPT !.listed = S] \in Files
      BY DEF Files
    <3>2. QED BY <1>1, <3>1 DEF ListCards
  <2>2. QED BY <1>1, <2>1 DEF ListCards
<1>2. CASE Scan
  <2>1. files' \in Files
    <3>1. \A f \in [Cards -> 0..MaxHead], S \in SUBSET Cards :
             [files EXCEPT !.seen = f, !.ready = S] \in Files
      BY DEF Files
    <3>2. [c \in Cards |-> IF prState[c] = "open" THEN prHead[c] ELSE 0]
             \in [Cards -> 0..MaxHead]
      BY DEF Heads
    <3>3. QED BY <1>2, <3>1, <3>2 DEF Scan
  <2>2. QED BY <1>2, <2>1 DEF Scan
<1>3. CASE Preclaim
  <2>1. files' \in Files
    BY <1>3, FilesFields, FilesWith DEF Preclaim
  <2>2. QED BY <1>3, <2>1 DEF Preclaim
<1>4. ASSUME NEW c \in Cards, RecoverStaleClaim(c) PROVE TypeInv'
  BY <1>4 DEF RecoverStaleClaim, Unlabel
<1>5. ASSUME NEW c \in Cards, KeepIntentClaim(c) PROVE TypeInv'
  <2>1. files' \in Files
    <3>1. files.claims \cup {c} \in SUBSET Cards
      BY FilesFields
    <3>2. QED BY <1>5, <3>1, FilesWith DEF KeepIntentClaim
  <2>2. QED BY <1>5, <2>1 DEF KeepIntentClaim
<1>6. ASSUME NEW c \in Cards, ReadForClaim(c) PROVE TypeInv'
  BY <1>6 DEF ReadForClaim
<1>7. ASSUME NEW c \in Cards, SkipClaim(c) PROVE TypeInv'
  BY <1>7 DEF SkipClaim
<1>8. ASSUME NEW c \in Cards, ValidateClaim(c) PROVE TypeInv'
  <2>1. files' \in Files
    <3>1. files.valid \cup {c} \in SUBSET Cards
      BY FilesFields
    <3>2. files' = files \/ files' = [files EXCEPT !.valid = files.valid \cup {c}]
      BY <1>8 DEF ValidateClaim
    <3>3. [files EXCEPT !.valid = files.valid \cup {c}] \in Files
      BY <3>1, FilesWith
    <3>4. QED BY <3>2, <3>3
  <2>2. labels' \in [Cards -> SUBSET Labels] /\ fresh' \in [Cards -> BOOLEAN]
    BY <1>8, UnlabelType DEF ValidateClaim
  <2>3. faults' \in 0..MaxFaults
    BY <1>8 DEF ValidateClaim, Fault
  <2>4. QED BY <1>8, <2>1, <2>2, <2>3 DEF ValidateClaim
<1>9. CASE LabelClaim
  BY <1>9 DEF LabelClaim, Labels, ClaimLabels
<1>10. CASE ConfirmClaim
  <2>1. files' \in Files
    <3>1. files.claims \cup {cur} \in SUBSET Cards
      BY <1>10, FilesFields DEF ConfirmClaim
    <3>2. files' = files \/ files' = [files EXCEPT !.claims = files.claims \cup {cur}]
      BY <1>10 DEF ConfirmClaim
    <3>3. [files EXCEPT !.claims = files.claims \cup {cur}] \in Files
      BY <3>1, FilesWith
    <3>4. QED BY <3>2, <3>3
  <2>2. labels' \in [Cards -> SUBSET Labels] /\ fresh' \in [Cards -> BOOLEAN]
    BY <1>10, UnlabelType DEF ConfirmClaim
  <2>3. QED BY <1>10, <2>1, <2>2 DEF ConfirmClaim
<1>11. CASE WriteClaims
  BY <1>11, FilesFields DEF WriteClaims
<1>12. CASE WriteValidated
  BY <1>12 DEF WriteValidated
<1> HIDE DEF TypeInv
<1>13. QED
  BY <1>1, <1>2, <1>3, <1>4, <1>5, <1>6, <1>7, <1>8, <1>9, <1>10, <1>11, <1>12
     DEF ClaimStep

\* The act step.
LEMMA TypeAct == ASSUME TypeInv, ActStep PROVE TypeInv'
<1> USE ConstantsAssumption, BlankType, NoFilesType
    DEF TypeInv, TypeOK, CursorInv, CardStages, CandidateStages, PendingStages,
        targets, card, audit, loop, bounds, Stages, Enter, OnCard, DoneWith, Goto,
        HoldCandidate, HoldAndRelease, Fault
<1>1. ASSUME NEW found, RecoverIntents(found) PROVE TypeInv'
  <2>1. files' \in Files /\ todo' \in SUBSET Cards
    <3>1. \A S, T, U \in SUBSET Cards :
             [files EXCEPT !.merges = S, !.backfill = S, !.holds = T,
                           !.releases = U] \in Files
      BY DEF Files
    <3>2. found \in SUBSET Cards
      BY <1>1 DEF RecoverIntents, ClosedIntents
    <3>3. QED BY <1>1, <3>1, <3>2, FilesFields DEF RecoverIntents
  <2>2. QED BY <1>1, <2>1 DEF RecoverIntents
<1>2. ASSUME NEW c \in Cards, Evaluate(c) PROVE TypeInv'
  BY <1>2 DEF Evaluate
<1>3. cur \in Cards =>
         /\ [files EXCEPT !.releases = files.releases \cup {cur}] \in Files
         /\ [files EXCEPT !.releases = files.releases \ {cur}] \in Files
         /\ [files EXCEPT !.merges = files.merges \cup {cur}] \in Files
         /\ [files EXCEPT !.holds = files.holds \cup {cur}] \in Files
  <2>1. SUFFICES ASSUME cur \in Cards
        PROVE  /\ [files EXCEPT !.releases = files.releases \cup {cur}] \in Files
               /\ [files EXCEPT !.releases = files.releases \ {cur}] \in Files
               /\ [files EXCEPT !.merges = files.merges \cup {cur}] \in Files
               /\ [files EXCEPT !.holds = files.holds \cup {cur}] \in Files
    OBVIOUS
  <2>2. /\ files.releases \cup {cur} \in SUBSET Cards
        /\ files.releases \ {cur} \in SUBSET Cards
        /\ files.merges \cup {cur} \in SUBSET Cards
        /\ files.holds \cup {cur} \in SUBSET Cards
    <3>1. /\ files.releases \in SUBSET Cards /\ files.merges \in SUBSET Cards
          /\ files.holds \in SUBSET Cards
      BY FilesFields, Zenon
    <3>2. \A S \in SUBSET Cards : /\ S \cup {cur} \in SUBSET Cards
                                  /\ S \ {cur} \in SUBSET Cards
      BY <2>1, Zenon
    <3>3. QED BY <3>1, <3>2, Zenon
  <2>3. QED BY <2>2, FilesWith
<1>4. CASE StageRead
  <2>1. \/ files' = files
        \/ files' = [files EXCEPT !.releases = files.releases \ {cur}]
    BY <1>4 DEF StageRead
  <2>2. files' \in Files
    BY <1>4, <2>1, <1>3 DEF StageRead
  <2>3. QED BY <1>4, <2>2 DEF StageRead
<1>5. CASE StageWrite
  <2>1. body' \in [Cards -> Body]
    <3>1. [buf EXCEPT !.audit = "intent"] \in Body
      BY BodyWith
    <3>2. QED BY <1>5, <3>1 DEF StageWrite
  <2>2. QED BY <1>5, <2>1 DEF StageWrite
<1>6. CASE StageConfirm
  <2>1. \/ files' = files
        \/ files' = [files EXCEPT !.releases = files.releases \ {cur}]
    BY <1>6 DEF StageConfirm
  <2>2. files' \in Files
    BY <1>6, <2>1, <1>3 DEF StageConfirm
  <2>3. fresh' \in [Cards -> BOOLEAN]
    BY <1>6 DEF StageConfirm
  <2>4. QED BY <1>6, <2>2, <2>3 DEF StageConfirm
<1>7. CASE G7
  <2>1. \/ files' = files
        \/ files' = [files EXCEPT !.releases = files.releases \cup {cur}]
    BY <1>7 DEF G7
  <2>2. files' \in Files
    BY <1>7, <2>1, <1>3 DEF G7
  <2>3. QED BY <1>7, <2>2 DEF G7
<1>8. CASE Guard
  <2>1. \/ files' = files
        \/ files' = [files EXCEPT !.releases = files.releases \cup {cur}]
    BY <1>8 DEF Guard
  <2>2. files' \in Files
    BY <1>8, <2>1, <1>3 DEF Guard
  <2>3. QED BY <1>8, <2>2 DEF Guard
<1>9. ASSUME NEW answered \in BOOLEAN, MergeLands(answered) PROVE TypeInv'
  <2>1. /\ prState' \in [Cards -> {"open", "merged", "closed"}]
        /\ mergedBy' \in [Cards -> {"nobody", "wheelhouse", "person"}]
    BY <1>9 DEF MergeLands
  <2>2. QED BY <1>9, <2>1 DEF MergeLands
<1>10. CASE MergeRefused
  <2>1. \/ files' = files
        \/ files' = [files EXCEPT !.releases = files.releases \cup {cur}]
    BY <1>10 DEF MergeRefused
  <2>2. files' \in Files
    BY <1>10, <2>1, <1>3 DEF MergeRefused
  <2>3. buf' \in Body /\ faults' \in 0..MaxFaults /\ todo' \in SUBSET Cards
    BY <1>10 DEF MergeRefused
  <2>4. QED BY <1>10, <2>2, <2>3 DEF MergeRefused
<1>11. CASE PendingRead
  <2>1. \/ files' = files
        \/ files' = [files EXCEPT !.merges = files.merges \cup {cur}]
    BY <1>11 DEF PendingRead
  <2>2. files' \in Files
    BY <1>11, <2>1, <1>3 DEF PendingRead
  <2>3. QED BY <1>11, <2>2 DEF PendingRead
<1>12. CASE PendingWrite
  <2>1. files' = [files EXCEPT !.merges = files.merges \cup {cur}]
    BY <1>12 DEF PendingWrite
  <2>2. files' \in Files
    BY <1>12, <2>1, <1>3 DEF PendingWrite
  <2>3. body' \in [Cards -> Body]
    <3>1. [buf EXCEPT !.audit = "pending"] \in Body
      BY BodyWith
    <3>2. \/ body' = body
          \/ body' = [body EXCEPT ![cur] = [buf EXCEPT !.audit = "pending"]]
      BY <1>12 DEF PendingWrite
    <3>3. QED BY <3>1, <3>2
  <2>4. QED BY <1>12, <2>2, <2>3 DEF PendingWrite
<1>13. CASE HoldRead
  <2>1. \/ files' = files
        \/ files' = [files EXCEPT !.holds = files.holds \cup {cur}]
    BY <1>13 DEF HoldRead
  <2>2. files' \in Files
    <3>1. cur \in Cards
      BY <1>13 DEF HoldRead
    <3>2. QED BY <2>1, <3>1, <1>3
  <2>3. fresh' \in [Cards -> BOOLEAN]
    BY <1>13 DEF HoldRead
  <2>4. QED BY <1>13, <2>2, <2>3 DEF HoldRead
<1>14. CASE HoldWrite
  <2>1. body' \in [Cards -> Body] /\ labels' \in [Cards -> SUBSET Labels]
    <3>1. [buf EXCEPT !.hold = TRUE] \in Body
      BY BodyWith
    <3>2. body' \in [Cards -> Body]
      BY <1>14, <3>1 DEF HoldWrite
    <3>3. labels' \in [Cards -> SUBSET Labels]
      <4>1. \/ labels' = labels
            \/ labels' = [labels EXCEPT ![cur] = labels[cur] \cup {"manual-merge"}]
        BY <1>14 DEF HoldWrite
      <4>2. "manual-merge" \in Labels
        BY DEF Labels
      <4>3. QED BY <4>1, <4>2
    <3>4. QED BY <3>2, <3>3
  <2>2. files' \in Files
    <3>1. \A S, T \in SUBSET Cards :
             [files EXCEPT !.holds = S, !.releases = T] \in Files
      BY DEF Files
    <3>2. /\ files.holds \cup {cur} \in SUBSET Cards
          /\ files.releases \cup {cur} \in SUBSET Cards
      BY <1>14, FilesFields DEF HoldWrite
    <3>3. \/ files' = [files EXCEPT !.holds = files.holds \cup {cur}]
          \/ files' = [files EXCEPT !.holds = files.holds \cup {cur},
                                    !.releases = files.releases \cup {cur}]
      BY <1>14 DEF HoldWrite
    <3>4. /\ [files EXCEPT !.holds = files.holds \cup {cur}] \in Files
          /\ [files EXCEPT !.holds = files.holds \cup {cur},
                           !.releases = files.releases \cup {cur}] \in Files
      BY <3>1, <3>2, FilesWith
    <3>5. QED BY <3>3, <3>4
  <2>3. QED BY <1>14, <2>1, <2>2 DEF HoldWrite
<1>15. CASE WriteResults
  <2>1. files' \in Files
    <3>1. /\ [files EXCEPT !.written = TRUE] \in Files
          /\ [files EXCEPT !.merges = {}, !.backfill = {}, !.releases = {},
                           !.holds = {}] \in Files
      BY DEF Files
    <3>2. QED BY <1>15, <3>1 DEF WriteResults
  <2>2. QED BY <1>15, <2>1 DEF WriteResults
<1> HIDE DEF TypeInv
<1>16. QED
  BY <1>1, <1>2, <1>4, <1>5, <1>6, <1>7, <1>8, <1>9, <1>10, <1>11, <1>12, <1>13,
     <1>14, <1>15 DEF ActStep

\* Recording: the ledger, the resolved cards, the releases.
LEMMA TypeRecord == ASSUME TypeInv, LedgerSound, RecordStep PROVE TypeInv'
<1> USE ConstantsAssumption, BlankType
    DEF TypeInv, TypeOK, CursorInv, CardStages, CandidateStages, PendingStages,
        targets, card, audit, loop, bounds, Stages, Enter, OnCard, DoneWith, Goto,
        Fault
<1>1. CASE RecordBegin
  <2>1. files' \in Files /\ todo' \in SUBSET Cards
    <3>1. \A S, T, U \in SUBSET Cards :
             [files EXCEPT !.releases = S, !.staged = T, !.merges = U] \in Files
      BY DEF Files
    <3> DEFINE wrote   == {c \in files.holds : HoldAccepted(c)}
               release == IF files.written
                          THEN (files.releases \ files.holds) \cup wrote
                          ELSE files.valid
    <3>2. release \in SUBSET Cards
      BY FilesFields
    <3>3. PICK pending \in {PendingRecords, {}} :
             /\ files' = [files EXCEPT !.releases = release, !.staged = pending,
                                       !.merges = files.merges \cup pending]
             /\ todo' = files.merges \ pending
      BY <1>1 DEF RecordBegin
    <3>4. pending \in SUBSET Cards /\ files.merges \cup pending \in SUBSET Cards
      BY FilesFields DEF PendingRecords
    <3> HIDE DEF release
    <3>5. [files EXCEPT !.releases = release, !.staged = pending,
                        !.merges = files.merges \cup pending] \in Files
      BY <3>1, <3>2, <3>4
    <3>6. QED BY <3>3, <3>4, <3>5
  <2>2. body' \in [Cards -> Body]
    <3>1. \A c \in Cards : [body[c] EXCEPT !.hold = TRUE] \in Body
      BY BodyWith
    <3>2. QED BY <1>1, <3>1 DEF RecordBegin
  <2>3. labels' \in [Cards -> SUBSET Labels]
    <3>1. "manual-merge" \in Labels
      BY DEF Labels
    <3>2. QED BY <1>1, <3>1 DEF RecordBegin
  <2>4. faults' \in 0..MaxFaults
    BY <1>1 DEF RecordBegin
  <2>5. QED BY <1>1, <2>1, <2>2, <2>3, <2>4 DEF RecordBegin
<1>2. ASSUME NEW c \in Cards, RecordStage(c) PROVE TypeInv'
  <2>1. files' \in Files
    <3>1. files' = files \/ files' = [files EXCEPT !.staged = files.staged \cup {c}]
      BY <1>2 DEF RecordStage
    <3>2. files.staged \cup {c} \in SUBSET Cards
      BY FilesFields
    <3>3. [files EXCEPT !.staged = files.staged \cup {c}] \in Files
      BY <3>2, FilesWith
    <3>4. QED BY <3>1, <3>3
  <2>2. body' \in [Cards -> Body]
    <3>1. [body[c] EXCEPT !.audit = "pending"] \in Body
      BY BodyWith
    <3>2. \/ body' = body
          \/ body' = [body EXCEPT ![c] = [body[c] EXCEPT !.audit = "pending"]]
      BY <1>2 DEF RecordStage
    <3>3. QED BY <3>1, <3>2
  <2>3. faults' \in 0..MaxFaults
    BY <1>2 DEF RecordStage
  <2>4. QED BY <1>2, <2>1, <2>2, <2>3 DEF RecordStage
<1>3. CASE AppendLedger
  <2>1. files.staged \in SUBSET Cards /\ files.releases \ files.merges \in SUBSET Cards
    BY FilesFields
  <2>2. ledger' \in Seq(Cards \X Heads) /\ appended' \in Seq(Cards \X Heads)
    <3> HIDE DEF TypeOK
    <3>1. ASSUME NEW rows \in Orders(NewRows(files.staged)),
                 NEW kept \in KeepNewest(ledger \o rows)
          PROVE  /\ kept \in Seq(Cards \X Heads)
                 /\ appended \o rows \in Seq(Cards \X Heads)
      BY <2>1, AppendedLedger
    <3>2. CASE ledger' = ledger /\ appended' = appended
      BY <3>2 DEF TypeOK
    <3>3. QED BY <1>3, <3>1, <3>2 DEF AppendLedger
  <2>3. recorded' \in SUBSET (Cards \X Heads)
    <3>1. \A c \in Cards : Identity(c) \in Cards \X Heads
      BY BodyFields DEF Identity
    <3>2. QED BY <1>3, <2>1, <3>1 DEF AppendLedger
  <2>4. QED BY <1>3, <2>1, <2>2, <2>3 DEF AppendLedger
<1>4. ASSUME NEW c \in Cards, ClearClosedIntent(c) PROVE TypeInv'
  <2>1. body' \in [Cards -> Body]
    <3>1. [body[c] EXCEPT !.audit = "none"] \in Body
      BY BodyWith
    <3>2. \/ body' = body
          \/ body' = [body EXCEPT ![c] = [body[c] EXCEPT !.audit = "none"]]
      BY <1>4 DEF ClearClosedIntent
    <3>3. QED BY <3>1, <3>2
  <2>2. QED BY <1>4, <2>1 DEF ClearClosedIntent
<1>5. ASSUME NEW c \in Cards, ResolveLabels(c) PROVE TypeInv'
  <2>1. labels' \in [Cards -> SUBSET Labels]
    <3>1. "resolved" \in Labels
      BY DEF Labels
    <3>2. (labels[c] \cup {"resolved"}) \ {"needs-decision"} \in SUBSET Labels
      BY <3>1
    <3>3. CASE labels' = labels
      BY <3>3
    <3>4. CASE labels' = [labels EXCEPT ![c] =
                           (labels[c] \cup {"resolved"}) \ {"needs-decision"}]
      BY <3>2, <3>4
    <3>5. QED BY <1>5, <3>3, <3>4 DEF ResolveLabels
  <2>2. QED BY <1>5, <2>1 DEF ResolveLabels
<1>6. CASE ResolveClose
  BY <1>6 DEF ResolveClose
<1>7. CASE ResolveRelease
  <2>1. labels' \in [Cards -> SUBSET Labels] /\ fresh' \in [Cards -> BOOLEAN]
    BY <1>7, UnlabelType DEF ResolveRelease
  <2>2. QED BY <1>7, <2>1 DEF ResolveRelease
<1>8. CASE ResolveDone
  BY <1>8, FilesFields DEF ResolveDone
<1>9. ASSUME NEW c \in Cards, ReleaseRead(c) PROVE TypeInv'
  BY <1>9 DEF ReleaseRead
<1>10. CASE ClearIntent
  <2>1. body' \in [Cards -> Body]
    <3>1. [buf EXCEPT !.audit = "none"] \in Body
      BY BodyWith
    <3>2. \/ body' = body
          \/ body' = [body EXCEPT ![cur] = [buf EXCEPT !.audit = "none"]]
      BY <1>10 DEF ClearIntent
    <3>3. QED BY <3>1, <3>2
  <2>2. buf' \in Body /\ faults' \in 0..MaxFaults /\ todo' \in SUBSET Cards
    BY <1>10 DEF ClearIntent
  <2>3. QED BY <1>10, <2>1, <2>2 DEF ClearIntent
<1>11. CASE DropClaim
  <2>1. labels' \in [Cards -> SUBSET Labels] /\ fresh' \in [Cards -> BOOLEAN]
    BY <1>11, UnlabelType DEF DropClaim
  <2>2. faults' \in 0..MaxFaults
    BY <1>11 DEF DropClaim
  <2>3. QED BY <1>11, <2>1, <2>2 DEF DropClaim
<1>12. CASE ReleaseDone
  BY <1>12, FilesFields DEF ReleaseDone
<1> HIDE DEF TypeInv
<1>13. QED
  BY <1>1, <1>2, <1>3, <1>4, <1>5, <1>6, <1>7, <1>8, <1>9, <1>10, <1>11, <1>12
     DEF RecordStep

\* The reconciler's part, and the end of the run.
LEMMA TypeReconcile == ASSUME TypeInv, ReconcileStep PROVE TypeInv'
<1> USE ConstantsAssumption, BlankType, NoFilesType
    DEF TypeInv, TypeOK, CursorInv, CardStages, CandidateStages, PendingStages,
        targets, card, audit, loop, bounds, Stages, Enter, DoneWith
<1>1. CASE RunEnds
  BY <1>1 DEF RunEnds
<1>2. ASSUME NEW c \in Cards, ReconcileRefresh(c) PROVE TypeInv'
  <2>1. body' \in [Cards -> Body]
    <3>1. files.seen[c] \in Heads
      BY <1>2, FilesFields DEF ReconcileRefresh, Heads
    <3>2. [BlankBody EXCEPT !.head = files.seen[c]] \in Body
      BY <3>1 DEF Body, BlankBody
    <3>3. QED BY <1>2, <3>2 DEF ReconcileRefresh
  <2>2. labels' \in [Cards -> SUBSET Labels]
    BY <1>2 DEF ReconcileRefresh
  <2>3. QED BY <1>2, <2>1, <2>2 DEF ReconcileRefresh
<1>3. ASSUME NEW c \in Cards, ReconcileClose(c) PROVE TypeInv'
  BY <1>3 DEF ReconcileClose, Labels
<1>4. ASSUME NEW c \in Cards, ReconcileLeave(c) PROVE TypeInv'
  BY <1>4 DEF ReconcileLeave
<1> HIDE DEF TypeInv
<1>5. QED
  BY <1>1, <1>2, <1>3, <1>4 DEF ReconcileStep

\* The ledger starts empty.
LEMMA LedgerInit == Init => LedgerSound
<1> SUFFICES ASSUME Init PROVE LedgerSound
  OBVIOUS
<1>1. ledger = <<>> /\ appended = <<>> /\ recorded = {} /\ Len(ledger) = 0
  BY DEF Init
<1>2. From(appended, 0) = <<>>
  BY <1>1, SubSeqEmpty DEF From
<1>3. \E d \in 0..Len(appended) :
         /\ ledger = From(appended, d)
         /\ \A p \in 1..d : \E e \in p..Len(appended) : ~Fits(SubSeq(appended, p, e))
  <2>1. 0 \in 0..Len(appended) /\ 1..0 = {}
    BY <1>1
  <2>2. QED BY <1>1, <1>2, <2>1
<1>4. QED BY <1>1, <1>3 DEF LedgerSound

\* Steps that are not AppendLedger leave the ledger alone; AppendLedger keeps
\* it sound.
LEMMA LedgerStep ==
    ASSUME TypeOK, LedgerSound, [Next]_vars
    PROVE  LedgerSound'
<1> USE DEF targets, card, audit, loop, bounds
<1>1. CASE UNCHANGED audit
  BY <1>1 DEF LedgerSound
<1>2. CASE AppendLedger
  <2>1. CASE UNCHANGED audit
    BY <2>1, <1>1
  <2>2. CASE ~UNCHANGED audit
    <3>1. PICK rows \in Orders(NewRows(files.staged)) :
             /\ ledger' \in KeepNewest(ledger \o rows)
             /\ appended' = appended \o rows
      BY <1>2, <2>2 DEF AppendLedger
    <3>2. recorded' = recorded \cup {Identity(c) : c \in files.staged}
      BY <1>2, <2>2 DEF AppendLedger
    <3>3. files.staged \in SUBSET Cards
      BY FilesFields DEF TypeOK
    <3>4. SoundLedger(ledger', appended', recorded')
      BY <3>1, <3>2, <3>3, AppendedLedger
    <3>5. QED BY <3>4 DEF LedgerSound, SoundLedger, LedgerTail
  <2>3. QED BY <2>1, <2>2
<1>3. CASE ~AppendLedger /\ Next
  <2>1. CASE ClaimStep
    BY <1>1, <2>1 DEF ClaimStep, ListCards, Scan, Preclaim, RecoverStaleClaim,
       KeepIntentClaim, ReadForClaim, SkipClaim, ValidateClaim, LabelClaim,
       ConfirmClaim, WriteClaims, WriteValidated
  <2>2. CASE ActStep
    BY <1>1, <2>2 DEF ActStep, RecoverIntents, Evaluate, StageRead, StageWrite,
       StageConfirm, G7, Guard, MergeLands, MergeRefused, PendingRead,
       PendingWrite, HoldRead, HoldWrite, WriteResults
  <2>3. CASE RecordStep
    BY <1>1, <1>3, <2>3 DEF RecordStep, RecordBegin, RecordStage,
       ClearClosedIntent, ResolveLabels, ResolveClose, ResolveRelease,
       ResolveDone, ReleaseRead, ClearIntent, DropClaim, ReleaseDone
  <2>4. CASE ReconcileStep
    BY <1>1, <2>4 DEF ReconcileStep, RunEnds, ReconcileRefresh, ReconcileClose,
       ReconcileLeave
  <2>5. CASE People \/ \E c \in Cards : TriagePublishes(c)
    BY <1>1, <2>5 DEF People, Push, GatesFlip, PersonEnds, OwnerTicks,
       OwnerComments, OwnerCloses, BystanderComments, TriagePublishes
  <2>6. CASE RunnerLost \/ StepDies \/ CallFails \/ WriteHandoffFails
    BY <1>1, <2>6 DEF RunnerLost, StepDies, CallFails, WriteHandoffFails
  <2>7. QED BY <1>3, <2>1, <2>2, <2>3, <2>4, <2>5, <2>6 DEF Next, RunStep
<1>4. CASE UNCHANGED vars
  BY <1>1, <1>4 DEF vars
<1>5. QED BY <1>2, <1>3, <1>4

\* Every step keeps TypeOK and the cursor in their types.
LEMMA TypeStep ==
    ASSUME TypeInv, LedgerSound, [Next]_vars
    PROVE  TypeInv'
<1>1. CASE UNCHANGED vars
  BY <1>1 DEF vars, TypeInv, TypeOK, CursorInv, targets, card, audit, loop, bounds
<1>2. CASE Next
  BY <1>2, TypeClaim, TypeAct, TypeRecord, TypeReconcile, TypePeople, TypeFaults
     DEF Next, RunStep, People
<1>3. QED BY <1>1, <1>2

\* TypeOK holds in every reachable state, for every set of cards and bound.
THEOREM TypeCorrect == Spec => []TypeOK
<1>1. Init => TypeInv /\ LedgerSound
  BY TypeInit, LedgerInit
<1>2. TypeInv /\ LedgerSound /\ [Next]_vars => (TypeInv /\ LedgerSound)'
  BY TypeStep, LedgerStep DEF TypeInv
<1>3. TypeInv => TypeOK
  BY DEF TypeInv
<1>4. QED BY <1>1, <1>2, <1>3, PTL DEF Spec

\* The ledger is sound in every reachable state: no merge has two rows, both
\* caps are kept, the rows are the newest ever written, and one is gone only
\* because it and rows after it were once too many or too large.
THEOREM LedgerIsSound == Spec => []LedgerSound
<1>1. Init => TypeInv /\ LedgerSound
  BY TypeInit, LedgerInit
<1>2. TypeInv /\ LedgerSound /\ [Next]_vars => (TypeInv /\ LedgerSound)'
  BY TypeStep, LedgerStep DEF TypeInv
<1>3. QED BY <1>1, <1>2, PTL DEF Spec
=============================================================================
