----------------------------- MODULE HeapProofs -----------------------------
(***************************************************************************)
(* Theorems about Heap, for any sizes of pages, of memory and of requests: *)
(* what malloc and free leave of the order of the blocks, and what their   *)
(* callers may rely on.                                                    *)
(***************************************************************************)
EXTENDS Heap, Ranks, SequenceTheorems

-----------------------------------------------------------------------------
(* Constants and numbers.                                                  *)

(* The constants are numbers, and every address fits in a word.            *)
LEMMA Numbers ==
  /\ Page \in Nat /\ Page > 0 /\ HeapStart \in Nat /\ InitialEnd \in Nat
  /\ Top \in Nat /\ MaxWord \in Nat /\ Top < MaxWord /\ MaxCalls \in Nat
  /\ HEADER = 3 /\ FOOTER = 2 /\ MAGIC \in Word /\ {0, 1} \subseteq Word
  /\ \A size \in Sizes : size \in Nat /\ size > 0
  <1>1. MaxWord = 65535 /\ MAGIC = 48879 /\ HEADER = 3 /\ FOOTER = 2
    BY DEF MaxWord, MAGIC, HEADER, FOOTER
  <1>2. MAGIC \in Word /\ {0, 1} \subseteq Word
    BY <1>1 DEF Word
  <1>3. {HeapStart, InitialEnd, MinSize, Top, MaxCalls} \subseteq Nat
    BY HeapAssumption
  <1> QED
    BY <1>1, <1>2, <1>3, HeapAssumption

(* Arithmetic that stays within a word does not wrap.                      *)
LEMMA WrapOfWord ==
  ASSUME NEW n \in Word
  PROVE  Wrap(n) = n
  <1>1. MaxWord \in Nat
    BY Numbers
  <1>2. n \in 0 .. MaxWord
    BY DEF Word
  <1> QED
    BY <1>1, <1>2 DEF Wrap

(* Whatever wraps is a word.                                               *)
LEMMA WrapIsWord ==
  ASSUME NEW n \in Int
  PROVE  Wrap(n) \in Word
  <1>1. MaxWord \in Nat
    BY Numbers
  <1> QED
    BY <1>1 DEF Wrap, Word

(* The least and the greatest of some numbers.                             *)
LEMMA LeastAndGreatest ==
  ASSUME NEW S \in SUBSET Int, IsFiniteSet(S), S # {}
  PROVE  /\ Min(S) \in S /\ \A y \in S : Min(S) <= y
         /\ Max(S) \in S /\ \A y \in S : y <= Max(S)
  <1>1. \E x \in S : \A y \in S : x <= y
    BY Extremes
  <1>2. \E x \in S : \A y \in S : x >= y
    BY Extremes
  <1>3. Min(S) \in S /\ \A y \in S : Min(S) <= y
    BY <1>1, Zenon DEF Min
  <1>4. Max(S) \in S /\ \A y \in S : Max(S) >= y
    BY <1>2, Zenon DEF Max
  <1>5. \A y \in S : y \in Int
    OBVIOUS
  <1> QED
    BY <1>3, <1>4, <1>5

-----------------------------------------------------------------------------
(* The index, a sequence of headers.                                       *)

(* The positions of a sequence are a finite set of numbers.                *)
LEMMA Positions ==
  ASSUME NEW s \in Seq(Address), NEW S \in SUBSET (1 .. Len(s) + 1)
  PROVE  IsFiniteSet(S) /\ S \in SUBSET Int /\ Len(s) \in Nat /\ DOMAIN s = 1 .. Len(s)
  <1>1. Len(s) \in Nat /\ DOMAIN s = 1 .. Len(s)
    BY LenProperties
  <1>2. IsFiniteSet(1 .. Len(s) + 1)
    BY <1>1, FS_Interval
  <1>3. IsFiniteSet(S)
    BY <1>2, FS_Subset
  <1>4. S \in SUBSET Int
    BY <1>1
  <1> QED
    BY <1>1, <1>3, <1>4

(* A header is put somewhere among the others.                             *)
LEMMA PlaceInside ==
  ASSUME NEW s \in Seq(Address), NEW m, NEW h
  PROVE  Place(m, s, h) \in 1 .. Len(s) + 1
  <1> DEFINE S == {Len(s) + 1} \cup {i \in DOMAIN s : Size(m, s[i]) >= Size(m, h)}
  <1>1. Len(s) \in Nat /\ DOMAIN s = 1 .. Len(s)
    BY LenProperties
  <1>2. S \in SUBSET (1 .. Len(s) + 1) /\ S # {}
    BY <1>1
  <1>3. Place(m, s, h) = Min(S)
    BY DEF Place
  <1> HIDE DEF S
  <1>4. IsFiniteSet(S) /\ S \in SUBSET Int
    BY <1>2, Positions
  <1>5. Min(S) \in S
    BY <1>2, <1>4, LeastAndGreatest
  <1> QED
    BY <1>2, <1>3, <1>5

(* What the sequences hold where one is put into another or cut.           *)
LEMMA InsertedAt ==
  ASSUME NEW s \in Seq(Address), NEW h \in Address, NEW i \in 1 .. Len(s) + 1
  PROVE  /\ InsertAt(s, i, h) \in Seq(Address)
         /\ Len(InsertAt(s, i, h)) = Len(s) + 1
         /\ \A j \in 1 .. Len(s) + 1 :
              InsertAt(s, i, h)[j] = IF j < i THEN s[j] ELSE IF j = i THEN h ELSE s[j - 1]
  <1> DEFINE before == SubSeq(s, 1, i - 1)
             behind == SubSeq(s, i, Len(s))
  <1>1. Len(s) \in Nat /\ \A j \in 1 .. Len(s) : s[j] \in Address
    BY LenProperties, ElementOfSeq
  <1>2. /\ before \in Seq(Address) /\ Len(before) = i - 1
        /\ \A j \in 1 .. i - 1 : before[j] = s[j]
    <2>1. \A j \in 1 .. i - 1 : s[j] \in Address
      BY <1>1
    <2>2. /\ before \in Seq(Address)
          /\ Len(before) = IF 1 <= i - 1 THEN (i - 1) - 1 + 1 ELSE 0
          /\ \A j \in 1 .. (i - 1) - 1 + 1 : before[j] = s[1 + j - 1]
      BY <1>1, <2>1, SubSeqProperties
    <2> HIDE DEF before
    <2> QED
      BY <1>1, <2>2
  <1>3. /\ behind \in Seq(Address) /\ Len(behind) = Len(s) - i + 1
        /\ \A j \in 1 .. Len(s) - i + 1 : behind[j] = s[i + j - 1]
    <2>1. \A j \in i .. Len(s) : s[j] \in Address
      BY <1>1
    <2>2. /\ behind \in Seq(Address)
          /\ Len(behind) = IF i <= Len(s) THEN Len(s) - i + 1 ELSE 0
          /\ \A j \in 1 .. Len(s) - i + 1 : behind[j] = s[i + j - 1]
      BY <1>1, <2>1, SubSeqProperties
    <2> HIDE DEF behind
    <2> QED
      BY <1>1, <2>2
  <1>4. InsertAt(s, i, h) = (before \o <<h>>) \o behind
    BY DEF InsertAt
  <1> HIDE DEF before, behind
  <1>5. <<h>> \in Seq(Address) /\ Len(<<h>>) = 1 /\ <<h>>[1] = h
    OBVIOUS
  <1> DEFINE first == before \o <<h>>
  <1>6. /\ first \in Seq(Address) /\ Len(first) = i
        /\ \A j \in 1 .. i : first[j] = IF j <= i - 1 THEN before[j] ELSE <<h>>[j - (i - 1)]
    <2>1. /\ first \in Seq(Address) /\ Len(first) = Len(before) + Len(<<h>>)
          /\ \A j \in 1 .. Len(before) + Len(<<h>>) :
               first[j] = IF j <= Len(before) THEN before[j] ELSE <<h>>[j - Len(before)]
      BY <1>2, <1>5, ConcatProperties
    <2> HIDE DEF first
    <2> QED
      BY <1>1, <1>2, <1>5, <2>1
  <1> HIDE DEF first
  <1>7. \A j \in 1 .. i : first[j] = IF j < i THEN s[j] ELSE h
    <2> SUFFICES ASSUME NEW j \in 1 .. i PROVE first[j] = IF j < i THEN s[j] ELSE h
      OBVIOUS
    <2>1. CASE j < i
      BY <1>1, <1>2, <1>6, <2>1
    <2>2. CASE j = i
      BY <1>1, <1>5, <1>6, <2>2
    <2> QED
      BY <1>1, <2>1, <2>2
  <1> DEFINE all == first \o behind
  <1>8. /\ all \in Seq(Address) /\ Len(all) = Len(first) + Len(behind)
        /\ \A j \in 1 .. Len(first) + Len(behind) :
             all[j] = IF j <= Len(first) THEN first[j] ELSE behind[j - Len(first)]
    BY <1>3, <1>6, ConcatProperties
  <1>9. InsertAt(s, i, h) = all
    BY <1>4 DEF first
  <1> HIDE DEF all
  <1>10. Len(all) = Len(s) + 1
    BY <1>1, <1>3, <1>6, <1>8
  <1>11. ASSUME NEW j \in 1 .. Len(s) + 1
         PROVE  all[j] = IF j < i THEN s[j] ELSE IF j = i THEN h ELSE s[j - 1]
    <2>1. CASE j <= i
      BY <1>1, <1>3, <1>6, <1>7, <1>8, <2>1
    <2>2. CASE j > i
      <3>1. j - i \in 1 .. Len(s) - i + 1 /\ i + (j - i) - 1 = j - 1
        BY <1>1, <2>2
      <3>2. all[j] = behind[j - i] /\ behind[j - i] = s[i + (j - i) - 1]
        BY <1>1, <1>3, <1>6, <1>8, <2>2, <3>1
      <3> QED
        BY <1>1, <2>2, <3>1, <3>2
    <2> QED
      BY <1>1, <2>1, <2>2
  <1> QED
    BY <1>8, <1>9, <1>10, <1>11

(* ... and where one entry is taken out.                                   *)
LEMMA RemovedAt ==
  ASSUME NEW s \in Seq(Address), NEW i \in 1 .. Len(s)
  PROVE  /\ RemoveAt(s, i) \in Seq(Address)
         /\ Len(RemoveAt(s, i)) = Len(s) - 1
         /\ \A j \in 1 .. Len(s) - 1 : RemoveAt(s, i)[j] = IF j < i THEN s[j] ELSE s[j + 1]
  <1> DEFINE before == SubSeq(s, 1, i - 1)
             behind == SubSeq(s, i + 1, Len(s))
  <1>1. Len(s) \in Nat /\ \A j \in 1 .. Len(s) : s[j] \in Address
    BY LenProperties, ElementOfSeq
  <1>2. /\ before \in Seq(Address) /\ Len(before) = i - 1
        /\ \A j \in 1 .. i - 1 : before[j] = s[j]
    <2>1. \A j \in 1 .. i - 1 : s[j] \in Address
      BY <1>1
    <2>2. /\ before \in Seq(Address)
          /\ Len(before) = IF 1 <= i - 1 THEN (i - 1) - 1 + 1 ELSE 0
          /\ \A j \in 1 .. (i - 1) - 1 + 1 : before[j] = s[1 + j - 1]
      BY <1>1, <2>1, SubSeqProperties
    <2> HIDE DEF before
    <2> QED
      BY <1>1, <2>2
  <1>3. /\ behind \in Seq(Address) /\ Len(behind) = Len(s) - i
        /\ \A j \in 1 .. Len(s) - i : behind[j] = s[i + j]
    <2>1. \A j \in i + 1 .. Len(s) : s[j] \in Address
      BY <1>1
    <2>2. /\ behind \in Seq(Address)
          /\ Len(behind) = IF i + 1 <= Len(s) THEN Len(s) - (i + 1) + 1 ELSE 0
          /\ \A j \in 1 .. Len(s) - (i + 1) + 1 : behind[j] = s[(i + 1) + j - 1]
      BY <1>1, <2>1, SubSeqProperties
    <2> HIDE DEF behind
    <2> QED
      BY <1>1, <2>2
  <1> DEFINE all == before \o behind
  <1>4. RemoveAt(s, i) = all
    BY DEF RemoveAt
  <1> HIDE DEF before, behind
  <1>5. /\ all \in Seq(Address) /\ Len(all) = Len(before) + Len(behind)
        /\ \A j \in 1 .. Len(before) + Len(behind) :
             all[j] = IF j <= Len(before) THEN before[j] ELSE behind[j - Len(before)]
    BY <1>2, <1>3, ConcatProperties
  <1> HIDE DEF all
  <1>6. /\ Len(all) = Len(s) - 1
        /\ \A j \in 1 .. Len(s) - 1 :
             all[j] = IF j <= i - 1 THEN before[j] ELSE behind[j - (i - 1)]
    <2>1. Len(before) + Len(behind) = Len(s) - 1
      BY <1>1, <1>2, <1>3
    <2>2. Len(before) = i - 1
      BY <1>2
    <2> QED
      BY <1>5, <2>1, <2>2
  <1>7. ASSUME NEW j \in 1 .. Len(s) - 1
        PROVE  all[j] = IF j < i THEN s[j] ELSE s[j + 1]
    <2>1. CASE j < i
      <3>1. j \in 1 .. i - 1
        BY <1>1, <2>1
      <3> QED
        BY <1>1, <1>2, <1>6, <2>1, <3>1
    <2>2. CASE ~ (j < i)
      <3>1. j - (i - 1) \in 1 .. Len(s) - i /\ i + (j - (i - 1)) = j + 1 /\ ~ (j <= i - 1)
        BY <1>1, <2>2
      <3>2. all[j] = behind[j - (i - 1)]
        BY <1>6, <3>1
      <3>3. behind[j - (i - 1)] = s[i + (j - (i - 1))]
        BY <1>3, <3>1
      <3>4. i + (j - (i - 1)) = j + 1
        BY <3>1
      <3> QED
        BY <2>2, <3>2, <3>3, <3>4
    <2> QED
      BY <2>1, <2>2
  <1> QED
    BY <1>4, <1>5, <1>6, <1>7

(* The entries of a sequence.                                              *)
LEMMA Entries ==
  ASSUME NEW s \in Seq(Address)
  PROVE  /\ \A x : x \in Range(s) <=> \E i \in 1 .. Len(s) : s[i] = x
         /\ Range(s) \subseteq Address
         /\ IsInjective(s) <=> \A i, j \in 1 .. Len(s) : s[i] = s[j] => i = j
         /\ Len(s) \in Nat /\ DOMAIN s = 1 .. Len(s)
         /\ s = <<>> <=> Len(s) = 0
  <1>1. Len(s) \in Nat /\ DOMAIN s = 1 .. Len(s)
    BY LenProperties
  <1>2. \A i \in 1 .. Len(s) : s[i] \in Address
    BY ElementOfSeq
  <1>3. \A x : x \in Range(s) <=> \E i \in 1 .. Len(s) : s[i] = x
    BY <1>1 DEF Range
  <1>4. IsInjective(s) <=> \A i, j \in 1 .. Len(s) : s[i] = s[j] => i = j
    BY <1>1 DEF IsInjective
  <1>5. s = <<>> <=> Len(s) = 0
    BY EmptySeq
  <1> QED
    BY <1>1, <1>2, <1>3, <1>4, <1>5

(* Insert adds one header.                                                 *)
LEMMA Inserted ==
  ASSUME NEW s \in Seq(Address), NEW m, NEW h \in Address
  PROVE  /\ Insert(m, s, h) \in Seq(Address)
         /\ Range(Insert(m, s, h)) = Range(s) \cup {h}
         /\ IsInjective(s) /\ h \notin Range(s) => IsInjective(Insert(m, s, h))
  <1> DEFINE i == Place(m, s, h)
             t == InsertAt(s, i, h)
             n == Len(s)
  <1>1. i \in 1 .. n + 1
    BY PlaceInside
  <1>2. Insert(m, s, h) = t
    BY DEF Insert
  <1> HIDE DEF i
  <1>3. /\ t \in Seq(Address) /\ Len(t) = n + 1
        /\ \A j \in 1 .. n + 1 : t[j] = IF j < i THEN s[j] ELSE IF j = i THEN h ELSE s[j - 1]
    BY ZenonT(60), <1>1, InsertedAt
  <1>4. /\ \A x : x \in Range(s) <=> \E j \in 1 .. n : s[j] = x
        /\ IsInjective(s) <=> \A j, k \in 1 .. n : s[j] = s[k] => j = k
        /\ n \in Nat
    BY Entries
  <1> HIDE DEF t
  <1>5. /\ \A x : x \in Range(t) <=> \E j \in 1 .. Len(t) : t[j] = x
        /\ IsInjective(t) <=> \A j, k \in 1 .. Len(t) : t[j] = t[k] => j = k
    BY <1>3, Entries
  <1> HIDE DEF n
  <1>6. ASSUME NEW x \in Range(s) \cup {h} PROVE x \in Range(t)
    <2>1. CASE x = h
      <3>1. i \in 1 .. Len(t)
        BY <1>1, <1>3
      <3>2. t[i] = h
        BY <1>1, <1>3, <1>4
      <3> QED
        BY <1>5, <2>1, <3>1, <3>2
    <2>2. CASE x # h
      <3>1. PICK j \in 1 .. n : s[j] = x
        BY <1>4, <2>2
      <3>2. CASE j < i
        BY <1>1, <1>3, <1>4, <1>5, <3>1, <3>2
      <3>3. CASE ~ (j < i)
        <4>1. j + 1 \in 1 .. n + 1 /\ ~ (j + 1 < i) /\ j + 1 # i /\ (j + 1) - 1 = j
          BY <1>1, <1>4, <3>3
        <4>2. t[j + 1] = s[(j + 1) - 1]
          BY <1>3, <4>1
        <4> QED
          BY <1>3, <1>5, <3>1, <4>1, <4>2
      <3> QED
        BY <3>2, <3>3
    <2> QED
      BY <2>1, <2>2
  <1>7. ASSUME NEW x \in Range(t) PROVE x \in Range(s) \cup {h}
    <2>1. PICK j \in 1 .. n + 1 : t[j] = x
      BY <1>3, <1>5
    <2>2. CASE j < i
      <3>1. j \in 1 .. n
        BY <1>1, <1>4, <2>2
      <3> QED
        BY <1>3, <1>4, <2>1, <2>2, <3>1
    <2>3. CASE j = i
      BY <1>1, <1>3, <1>4, <2>1, <2>3
    <2>4. CASE ~ (j < i) /\ j # i
      <3>1. j - 1 \in 1 .. n
        BY <1>1, <1>4, <2>4
      <3> QED
        BY <1>3, <1>4, <2>1, <2>4, <3>1
    <2> QED
      BY <2>2, <2>3, <2>4
  <1>8. ASSUME IsInjective(s), h \notin Range(s),
               NEW j \in 1 .. n + 1, NEW k \in 1 .. n + 1, t[j] = t[k], j < k
        PROVE  FALSE
    <2> DEFINE at(x) == IF x < i THEN x ELSE x - 1
    <2>1. \A x \in 1 .. n + 1 : x # i => at(x) \in 1 .. n /\ t[x] = s[at(x)] /\ t[x] # h
      <3> SUFFICES ASSUME NEW x \in 1 .. n + 1, x # i
                   PROVE  at(x) \in 1 .. n /\ t[x] = s[at(x)] /\ t[x] # h
        OBVIOUS
      <3>1. at(x) \in 1 .. n
        BY <1>1, <1>4
      <3>2. t[x] = s[at(x)]
        BY <1>3
      <3> QED
        BY <1>4, <1>8, <3>1, <3>2
    <2>2. t[i] = h
      BY <1>1, <1>3, <1>4
    <2>3. j # i /\ k # i
      BY <1>8, <2>1, <2>2
    <2>4. at(j) # at(k)
      BY <1>1, <1>4, <1>8, <2>3
    <2> QED
      BY <1>4, <1>8, <2>1, <2>3, <2>4
  <1>9. IsInjective(s) /\ h \notin Range(s) => IsInjective(t)
    <2> SUFFICES ASSUME IsInjective(s), h \notin Range(s),
                        NEW j \in 1 .. n + 1, NEW k \in 1 .. n + 1, t[j] = t[k]
                 PROVE  j = k
      BY <1>3, <1>5
    <2>1. ~ (j < k) /\ ~ (k < j)
      BY <1>8
    <2> QED
      BY <1>4, <2>1
  <1> QED
    BY <1>2, <1>3, <1>6, <1>7, <1>9

(* Drop takes one header out, or one entry if it is there twice.           *)
LEMMA Dropped ==
  ASSUME NEW s \in Seq(Address), NEW i \in 1 .. Len(s)
  PROVE  /\ Drop(s, i) \in Seq(Address)
         /\ Range(Drop(s, i)) \subseteq Range(s)
         /\ IsInjective(s) => /\ IsInjective(Drop(s, i))
                              /\ Range(Drop(s, i)) = Range(s) \ {s[i]}
  <1> DEFINE t == RemoveAt(s, i)
             n == Len(s)
             at(x) == IF x < i THEN x ELSE x + 1
  <1>1. /\ \A x : x \in Range(s) <=> \E j \in 1 .. n : s[j] = x
        /\ IsInjective(s) <=> \A j, k \in 1 .. n : s[j] = s[k] => j = k
        /\ n \in Nat /\ DOMAIN s = 1 .. n
    BY Entries
  <1>2. Drop(s, i) = t
    BY <1>1 DEF Drop
  <1>3. /\ t \in Seq(Address) /\ Len(t) = n - 1
        /\ \A j \in 1 .. n - 1 : t[j] = IF j < i THEN s[j] ELSE s[j + 1]
    BY RemovedAt
  <1> HIDE DEF t
  <1>4. /\ \A x : x \in Range(t) <=> \E j \in 1 .. Len(t) : t[j] = x
        /\ IsInjective(t) <=> \A j, k \in 1 .. Len(t) : t[j] = t[k] => j = k
    BY <1>3, Entries
  <1> HIDE DEF n
  <1>5. i \in 1 .. n
    BY DEF n
  <1>6. \A j \in 1 .. n - 1 : t[j] = s[at(j)] /\ at(j) \in 1 .. n /\ at(j) # i
    BY <1>1, <1>3, <1>5
  <1>7. \A j, k \in 1 .. n - 1 : at(j) = at(k) => j = k
    BY <1>1, <1>5
  <1>8. \A k \in 1 .. n : k # i => \E j \in 1 .. n - 1 : at(j) = k
    <2> SUFFICES ASSUME NEW k \in 1 .. n, k # i PROVE \E j \in 1 .. n - 1 : at(j) = k
      OBVIOUS
    <2>1. CASE k < i
      <3>1. k \in 1 .. n - 1 /\ at(k) = k
        BY <1>1, <1>5, <2>1
      <3> QED
        BY <3>1
    <2>2. CASE k > i
      <3>1. k - 1 \in 1 .. n - 1 /\ at(k - 1) = k
        BY <1>1, <1>5, <2>2
      <3> QED
        BY <3>1
    <2> QED
      BY <1>1, <1>5, <2>1, <2>2
  <1> HIDE DEF at
  <1>9. \A x : x \in Range(t) <=> \E j \in 1 .. n - 1 : t[j] = x
    BY <1>3, <1>4
  <1>10. Range(t) \subseteq Range(s)
    BY <1>1, <1>6, <1>9
  <1>11. ASSUME IsInjective(s) PROVE IsInjective(t) /\ Range(t) = Range(s) \ {s[i]}
    <2>1. \A j, k \in 1 .. n : s[j] = s[k] => j = k
      BY <1>1, <1>11
    <2>2. IsInjective(t)
      <3> SUFFICES ASSUME NEW j \in 1 .. n - 1, NEW k \in 1 .. n - 1, t[j] = t[k]
                   PROVE  j = k
        BY <1>3, <1>4
      <3> QED
        BY <1>6, <1>7, <2>1
    <2>3. ASSUME NEW x \in Range(t) PROVE x \in Range(s) \ {s[i]}
      <3>1. PICK j \in 1 .. n - 1 : t[j] = x
        BY <1>9
      <3> QED
        BY <1>1, <1>5, <1>6, <2>1, <3>1
    <2>4. ASSUME NEW x \in Range(s) \ {s[i]} PROVE x \in Range(t)
      <3>1. PICK k \in 1 .. n : s[k] = x
        BY <1>1
      <3>2. PICK j \in 1 .. n - 1 : at(j) = k
        BY <1>8, <3>1
      <3> QED
        BY <1>6, <1>9, <3>1, <3>2
    <2> QED
      BY <2>2, <2>3, <2>4
  <1> QED
    BY <1>2, <1>3, <1>10, <1>11

(* A caller that is given up in Remove leaves no new entry.                *)
LEMMA PartlyDropped ==
  ASSUME NEW s \in Seq(Address), NEW i \in 1 .. Len(s), NEW k \in 0 .. Len(s) - i
  PROVE  /\ Dropping(s, i, k) \in Seq(Address)
         /\ Range(Dropping(s, i, k)) \subseteq Range(s)
  <1> DEFINE n == Len(s)
             at(j) == IF j \in i .. i + k - 1 THEN j + 1 ELSE j
             t == [j \in 1 .. n |-> s[at(j)]]
  <1>1. n \in Nat /\ DOMAIN s = 1 .. n /\ \A x : x \in Range(s) <=> \E j \in 1 .. n : s[j] = x
    BY Entries
  <1>2. \A j \in 1 .. n : s[j] \in Address
    BY ElementOfSeq
  <1>3. Dropping(s, i, k) = t
    BY <1>1 DEF Dropping
  <1>4. i \in 1 .. n /\ k \in 0 .. n - i
    OBVIOUS
  <1> HIDE DEF n
  <1>5. \A j \in 1 .. n : at(j) \in 1 .. n
    BY <1>1, <1>4
  <1> HIDE DEF at
  <1>6. t \in Seq(Address)
    <2>1. t \in [1 .. n -> Address]
      BY <1>2, <1>5
    <2> QED
      BY <1>1, <2>1
  <1>7. DOMAIN t = 1 .. n /\ \A j \in 1 .. n : t[j] = s[at(j)]
    OBVIOUS
  <1> HIDE DEF t
  <1>8. \A x : x \in Range(t) => \E j \in 1 .. n : t[j] = x
    BY <1>7 DEF Range
  <1> QED
    BY <1>1, <1>3, <1>5, <1>6, <1>7, <1>8

(* A caller that is given up in Insert leaves every entry once.            *)
LEMMA PartlyInserted ==
  ASSUME NEW s \in Seq(Address), NEW m, NEW h \in Address, h \notin Range(s),
         NEW k \in 0 .. Len(s) - Place(m, s, h), IsInjective(s)
  PROVE  /\ Inserting(m, s, h, k) \in Seq(Address)
         /\ Range(Inserting(m, s, h, k)) \subseteq Range(s) \cup {h}
         /\ IsInjective(Inserting(m, s, h, k))
  <1> DEFINE n == Len(s)
             i == Place(m, s, h)
             at(j) == IF j \in i + 1 .. i + k THEN j - 1 ELSE j
             t == [j \in 1 .. n |-> IF j = i THEN h ELSE s[at(j)]]
  <1>1. /\ n \in Nat /\ DOMAIN s = 1 .. n
        /\ \A x : x \in Range(s) <=> \E j \in 1 .. n : s[j] = x
        /\ \A j, l \in 1 .. n : s[j] = s[l] => j = l
    BY Entries
  <1>2. \A j \in 1 .. n : s[j] \in Address
    BY ElementOfSeq
  <1>3. i \in 1 .. n + 1 /\ k \in 0 .. n - i
    BY PlaceInside
  <1>4. Inserting(m, s, h, k) = t
    <2>1. Inserting(m, s, h, k) =
            [j \in 1 .. n |->
               IF j = i THEN h ELSE IF j \in i + 1 .. i + k THEN s[j - 1] ELSE s[j]]
      BY <1>1, Zenon DEF Inserting
    <2> HIDE DEF n, i
    <2> QED
      BY <2>1
  <1> HIDE DEF n, i
  <1>5. \A j \in 1 .. n : j # i => at(j) \in 1 .. n
    BY <1>1, <1>3
  <1>6. \A j, l \in 1 .. n : j # i /\ l # i /\ at(j) = at(l) => j = l
    BY <1>1, <1>3
  <1> HIDE DEF at
  <1>7. t \in [1 .. n -> Address]
    BY <1>2, <1>5
  <1>8. t \in Seq(Address)
    BY <1>1, <1>7
  <1>9. DOMAIN t = 1 .. n /\ \A j \in 1 .. n : t[j] = IF j = i THEN h ELSE s[at(j)]
    OBVIOUS
  <1> HIDE DEF t
  <1>10. \A x : x \in Range(t) => \E j \in 1 .. n : t[j] = x
    BY <1>9 DEF Range
  <1>11. Range(t) \subseteq Range(s) \cup {h}
    BY <1>1, <1>5, <1>9, <1>10
  <1>12. \A j \in 1 .. n : s[j] # h
    BY <1>1
  <1>13. \A j, l \in 1 .. n : t[j] = t[l] => j = l
    <2> SUFFICES ASSUME NEW j \in 1 .. n, NEW l \in 1 .. n, t[j] = t[l] PROVE j = l
      OBVIOUS
    <2>1. j = i <=> l = i
      BY <1>5, <1>9, <1>12
    <2>2. ASSUME j # i, l # i PROVE j = l
      <3>1. s[at(j)] = s[at(l)] /\ at(j) \in 1 .. n /\ at(l) \in 1 .. n
        BY <1>5, <1>9, <2>2
      <3>2. at(j) = at(l)
        BY <1>1, <3>1
      <3> QED
        BY <1>6, <2>2, <3>2
    <2> QED
      BY <2>1, <2>2
  <1>14. IsInjective(t)
    BY <1>9, <1>13 DEF IsInjective
  <1> QED
    BY <1>4, <1>8, <1>11, <1>14

(* FindSmallestHole gives an entry that is large enough, or none is.       *)
LEMMA Found ==
  ASSUME NEW s \in Seq(Address), NEW m, NEW size, NEW align
  PROVE  LET i == FindSmallestHole(m, s, size, align)
         IN  /\ i # 0 => i \in 1 .. Len(s) /\ Fits(m, s[i], size, align)
             /\ i = 0 => \A j \in 1 .. Len(s) : ~ Fits(m, s[j], size, align)
  <1> DEFINE S == {j \in DOMAIN s : Fits(m, s[j], size, align)}
             i == FindSmallestHole(m, s, size, align)
  <1>1. Len(s) \in Nat /\ DOMAIN s = 1 .. Len(s)
    BY Entries
  <1>2. i = IF S = {} THEN 0 ELSE Min(S)
    BY DEF FindSmallestHole
  <1>3. \A j : j \in S <=> j \in 1 .. Len(s) /\ Fits(m, s[j], size, align)
    BY <1>1
  <1>4. S \in SUBSET (1 .. Len(s) + 1)
    BY <1>1
  <1> HIDE DEF S
  <1>5. IsFiniteSet(S) /\ S \in SUBSET Int
    BY <1>4, Positions
  <1>6. S # {} => Min(S) \in S
    BY <1>5, LeastAndGreatest
  <1>7. S # {} => i \in S
    BY <1>2, <1>6
  <1>8. S = {} => i = 0
    BY <1>2
  <1>9. \A j \in S : j # 0
    BY <1>1, <1>3
  <1> HIDE DEF i
  <1>10. i # 0 => i \in 1 .. Len(s) /\ Fits(m, s[i], size, align)
    BY <1>3, <1>7, <1>8
  <1>11. i = 0 => \A j \in 1 .. Len(s) : ~ Fits(m, s[j], size, align)
    BY <1>3, <1>7, <1>9
  <1> QED
    BY <1>10, <1>11 DEF i

-----------------------------------------------------------------------------
(* Memory and the blocks in it.                                            *)

(* A heap of memory, headers of blocks and an end that are numbers.        *)
Typed(m, free, used, end) ==
  /\ m \in [Address -> Word]
  /\ free \cup used \subseteq Int
  /\ end \in HeapStart + Page .. Top + 1

(* Addresses are numbers; those in the heap are words as well.             *)
LEMMA Addresses ==
  /\ \A a : a \in Address <=> a \in Int /\ HeapStart - 2 <= a /\ a <= Top
  /\ \A a \in Int : HeapStart <= a /\ a <= Top => a \in Address /\ a \in Word
  /\ \A n \in Int : 0 <= n /\ n <= Top + 1 => n \in Word
  /\ \A n \in Word : n \in Int /\ n >= 0
  <1>1. HeapStart \in Nat /\ Top \in Nat /\ MaxWord \in Nat /\ Top < MaxWord /\ FOOTER = 2
    BY Numbers
  <1> QED
    BY <1>1 DEF Address, Word

(* What a header is once it is written.                                    *)
LEMMA HeaderPut ==
  ASSUME NEW m \in [Address -> Word], NEW h \in Address, h + 1 \in Address, h + 2 \in Address,
         NEW size \in Word, NEW hole \in {0, 1}
  PROVE  /\ PutHeader(m, h, size, hole) \in [Address -> Word]
         /\ PutHeader(m, h, size, hole)[h] = MAGIC
         /\ PutHeader(m, h, size, hole)[h + 1] = hole
         /\ PutHeader(m, h, size, hole)[h + 2] = size
         /\ \A a \in Address : a \notin {h, h + 1, h + 2} => PutHeader(m, h, size, hole)[a] = m[a]
  <1>1. MAGIC \in Word /\ hole \in Word
    BY Numbers
  <1>2. h \in Int
    BY Addresses
  <1> QED
    BY <1>1, <1>2 DEF PutHeader

(* ... and a footer.                                                       *)
LEMMA FooterPut ==
  ASSUME NEW m \in [Address -> Word], NEW f \in Address, f + 1 \in Address, NEW h \in Word
  PROVE  /\ PutFooter(m, f, h) \in [Address -> Word]
         /\ PutFooter(m, f, h)[f] = MAGIC
         /\ PutFooter(m, f, h)[f + 1] = h
         /\ \A a \in Address : a \notin {f, f + 1} => PutFooter(m, f, h)[a] = m[a]
  <1>1. MAGIC \in Word
    BY Numbers
  <1>2. f \in Int
    BY Addresses
  <1> QED
    BY <1>1, <1>2 DEF PutFooter

(* Where a block lies.                                                     *)
LEMMA BlockLies ==
  ASSUME NEW m, NEW free, NEW used, NEW end,
         Typed(m, free, used, end), LieApart(m, free, used, end),
         NEW h \in free \cup used
  PROVE  /\ h \in HeapStart .. Top /\ {h, h + 1, h + 2} \subseteq Address
         /\ Size(m, h) \in Int /\ Size(m, h) >= 5
         /\ EndOf(m, h) \in Int /\ EndOf(m, h) = h + Size(m, h) /\ EndOf(m, h) <= end
         /\ end \in Int /\ end <= Top + 1
         /\ {EndOf(m, h) - 2, EndOf(m, h) - 1} \subseteq Address
  <1>1. HeapStart \in Nat /\ Top \in Nat /\ Page \in Nat /\ HEADER = 3 /\ FOOTER = 2
    BY Numbers
  <1>2. h \in Int /\ end \in Int /\ end <= Top + 1
    BY <1>1 DEF Typed
  <1>3. /\ HeapStart <= h /\ h <= end - 3
        /\ Size(m, h) >= 5 /\ EndOf(m, h) <= end
    <2>1. /\ h \in HeapStart .. end - HEADER
          /\ Size(m, h) >= HEADER + FOOTER /\ EndOf(m, h) <= end
      BY DEF LieApart
    <2> QED
      BY <1>1, <1>2, <2>1
  <1>4. h + 2 \in Address => Size(m, h) \in Int /\ Size(m, h) >= 0
    BY Addresses DEF Typed, Size
  <1>5. h + 2 \in Address
    BY <1>1, <1>2, <1>3, Addresses
  <1>6. Size(m, h) \in Int
    BY <1>4, <1>5
  <1>7. EndOf(m, h) = h + Size(m, h)
    BY DEF EndOf
  <1>8. h + 5 <= end
    BY <1>2, <1>3, <1>6, <1>7
  <1> QED
    BY <1>1, <1>2, <1>3, <1>6, <1>7, <1>8, Addresses

(* Where the blocks end.                                                   *)
Ends(m, blocks) == {EndOf(m, h) : h \in blocks}

(* Blocks that meet end to end lie apart: if two of them overlapped, the   *)
(* block that ends where the second one starts would overlap with one of   *)
(* them, further to the left.                                              *)
LEMMA EndToEndIsApart ==
  ASSUME NEW m, NEW free, NEW used, NEW end,
         Typed(m, free, used, end), MeetEndToEnd(m, free, used, end)
  PROVE  LieApart(m, free, used, end)
  <1> DEFINE B == free \cup used
             E(h) == EndOf(m, h)
             Bad == {h \in B : \E g \in B : g < h /\ E(g) > h}
  <1>1. HeapStart \in Nat /\ Top \in Nat /\ Page \in Nat /\ HEADER = 3 /\ FOOTER = 2
    BY Numbers
  <1>2. end \in Int /\ end <= Top + 1
    BY <1>1 DEF Typed
  <1>3. \A h \in B : /\ h \in Int /\ HeapStart <= h /\ h <= end - 3
                     /\ Size(m, h) >= 5
    BY <1>1, <1>2 DEF MeetEndToEnd, Typed
  <1>4. \A h \in B : Size(m, h) \in Int
    <2> SUFFICES ASSUME NEW h \in B PROVE Size(m, h) \in Int
      OBVIOUS
    <2>1. h + 2 \in Address
      BY <1>1, <1>2, <1>3, Addresses
    <2> QED
      BY <2>1, Addresses DEF Typed, Size
  <1>5. \A h \in B : E(h) \in Int /\ E(h) >= h + 5
    BY <1>3, <1>4 DEF EndOf
  <1>6. \A h \in B : E(h) \in B \cup {end}
    BY DEF MeetEndToEnd
  <1>7. \A h \in B : h = HeapStart \/ \E k \in B : E(k) = h
    BY DEF MeetEndToEnd
  <1> HIDE DEF B, E
  <1>8. Bad = {}
    <2> SUFFICES ASSUME Bad # {} PROVE FALSE
      OBVIOUS
    <2>1. IsFiniteSet(HeapStart .. end)
      BY <1>1, <1>2, FS_Interval
    <2>2. Bad \in SUBSET (HeapStart .. end)
      BY <1>1, <1>2, <1>3
    <2>3. IsFiniteSet(Bad) /\ Bad \in SUBSET Int
      BY <1>1, <1>2, <2>1, <2>2, FS_Subset
    <2>4. PICK h \in Bad : \A x \in Bad : h <= x
      BY <2>3, Extremes
    <2>5. h \in B
      OBVIOUS
    <2>6. PICK g \in B : g < h /\ E(g) > h
      OBVIOUS
    <2>7. h # HeapStart
      BY <1>1, <1>3, <2>5, <2>6
    <2>8. PICK k \in B : E(k) = h
      BY <1>7, <2>5, <2>7
    <2>9. k < h /\ k # g
      BY <1>3, <1>5, <2>5, <2>6, <2>8
    <2>10. CASE k < g
      <3>1. g \in Bad
        BY <2>6, <2>8, <2>10
      <3> QED
        BY <1>3, <2>4, <2>5, <2>6, <3>1
    <2>11. CASE k > g
      <3>1. E(g) > k
        BY <1>3, <1>5, <2>5, <2>6, <2>9
      <3>2. k \in Bad
        BY <2>11, <3>1
      <3> QED
        BY <1>3, <2>4, <2>5, <2>9, <3>2
    <2> QED
      BY <1>3, <2>9, <2>10, <2>11
  <1>9. \A g, h \in B : g < h => E(g) <= h
    BY <1>3, <1>5, <1>8
  <1>10. \A h \in B : E(h) <= end
    BY <1>2, <1>3, <1>6
  <1>11. \A h \in B : h \in HeapStart .. end - HEADER
    BY <1>1, <1>2, <1>3
  <1>12. free \cap used = {}
    BY DEF MeetEndToEnd
  <1>13. \A h \in B : Size(m, h) >= HEADER + FOOTER
    BY <1>1, <1>3
  <1> QED
    BY <1>9, <1>10, <1>11, <1>12, <1>13 DEF LieApart, B, E

(* Blocks that lie apart end apart.                                        *)
LEMMA EndsDiffer ==
  ASSUME NEW m, NEW free, NEW used, NEW end,
         Typed(m, free, used, end), LieApart(m, free, used, end),
         NEW g \in free \cup used, NEW h \in free \cup used, EndOf(m, g) = EndOf(m, h)
  PROVE  g = h
  <1>1. /\ g \in Int /\ h \in Int
        /\ EndOf(m, g) \in Int /\ EndOf(m, g) >= g + 5 /\ EndOf(m, h) >= h + 5
    BY BlockLies
  <1>2. g < h => EndOf(m, g) <= h
    BY DEF LieApart
  <1>3. h < g => EndOf(m, h) <= g
    BY DEF LieApart
  <1> QED
    BY <1>1, <1>2, <1>3

(* Fewer blocks, or a longer heap, keep them apart.                        *)
LEMMA FewerApart ==
  ASSUME NEW m, NEW free, NEW used, NEW end, NEW free2, NEW used2, NEW end2,
         Typed(m, free, used, end), LieApart(m, free, used, end),
         free2 \subseteq free, used2 \subseteq used,
         end2 \in Int, end <= end2, end2 <= Top + 1
  PROVE  Typed(m, free2, used2, end2) /\ LieApart(m, free2, used2, end2)
  <1>1. HeapStart \in Nat /\ Top \in Nat /\ Page \in Nat /\ HEADER = 3 /\ FOOTER = 2
    BY Numbers
  <1>2. end \in Int /\ HeapStart + Page <= end
    BY <1>1 DEF Typed
  <1>3. Typed(m, free2, used2, end2)
    BY <1>1, <1>2 DEF Typed
  <1>4. \A h \in free2 \cup used2 : h \in free \cup used
    OBVIOUS
  <1>5. \A h \in free2 \cup used2 : EndOf(m, h) \in Int /\ h \in Int
    BY <1>4, BlockLies
  <1>6. \A h \in free \cup used :
          /\ h \in HeapStart .. end - HEADER
          /\ Size(m, h) >= HEADER + FOOTER /\ EndOf(m, h) <= end
    BY DEF LieApart
  <1>7. \A h \in free2 \cup used2 :
          /\ h \in HeapStart .. end2 - HEADER
          /\ Size(m, h) >= HEADER + FOOTER /\ EndOf(m, h) <= end2
    BY <1>1, <1>2, <1>4, <1>5, <1>6
  <1>8. \A g, h \in free2 \cup used2 : g < h => EndOf(m, g) <= h
    BY <1>4 DEF LieApart
  <1>9. free2 \cap used2 = {}
    BY DEF LieApart
  <1> QED
    BY <1>3, <1>7, <1>8, <1>9 DEF LieApart

(* Blocks are replaced by others: in the words from lo up to hi, which     *)
(* those that stay do not use, free2 and used2 lie apart, and no word      *)
(* outside is written.                                                     *)
Replaces(m, free, used, gone, lo, hi, m2, free2, used2) ==
  /\ lo \in Int /\ hi \in Int /\ HeapStart <= lo
  /\ \A g \in (free \cup used) \ gone : EndOf(m, g) <= lo \/ hi <= g
  /\ m2 \in [Address -> Word]
  /\ \A a \in Address : a < lo \/ hi <= a => m2[a] = m[a]
  /\ free2 \cap used2 = {}
  /\ \A p \in free2 \cup used2 :
       /\ p \in Int /\ lo <= p /\ p + 3 <= hi
       /\ Size(m2, p) >= 5 /\ EndOf(m2, p) <= hi
  /\ \A p, q \in free2 \cup used2 : p < q => EndOf(m2, p) <= q

(* The blocks that stay keep their words.                                  *)
LEMMA OthersStay ==
  ASSUME NEW m, NEW free, NEW used, NEW end, NEW gone, NEW lo, NEW hi,
         NEW m2, NEW free2, NEW used2,
         Typed(m, free, used, end), LieApart(m, free, used, end),
         Replaces(m, free, used, gone, lo, hi, m2, free2, used2),
         NEW g \in (free \cup used) \ gone
  PROVE  /\ \A a \in g .. EndOf(m, g) - 1 : a \in Address /\ m2[a] = m[a]
         /\ Size(m2, g) = Size(m, g) /\ EndOf(m2, g) = EndOf(m, g)
         /\ m2[g] = m[g] /\ m2[g + 1] = m[g + 1]
         /\ g >= hi \/ EndOf(m, g) <= lo
  <1>1. /\ g \in Int /\ HeapStart <= g
        /\ EndOf(m, g) \in Int /\ EndOf(m, g) = g + Size(m, g) /\ EndOf(m, g) <= Top + 1
        /\ Size(m, g) \in Int /\ Size(m, g) >= 5
    <2>1. /\ g \in HeapStart .. Top /\ EndOf(m, g) <= end /\ end \in Int /\ end <= Top + 1
          /\ EndOf(m, g) \in Int /\ EndOf(m, g) = g + Size(m, g)
          /\ Size(m, g) \in Int /\ Size(m, g) >= 5
      BY BlockLies
    <2> QED
      BY <2>1, Numbers
  <1>2. lo \in Int /\ hi \in Int /\ (EndOf(m, g) <= lo \/ hi <= g)
    BY DEF Replaces
  <1>3. \A a \in Address : a < lo \/ hi <= a => m2[a] = m[a]
    BY DEF Replaces
  <1>4. HeapStart \in Nat /\ Top \in Nat
    BY Numbers
  <1>5. \A a \in g .. EndOf(m, g) - 1 : a \in Address /\ (a < lo \/ hi <= a)
    BY <1>1, <1>2, <1>4, Addresses
  <1>6. \A a \in g .. EndOf(m, g) - 1 : a \in Address /\ m2[a] = m[a]
    BY <1>3, <1>5
  <1>7. {g, g + 1, g + 2} \subseteq g .. EndOf(m, g) - 1
    BY <1>1
  <1>8. m2[g] = m[g] /\ m2[g + 1] = m[g + 1] /\ m2[g + 2] = m[g + 2]
    BY <1>6, <1>7
  <1>9. Size(m2, g) = Size(m, g)
    BY <1>8 DEF Size
  <1>10. EndOf(m2, g) = EndOf(m, g)
    BY <1>9 DEF EndOf
  <1> QED
    BY <1>2, <1>6, <1>8, <1>9, <1>10

(* So all blocks lie apart as before.                                      *)
LEMMA ReplacedApart ==
  ASSUME NEW m, NEW free, NEW used, NEW end, NEW gone, NEW lo, NEW hi,
         NEW m2, NEW free2, NEW used2,
         Typed(m, free, used, end), LieApart(m, free, used, end), hi <= end,
         Replaces(m, free, used, gone, lo, hi, m2, free2, used2)
  PROVE  /\ Typed(m2, (free \ gone) \cup free2, (used \ gone) \cup used2, end)
         /\ LieApart(m2, (free \ gone) \cup free2, (used \ gone) \cup used2, end)
  <1> DEFINE Stay == (free \cup used) \ gone
             New == free2 \cup used2
  <1>1. HeapStart \in Nat /\ Top \in Nat /\ Page \in Nat /\ HEADER = 3 /\ FOOTER = 2
    BY Numbers
  <1>2. end \in Int /\ lo \in Int /\ hi \in Int /\ HeapStart <= lo
    BY <1>1 DEF Typed, Replaces
  <1>3. \A g \in Stay : /\ g \in Int /\ EndOf(m, g) \in Int
                        /\ EndOf(m, g) >= g + 5
                        /\ EndOf(m2, g) = EndOf(m, g) /\ Size(m2, g) = Size(m, g)
                        /\ g >= hi \/ EndOf(m2, g) <= lo
    <2> SUFFICES ASSUME NEW g \in Stay
                 PROVE  /\ g \in Int /\ EndOf(m, g) \in Int
                        /\ EndOf(m, g) >= g + 5
                        /\ EndOf(m2, g) = EndOf(m, g) /\ Size(m2, g) = Size(m, g)
                        /\ g >= hi \/ EndOf(m2, g) <= lo
      OBVIOUS
    <2>1. g \in free \cup used
      OBVIOUS
    <2>2. /\ g \in Int /\ EndOf(m, g) \in Int /\ EndOf(m, g) = g + Size(m, g)
          /\ Size(m, g) \in Int /\ Size(m, g) >= 5
      BY <2>1, BlockLies
    <2>3. /\ EndOf(m2, g) = EndOf(m, g) /\ Size(m2, g) = Size(m, g)
          /\ g >= hi \/ EndOf(m, g) <= lo
      BY OthersStay
    <2> QED
      BY <2>2, <2>3
  <1>4. \A p \in New : /\ p \in Int /\ lo <= p /\ p + 3 <= hi
                       /\ Size(m2, p) >= 5 /\ EndOf(m2, p) <= hi
    BY DEF Replaces
  <1>5. \A p \in New : Size(m2, p) \in Int /\ EndOf(m2, p) \in Int /\ EndOf(m2, p) >= p + 5
    <2> SUFFICES ASSUME NEW p \in New
                 PROVE  Size(m2, p) \in Int /\ EndOf(m2, p) \in Int /\ EndOf(m2, p) >= p + 5
      OBVIOUS
    <2>1. end <= Top + 1 /\ m2 \in [Address -> Word]
      BY <1>1 DEF Typed, Replaces
    <2>2. p + 2 \in Address
      BY <1>1, <1>2, <1>4, <2>1, Addresses
    <2>3. Size(m2, p) \in Int
      BY <2>1, <2>2, Addresses DEF Size
    <2> QED
      BY <1>4, <2>3 DEF EndOf
  <1>6. /\ \A g \in Stay : g \in HeapStart .. end - HEADER
                           /\ Size(m, g) >= HEADER + FOOTER /\ EndOf(m, g) <= end
        /\ \A g, h \in Stay : g < h => EndOf(m, g) <= h
        /\ free \cap used = {}
    BY DEF LieApart
  <1>7. /\ \A p, q \in New : p < q => EndOf(m2, p) <= q
        /\ free2 \cap used2 = {}
    BY DEF Replaces
  <1>8. m2 \in [Address -> Word] /\ end \in HeapStart + Page .. Top + 1
    BY DEF Replaces, Typed
  <1>9. ((free \ gone) \cup free2) \cup ((used \ gone) \cup used2) = Stay \cup New
    OBVIOUS
  <1>10. Stay \cap New = {}
    <2> SUFFICES ASSUME NEW x \in Stay, x \in New PROVE FALSE
      OBVIOUS
    <2> HIDE DEF Stay, New
    <2>1. EndOf(m2, x) \in Int /\ EndOf(m2, x) >= x + 5 /\ lo <= x /\ x + 3 <= hi /\ x \in Int
      BY <1>4, <1>5
    <2>2. x >= hi \/ EndOf(m2, x) <= lo
      BY <1>3
    <2> QED
      BY <1>2, <2>1, <2>2
  <1>11. ((free \ gone) \cup free2) \cap ((used \ gone) \cup used2) = {}
    BY <1>6, <1>7, <1>10
  <1> HIDE DEF Stay, New
  <1>12. \A h \in Stay \cup New : h \in Int
    BY <1>3, <1>4
  <1>13. \A h \in Stay \cup New :
           /\ h \in HeapStart .. end - HEADER
           /\ Size(m2, h) >= HEADER + FOOTER /\ EndOf(m2, h) <= end
    <2> SUFFICES ASSUME NEW h \in Stay \cup New
                 PROVE  /\ h \in HeapStart .. end - HEADER
                        /\ Size(m2, h) >= HEADER + FOOTER /\ EndOf(m2, h) <= end
      OBVIOUS
    <2>1. CASE h \in Stay
      BY <1>3, <1>6, <2>1
    <2>2. CASE h \in New
      BY <1>1, <1>2, <1>4, <1>5, <2>2
    <2> QED
      BY <2>1, <2>2
  <1>14. \A g, h \in Stay \cup New : g < h => EndOf(m2, g) <= h
    <2> SUFFICES ASSUME NEW g \in Stay \cup New, NEW h \in Stay \cup New, g < h
                 PROVE  EndOf(m2, g) <= h
      OBVIOUS
    <2>1. CASE g \in Stay /\ h \in Stay
      BY <1>3, <1>6, <2>1
    <2>2. CASE g \in New /\ h \in New
      BY <1>7, <2>2
    <2>3. CASE g \in Stay /\ h \in New
      BY <1>2, <1>3, <1>4, <2>3
    <2>4. CASE g \in New /\ h \in Stay
      BY <1>2, <1>3, <1>4, <1>5, <2>4
    <2> QED
      BY <2>1, <2>2, <2>3, <2>4
  <1>15. Typed(m2, (free \ gone) \cup free2, (used \ gone) \cup used2, end)
    BY <1>8, <1>9, <1>12 DEF Typed
  <1> QED
    BY <1>9, <1>11, <1>13, <1>14, <1>15 DEF LieApart

(* No new block is where one that stays is.                                *)
LEMMA NewAreNew ==
  ASSUME NEW m, NEW free, NEW used, NEW end, NEW gone, NEW lo, NEW hi,
         NEW m2, NEW free2, NEW used2,
         Typed(m, free, used, end), LieApart(m, free, used, end),
         Replaces(m, free, used, gone, lo, hi, m2, free2, used2)
  PROVE  ((free \cup used) \ gone) \cap (free2 \cup used2) = {}
  <1> SUFFICES ASSUME NEW x \in (free \cup used) \ gone, x \in free2 \cup used2 PROVE FALSE
    OBVIOUS
  <1>1. /\ x \in Int /\ lo \in Int /\ hi \in Int
        /\ lo <= x /\ x + 3 <= hi
    BY DEF Replaces
  <1>2. EndOf(m, x) <= lo \/ hi <= x
    BY DEF Replaces
  <1>3. x \in free \cup used
    OBVIOUS
  <1>4. EndOf(m, x) \in Int /\ EndOf(m, x) = x + Size(m, x) /\ Size(m, x) \in Int /\ Size(m, x) >= 5
    BY <1>3, BlockLies
  <1> QED
    BY <1>1, <1>2, <1>4

(* If the blocks that go and those that come meet end to end, all do.      *)
LEMMA ReplacedMeet ==
  ASSUME NEW m, NEW free, NEW used, NEW end, NEW gone, NEW lo, NEW hi,
         NEW m2, NEW free2, NEW used2,
         Typed(m, free, used, end), MeetEndToEnd(m, free, used, end), hi <= end,
         Replaces(m, free, used, gone, lo, hi, m2, free2, used2),
         gone \subseteq free \cup used, lo < hi,
         \A g \in gone : lo <= g /\ g < hi,
         Ends(m, gone) \cup {lo} = gone \cup {hi},
         Ends(m2, free2 \cup used2) \cup {lo} = free2 \cup used2 \cup {hi},
         \A p \in free2 \cup used2 : m2[p] = MAGIC /\ (IsHole(m2, p) <=> p \in free2)
  PROVE  /\ Typed(m2, (free \ gone) \cup free2, (used \ gone) \cup used2, end)
         /\ MeetEndToEnd(m2, (free \ gone) \cup free2, (used \ gone) \cup used2, end)
  <1> DEFINE B == free \cup used
             Stay == (free \cup used) \ gone
             New == free2 \cup used2
             X == Ends(m, Stay)
             Q == Ends(m, gone)
             Q2 == Ends(m2, New)
  <1>1. HeapStart \in Nat /\ Top \in Nat /\ Page \in Nat /\ HEADER = 3 /\ FOOTER = 2
    BY Numbers
  <1>2. LieApart(m, free, used, end)
    BY EndToEndIsApart
  <1>3. end \in Int /\ lo \in Int /\ hi \in Int /\ HeapStart <= lo
    BY <1>1 DEF Typed, Replaces
  <1>4. /\ Typed(m2, (free \ gone) \cup free2, (used \ gone) \cup used2, end)
        /\ LieApart(m2, (free \ gone) \cup free2, (used \ gone) \cup used2, end)
    BY <1>2, ReplacedApart
  <1>5. ((free \ gone) \cup free2) \cup ((used \ gone) \cup used2) = Stay \cup New
    OBVIOUS
  <1>6. \A g \in Stay : /\ EndOf(m2, g) = EndOf(m, g) /\ Size(m2, g) = Size(m, g)
                        /\ m2[g] = m[g] /\ m2[g + 1] = m[g + 1]
    BY <1>2, OthersStay
  <1>7. \A g \in B : /\ g \in Int /\ EndOf(m, g) \in Int /\ EndOf(m, g) >= g + 5
                     /\ EndOf(m, g) <= end
    BY <1>2, BlockLies
  <1>8. Stay \cap New = {}
    BY <1>2, NewAreNew
  <1>9. X = Ends(m2, Stay)
    BY <1>6 DEF Ends
  <1>10. Ends(m2, Stay \cup New) = X \cup Q2
    BY <1>9 DEF Ends
  <1>11. X \cup Q \cup {HeapStart} = Stay \cup gone \cup {end}
    <2>1. Ends(m, B) \cup {HeapStart} = B \cup {end}
      BY DEF MeetEndToEnd, Ends
    <2>2. B = Stay \cup gone
      OBVIOUS
    <2>3. Ends(m, B) = X \cup Q
      BY DEF Ends
    <2> HIDE DEF B, Stay, X, Q
    <2> QED
      BY <2>1, <2>2, <2>3
  <1>12. X \cap Q = {}
    <2> SUFFICES ASSUME NEW g \in Stay, NEW h \in gone, EndOf(m, g) = EndOf(m, h) PROVE FALSE
      BY DEF Ends
    <2>1. g \in B /\ h \in B /\ g # h
      OBVIOUS
    <2> QED
      BY <1>2, <2>1, EndsDiffer
  <1>13. \A x \in Q : x \in Int /\ x > lo
    <2> SUFFICES ASSUME NEW g \in gone PROVE EndOf(m, g) \in Int /\ EndOf(m, g) > lo
      BY DEF Ends
    <2> QED
      BY <1>3, <1>7
  <1>14. lo \notin Q /\ HeapStart \notin Q
    BY <1>1, <1>3, <1>13
  <1>15. hi \notin gone /\ hi # lo /\ end \notin gone
    <2>1. \A g \in B : g # end
      BY <1>3, <1>7
    <2>2. \A g \in gone : g # hi
      BY <1>3, <1>7
    <2> QED
      BY <1>3, <2>1, <2>2
  <1>16. Stay \cap gone = {}
    OBVIOUS
  <1>17. Q \cup {lo} = gone \cup {hi} /\ Q2 \cup {lo} = New \cup {hi}
    OBVIOUS
  <1>18. (X \cup Q2) \cup {HeapStart} = (Stay \cup New) \cup {end}
    <2> HIDE DEF X, Q, Q2, Stay, New, B
    <2>1. ASSUME NEW x \in (X \cup Q2) \cup {HeapStart} PROVE x \in (Stay \cup New) \cup {end}
      BY <1>11, <1>12, <1>14, <1>15, <1>17
    <2>2. ASSUME NEW x \in (Stay \cup New) \cup {end} PROVE x \in (X \cup Q2) \cup {HeapStart}
      BY <1>11, <1>14, <1>15, <1>16, <1>17
    <2> QED
      BY <2>1, <2>2
  <1>19. Ends(m2, Stay \cup New) \cup {HeapStart} = Stay \cup New \cup {end}
    BY <1>10, <1>18
  <1>20. \A h \in Stay \cup New :
           /\ h \in HeapStart .. end - HEADER
           /\ Size(m2, h) >= HEADER + FOOTER
    BY <1>4, <1>5 DEF LieApart
  <1>21. \A g, h \in Stay \cup New : EndOf(m2, g) = EndOf(m2, h) => g = h
    BY <1>4, <1>5, EndsDiffer
  <1>22. \A h \in Stay : m2[h] = MAGIC /\ (IsHole(m2, h) <=> h \in free)
    BY <1>6 DEF MeetEndToEnd, IsHole
  <1>23. \A h \in Stay \cup New :
           m2[h] = MAGIC /\ (IsHole(m2, h) <=> h \in (free \ gone) \cup free2)
    BY <1>8, <1>22
  <1>24. m2[HeapStart - FOOTER] # MAGIC
    <2>1. HeapStart - FOOTER \in Address /\ HeapStart - FOOTER < lo
      BY <1>1, <1>3, <1>4, Addresses DEF Typed
    <2>2. m2[HeapStart - FOOTER] = m[HeapStart - FOOTER]
      BY <2>1 DEF Replaces
    <2> QED
      BY <2>2 DEF MeetEndToEnd
  <1>25. ((free \ gone) \cup free2) \cap ((used \ gone) \cup used2) = {}
    BY <1>4 DEF LieApart
  <1> QED
    BY <1>4, <1>5, <1>19, <1>20, <1>21, <1>23, <1>24, <1>25 DEF MeetEndToEnd, Ends

(* The footers of the blocks that stay name them still.                    *)
LEMMA ReplacedFooters ==
  ASSUME NEW m, NEW free, NEW used, NEW end, NEW gone, NEW lo, NEW hi,
         NEW m2, NEW free2, NEW used2,
         Typed(m, free, used, end), LieApart(m, free, used, end),
         Replaces(m, free, used, gone, lo, hi, m2, free2, used2),
         NameTheirHeaders(m, free, used, end),
         NameTheirHeaders(m2, free2, used2, end)
  PROVE  NameTheirHeaders(m2, (free \ gone) \cup free2, (used \ gone) \cup used2, end)
  <1>6. ((free \cup used) \ gone) \cap (free2 \cup used2) = {}
    BY NewAreNew
  <1> SUFFICES ASSUME NEW h \in (free \cup used) \ gone, h \in used \/ EndOf(m2, h) < end
               PROVE  m2[EndOf(m2, h) - FOOTER] = MAGIC /\ m2[EndOf(m2, h) - FOOTER + 1] = h
    BY <1>6 DEF NameTheirHeaders
  <1>1. /\ \A a \in h .. EndOf(m, h) - 1 : m2[a] = m[a]
        /\ EndOf(m2, h) = EndOf(m, h)
    BY OthersStay
  <1>2. h \in free \cup used
    OBVIOUS
  <1>3. h \in Int /\ EndOf(m, h) \in Int /\ EndOf(m, h) >= h + 5 /\ FOOTER = 2
    BY <1>2, BlockLies, Numbers
  <1>4. EndOf(m, h) - FOOTER \in h .. EndOf(m, h) - 1 /\ EndOf(m, h) - FOOTER + 1 \in h .. EndOf(m, h) - 1
    BY <1>3
  <1>5. m[EndOf(m, h) - FOOTER] = MAGIC /\ m[EndOf(m, h) - FOOTER + 1] = h
    BY <1>1, <1>2 DEF NameTheirHeaders
  <1> QED
    BY <1>1, <1>4, <1>5

-----------------------------------------------------------------------------
(* The growth of the heap.                                                 *)

(* By how much Expand moves the end.                                       *)
Growth(end, size) == RoundUp(end - HeapStart + size) - (end - HeapStart)

(* A length and the whole pages in it.                                     *)
LEMMA WholePages ==
  ASSUME NEW x \in Int
  PROVE  /\ x \div Page \in Int /\ (x \div Page) * Page \in Int
         /\ (x \div Page) * Page <= x /\ x < (x \div Page) * Page + Page
         /\ x % Page \in Int /\ x % Page >= 0 /\ x % Page < Page
         /\ x = (x \div Page) * Page + (x % Page)
  <1>1. Page \in Nat /\ Page > 0
    BY Numbers
  <1> QED
    BY <1>1

(* The heap grows by more than it was asked for, by a page at least once   *)
(* it has been grown, and to a whole number of pages.                      *)
LEMMA GrowthIsEnough ==
  ASSUME NEW end \in Int, HeapStart + Page <= end, NEW size \in Nat
  PROVE  /\ Growth(end, size) \in Int /\ Growth(end, size) > size
         /\ (end + Growth(end, size) - HeapStart) % Page = 0
         /\ (end - HeapStart) % Page = 0 => Growth(end, size) >= Page
  <1> DEFINE length == end - HeapStart
             q == (length + size) \div Page
             k == length \div Page
  <1>1. Page \in Nat /\ Page > 0 /\ HeapStart \in Nat
    BY Numbers
  <1>2. length \in Int /\ length >= Page
    BY <1>1
  <1> HIDE DEF length
  <1>3. q \in Int /\ q * Page \in Int /\ q * Page <= length + size /\ length + size < q * Page + Page
    BY <1>2, WholePages
  <1>4. k \in Int /\ k * Page <= length /\ length = k * Page + (length % Page)
    BY <1>2, WholePages
  <1>5. Growth(end, size) = q * Page + Page - length
    BY <1>1, <1>2 DEF Growth, RoundUp, length
  <1> HIDE DEF q, k
  <1>6. Growth(end, size) \in Int /\ Growth(end, size) > size
    BY <1>1, <1>2, <1>3, <1>5
  <1>7. end + Growth(end, size) - HeapStart = (q + 1) * Page
    <2>1. end = length + HeapStart
      BY <1>1 DEF length
    <2>2. end + Growth(end, size) - HeapStart = q * Page + Page
      BY <1>1, <1>2, <1>3, <1>5, <2>1
    <2> QED
      BY <1>1, <1>3, <2>2
  <1>8. ((q + 1) * Page) % Page = 0
    BY <1>1, <1>3
  <1>9. ASSUME length % Page = 0 PROVE Growth(end, size) >= Page
    <2>1. length = k * Page
      BY <1>1, <1>4, <1>9
    <2>2. k * Page < (q + 1) * Page
      BY <1>1, <1>2, <1>3, <2>1
    <2>3. k < q + 1
      BY <1>1, <1>3, <1>4, <2>2
    <2>4. k * Page <= q * Page
      BY <1>1, <1>3, <1>4, <2>3
    <2> QED
      BY <1>1, <1>2, <1>3, <1>5, <2>1, <2>4
  <1> QED
    BY <1>6, <1>7, <1>8, <1>9 DEF length

(* A heap as the code passes it on, its blocks apart from each other.      *)
InShape(g, used) ==
  /\ Typed(g.mem, Range(g.index), used, g.end)
  /\ LieApart(g.mem, Range(g.index), used, g.end)
  /\ g.index \in Seq(Address) /\ IsInjective(g.index)

(* The block that Alloc makes grow, or makes anew.                         *)
LastOf(g) == IF g.index = <<>> THEN g.end ELSE Max(Range(g.index))
GrownFrom(g) == IF g.index = <<>> THEN {} ELSE {Max(Range(g.index))}

(* The greatest free block.                                                *)
LEMMA GreatestEntry ==
  ASSUME NEW s \in Seq(Address), s # <<>>
  PROVE  Max(Range(s)) \in Range(s) /\ \A x \in Range(s) : x <= Max(Range(s))
  <1> DEFINE n == Len(s)
             S == Range(s)
  <1>1. /\ n \in Nat /\ n # 0 /\ S \subseteq Address
        /\ \A x : x \in S <=> \E i \in 1 .. n : s[i] = x
    BY Entries
  <1>2. S \in SUBSET Int
    BY <1>1, Addresses
  <1>3. IsFiniteSet(S)
    <2>1. \A a \in Address : a \in HeapStart - 2 .. Top
      BY Addresses, Numbers
    <2>2. S \in SUBSET (HeapStart - 2 .. Top)
      BY <1>1, <2>1
    <2>3. IsFiniteSet(HeapStart - 2 .. Top)
      BY FS_Interval, Numbers
    <2> QED
      BY <2>2, <2>3, FS_Subset
  <1>4. S # {}
    BY <1>1
  <1> HIDE DEF S
  <1>5. Max(S) \in S /\ \A x \in S : x <= Max(S)
    BY <1>2, <1>3, <1>4, LeastAndGreatest
  <1> QED
    BY <1>5 DEF S

(* What Grow writes.                                                       *)
LEMMA GrowWrites ==
  ASSUME NEW g, NEW used, InShape(g, used), NEW size \in Nat, size >= 6,
         g.index # <<>> => EndOf(g.mem, Max(Range(g.index))) = g.end,
         Grow(g, size).end <= Top + 1
  PROVE  LET g2 == Grow(g, size)
             last == LastOf(g)
         IN  /\ g2.end \in Int /\ g2.end = g.end + Growth(g.end, size) /\ g2.end > g.end + size
             /\ last \in Int /\ HeapStart <= last /\ last + 3 <= g2.end
             /\ g2.mem \in [Address -> Word]
             /\ \A a \in Address : a < last \/ g2.end <= a => g2.mem[a] = g.mem[a]
             /\ EndOf(g2.mem, last) = g2.end /\ Size(g2.mem, last) = g2.end - last
             /\ g.index = <<>> => g2.mem[last] = MAGIC /\ g2.mem[last + 1] = 1
             /\ g.index # <<>> => /\ last \in Range(g.index) /\ EndOf(g.mem, last) = g.end
                                 /\ g2.mem[last] = g.mem[last]
                                 /\ g2.mem[last + 1] = g.mem[last + 1]
             /\ g2.mem[g2.end - 2] = MAGIC /\ g2.mem[g2.end - 1] = last
  <1> DEFINE growth == Growth(g.end, size)
             last == LastOf(g)
             end2 == g.end + growth
             m2 == Grow(g, size).mem
  <1>1. HeapStart \in Nat /\ Top \in Nat /\ Page \in Nat /\ FOOTER = 2
    BY Numbers
  <1>2. /\ g.mem \in [Address -> Word]
        /\ g.end \in Int /\ HeapStart + Page <= g.end /\ g.end <= Top + 1
    BY <1>1 DEF InShape, Typed
  <1>3. growth \in Int /\ growth > size
    BY <1>2, GrowthIsEnough
  <1>4. Grow(g, size).end = end2
    BY DEF Grow, Growth
  <1>5. end2 \in Int /\ end2 > g.end + size /\ end2 <= Top + 1
    BY <1>2, <1>3, <1>4
  <1>6. 1 \in {0, 1}
    OBVIOUS
  <1>7. CASE g.index = <<>>
    <2>1. last = g.end
      BY <1>7 DEF LastOf
    <2> DEFINE headed == PutHeader(g.mem, last, growth, 1)
    <2>2. m2 = PutFooter(headed, last + growth - FOOTER, last)
      BY <1>7, <2>1 DEF Grow, Growth
    <2> HIDE DEF growth, last, m2
    <2>20. /\ last \in Int /\ last >= HeapStart /\ last + growth = end2 /\ growth > 6
           /\ last + growth <= Top + 1 /\ last + growth - FOOTER = last + growth - 2
      BY <1>1, <1>2, <1>3, <1>5, <2>1
    <2> HIDE DEF end2
    <2>3. /\ last \in Address /\ last + 1 \in Address /\ last + 2 \in Address
          /\ growth \in Word /\ last \in Word
      BY <1>1, <1>3, <2>20, Addresses
    <2>4. /\ headed \in [Address -> Word]
          /\ headed[last] = MAGIC /\ headed[last + 1] = 1 /\ headed[last + 2] = growth
          /\ \A a \in Address : a \notin {last, last + 1, last + 2} => headed[a] = g.mem[a]
      BY SMTT(30), <1>2, <1>6, <2>3, HeaderPut
    <2> HIDE DEF headed
    <2> DEFINE f == last + growth - FOOTER
    <2>5. /\ f \in Int /\ f = end2 - 2 /\ f + 1 = end2 - 1
          /\ f > last + 2
      BY <1>3, <2>20
    <2>21. f \in Address /\ f + 1 \in Address
      BY <1>1, <1>5, <2>5, <2>20, Addresses
    <2>22. m2 = PutFooter(headed, f, last)
      BY <2>2
    <2> HIDE DEF f
    <2>6. /\ m2 \in [Address -> Word]
          /\ m2[f] = MAGIC /\ m2[f + 1] = last
          /\ \A a \in Address : a \notin {f, f + 1} => m2[a] = headed[a]
      <3>1. headed \in [Address -> Word] /\ last \in Word /\ f \in Address /\ f + 1 \in Address
        BY <2>3, <2>4, <2>21
      <3> QED
        BY <2>22, <3>1, FooterPut
    <2>7. m2[last] = MAGIC /\ m2[last + 1] = 1 /\ m2[last + 2] = growth
      <3>1. \A a \in {last, last + 1, last + 2} : a \in Address /\ a \notin {f, f + 1}
        BY <2>3, <2>5, <2>20
      <3> QED
        BY <2>4, <2>6, <3>1
    <2>8. \A a \in Address : a < last \/ end2 <= a => m2[a] = g.mem[a]
      <3>1. \A a \in Address : a < last \/ end2 <= a =>
              a \notin {last, last + 1, last + 2} /\ a \notin {f, f + 1}
        <4>1. \A a \in Address : a \in Int
          BY Addresses
        <4> QED
          BY <1>5, <2>5, <2>20, <4>1
      <3> QED
        BY <2>4, <2>6, <3>1
    <2>9. Size(m2, last) = end2 - last /\ EndOf(m2, last) = end2
      BY <1>3, <2>7, <2>20 DEF Size, EndOf
    <2>10. last \in Int /\ HeapStart <= last /\ last + 3 <= end2
      BY <1>1, <1>3, <2>20
    <2> QED
      BY <1>4, <1>5, <1>7, <2>5, <2>6, <2>7, <2>8, <2>9, <2>10 DEF growth, last, m2, end2
  <1>8. CASE g.index # <<>>
    <2>1. last = Max(Range(g.index)) /\ EndOf(g.mem, last) = g.end
      BY <1>8 DEF LastOf
    <2>2. last \in Range(g.index)
      BY <1>8, <2>1, GreatestEntry DEF InShape
    <2>3. /\ last \in HeapStart .. Top /\ {last, last + 1, last + 2} \subseteq Address
          /\ Size(g.mem, last) \in Int /\ Size(g.mem, last) >= 5
          /\ EndOf(g.mem, last) = last + Size(g.mem, last)
      BY <2>2, BlockLies DEF InShape
    <2> DEFINE length == Size(g.mem, last) + growth
               headed == [g.mem EXCEPT ![last + 2] = length]
    <2>4. m2 = PutFooter(headed, last + length - FOOTER, last)
      BY <1>8, <2>1 DEF Grow, Growth
    <2> HIDE DEF growth, last, m2
    <2>5. last \in Int /\ length \in Int /\ last + length = end2 /\ length > 10 /\ length \in Word
      BY <1>1, <1>2, <1>3, <1>5, <2>1, <2>3, Addresses
    <2> HIDE DEF length
    <2>6. /\ headed \in [Address -> Word] /\ headed[last + 2] = length
          /\ \A a \in Address : a # last + 2 => headed[a] = g.mem[a]
      BY <1>2, <2>3, <2>5
    <2> HIDE DEF headed
    <2> DEFINE f == last + length - FOOTER
    <2>20. f \in Int /\ f = end2 - 2 /\ f + 1 = end2 - 1 /\ f > last + 2
      BY <1>1, <2>5
    <2> HIDE DEF end2
    <2>7. f \in Address /\ f + 1 \in Address /\ last \in Word
      BY <1>1, <1>5, <2>3, <2>5, <2>20, Addresses
    <2>8. /\ m2 \in [Address -> Word]
          /\ m2[f] = MAGIC /\ m2[f + 1] = last
          /\ \A a \in Address : a \notin {f, f + 1} => m2[a] = headed[a]
      BY <2>4, <2>6, <2>7, FooterPut
    <2> HIDE DEF f
    <2>9. m2[last] = g.mem[last] /\ m2[last + 1] = g.mem[last + 1] /\ m2[last + 2] = length
      <3>1. \A a \in {last, last + 1, last + 2} : a \in Address /\ a \notin {f, f + 1}
        BY SMTT(30), <2>3, <2>5, <2>20
      <3>2. last # last + 2 /\ last + 1 # last + 2
        BY <2>5
      <3> QED
        BY <2>6, <2>8, <3>1, <3>2
    <2>10. \A a \in Address : a < last \/ end2 <= a => m2[a] = g.mem[a]
      <3>1. \A a \in Address : a < last \/ end2 <= a =>
              a # last + 2 /\ a \notin {f, f + 1}
        <4>1. \A a \in Address : a \in Int
          BY Addresses
        <4> QED
          BY <1>5, <2>5, <2>20, <4>1
      <3> QED
        BY <2>6, <2>8, <3>1
    <2>11. Size(m2, last) = end2 - last /\ EndOf(m2, last) = end2
      BY <1>5, <2>5, <2>9 DEF Size, EndOf
    <2>12. last \in Int /\ HeapStart <= last /\ last + 3 <= end2
      BY <1>1, <1>5, <2>3, <2>5
    <2> QED
      BY <1>4, <1>5, <1>8, <2>1, <2>2, <2>8, <2>9, <2>10, <2>11, <2>12, <2>20
         DEF growth, last, m2, end2
  <1> QED
    BY <1>7, <1>8

(* Grow replaces the last free block by a longer one, or adds one.         *)
LEMMA GrowReplaces ==
  ASSUME NEW g, NEW used, InShape(g, used), NEW size \in Nat, size >= 6,
         g.index # <<>> => EndOf(g.mem, Max(Range(g.index))) = g.end,
         Grow(g, size).end <= Top + 1
  PROVE  LET g2 == Grow(g, size)
         IN  /\ Replaces(g.mem, Range(g.index), used, GrownFrom(g), LastOf(g), g2.end,
                         g2.mem, {LastOf(g)}, {})
             /\ GrownFrom(g) \subseteq Range(g.index)
             /\ LastOf(g) \notin used
             /\ LastOf(g) \in Range(g.index) <=> g.index # <<>>
             /\ \A h \in (Range(g.index) \cup used) \ GrownFrom(g) : h < LastOf(g) /\ h # g.end
             /\ \A h \in Range(g.index) \cup used : h # g.end
  <1> DEFINE free == Range(g.index)
             last == LastOf(g)
             gone == GrownFrom(g)
             g2 == Grow(g, size)
  <1>1. /\ g2.end \in Int /\ g2.end > g.end + size
        /\ last \in Int /\ HeapStart <= last /\ last + 3 <= g2.end
        /\ g2.mem \in [Address -> Word]
        /\ \A a \in Address : a < last \/ g2.end <= a => g2.mem[a] = g.mem[a]
        /\ EndOf(g2.mem, last) = g2.end /\ Size(g2.mem, last) = g2.end - last
        /\ g.index # <<>> => last \in free /\ EndOf(g.mem, last) = g.end
    BY GrowWrites
  <1>2. g.end \in Int
    BY Numbers DEF InShape, Typed
  <1>3. \A h \in free \cup used : h \in Int /\ EndOf(g.mem, h) \in Int
                                  /\ EndOf(g.mem, h) >= h + 5 /\ EndOf(g.mem, h) <= g.end
    BY BlockLies DEF InShape
  <1>4. /\ free \cap used = {}
        /\ \A h, k \in free \cup used : h < k => EndOf(g.mem, h) <= k
    BY DEF InShape, LieApart
  <1>5. \A h \in free \cup used : h # g.end
    BY <1>2, <1>3
  <1>6. gone \subseteq free /\ (g.index = <<>> => gone = {} /\ last = g.end)
        /\ (g.index # <<>> => gone = {last})
    BY <1>1 DEF GrownFrom, LastOf
  <1>7. last \notin used /\ (last \in free <=> g.index # <<>>)
    BY <1>1, <1>4, <1>5, <1>6
  <1>8. \A h \in (free \cup used) \ gone : EndOf(g.mem, h) <= last /\ h < last
    <2> SUFFICES ASSUME NEW h \in (free \cup used) \ gone
                 PROVE  EndOf(g.mem, h) <= last /\ h < last
      OBVIOUS
    <2>1. CASE g.index = <<>>
      BY <1>2, <1>3, <1>6, <2>1
    <2>2. CASE g.index # <<>>
      <3>1. last \in free \cup used /\ h \in free \cup used /\ h # last
        BY <1>1, <1>6, <2>2
      <3>2. ~ (last < h)
        BY <1>1, <1>2, <1>3, <1>4, <2>2, <3>1
      <3>3. h < last
        BY <1>1, <1>3, <3>1, <3>2
      <3> QED
        BY <1>4, <3>1, <3>3
    <2> QED
      BY <2>1, <2>2
  <1>9. Size(g2.mem, last) >= 5
    <2>1. last + 5 <= g2.end
      <3>1. CASE g.index = <<>>
        BY <1>1, <1>2, <1>6, <3>1
      <3>2. CASE g.index # <<>>
        BY <1>1, <1>2, <1>3, <3>2
      <3> QED
        BY <3>1, <3>2
    <2> QED
      BY <1>1, <2>1
  <1>10. Replaces(g.mem, free, used, gone, last, g2.end, g2.mem, {last}, {})
    <2> HIDE DEF free, last, gone, g2
    <2>1. \A h \in (free \cup used) \ gone : EndOf(g.mem, h) <= last \/ g2.end <= h
      BY <1>8
    <2>2. \A p \in {last} \cup {} :
       /\ p \in Int /\ last <= p /\ p + 3 <= g2.end
       /\ Size(g2.mem, p) >= 5 /\ EndOf(g2.mem, p) <= g2.end
      BY <1>1, <1>9
    <2>3. \A p, q \in {last} \cup {} : p < q => EndOf(g2.mem, p) <= q
      BY <1>1
    <2>4. {last} \cap {} = {}
      OBVIOUS
    <2> QED
      BY <1>1, <2>1, <2>2, <2>3, <2>4 DEF Replaces
  <1> QED
    BY <1>5, <1>6, <1>7, <1>8, <1>10

(* The heap that has grown is in shape, and its last block ends where the  *)
(* heap ends.                                                              *)
LEMMA GrowKeepsShape ==
  ASSUME NEW g, NEW used, InShape(g, used), NEW size \in Nat, size >= 6,
         g.index # <<>> => EndOf(g.mem, Max(Range(g.index))) = g.end,
         Grow(g, size).end <= Top + 1
  PROVE  LET g2 == Grow(g, size)
         IN  /\ InShape(g2, used)
             /\ g2.end \in Int /\ g2.end > g.end + size
             /\ g2.index # <<>>
             /\ Range(g2.index) = Range(g.index) \cup {LastOf(g)}
             /\ Max(Range(g2.index)) = LastOf(g)
             /\ EndOf(g2.mem, LastOf(g)) = g2.end
             /\ \A h \in used : Size(g2.mem, h) = Size(g.mem, h)
             /\ \A h \in used : \A a \in h .. EndOf(g.mem, h) - 1 :
                  a \in Address /\ g2.mem[a] = g.mem[a]
  <1> DEFINE free == Range(g.index)
             last == LastOf(g)
             gone == GrownFrom(g)
             g2 == Grow(g, size)
  <1>1. /\ Replaces(g.mem, free, used, gone, last, g2.end, g2.mem, {last}, {})
        /\ gone \subseteq free /\ last \notin used
        /\ last \in free <=> g.index # <<>>
        /\ \A h \in (free \cup used) \ gone : h < last
    BY GrowReplaces
  <1>2. /\ g2.end \in Int /\ g2.end > g.end + size
        /\ last \in Int /\ HeapStart <= last /\ last + 3 <= g2.end
        /\ EndOf(g2.mem, last) = g2.end
    BY GrowWrites
  <1>3. /\ Typed(g.mem, free, used, g.end) /\ LieApart(g.mem, free, used, g.end)
        /\ g.index \in Seq(Address) /\ IsInjective(g.index) /\ g.end \in Int
    BY Numbers DEF InShape, Typed
  <1>4. Typed(g.mem, free, used, g2.end) /\ LieApart(g.mem, free, used, g2.end)
    BY <1>2, <1>3, FewerApart
  <1>5. /\ Typed(g2.mem, (free \ gone) \cup {last}, (used \ gone) \cup {}, g2.end)
        /\ LieApart(g2.mem, (free \ gone) \cup {last}, (used \ gone) \cup {}, g2.end)
    <2>1. g2.end <= g2.end
      BY <1>2
    <2> HIDE DEF g2, free, gone, last
    <2> QED
      BY <1>1, <1>4, <2>1, ReplacedApart
  <1>6. free \cap used = {}
    BY <1>3 DEF LieApart
  <1>7. (used \ gone) \cup {} = used
    BY <1>1, <1>6
  <1>8. gone = IF g.index = <<>> THEN {} ELSE {last}
    BY DEF GrownFrom, LastOf
  <1>9. (free \ gone) \cup {last} = free \cup {last}
    BY <1>8
  <1>10. /\ g2.index \in Seq(Address) /\ IsInjective(g2.index)
         /\ Range(g2.index) = free \cup {last}
    <2>1. CASE g.index = <<>>
      <3>1. g2.index = Insert(g2.mem, g.index, last)
        BY <2>1 DEF Grow, LastOf
      <3>2. last \in Address
        BY <1>2, Numbers, Addresses
      <3>3. last \notin free
        BY <1>1, <2>1
      <3> HIDE DEF g2, last, free
      <3> QED
        BY <1>3, <3>1, <3>2, <3>3, Inserted DEF free
    <2>2. CASE g.index # <<>>
      <3>1. g2.index = g.index
        BY <2>2 DEF Grow
      <3>2. last \in free
        BY <1>1, <2>2
      <3> HIDE DEF g2, last
      <3> QED
        BY <1>3, <3>1, <3>2
    <2> QED
      BY <2>1, <2>2
  <1>11. InShape(g2, used)
    BY <1>5, <1>7, <1>9, <1>10 DEF InShape
  <1>12. g2.index # <<>>
    <2>1. last \in Range(g2.index)
      BY <1>10
    <2> HIDE DEF g2
    <2>5. g2.index \in Seq(Address)
      BY <1>10
    <2>6. \A x : x \in Range(g2.index) <=> \E i \in 1 .. Len(g2.index) : g2.index[i] = x
      BY <2>5, Entries
    <2>3. PICK i \in 1 .. Len(g2.index) : g2.index[i] = last
      BY <2>1, <2>6
    <2>4. Len(g2.index) \in Nat
      BY <1>10, Entries
    <2>2. Len(g2.index) # 0
      BY <2>3, <2>4
    <2> QED
      BY <1>10, <2>2, Entries
  <1>13. Max(Range(g2.index)) = last
    <2>1. Max(Range(g2.index)) \in Range(g2.index) /\ \A x \in Range(g2.index) : x <= Max(Range(g2.index))
      BY <1>10, <1>12, GreatestEntry
    <2>3. \A x \in free \cup {last} : x \in Int
      BY <1>2, <1>3 DEF Typed
    <2> DEFINE most == Max(Range(g2.index))
    <2>4. most \in free \cup {last} /\ last <= most
      BY <1>10, <2>1
    <2> HIDE DEF g2, last, free, gone, most
    <2>2. \A x \in free \cup {last} : x <= last
      <3> SUFFICES ASSUME NEW x \in free \cup {last} PROVE x <= last
        OBVIOUS
      <3>1. CASE x = last
        BY <1>2, <3>1
      <3>2. CASE x # last
        <4>1. x \in (free \cup used) \ gone
          BY <1>8, <3>2
        <4> QED
          BY <1>1, <1>2, <2>3, <4>1
      <3> QED
        BY <3>1, <3>2
    <2>5. most <= last
      BY <2>2, <2>4
    <2>6. most = last
      BY <1>2, <2>3, <2>4, <2>5
    <2> QED
      BY <2>6 DEF most
  <1>14. ASSUME NEW h \in used
         PROVE  /\ Size(g2.mem, h) = Size(g.mem, h)
                /\ \A a \in h .. EndOf(g.mem, h) - 1 : a \in Address /\ g2.mem[a] = g.mem[a]
    <2>1. h \in (free \cup used) \ gone
      BY <1>1, <1>6
    <2> QED
      BY <1>1, <1>3, <2>1, OthersStay
  <1> QED
    BY <1>2, <1>10, <1>11, <1>12, <1>13, <1>14

(* Blocks that met end to end do so when the heap has grown, and their     *)
(* footers name them as before.                                            *)
LEMMA GrowKeepsOrder ==
  ASSUME NEW g, NEW used, InShape(g, used), NEW size \in Nat, size >= 6,
         g.index # <<>> => EndOf(g.mem, Max(Range(g.index))) = g.end,
         Grow(g, size).end <= Top + 1,
         MeetEndToEnd(g.mem, Range(g.index), used, g.end)
  PROVE  LET g2 == Grow(g, size)
         IN  /\ MeetEndToEnd(g2.mem, Range(g2.index), used, g2.end)
             /\ NameTheirHeaders(g.mem, Range(g.index), used, g.end) =>
                  NameTheirHeaders(g2.mem, Range(g2.index), used, g2.end)
  <1> DEFINE free == Range(g.index)
             last == LastOf(g)
             gone == GrownFrom(g)
             g2 == Grow(g, size)
             Stay == (free \cup used) \ gone
             X == Ends(g.mem, Stay)
  <1>1. /\ Replaces(g.mem, free, used, gone, last, g2.end, g2.mem, {last}, {})
        /\ gone \subseteq free /\ last \notin used
        /\ last \in free <=> g.index # <<>>
        /\ \A h \in Stay : h < last /\ h # g.end
        /\ \A h \in free \cup used : h # g.end
    BY GrowReplaces
  <1>2. /\ g2.end \in Int /\ g2.end > g.end + size
        /\ last \in Int /\ HeapStart <= last /\ last + 3 <= g2.end
        /\ EndOf(g2.mem, last) = g2.end
        /\ g.index = <<>> => g2.mem[last] = MAGIC /\ g2.mem[last + 1] = 1
        /\ g.index # <<>> => /\ last \in free /\ EndOf(g.mem, last) = g.end
                            /\ g2.mem[last] = g.mem[last]
                            /\ g2.mem[last + 1] = g.mem[last + 1]
        /\ g2.mem[g2.end - 2] = MAGIC /\ g2.mem[g2.end - 1] = last
    BY GrowWrites
  <1>3. /\ Typed(g.mem, free, used, g.end) /\ LieApart(g.mem, free, used, g.end)
        /\ g.end \in Int /\ HeapStart + Page <= g.end
    BY Numbers DEF InShape, Typed
  <1>4. InShape(g2, used) /\ Range(g2.index) = free \cup {last}
    BY GrowKeepsShape
  <1>5. HeapStart \in Nat /\ Page \in Nat /\ Page > 0 /\ HEADER = 3 /\ FOOTER = 2
    BY Numbers
  <1>6. /\ g.index = <<>> => gone = {} /\ last = g.end /\ free = {}
        /\ g.index # <<>> => gone = {last}
    <2>1. Range(<<>>) = {}
      BY DEF Range
    <2> QED
      BY <2>1 DEF GrownFrom, LastOf
  <1>7. \A h \in Stay : /\ EndOf(g2.mem, h) = EndOf(g.mem, h) /\ Size(g2.mem, h) = Size(g.mem, h)
                        /\ g2.mem[h] = g.mem[h] /\ g2.mem[h + 1] = g.mem[h + 1]
    BY <1>1, <1>3, OthersStay
  <1>8. free \cup {last} \cup used = Stay \cup {last}
    BY <1>1, <1>6
  <1>9. Ends(g.mem, free \cup used) \cup {HeapStart} = (free \cup used) \cup {g.end}
    BY DEF MeetEndToEnd, Ends
  <1>10. Ends(g2.mem, Stay \cup {last}) = X \cup {g2.end}
    <2>1. X = Ends(g2.mem, Stay)
      BY <1>7 DEF Ends
    <2>2. Ends(g2.mem, Stay \cup {last}) = Ends(g2.mem, Stay) \cup {EndOf(g2.mem, last)}
      BY DEF Ends
    <2> QED
      BY <1>2, <2>1, <2>2
  <1>11. X \cup {g2.end, HeapStart} = Stay \cup {last, g2.end}
    <2>1. CASE g.index = <<>>
      <3>1. Stay = free \cup used
        BY <1>6, <2>1
      <3>2. X \cup {HeapStart} = Stay \cup {last}
        BY <1>6, <1>9, <2>1, <3>1
      <3> QED
        BY <3>2
    <2>2. CASE g.index # <<>>
      <3>1. gone = {last} /\ last \in free /\ EndOf(g.mem, last) = g.end
        BY <1>2, <1>6, <2>2
      <3>2. free \cup used = Stay \cup {last}
        BY <3>1
      <3>3. Ends(g.mem, free \cup used) = X \cup {g.end}
        BY <3>1, <3>2 DEF Ends
      <3>4. g.end \notin X
        <4> SUFFICES ASSUME NEW h \in Stay, EndOf(g.mem, h) = g.end PROVE FALSE
          BY DEF Ends
        <4>1. h \in free \cup used /\ last \in free \cup used /\ h # last
          BY <3>1
        <4> QED
          BY <1>3, <3>1, <4>1, EndsDiffer
      <3>5. g.end # HeapStart
        BY <1>3, <1>5
      <3>6. g.end \notin Stay /\ g.end # last
        BY <1>1, <3>1
      <3>7. (X \cup {g.end}) \cup {HeapStart} = (Stay \cup {last}) \cup {g.end}
        BY <1>9, <3>2, <3>3
      <3> HIDE DEF X, Stay
      <3>8. X \cup {HeapStart} = Stay \cup {last}
        BY <3>4, <3>5, <3>6, <3>7
      <3> QED
        BY <3>8
    <2> QED
      BY <2>1, <2>2
  <1>12. Ends(g2.mem, Stay \cup {last}) \cup {HeapStart} = (Stay \cup {last}) \cup {g2.end}
    BY <1>10, <1>11
  <1>13. \A h \in free \cup used :
           g.mem[h] = MAGIC /\ (IsHole(g.mem, h) <=> h \in free)
    BY DEF MeetEndToEnd
  <1>14. g2.mem[last] = MAGIC /\ IsHole(g2.mem, last)
    BY <1>2, <1>13 DEF IsHole
  <1>15. \A h \in Stay \cup {last} :
           g2.mem[h] = MAGIC /\ (IsHole(g2.mem, h) <=> h \in free \cup {last})
    <2> SUFFICES ASSUME NEW h \in Stay \cup {last}
                 PROVE  g2.mem[h] = MAGIC /\ (IsHole(g2.mem, h) <=> h \in free \cup {last})
      OBVIOUS
    <2>1. CASE h = last
      BY <1>14, <2>1
    <2>2. CASE h # last
      <3>1. h \in Stay /\ h \in free \cup used
        BY <2>2
      <3>2. g2.mem[h] = g.mem[h] /\ g2.mem[h + 1] = g.mem[h + 1]
        BY <1>7, <3>1
      <3>3. IsHole(g2.mem, h) <=> IsHole(g.mem, h)
        BY <3>2 DEF IsHole
      <3>4. IsHole(g.mem, h) <=> h \in free
        BY <1>13, <3>1
      <3> QED
        BY <1>13, <2>2, <3>1, <3>2, <3>3, <3>4
    <2> QED
      BY <2>1, <2>2
  <1>16. g2.mem[HeapStart - FOOTER] # MAGIC
    <2>1. HeapStart - FOOTER \in Address /\ HeapStart - FOOTER < last
      <3>1. HeapStart - FOOTER \in Int /\ HeapStart - FOOTER <= Top
        BY <1>5, Numbers, HeapAssumption
      <3> QED
        BY <1>2, <1>5, <3>1, Addresses
    <2>2. g2.mem[HeapStart - FOOTER] = g.mem[HeapStart - FOOTER]
      BY <1>1, <2>1 DEF Replaces
    <2> QED
      BY <2>2 DEF MeetEndToEnd
  <1>17. Typed(g2.mem, Range(g2.index), used, g2.end) /\ LieApart(g2.mem, Range(g2.index), used, g2.end)
    BY <1>4 DEF InShape
  <1>18. Range(g2.index) \cup used = Stay \cup {last}
    BY <1>4, <1>8
  <1>19. MeetEndToEnd(g2.mem, Range(g2.index), used, g2.end)
    <2>1. \A h, k \in Range(g2.index) \cup used : EndOf(g2.mem, h) = EndOf(g2.mem, k) => h = k
      BY <1>17, EndsDiffer
    <2>2. \A h \in Range(g2.index) \cup used :
            h \in HeapStart .. g2.end - HEADER /\ Size(g2.mem, h) >= HEADER + FOOTER
      BY <1>17 DEF LieApart
    <2>3. Range(g2.index) \cap used = {}
      BY <1>17 DEF LieApart
    <2>4. {EndOf(g2.mem, h) : h \in Range(g2.index) \cup used} \cup {HeapStart}
            = Range(g2.index) \cup used \cup {g2.end}
      BY <1>12, <1>18 DEF Ends
    <2>5. \A h \in Range(g2.index) \cup used :
            g2.mem[h] = MAGIC /\ (IsHole(g2.mem, h) <=> h \in Range(g2.index))
      BY <1>4, <1>15, <1>18
    <2> HIDE DEF g2
    <2> QED
      BY <1>16, <2>1, <2>2, <2>3, <2>4, <2>5 DEF MeetEndToEnd
  <1>20. ASSUME NameTheirHeaders(g.mem, free, used, g.end)
         PROVE  NameTheirHeaders(g2.mem, Range(g2.index), used, g2.end)
    <2> SUFFICES ASSUME NEW h \in Stay \cup {last}, h \in used \/ EndOf(g2.mem, h) < g2.end
                 PROVE  /\ g2.mem[EndOf(g2.mem, h) - FOOTER] = MAGIC
                        /\ g2.mem[EndOf(g2.mem, h) - FOOTER + 1] = h
      BY <1>18 DEF NameTheirHeaders
    <2>1. h \in Stay /\ h \in free \cup used
      BY <1>1, <1>2
    <2>2. /\ \A a \in h .. EndOf(g.mem, h) - 1 : g2.mem[a] = g.mem[a]
          /\ EndOf(g2.mem, h) = EndOf(g.mem, h)
      BY <1>1, <1>3, <2>1, OthersStay
    <2>3. h \in Int /\ EndOf(g.mem, h) \in Int /\ EndOf(g.mem, h) >= h + 5 /\ EndOf(g.mem, h) <= g.end
      BY <1>3, <2>1, BlockLies
    <2>4. ASSUME EndOf(g.mem, h) = g.end PROVE h \in used
      <3>1. CASE g.index = <<>>
        BY <1>6, <2>1, <3>1
      <3>2. CASE g.index # <<>>
        <4>1. last \in free \cup used /\ EndOf(g.mem, last) = EndOf(g.mem, h) /\ h # last
          BY <1>2, <1>6, <2>1, <2>4, <3>2
        <4> QED
          BY <1>3, <2>1, <4>1, EndsDiffer
      <3> QED
        BY <3>1, <3>2
    <2>5. h \in used \/ EndOf(g.mem, h) < g.end
      BY <1>3, <2>3, <2>4
    <2>6. g.mem[EndOf(g.mem, h) - FOOTER] = MAGIC /\ g.mem[EndOf(g.mem, h) - FOOTER + 1] = h
      BY <1>20, <2>1, <2>5 DEF NameTheirHeaders
    <2>7. EndOf(g.mem, h) - FOOTER \in h .. EndOf(g.mem, h) - 1 /\ EndOf(g.mem, h) - FOOTER + 1 \in h .. EndOf(g.mem, h) - 1
      BY <1>5, <2>3
    <2> QED
      BY <2>2, <2>6, <2>7
  <1> QED
    BY <1>19, <1>20

(* A later heap of the same owner, with its blocks in use as they were.    *)
Continues(g, g2, used) ==
  /\ InShape(g2, used)
  /\ g2.end \in Int /\ g.end <= g2.end
  /\ \A h \in used : Size(g2.mem, h) = Size(g.mem, h)
  /\ \A h \in used : \A a \in h .. EndOf(g.mem, h) - 1 : a \in Address /\ g2.mem[a] = g.mem[a]
  /\ g.pages \subseteq Nat => g2.pages \subseteq Nat
  /\ MeetEndToEnd(g.mem, Range(g.index), used, g.end) =>
       /\ MeetEndToEnd(g2.mem, Range(g2.index), used, g2.end)
       /\ NameTheirHeaders(g.mem, Range(g.index), used, g.end) =>
            NameTheirHeaders(g2.mem, Range(g2.index), used, g2.end)

(* Every heap continues itself.                                            *)
LEMMA ContinuesItself ==
  ASSUME NEW g, NEW used, InShape(g, used)
  PROVE  Continues(g, g, used)
  <1>1. g.end \in Int
    BY Numbers DEF InShape, Typed
  <1>2. \A h \in used : \A a \in h .. EndOf(g.mem, h) - 1 : a \in Address
    <2> SUFFICES ASSUME NEW h \in used, NEW a \in h .. EndOf(g.mem, h) - 1 PROVE a \in Address
      OBVIOUS
    <2>1. /\ h \in HeapStart .. Top /\ EndOf(g.mem, h) \in Int /\ EndOf(g.mem, h) <= g.end
          /\ g.end <= Top + 1
      BY BlockLies DEF InShape
    <2> QED
      BY <1>1, <2>1, Numbers, Addresses
  <1> QED
    BY <1>1, <1>2 DEF Continues

(* What continues a continuation continues the first heap.                 *)
LEMMA ContinuesOn ==
  ASSUME NEW g, NEW g2, NEW g3, NEW used,
         g.end \in Int, Continues(g, g2, used), Continues(g2, g3, used)
  PROVE  Continues(g, g3, used)
  <1>1. g2.end \in Int /\ g3.end \in Int /\ g.end <= g3.end
    BY DEF Continues
  <1>2. \A h \in used : /\ Size(g2.mem, h) = Size(g.mem, h) /\ Size(g3.mem, h) = Size(g2.mem, h)
                        /\ EndOf(g2.mem, h) = EndOf(g.mem, h)
    BY DEF Continues, EndOf
  <1>3. \A h \in used : \A a \in h .. EndOf(g.mem, h) - 1 : a \in Address /\ g3.mem[a] = g.mem[a]
    BY <1>2 DEF Continues
  <1> QED
    BY <1>1, <1>2, <1>3 DEF Continues

(* One growth.                                                             *)
LEMMA GrowContinues ==
  ASSUME NEW g, NEW used, InShape(g, used), NEW size \in Nat, size >= 6,
         g.index # <<>> => EndOf(g.mem, Max(Range(g.index))) = g.end,
         Grow(g, size).end <= Top + 1
  PROVE  Continues(g, Grow(g, size), used)
  <1> DEFINE g2 == Grow(g, size)
  <1>1. /\ InShape(g2, used)
        /\ g2.end \in Int /\ g2.end > g.end + size
        /\ \A h \in used : Size(g2.mem, h) = Size(g.mem, h)
        /\ \A h \in used : \A a \in h .. EndOf(g.mem, h) - 1 :
             a \in Address /\ g2.mem[a] = g.mem[a]
    BY GrowKeepsShape
  <1>2. /\ g.end \in Int /\ HeapStart + Page <= g.end
        /\ HeapStart \in Nat /\ Page \in Nat /\ Page > 0
    BY Numbers DEF InShape, Typed
  <1> DEFINE before == g.end + Growth(g.end, size) - 1
  <1>3. /\ g2.pages = g.pages \cup (g.end \div Page .. before \div Page)
        /\ g2.end = g.end + Growth(g.end, size)
    BY DEF Grow, Growth
  <1>4. g.pages \subseteq Nat => g2.pages \subseteq Nat
    <2>1. Growth(g.end, size) \in Int /\ Growth(g.end, size) > size
      BY <1>2, GrowthIsEnough
    <2>2. g.end \in Nat /\ before \in Nat
      BY <1>2, <2>1
    <2> HIDE DEF g2, before
    <2>3. g.end \div Page \in Nat
      BY <1>2, <2>2
    <2>4. before \div Page \in Nat
      BY <1>2, <2>2
    <2> QED
      BY <1>3, <2>3, <2>4
  <1>5. MeetEndToEnd(g.mem, Range(g.index), used, g.end) =>
          /\ MeetEndToEnd(g2.mem, Range(g2.index), used, g2.end)
          /\ NameTheirHeaders(g.mem, Range(g.index), used, g.end) =>
               NameTheirHeaders(g2.mem, Range(g2.index), used, g2.end)
    BY GrowKeepsOrder
  <1>6. g.end <= g2.end
    BY <1>1, <1>2
  <1> HIDE DEF g2
  <1>7. Continues(g, g2, used)
    BY <1>1, <1>4, <1>5, <1>6 DEF Continues
  <1> QED
    BY <1>7 DEF g2

(* The words before the payload of an aligned block are a page at most.    *)
LEMMA OffsetInPage ==
  ASSUME NEW h \in Int
  PROVE  Offset(h) \in Int /\ Offset(h) > 0 /\ Offset(h) <= Page
  <1>1. Page \in Nat /\ Page > 0 /\ HEADER = 3
    BY Numbers
  <1>2. (h + HEADER) % Page \in Int /\ (h + HEADER) % Page >= 0 /\ (h + HEADER) % Page < Page
    BY <1>1, WholePages
  <1> QED
    BY <1>1, <1>2 DEF Offset

(* The loop of Alloc: what it finds at last is large enough, after one     *)
(* growth for a plain request and after two for an aligned one.            *)
LEMMA GrownIsEnough ==
  ASSUME NEW g, NEW used, InShape(g, used), NEW size \in Nat, size >= 6, NEW align \in BOOLEAN,
         FindSmallestHole(g.mem, g.index, size, align) = 0 =>
           (g.index # <<>> => EndOf(g.mem, Max(Range(g.index))) = g.end),
         Grown(g, size, align).end <= Top + 1
  PROVE  LET g2 == Grown(g, size, align)
             i == FindSmallestHole(g2.mem, g2.index, size, align)
         IN  /\ Continues(g, g2, used)
             /\ i \in 1 .. Len(g2.index) /\ Fits(g2.mem, g2.index[i], size, align)
  <1> DEFINE enough(k) == FindSmallestHole(k.mem, k.index, size, align) # 0
             once == Grow(g, size)
             twice == Grow(once, size)
             g2 == Grown(g, size, align)
  <1>1. g2 = IF enough(g) THEN g ELSE IF enough(once) THEN once ELSE twice
    BY DEF Grown
  <1>2. /\ g.end \in Int /\ HeapStart + Page <= g.end /\ HeapStart \in Nat
        /\ Page \in Nat /\ Page > 0
    BY SMTT(30), Numbers DEF InShape, Typed
  <1>3. /\ once.end = g.end + Growth(g.end, size)
        /\ twice.end = once.end + Growth(once.end, size)
    BY DEF Grow, Growth
  <1>4. /\ Growth(g.end, size) \in Int /\ Growth(g.end, size) > size
        /\ (once.end - HeapStart) % Page = 0
    <2> DEFINE x == g.end
               y == once.end
    <2>1. x \in Int /\ HeapStart + Page <= x /\ y = x + Growth(x, size)
      BY <1>2, <1>3
    <2> HIDE DEF x, y
    <2>2. /\ Growth(x, size) \in Int /\ Growth(x, size) > size
          /\ (x + Growth(x, size) - HeapStart) % Page = 0
      BY <2>1, GrowthIsEnough
    <2>3. (y - HeapStart) % Page = 0
      <3>1. x + Growth(x, size) - HeapStart = y - HeapStart
        BY <1>2, <2>1, <2>2
      <3> QED
        BY <2>2, <3>1, Zenon
    <2> QED
      BY <2>2, <2>3 DEF x, y
  <1>5. once.end \in Int /\ HeapStart + Page <= once.end
    BY <1>2, <1>3, <1>4
  <1>6. /\ Growth(once.end, size) \in Int /\ Growth(once.end, size) > size
        /\ Growth(once.end, size) >= Page
    BY <1>4, <1>5, GrowthIsEnough
  <1>7. CASE enough(g)
    <2>1. g2 = g
      BY <1>1, <1>7
    <2>2. Continues(g, g2, used)
      BY <2>1, ContinuesItself
    <2>3. enough(g2) /\ g2.index \in Seq(Address)
      BY <1>7, <2>1 DEF InShape
    <2> HIDE DEF g2
    <2> QED
      BY <2>2, <2>3, Found DEF g2
  <1>8. CASE ~ enough(g) /\ enough(once)
    <2>1. g2 = once
      BY <1>1, <1>8
    <2>2. Continues(g, once, used)
      <3>1. once.end <= Top + 1
        BY <2>1
      <3> QED
        BY <1>8, <3>1, GrowContinues
    <2>3. enough(g2) /\ g2.index \in Seq(Address) /\ Continues(g, g2, used)
      BY <1>8, <2>1, <2>2 DEF InShape, Continues
    <2> HIDE DEF g2
    <2> QED
      BY <2>3, Found DEF g2
  <1>9. CASE ~ enough(g) /\ ~ enough(once)
    <2>1. g2 = twice
      BY <1>1, <1>9
    <2>2. Top \in Int /\ MaxWord \in Nat /\ Top < MaxWord
      BY Numbers
    <2>3. once.end <= Top + 1 /\ twice.end <= Top + 1
      <3>1. twice.end <= Top + 1
        BY <2>1
      <3> HIDE DEF once, twice
      <3> QED
        BY <1>3, <1>5, <1>6, <2>2, <3>1
    <2>4. /\ InShape(once, used) /\ once.index # <<>>
          /\ Max(Range(once.index)) = LastOf(g)
          /\ EndOf(once.mem, LastOf(g)) = once.end
      BY <1>9, <2>3, GrowKeepsShape
    <2>5. Continues(g, once, used)
      BY <1>9, <2>3, GrowContinues
    <2> DEFINE last == LastOf(g)
    <2>6. LastOf(once) = last
      BY <2>4 DEF LastOf
    <2>7. last \in Int /\ last <= g.end
      <3>1. CASE g.index = <<>>
        BY <1>2, <3>1 DEF LastOf
      <3>2. CASE g.index # <<>>
        <4>1. last \in Range(g.index)
          BY <3>2, GreatestEntry DEF InShape, LastOf
        <4>2. /\ last \in HeapStart .. Top /\ EndOf(g.mem, last) <= g.end
              /\ EndOf(g.mem, last) = last + Size(g.mem, last)
              /\ Size(g.mem, last) \in Int /\ Size(g.mem, last) >= 5
          BY <4>1, BlockLies DEF InShape
        <4> HIDE DEF last
        <4> QED
          BY <1>2, <4>2
      <3> QED
        BY <3>1, <3>2
    <2>8. /\ InShape(twice, used) /\ last \in Range(twice.index)
          /\ Continues(once, twice, used)
      <3> HIDE DEF once
      <3> QED
        BY <2>3, <2>4, <2>6, GrowKeepsShape, GrowContinues
    <2>9. Size(twice.mem, last) = twice.end - last
      <3> HIDE DEF once
      <3> QED
        BY <2>3, <2>4, <2>6, GrowWrites
    <2>10. Continues(g, twice, used)
      BY <1>2, <2>5, <2>8, ContinuesOn
    <2> HIDE DEF once, twice, last
    <2>11. /\ Size(twice.mem, last) \in Int /\ Size(twice.mem, last) > size + Page
           /\ Size(twice.mem, last) <= Top + 1 \/ last < 0
      <3>1. once.end > g.end + size
        BY <1>2, <1>3, <1>4
      <3>2. twice.end \in Int /\ twice.end >= once.end + Page
        BY <1>2, <1>3, <1>5, <1>6
      <3>3. twice.end - last > size + Page
        BY <1>2, <1>5, <2>7, <3>1, <3>2
      <3> QED
        BY <2>2, <2>3, <2>7, <2>9, <3>2, <3>3
    <2>12. last >= 0
      <3>1. last \in HeapStart .. Top
        BY <2>8, BlockLies DEF InShape
      <3> QED
        BY <1>2, <2>2, <3>1
    <2>13. Fits(twice.mem, last, size, align)
      <3>1. CASE ~ align
        BY <1>2, <2>11, <3>1 DEF Fits
      <3>2. CASE align
        <4>1. Offset(last) \in Int /\ Offset(last) > 0 /\ Offset(last) <= Page
          BY <2>7, OffsetInPage
        <4> DEFINE n == Size(twice.mem, last) - Offset(last)
        <4>2. n \in Int /\ n >= size /\ n <= Top + 1 /\ n >= 0
          BY <1>2, <2>2, <2>7, <2>11, <2>12, <4>1
        <4>3. Wrap(n) = n
          BY <4>2, Addresses, WrapOfWord
        <4> QED
          BY <3>2, <4>2, <4>3 DEF Fits
      <3> QED
        BY <3>1, <3>2
    <2>14. twice.index \in Seq(Address)
      BY <2>8 DEF InShape
    <2>15. PICK j \in 1 .. Len(twice.index) : twice.index[j] = last
      <3>1. \A x : x \in Range(twice.index) <=> \E j \in 1 .. Len(twice.index) : twice.index[j] = x
        BY <2>14, Entries
      <3> QED
        BY <2>8, <3>1
    <2>16. enough(twice)
      BY <2>13, <2>14, <2>15, Found
    <2>17. enough(g2) /\ g2.index \in Seq(Address) /\ Continues(g, g2, used)
      BY <2>1, <2>10, <2>14, <2>16
    <2> HIDE DEF g2
    <2> QED
      BY <2>17, Found DEF g2
  <1> QED
    BY <1>7, <1>8, <1>9

-----------------------------------------------------------------------------
(* The cutting of a free block.                                            *)

(* What Alloc computes of entry i of the index.                            *)
SizeOf(g, i) == Size(g.mem, g.index[i])

Need(g, i, request) ==
  IF Wrap(SizeOf(g, i) - request) < HEADER + FOOTER THEN SizeOf(g, i) ELSE request

Rest(g, i, request, align) ==
  Wrap(Wrap(SizeOf(g, i) - FrontSize(g.index[i], align)) - Need(g, i, request))

(* The entry is large enough, and an aligned request leaves nothing or     *)
(* enough for a block in front and behind.                                 *)
CanCut(g, used, i, request, align) ==
  /\ InShape(g, used) /\ i \in 1 .. Len(g.index)
  /\ request \in Nat /\ request >= 6 /\ align \in BOOLEAN
  /\ Fits(g.mem, g.index[i], request, align)
  /\ align => LET front == FrontSize(g.index[i], align)
                  rest == SizeOf(g, i) - front - request
              IN  front >= HEADER + FOOTER /\ (rest = 0 \/ rest >= HEADER + FOOTER)

(* A block with its header and its footer.                                 *)
LEMMA BlockPut ==
  ASSUME NEW m \in [Address -> Word], NEW h \in Int, HeapStart <= h,
         NEW size \in Int, size >= 5, h + size <= Top + 1, NEW hole \in {0, 1}
  PROVE  LET r == PutFooter(PutHeader(m, h, size, hole), h + size - FOOTER, h)
         IN  /\ r \in [Address -> Word]
             /\ r[h] = MAGIC /\ r[h + 1] = hole /\ r[h + 2] = size
             /\ r[h + size - 2] = MAGIC /\ r[h + size - 1] = h
             /\ \A a \in Address : a < h \/ h + size <= a => r[a] = m[a]
  <1> DEFINE headed == PutHeader(m, h, size, hole)
             f == h + size - FOOTER
             r == PutFooter(headed, f, h)
  <1>1. HeapStart \in Nat /\ Top \in Nat /\ FOOTER = 2
    BY Numbers
  <1>2. h \in Address /\ h + 1 \in Address /\ h + 2 \in Address /\ size \in Word /\ h \in Word
    BY <1>1, Addresses
  <1>3. /\ headed \in [Address -> Word]
        /\ headed[h] = MAGIC /\ headed[h + 1] = hole /\ headed[h + 2] = size
        /\ \A a \in Address : a \notin {h, h + 1, h + 2} => headed[a] = m[a]
    BY <1>2, HeaderPut
  <1>4. f \in Int /\ f = h + size - 2 /\ f + 1 = h + size - 1 /\ f > h + 2
    BY <1>1
  <1> HIDE DEF headed, f
  <1>5. f \in Address /\ f + 1 \in Address
    BY <1>1, <1>4, Addresses
  <1>6. /\ r \in [Address -> Word] /\ r[f] = MAGIC /\ r[f + 1] = h
        /\ \A a \in Address : a \notin {f, f + 1} => r[a] = headed[a]
    <2>1. headed \in [Address -> Word] /\ h \in Word
      BY <1>2, <1>3
    <2> QED
      BY <1>5, <2>1, FooterPut
  <1> HIDE DEF r
  <1>7. \A a \in {h, h + 1, h + 2} : a \in Address /\ a \notin {f, f + 1}
    BY <1>2, <1>4
  <1>8. r[h] = MAGIC /\ r[h + 1] = hole /\ r[h + 2] = size
    BY <1>3, <1>6, <1>7
  <1>9. \A a \in Address : a < h \/ h + size <= a => r[a] = m[a]
    <2>1. \A a \in Address : a \in Int
      BY Addresses
    <2>2. \A a \in Address : a < h \/ h + size <= a =>
            a \notin {h, h + 1, h + 2} /\ a \notin {f, f + 1}
      BY <1>4, <2>1
    <2> QED
      BY <1>3, <1>6, <2>2
  <1>10. r[h + size - 2] = MAGIC /\ r[h + size - 1] = h
    BY <1>4, <1>6
  <1> QED
    BY <1>6, <1>8, <1>9, <1>10 DEF r, headed, f

(* ... as the code stores it, with the address where it ends.              *)
LEMMA BlockStored ==
  ASSUME NEW m \in [Address -> Word], NEW h \in Int, HeapStart <= h,
         NEW size \in Int, size >= 5, NEW stop \in Int, stop = h + size, stop <= Top + 1,
         NEW hole \in {0, 1}, NEW f, f = stop - 2,
         NEW r, r = PutFooter(PutHeader(m, h, size, hole), f, h)
  PROVE  /\ r \in [Address -> Word]
         /\ r[h] = MAGIC /\ r[h + 1] = hole /\ r[h + 2] = size
         /\ r[stop - 2] = MAGIC /\ r[stop - 1] = h
         /\ \A a \in Address : a < h \/ stop <= a => r[a] = m[a]
  <1>1. f = h + size - FOOTER
    BY Numbers
  <1>2. r = PutFooter(PutHeader(m, h, size, hole), h + size - FOOTER, h)
    BY <1>1, Zenon
  <1>3. /\ r \in [Address -> Word]
        /\ r[h] = MAGIC /\ r[h + 1] = hole /\ r[h + 2] = size
        /\ r[h + size - 2] = MAGIC /\ r[h + size - 1] = h
        /\ \A a \in Address : a < h \/ h + size <= a => r[a] = m[a]
    BY <1>2, BlockPut
  <1> QED
    BY <1>3

(* The block that is cut.                                                  *)
LEMMA HoleLies ==
  ASSUME NEW g, NEW used, NEW i, NEW request, NEW align, CanCut(g, used, i, request, align)
  PROVE  LET hole == g.index[i]
         IN  /\ hole \in Range(g.index) /\ hole \in Int /\ HeapStart <= hole
             /\ SizeOf(g, i) \in Int /\ SizeOf(g, i) >= 5
             /\ EndOf(g.mem, hole) = hole + SizeOf(g, i)
             /\ hole + SizeOf(g, i) <= g.end /\ g.end \in Int /\ g.end <= Top + 1
  <1> DEFINE hole == g.index[i]
  <1>1. g.index \in Seq(Address) /\ i \in 1 .. Len(g.index)
    BY DEF CanCut, InShape
  <1>2. hole \in Range(g.index)
    BY <1>1, Entries
  <1>3. /\ hole \in HeapStart .. Top
        /\ Size(g.mem, hole) \in Int /\ Size(g.mem, hole) >= 5
        /\ EndOf(g.mem, hole) = hole + Size(g.mem, hole) /\ EndOf(g.mem, hole) <= g.end
        /\ g.end \in Int /\ g.end <= Top + 1
    BY SMTT(30), <1>2, BlockLies DEF CanCut, InShape
  <1> HIDE DEF hole
  <1>4. SizeOf(g, i) = Size(g.mem, hole)
    BY DEF SizeOf, hole
  <1>5. hole \in Int /\ HeapStart <= hole
    BY <1>3, Numbers
  <1> QED
    BY <1>2, <1>3, <1>4, <1>5 DEF hole

(* The parts of the block: what is in front, the new block and the rest    *)
(* make up its size, and none of them is too small.                        *)
LEMMA Parts ==
  ASSUME NEW g, NEW used, NEW i, NEW request, NEW align, CanCut(g, used, i, request, align)
  PROVE  LET front == FrontSize(g.index[i], align)
             need == Need(g, i, request)
             rest == Rest(g, i, request, align)
         IN  /\ front \in Int /\ need \in Int /\ rest \in Int
             /\ align => front >= 5 /\ Wrap(front) = front
             /\ ~ align => front = 0
             /\ need >= request /\ request >= 6 /\ (rest = 0 \/ rest >= 5)
             /\ front + need + rest = SizeOf(g, i)
  <1> DEFINE hole == g.index[i]
             size == SizeOf(g, i)
             front == FrontSize(hole, align)
             need == Need(g, i, request)
             rest == Rest(g, i, request, align)
  <1>1. /\ hole \in Int /\ size \in Int /\ size >= 5 /\ HeapStart <= hole
        /\ hole + size <= Top + 1
    BY HoleLies, Numbers
  <1>2. Page \in Nat /\ Page > 0 /\ HEADER = 3 /\ FOOTER = 2 /\ HeapStart \in Nat /\ Top \in Nat
    BY Numbers
  <1>3. request \in Nat /\ request >= 6 /\ align \in BOOLEAN
    BY DEF CanCut
  <1>4. front = IF align THEN Page - (hole % Page) - HEADER ELSE 0
    BY DEF FrontSize
  <1>5. hole % Page \in Int
    BY <1>1, WholePages
  <1>6. front \in Int /\ (~ align => front = 0)
    BY <1>2, <1>3, <1>4, <1>5
  <1>7. need = IF Wrap(size - request) < 5 THEN size ELSE request
    BY <1>2 DEF Need
  <1>8. rest = Wrap(Wrap(size - front) - need)
    BY DEF Rest
  <1>9. \A n \in Int : 0 <= n /\ n <= size => Wrap(n) = n
    <2> SUFFICES ASSUME NEW n \in Int, 0 <= n, n <= size PROVE Wrap(n) = n
      OBVIOUS
    <2>1. n \in Word
      <3> HIDE DEF size, hole
      <3>1. n <= Top + 1
        BY <1>1, <1>2
      <3> QED
        BY <3>1, Addresses
    <2> QED
      BY <2>1, WrapOfWord
  <1>10. CASE ~ align
    <2>1. size >= request
      BY <1>10 DEF CanCut, Fits, SizeOf
    <2> HIDE DEF size, front, need, rest, hole
    <2>2. Wrap(size - request) = size - request /\ Wrap(size - front) = size
      BY <1>1, <1>3, <1>6, <1>9, <1>10, <2>1
    <2>3. need = IF size - request < 5 THEN size ELSE request
      BY <1>7, <2>2
    <2>4. need \in Int /\ need >= request /\ need <= size
      BY <1>1, <1>3, <2>1, <2>3
    <2>5. rest = size - need
      BY <1>1, <1>8, <1>9, <2>2, <2>4, <1>3
    <2>6. rest = 0 \/ rest >= 5
      BY <1>1, <1>3, <2>3, <2>5
    <2> QED
      BY <1>1, <1>3, <1>6, <1>10, <2>4, <2>5, <2>6 DEF size, front, need, rest, hole
  <1>11. CASE align
    <2>5. /\ front >= HEADER + FOOTER
          /\ size - front - request = 0 \/ size - front - request >= HEADER + FOOTER
      BY <1>11, Zenon DEF CanCut
    <2>1. front >= 5 /\ (size - front - request = 0 \/ size - front - request >= 5)
      BY <1>2, <2>5
    <2> HIDE DEF size, front, need, rest, hole
    <2>2. /\ Wrap(size - request) = size - request /\ Wrap(size - front) = size - front
          /\ Wrap(front) = front /\ size - request >= 5
      BY <1>1, <1>3, <1>6, <1>9, <2>1
    <2>3. need = request
      BY <1>1, <1>3, <1>7, <2>2
    <2>4. rest = size - front - request
      BY <1>1, <1>3, <1>6, <1>8, <1>9, <2>1, <2>2, <2>3
    <2>6. /\ front \in Int /\ need \in Int /\ rest \in Int
          /\ front >= 5 /\ Wrap(front) = front
          /\ need >= request /\ request >= 6 /\ (rest = 0 \/ rest >= 5)
          /\ front + need + rest = size
      BY <1>1, <1>3, <1>6, <2>1, <2>2, <2>3, <2>4
    <2> QED
      BY <1>11, <2>6 DEF size, front, need, rest, hole
  <1> QED
    BY <1>3, <1>10, <1>11

(* Where the parts lie.                                                    *)
Pos(g, i, align) == g.index[i] + FrontSize(g.index[i], align)
Behind(g, i, request, align) == Pos(g, i, align) + Need(g, i, request)

(* What Cut writes, in terms of the parts.                                 *)
LEMMA CutParts ==
  ASSUME NEW g, NEW i, NEW request, NEW align
  PROVE  LET c == Cut(g, i, request, align)
             hole == g.index[i]
             front == FrontSize(g.index[i], align)
             need == Need(g, i, request)
             rest == Rest(g, i, request, align)
             pos == Pos(g, i, align)
             behind == Behind(g, i, request, align)
         IN  /\ c.fronted = IF align THEN PutFooter(PutHeader(g.mem, hole, Wrap(front), 1),
                                                    hole + front - FOOTER, hole)
                                     ELSE g.mem
             /\ c.blocked = PutFooter(PutHeader(c.fronted, pos, need, 0), pos + need - FOOTER, pos)
             /\ c.mem = IF rest > 0
                          THEN IF Wrap(behind + rest - FOOTER) < g.end
                                 THEN PutFooter(PutHeader(c.blocked, behind, rest, 1),
                                                Wrap(behind + rest - FOOTER), behind)
                                 ELSE PutHeader(c.blocked, behind, rest, 1)
                          ELSE c.blocked
             /\ c.dropped = IF align THEN g.index ELSE Drop(g.index, i)
             /\ c.index = IF rest > 0 THEN Insert(c.mem, c.dropped, behind) ELSE c.dropped
             /\ c.address = pos + HEADER
             /\ c.behind = IF rest > 0 THEN {behind} ELSE {}
  <1> DEFINE c == Cut(g, i, request, align)
             hole == g.index[i]
             front == FrontSize(g.index[i], align)
             need == Need(g, i, request)
             rest == Rest(g, i, request, align)
             pos == Pos(g, i, align)
             behind == Behind(g, i, request, align)
             fronted == IF align THEN PutFooter(PutHeader(g.mem, hole, Wrap(front), 1),
                                                hole + front - FOOTER, hole)
                                 ELSE g.mem
             blocked == PutFooter(PutHeader(fronted, pos, need, 0), pos + need - FOOTER, pos)
             headed == PutHeader(blocked, behind, rest, 1)
             last == Wrap(behind + rest - FOOTER)
             rested == IF last < g.end THEN PutFooter(headed, last, behind) ELSE headed
             dropped == IF align THEN g.index ELSE Drop(g.index, i)
  <1>1. c = [mem |-> IF rest > 0 THEN rested ELSE blocked,
             index |-> IF rest > 0 THEN Insert(rested, dropped, behind) ELSE dropped,
             address |-> pos + HEADER,
             fronted |-> fronted, blocked |-> blocked, dropped |-> dropped,
             behind |-> IF rest > 0 THEN {behind} ELSE {}]
    BY Zenon DEF Cut, SizeOf, Need, Rest, Pos, Behind
  <1> HIDE DEF c, pos, behind, rest, rested, fronted, blocked, dropped
  <1>2. /\ c.fronted = fronted
        /\ c.blocked = blocked
        /\ c.mem = IF rest > 0 THEN rested ELSE blocked
        /\ c.dropped = dropped
        /\ c.index = IF rest > 0 THEN Insert(rested, dropped, behind) ELSE dropped
        /\ c.address = pos + HEADER
        /\ c.behind = IF rest > 0 THEN {behind} ELSE {}
    BY <1>1
  <1>3. c.index = IF rest > 0 THEN Insert(c.mem, c.dropped, behind) ELSE c.dropped
    BY Zenon, <1>2
  <1>4. c.mem = IF rest > 0
                  THEN IF Wrap(behind + rest - FOOTER) < g.end
                         THEN PutFooter(PutHeader(c.blocked, behind, rest, 1),
                                        Wrap(behind + rest - FOOTER), behind)
                         ELSE PutHeader(c.blocked, behind, rest, 1)
                  ELSE c.blocked
    BY Zenon, <1>2 DEF rested
  <1> QED
    BY Zenon, <1>2, <1>3, <1>4 DEF c, pos, behind, rest, fronted, blocked, dropped

(* The three blocks that may be written, one after the other.              *)
LEMMA CutWrites ==
  ASSUME NEW g, NEW used, NEW i, NEW request, NEW align, CanCut(g, used, i, request, align)
  PROVE  LET c == Cut(g, i, request, align)
             hole == g.index[i]
             front == FrontSize(g.index[i], align)
             need == Need(g, i, request)
             rest == Rest(g, i, request, align)
             pos == Pos(g, i, align)
             behind == Behind(g, i, request, align)
             top == hole + SizeOf(g, i)
         IN  /\ {c.fronted, c.blocked, c.mem} \subseteq [Address -> Word]
             /\ \A a \in Address : a < hole \/ pos <= a => c.fronted[a] = g.mem[a]
             /\ align => /\ c.fronted[hole] = MAGIC /\ c.fronted[hole + 1] = 1
                         /\ c.fronted[hole + 2] = front
                         /\ c.fronted[pos - 2] = MAGIC /\ c.fronted[pos - 1] = hole
             /\ \A a \in Address : a < pos \/ behind <= a => c.blocked[a] = c.fronted[a]
             /\ c.blocked[pos] = MAGIC /\ c.blocked[pos + 1] = 0 /\ c.blocked[pos + 2] = need
             /\ c.blocked[behind - 2] = MAGIC /\ c.blocked[behind - 1] = pos
             /\ \A a \in Address : a < behind \/ top <= a => c.mem[a] = c.blocked[a]
             /\ rest > 0 => /\ c.mem[behind] = MAGIC /\ c.mem[behind + 1] = 1
                            /\ c.mem[behind + 2] = rest
                            /\ c.mem[top - 2] = MAGIC /\ c.mem[top - 1] = behind
             /\ rest = 0 => c.mem = c.blocked
  <1> DEFINE c == Cut(g, i, request, align)
             hole == g.index[i]
             size == SizeOf(g, i)
             front == FrontSize(hole, align)
             need == Need(g, i, request)
             rest == Rest(g, i, request, align)
             pos == Pos(g, i, align)
             behind == Behind(g, i, request, align)
             top == hole + size
  <1>1. /\ front \in Int /\ need \in Int /\ rest \in Int
        /\ align => front >= 5 /\ Wrap(front) = front
        /\ ~ align => front = 0
        /\ need >= 6 /\ (rest = 0 \/ rest >= 5)
        /\ front + need + rest = size
    <2>1. /\ front \in Int /\ need \in Int /\ rest \in Int
          /\ align => front >= 5 /\ Wrap(front) = front
          /\ ~ align => front = 0
          /\ need >= request /\ request >= 6 /\ (rest = 0 \/ rest >= 5)
          /\ front + need + rest = size
      BY Parts
    <2>2. request \in Nat
      BY DEF CanCut
    <2> HIDE DEF front, need, rest, size
    <2> QED
      BY <2>1, <2>2
  <1>2. /\ hole \in Int /\ size \in Int /\ HeapStart <= hole
        /\ hole + size <= g.end /\ g.end \in Int /\ g.end <= Top + 1
    BY HoleLies
  <1>3. pos = hole + front /\ behind = pos + need
    BY DEF Pos, Behind
  <1>4. /\ c.fronted = IF align THEN PutFooter(PutHeader(g.mem, hole, Wrap(front), 1),
                                               hole + front - FOOTER, hole)
                                ELSE g.mem
        /\ c.blocked = PutFooter(PutHeader(c.fronted, pos, need, 0), pos + need - FOOTER, pos)
        /\ c.mem = IF rest > 0
                     THEN IF Wrap(behind + rest - FOOTER) < g.end
                            THEN PutFooter(PutHeader(c.blocked, behind, rest, 1),
                                           Wrap(behind + rest - FOOTER), behind)
                            ELSE PutHeader(c.blocked, behind, rest, 1)
                     ELSE c.blocked
    BY ZenonT(60) DEF Cut, SizeOf, Need, Rest, Pos, Behind
  <1>5. g.mem \in [Address -> Word] /\ align \in BOOLEAN
    BY DEF CanCut, InShape, Typed
  <1>6. HeapStart \in Nat /\ Top \in Nat /\ FOOTER = 2 /\ 0 \in {0, 1} /\ 1 \in {0, 1}
    BY Numbers
  <1> HIDE DEF c, hole, size, front, need, rest, pos, behind, top
  <1>7. /\ pos \in Int /\ behind \in Int /\ top \in Int
        /\ hole <= pos /\ HeapStart <= pos /\ pos + need = behind /\ behind + rest = top
        /\ HeapStart <= behind /\ top <= g.end /\ top <= Top + 1
        /\ align => pos >= hole + 5
        /\ ~ align => pos = hole
        /\ behind <= top /\ behind >= pos + 6
    BY <1>1, <1>2, <1>3, <1>5, <1>6 DEF top
  <1>8. /\ c.fronted \in [Address -> Word]
        /\ \A a \in Address : a < hole \/ pos <= a => c.fronted[a] = g.mem[a]
        /\ align => /\ c.fronted[hole] = MAGIC /\ c.fronted[hole + 1] = 1
                    /\ c.fronted[hole + 2] = front
                    /\ c.fronted[pos - 2] = MAGIC /\ c.fronted[pos - 1] = hole
    <2>1. CASE ~ align
      BY <1>4, <1>5, <2>1
    <2>2. CASE align
      <3>1. c.fronted = PutFooter(PutHeader(g.mem, hole, front, 1), hole + front - FOOTER, hole)
        BY <1>1, <1>4, <2>2
      <3>2. hole + front <= Top + 1 /\ front >= 5
        BY <1>1, <1>2, <1>3, <1>6, <1>7, <2>2
      <3>3. hole + front - FOOTER = pos - 2 /\ pos <= Top + 1
        BY <1>1, <1>2, <1>3, <1>6, <3>2
      <3> QED
        BY <1>1, <1>2, <1>3, <1>5, <1>6, <1>7, <3>1, <3>2, <3>3, BlockStored, <2>2
    <2> QED
      BY <2>1, <2>2
  <1>9. /\ c.blocked \in [Address -> Word]
        /\ \A a \in Address : a < pos \/ behind <= a => c.blocked[a] = c.fronted[a]
        /\ c.blocked[pos] = MAGIC /\ c.blocked[pos + 1] = 0 /\ c.blocked[pos + 2] = need
        /\ c.blocked[behind - 2] = MAGIC /\ c.blocked[behind - 1] = pos
    <2>1. pos + need <= Top + 1 /\ need >= 5
      BY <1>1, <1>6, <1>7
    <2>2. pos + need - FOOTER = behind - 2 /\ behind = pos + need /\ behind <= Top + 1
      BY <1>1, <1>6, <1>7, <2>1
    <2>3. c.blocked = PutFooter(PutHeader(c.fronted, pos, need, 0), pos + need - FOOTER, pos)
      BY <1>4
    <2> QED
      BY <1>1, <1>6, <1>7, <1>8, <2>1, <2>2, <2>3, BlockStored
  <1>10. /\ c.mem \in [Address -> Word]
         /\ \A a \in Address : a < behind \/ top <= a => c.mem[a] = c.blocked[a]
         /\ rest > 0 => /\ c.mem[behind] = MAGIC /\ c.mem[behind + 1] = 1
                        /\ c.mem[behind + 2] = rest
                        /\ c.mem[top - 2] = MAGIC /\ c.mem[top - 1] = behind
         /\ rest = 0 => c.mem = c.blocked
    <2>1. CASE rest = 0
      BY <1>4, <1>9, <2>1
    <2>2. CASE rest >= 5
      <3>1. behind + rest - FOOTER \in Int /\ behind + rest - FOOTER = top - 2
        BY <1>1, <1>6, <1>7
      <3>2. 0 <= top - 2 /\ top - 2 <= Top + 1 /\ top - 2 < g.end
        BY <1>2, <1>6, <1>7, <2>2
      <3>3. Wrap(behind + rest - FOOTER) = behind + rest - FOOTER
        <4>1. behind + rest - FOOTER \in Word
          BY <3>1, <3>2, Addresses
        <4> QED
          BY <4>1, WrapOfWord
      <3>4. c.mem = PutFooter(PutHeader(c.blocked, behind, rest, 1), behind + rest - FOOTER, behind)
        <4>1. rest > 0
          BY <1>1, <2>2
        <4>2. Wrap(behind + rest - FOOTER) < g.end
          BY <3>1, <3>2, <3>3
        <4> QED
          BY <1>4, <3>3, <4>1, <4>2, Zenon
      <3>5. behind + rest <= Top + 1
        BY <1>7
      <3>6. top = behind + rest
        BY <1>7
      <3>7. ~ (rest = 0)
        BY <1>1, <2>2
      <3>8. /\ c.mem \in [Address -> Word]
            /\ c.mem[behind] = MAGIC /\ c.mem[behind + 1] = 1 /\ c.mem[behind + 2] = rest
            /\ c.mem[top - 2] = MAGIC /\ c.mem[top - 1] = behind
            /\ \A a \in Address : a < behind \/ top <= a => c.mem[a] = c.blocked[a]
        <4>1. rest \in Int /\ behind \in Int /\ HeapStart <= behind /\ top \in Int /\ 1 \in {0, 1}
          BY <1>1, <1>6, <1>7
        <4>2. top <= Top + 1 /\ c.blocked \in [Address -> Word]
          BY <1>7, <1>9
        <4>3. behind + rest - FOOTER = top - 2
          BY <3>1
        <4> QED
          BY <2>2, <3>4, <3>6, <4>1, <4>2, <4>3, BlockStored
      <3> QED
        BY <3>7, <3>8
    <2> QED
      BY <1>1, <2>1, <2>2
  <1> QED
    BY <1>8, <1>9, <1>10 DEF c, hole, size, front, need, rest, pos, behind, top

(* Where the parts of the block begin and end.                             *)
LEMMA PartsLie ==
  ASSUME NEW g, NEW used, NEW i, NEW request, NEW align, CanCut(g, used, i, request, align)
  PROVE  LET hole == g.index[i]
             front == FrontSize(hole, align)
             need == Need(g, i, request)
             rest == Rest(g, i, request, align)
             pos == Pos(g, i, align)
             behind == Behind(g, i, request, align)
             top == EndOf(g.mem, hole)
         IN  /\ {hole, front, need, rest, pos, behind, top, g.end} \subseteq Int
             /\ hole \in Range(g.index) /\ HeapStart <= hole
             /\ pos = hole + front /\ behind = pos + need /\ top = behind + rest
             /\ top <= g.end /\ g.end <= Top + 1
             /\ align => front >= 5
             /\ ~ align => front = 0
             /\ need >= request /\ need >= 6 /\ (rest = 0 \/ rest >= 5)
             /\ top = hole + SizeOf(g, i)
  <1>1. LET front == FrontSize(g.index[i], align)
            need == Need(g, i, request)
            rest == Rest(g, i, request, align)
        IN  /\ front \in Int /\ need \in Int /\ rest \in Int
            /\ align => front >= 5 /\ Wrap(front) = front
            /\ ~ align => front = 0
            /\ need >= request /\ request >= 6 /\ (rest = 0 \/ rest >= 5)
            /\ front + need + rest = SizeOf(g, i)
    BY Parts
  <1>2. LET hole == g.index[i]
        IN  /\ hole \in Range(g.index) /\ hole \in Int /\ HeapStart <= hole
            /\ SizeOf(g, i) \in Int /\ SizeOf(g, i) >= 5
            /\ EndOf(g.mem, hole) = hole + SizeOf(g, i)
            /\ hole + SizeOf(g, i) <= g.end /\ g.end \in Int /\ g.end <= Top + 1
    BY HoleLies
  <1>3. /\ Pos(g, i, align) = g.index[i] + FrontSize(g.index[i], align)
        /\ Behind(g, i, request, align) = Pos(g, i, align) + Need(g, i, request)
    BY DEF Pos, Behind
  <1>4. request \in Nat
    BY DEF CanCut
  <1> QED
    BY <1>1, <1>2, <1>3, <1>4

(* The words of the parts in the memories that Cut goes through.           *)
LEMMA CutPieces ==
  ASSUME NEW g, NEW used, NEW i, NEW request, NEW align, CanCut(g, used, i, request, align)
  PROVE  LET c == Cut(g, i, request, align)
             hole == g.index[i]
             front == FrontSize(hole, align)
             need == Need(g, i, request)
             rest == Rest(g, i, request, align)
             pos == Pos(g, i, align)
             behind == Behind(g, i, request, align)
             top == EndOf(g.mem, hole)
         IN  /\ \A m \in {c.fronted, c.blocked, c.mem} :
                  /\ m \in [Address -> Word]
                  /\ \A a \in Address : a < hole \/ top <= a => m[a] = g.mem[a]
                  /\ align => /\ m[hole] = MAGIC /\ m[hole + 1] = 1 /\ m[hole + 2] = front
                              /\ m[pos - 2] = MAGIC /\ m[pos - 1] = hole
             /\ \A m \in {c.blocked, c.mem} :
                  /\ m[pos] = MAGIC /\ m[pos + 1] = 0 /\ m[pos + 2] = need
                  /\ m[behind - 2] = MAGIC /\ m[behind - 1] = pos
             /\ rest > 0 => /\ c.mem[behind] = MAGIC /\ c.mem[behind + 1] = 1
                            /\ c.mem[behind + 2] = rest
                            /\ c.mem[top - 2] = MAGIC /\ c.mem[top - 1] = behind
  <1> DEFINE c == Cut(g, i, request, align)
             hole == g.index[i]
             front == FrontSize(hole, align)
             need == Need(g, i, request)
             rest == Rest(g, i, request, align)
             pos == Pos(g, i, align)
             behind == Behind(g, i, request, align)
             top == EndOf(g.mem, hole)
  <1>1. /\ {hole, front, need, rest, pos, behind, top, g.end} \subseteq Int
        /\ HeapStart <= hole
        /\ pos = hole + front /\ behind = pos + need /\ top = behind + rest
        /\ top <= g.end /\ g.end <= Top + 1
        /\ align => front >= 5
        /\ ~ align => front = 0
        /\ need >= request /\ need >= 6 /\ (rest = 0 \/ rest >= 5)
        /\ top = hole + SizeOf(g, i)
    BY PartsLie
  <1>2. LET t == hole + SizeOf(g, i)
        IN  /\ {c.fronted, c.blocked, c.mem} \subseteq [Address -> Word]
            /\ \A a \in Address : a < hole \/ pos <= a => c.fronted[a] = g.mem[a]
            /\ align => /\ c.fronted[hole] = MAGIC /\ c.fronted[hole + 1] = 1
                        /\ c.fronted[hole + 2] = front
                        /\ c.fronted[pos - 2] = MAGIC /\ c.fronted[pos - 1] = hole
            /\ \A a \in Address : a < pos \/ behind <= a => c.blocked[a] = c.fronted[a]
            /\ c.blocked[pos] = MAGIC /\ c.blocked[pos + 1] = 0 /\ c.blocked[pos + 2] = need
            /\ c.blocked[behind - 2] = MAGIC /\ c.blocked[behind - 1] = pos
            /\ \A a \in Address : a < behind \/ t <= a => c.mem[a] = c.blocked[a]
            /\ rest > 0 => /\ c.mem[behind] = MAGIC /\ c.mem[behind + 1] = 1
                           /\ c.mem[behind + 2] = rest
                           /\ c.mem[t - 2] = MAGIC /\ c.mem[t - 1] = behind
            /\ rest = 0 => c.mem = c.blocked
    BY CutWrites
  <1> HIDE DEF c, hole, front, need, rest, pos, behind, top
  <1>3. /\ {c.fronted, c.blocked, c.mem} \subseteq [Address -> Word]
        /\ \A a \in Address : a < hole \/ pos <= a => c.fronted[a] = g.mem[a]
        /\ align => /\ c.fronted[hole] = MAGIC /\ c.fronted[hole + 1] = 1
                    /\ c.fronted[hole + 2] = front
                    /\ c.fronted[pos - 2] = MAGIC /\ c.fronted[pos - 1] = hole
        /\ \A a \in Address : a < pos \/ behind <= a => c.blocked[a] = c.fronted[a]
        /\ c.blocked[pos] = MAGIC /\ c.blocked[pos + 1] = 0 /\ c.blocked[pos + 2] = need
        /\ c.blocked[behind - 2] = MAGIC /\ c.blocked[behind - 1] = pos
        /\ \A a \in Address : a < behind \/ top <= a => c.mem[a] = c.blocked[a]
        /\ rest > 0 => /\ c.mem[behind] = MAGIC /\ c.mem[behind + 1] = 1
                       /\ c.mem[behind + 2] = rest
                       /\ c.mem[top - 2] = MAGIC /\ c.mem[top - 1] = behind
    BY <1>1, <1>2
  <1>4. HeapStart \in Nat /\ Top \in Nat /\ align \in BOOLEAN
    BY Numbers DEF CanCut
  <1>5. /\ {hole, front, need, rest, pos, behind, top} \subseteq Int
        /\ HeapStart <= hole /\ hole <= pos /\ pos + 6 <= behind /\ behind <= top
        /\ top <= Top + 1
        /\ align => hole + 5 <= pos
    BY <1>1, <1>4
  <1>6. \A a \in Address : a \in Int
    BY Addresses
  <1>7. \A a \in {hole, hole + 1, hole + 2, pos - 2, pos - 1} : align => a \in Address /\ a < pos
    BY <1>4, <1>5, Addresses
  <1>8. \A a \in {pos, pos + 1, pos + 2, behind - 2, behind - 1} : a \in Address /\ a < behind
    BY <1>4, <1>5, Addresses
  <1>9. \A a \in Address : a < hole \/ top <= a =>
          /\ c.fronted[a] = g.mem[a] /\ c.blocked[a] = g.mem[a] /\ c.mem[a] = g.mem[a]
    BY <1>3, <1>5, <1>6
  <1>10. \A a \in Address : a < pos => c.blocked[a] = c.fronted[a] /\ c.mem[a] = c.fronted[a]
    BY <1>3, <1>5, <1>6
  <1>11. \A a \in Address : a < behind => c.mem[a] = c.blocked[a]
    BY <1>3
  <1>12. \A m \in {c.fronted, c.blocked, c.mem} :
           /\ m \in [Address -> Word]
           /\ \A a \in Address : a < hole \/ top <= a => m[a] = g.mem[a]
           /\ align => /\ m[hole] = MAGIC /\ m[hole + 1] = 1 /\ m[hole + 2] = front
                       /\ m[pos - 2] = MAGIC /\ m[pos - 1] = hole
    BY <1>3, <1>7, <1>9, <1>10
  <1>13. \A m \in {c.blocked, c.mem} :
           /\ m[pos] = MAGIC /\ m[pos + 1] = 0 /\ m[pos + 2] = need
           /\ m[behind - 2] = MAGIC /\ m[behind - 1] = pos
    BY <1>3, <1>8, <1>11
  <1> QED
    BY <1>3, <1>12, <1>13 DEF c, hole, front, need, rest, pos, behind, top

(* Blocks that lie apart in place of a free block replace it.              *)
LEMMA PiecesReplace ==
  ASSUME NEW m, NEW free, NEW used, NEW end,
         Typed(m, free, used, end), LieApart(m, free, used, end), NEW hole \in free,
         NEW m2 \in [Address -> Word], NEW F, NEW U, F \cap U = {},
         \A a \in Address : a < hole \/ EndOf(m, hole) <= a => m2[a] = m[a],
         \A p \in F \cup U : /\ p \in Int /\ hole <= p /\ Size(m2, p) \in Int /\ Size(m2, p) >= 5
                             /\ EndOf(m2, p) <= EndOf(m, hole),
         \A p, q \in F \cup U : p < q => EndOf(m2, p) <= q
  PROVE  Replaces(m, free, used, {hole}, hole, EndOf(m, hole), m2, F, U)
  <1> DEFINE top == EndOf(m, hole)
  <1>1. \A h \in free \cup used : h \in Int /\ EndOf(m, h) \in Int /\ HeapStart <= h
    <2> TAKE h \in free \cup used
    <2>1. h \in HeapStart .. Top /\ EndOf(m, h) \in Int
      BY BlockLies
    <2> QED
      BY <2>1, Numbers
  <1>2. \A h \in (free \cup used) \ {hole} : EndOf(m, h) <= hole \/ top <= h
    BY <1>1 DEF LieApart
  <1>3. \A p \in F \cup U : /\ p \in Int /\ hole <= p /\ p + 3 <= top
                            /\ Size(m2, p) >= 5 /\ EndOf(m2, p) <= top
    <2> TAKE p \in F \cup U
    <2>1. EndOf(m2, p) = p + Size(m2, p)
      BY DEF EndOf
    <2>2. top \in Int
      BY <1>1
    <2> HIDE DEF top
    <2>3. EndOf(m2, p) <= top /\ p \in Int /\ Size(m2, p) \in Int /\ Size(m2, p) >= 5 /\ hole <= p
      BY DEF top
    <2>4. p + 3 <= top
      BY <2>1, <2>2, <2>3
    <2> QED
      BY <2>3, <2>4
  <1>4. hole \in Int /\ top \in Int /\ HeapStart <= hole
    BY <1>1
  <1> QED
    BY <1>2, <1>3, <1>4 DEF Replaces

(* The free block that stays in front.                                     *)
InFront(g, i, align) == IF align THEN {g.index[i]} ELSE {}

(* What replaces the block that is cut, in each of the memories.           *)
LEMMA CutReplaces ==
  ASSUME NEW g, NEW used, NEW i, NEW request, NEW align, CanCut(g, used, i, request, align)
  PROVE  LET c == Cut(g, i, request, align)
             free == Range(g.index)
             hole == g.index[i]
             top == EndOf(g.mem, hole)
             front == InFront(g, i, align)
             pos == Pos(g, i, align)
         IN  /\ Replaces(g.mem, free, used, {hole}, hole, top, c.fronted, front, {})
             /\ Replaces(g.mem, free, used, {hole}, hole, top, c.blocked, front, {pos})
             /\ Replaces(g.mem, free, used, {hole}, hole, top, c.mem, front \cup c.behind, {pos})
  <1> DEFINE c == Cut(g, i, request, align)
             free == Range(g.index)
             hole == g.index[i]
             top == EndOf(g.mem, hole)
             Front1 == InFront(g, i, align)
             front == FrontSize(hole, align)
             need == Need(g, i, request)
             rest == Rest(g, i, request, align)
             pos == Pos(g, i, align)
             behind == Behind(g, i, request, align)
  <1>1. /\ {hole, front, need, rest, pos, behind, top, g.end} \subseteq Int
        /\ hole \in free /\ HeapStart <= hole
        /\ pos = hole + front /\ behind = pos + need /\ top = behind + rest
        /\ top <= g.end /\ g.end <= Top + 1
        /\ align => front >= 5
        /\ ~ align => front = 0
        /\ need >= request /\ need >= 6 /\ (rest = 0 \/ rest >= 5)
    BY PartsLie
  <1>2. /\ \A m \in {c.fronted, c.blocked, c.mem} :
             /\ m \in [Address -> Word]
             /\ \A a \in Address : a < hole \/ top <= a => m[a] = g.mem[a]
             /\ align => m[hole + 2] = front
        /\ \A m \in {c.blocked, c.mem} : m[pos + 2] = need
        /\ rest > 0 => c.mem[behind + 2] = rest
    <2>1. /\ \A m \in {c.fronted, c.blocked, c.mem} :
               /\ m \in [Address -> Word]
               /\ \A a \in Address : a < hole \/ top <= a => m[a] = g.mem[a]
               /\ align => /\ m[hole] = MAGIC /\ m[hole + 1] = 1 /\ m[hole + 2] = front
                           /\ m[pos - 2] = MAGIC /\ m[pos - 1] = hole
          /\ \A m \in {c.blocked, c.mem} :
               /\ m[pos] = MAGIC /\ m[pos + 1] = 0 /\ m[pos + 2] = need
               /\ m[behind - 2] = MAGIC /\ m[behind - 1] = pos
          /\ rest > 0 => /\ c.mem[behind] = MAGIC /\ c.mem[behind + 1] = 1
                         /\ c.mem[behind + 2] = rest
                         /\ c.mem[top - 2] = MAGIC /\ c.mem[top - 1] = behind
      BY CutPieces
    <2> HIDE DEF c, hole, front, need, rest, pos, behind, top
    <2> QED
      BY <2>1
  <1>3. c.behind = IF rest > 0 THEN {behind} ELSE {}
    BY CutParts
  <1>4. Front1 = IF align THEN {hole} ELSE {}
    BY DEF InFront
  <1>5. Typed(g.mem, free, used, g.end) /\ LieApart(g.mem, free, used, g.end) /\ align \in BOOLEAN
    BY DEF CanCut, InShape
  <1> HIDE DEF c, free, hole, Front1, front, need, rest, pos, behind, top
  <1>6. \A m \in {c.fronted, c.blocked, c.mem} : \A p \in Front1 :
          p = hole /\ Size(m, p) = front /\ EndOf(m, p) = pos /\ front >= 5 /\ align
    BY <1>1, <1>2, <1>4 DEF Size, EndOf
  <1>7. \A m \in {c.blocked, c.mem} : Size(m, pos) = need /\ EndOf(m, pos) = behind
    BY <1>1, <1>2 DEF Size, EndOf
  <1>8. \A p \in c.behind :
          p = behind /\ Size(c.mem, p) = rest /\ EndOf(c.mem, p) = top /\ rest >= 5
    BY <1>1, <1>2, <1>3 DEF Size, EndOf
  <1>9. /\ hole <= pos /\ pos + 6 <= behind /\ behind <= top /\ need >= 5
        /\ align => hole + 5 <= pos
    BY <1>1, <1>5
  <1>10. Replaces(g.mem, free, used, {hole}, hole, top, c.fronted, Front1, {})
    <2>1. \A p \in Front1 \cup {} :
            /\ p \in Int /\ hole <= p /\ Size(c.fronted, p) \in Int /\ Size(c.fronted, p) >= 5
            /\ EndOf(c.fronted, p) <= EndOf(g.mem, hole)
      BY <1>1, <1>6, <1>9 DEF top
    <2>2. \A p, q \in Front1 \cup {} : p < q => EndOf(c.fronted, p) <= q
      BY <1>1, <1>6
    <2>3. \A a \in Address : a < hole \/ EndOf(g.mem, hole) <= a => c.fronted[a] = g.mem[a]
      BY <1>2 DEF top
    <2> QED
      BY <1>1, <1>2, <1>5, <2>1, <2>2, <2>3, PiecesReplace DEF top
  <1>11. Replaces(g.mem, free, used, {hole}, hole, top, c.blocked, Front1, {pos})
    <2>1. \A p \in Front1 \cup {pos} :
            /\ p \in Int /\ hole <= p /\ Size(c.blocked, p) \in Int /\ Size(c.blocked, p) >= 5
            /\ EndOf(c.blocked, p) <= EndOf(g.mem, hole)
      <3> TAKE p \in Front1 \cup {pos}
      <3>1. CASE p \in Front1
        BY <1>1, <1>6, <1>9, <3>1 DEF top
      <3>2. CASE p = pos
        BY <1>1, <1>7, <1>9, <3>2 DEF top
      <3> QED
        BY <3>1, <3>2
    <2>2. \A p, q \in Front1 \cup {pos} : p < q => EndOf(c.blocked, p) <= q
      BY <1>1, <1>6, <1>7, <1>9
    <2>3. \A a \in Address : a < hole \/ EndOf(g.mem, hole) <= a => c.blocked[a] = g.mem[a]
      BY <1>2 DEF top
    <2>4. Front1 \cap {pos} = {}
      BY <1>1, <1>6, <1>9
    <2> QED
      BY <1>1, <1>2, <1>5, <2>1, <2>2, <2>3, <2>4, PiecesReplace DEF top
  <1>12. Replaces(g.mem, free, used, {hole}, hole, top, c.mem, Front1 \cup c.behind, {pos})
    <2>1. \A p \in (Front1 \cup c.behind) \cup {pos} :
            /\ p \in Int /\ hole <= p /\ Size(c.mem, p) \in Int /\ Size(c.mem, p) >= 5
            /\ EndOf(c.mem, p) <= EndOf(g.mem, hole)
      <3> TAKE p \in (Front1 \cup c.behind) \cup {pos}
      <3>1. CASE p \in Front1
        BY <1>1, <1>6, <1>9, <3>1 DEF top
      <3>2. CASE p = pos
        BY <1>1, <1>7, <1>9, <3>2 DEF top
      <3>3. CASE p \in c.behind
        BY <1>1, <1>8, <1>9, <3>3 DEF top
      <3> QED
        BY <3>1, <3>2, <3>3
    <2>2. \A p, q \in (Front1 \cup c.behind) \cup {pos} : p < q => EndOf(c.mem, p) <= q
      <3> TAKE p, q \in (Front1 \cup c.behind) \cup {pos}
      <3>1. CASE p \in Front1
        <4>1. p = hole /\ EndOf(c.mem, p) = pos
          BY <1>6, <3>1
        <4>2. q \in {hole, pos, behind}
          BY <1>6, <1>8
        <4> QED
          BY <1>1, <1>9, <4>1, <4>2
      <3>2. CASE p = pos
        <4>1. EndOf(c.mem, p) = behind
          BY <1>7, <3>2
        <4>2. q \in {hole, pos, behind}
          BY <1>6, <1>8
        <4> QED
          BY <1>1, <1>9, <3>2, <4>1, <4>2
      <3>3. CASE p \in c.behind
        <4>1. p = behind /\ q \in {hole, pos, behind}
          BY <1>6, <1>8, <3>3
        <4> QED
          BY <1>1, <1>9, <4>1
      <3> QED
        BY <3>1, <3>2, <3>3
    <2>3. \A a \in Address : a < hole \/ EndOf(g.mem, hole) <= a => c.mem[a] = g.mem[a]
      BY <1>2 DEF top
    <2>4. (Front1 \cup c.behind) \cap {pos} = {}
      BY <1>1, <1>6, <1>8, <1>9
    <2> QED
      BY <1>1, <1>2, <1>5, <2>1, <2>2, <2>3, <2>4, PiecesReplace DEF top
  <1> QED
    BY <1>10, <1>11, <1>12 DEF c, free, hole, Front1, pos, top

(* What the index holds then.                                              *)
LEMMA CutIndex ==
  ASSUME NEW g, NEW used, NEW i, NEW request, NEW align, CanCut(g, used, i, request, align)
  PROVE  LET c == Cut(g, i, request, align)
             free == Range(g.index)
             hole == g.index[i]
             front == InFront(g, i, align)
         IN  /\ c.dropped \in Seq(Address) /\ IsInjective(c.dropped)
             /\ Range(c.dropped) = (free \ {hole}) \cup front
             /\ c.index \in Seq(Address) /\ IsInjective(c.index)
             /\ Range(c.index) = (free \ {hole}) \cup front \cup c.behind
             /\ c.behind \subseteq Address /\ c.behind \cap (free \cup used) = {}
             /\ front \subseteq {hole} /\ hole \in free
             /\ Pos(g, i, align) \notin free \ {hole} /\ Pos(g, i, align) \notin used
  <1> DEFINE c == Cut(g, i, request, align)
             free == Range(g.index)
             hole == g.index[i]
             top == EndOf(g.mem, hole)
             front == FrontSize(hole, align)
             need == Need(g, i, request)
             rest == Rest(g, i, request, align)
             pos == Pos(g, i, align)
             behind == Behind(g, i, request, align)
  <1>1. /\ {hole, front, need, rest, pos, behind, top, g.end} \subseteq Int
        /\ hole \in free /\ HeapStart <= hole
        /\ pos = hole + front /\ behind = pos + need /\ top = behind + rest
        /\ top <= g.end /\ g.end <= Top + 1
        /\ align => front >= 5
        /\ ~ align => front = 0
        /\ need >= request /\ need >= 6 /\ (rest = 0 \/ rest >= 5)
    BY PartsLie
  <1>2. /\ c.behind = IF rest > 0 THEN {behind} ELSE {}
        /\ c.dropped = IF align THEN g.index ELSE Drop(g.index, i)
        /\ c.index = IF rest > 0 THEN Insert(c.mem, c.dropped, behind) ELSE c.dropped
    BY ZenonT(60) DEF Cut, SizeOf, Need, Rest, Pos, Behind
  <1>3. InFront(g, i, align) = IF align THEN {hole} ELSE {}
    BY DEF InFront
  <1>4. /\ LieApart(g.mem, free, used, g.end) /\ align \in BOOLEAN
        /\ g.index \in Seq(Address) /\ IsInjective(g.index) /\ i \in 1 .. Len(g.index)
    BY DEF CanCut, InShape
  <1>5. /\ c.dropped \in Seq(Address) /\ IsInjective(c.dropped)
        /\ Range(c.dropped) = (free \ {hole}) \cup InFront(g, i, align)
    <2>1. CASE align
      BY <1>1, <1>2, <1>3, <1>4, <2>1
    <2>2. CASE ~ align
      <3>1. /\ Drop(g.index, i) \in Seq(Address)
            /\ IsInjective(Drop(g.index, i)) /\ Range(Drop(g.index, i)) = free \ {hole}
        BY <1>4, Dropped
      <3> HIDE DEF c
      <3> QED
        BY <1>2, <1>3, <2>2, <3>1
    <2> QED
      BY <2>1, <2>2
  <1> HIDE DEF c, free, hole, front, need, rest, pos, behind, top
  <1>6. \A h \in free \cup used : hole < h => top <= h
    BY <1>1, <1>4 DEF LieApart, top
  <1>7. free \cap used = {} /\ used \subseteq Int /\ free \subseteq Int
    BY <1>4 DEF LieApart, CanCut, InShape, Typed, free
  <1>8. /\ hole <= pos /\ pos < top /\ hole < behind /\ behind <= top
        /\ rest > 0 => behind < top
    <2>1. align \in BOOLEAN
      BY DEF CanCut
    <2> QED
      BY <1>1, <2>1
  <1>9. pos \notin used /\ pos \notin free \ {hole}
    BY <1>1, <1>6, <1>7, <1>8
  <1>10. rest > 0 => behind \notin free \cup used
    BY <1>1, <1>6, <1>7, <1>8
  <1>11. rest > 0 => behind \in Address
    BY <1>1, <1>8, Addresses, Numbers
  <1>12. c.behind \subseteq Address /\ c.behind \cap (free \cup used) = {}
    BY <1>2, <1>10, <1>11
  <1>13. InFront(g, i, align) \subseteq {hole}
    BY <1>3
  <1>14. /\ c.index \in Seq(Address) /\ IsInjective(c.index)
         /\ Range(c.index) = (free \ {hole}) \cup InFront(g, i, align) \cup c.behind
    <2>1. CASE rest > 0
      <3>1. behind \notin Range(c.dropped)
        BY <1>1, <1>5, <1>10, <1>13, <2>1
      <3>2. /\ Insert(c.mem, c.dropped, behind) \in Seq(Address)
            /\ Range(Insert(c.mem, c.dropped, behind)) = Range(c.dropped) \cup {behind}
            /\ IsInjective(Insert(c.mem, c.dropped, behind))
        BY <1>5, <1>11, <2>1, <3>1, Inserted
      <3> QED
        BY <1>2, <1>5, <2>1, <3>2
    <2>2. CASE ~ (rest > 0)
      BY <1>2, <1>5, <2>2
    <2> QED
      BY <2>1, <2>2
  <1> QED
    BY <1>1, <1>5, <1>9, <1>12, <1>13, <1>14 DEF c, free, hole, pos

(* The blocks lie apart while Cut writes, and the others keep their words. *)
LEMMA CutKeepsApart ==
  ASSUME NEW g, NEW used, NEW i, NEW request, NEW align, CanCut(g, used, i, request, align)
  PROVE  LET c == Cut(g, i, request, align)
             pos == Pos(g, i, align)
         IN  /\ Typed(c.fronted, Range(c.dropped), used, g.end)
             /\ LieApart(c.fronted, Range(c.dropped), used, g.end)
             /\ Typed(c.blocked, Range(c.dropped), used \cup {pos}, g.end)
             /\ LieApart(c.blocked, Range(c.dropped), used \cup {pos}, g.end)
             /\ Typed(c.mem, Range(c.index), used \cup {pos}, g.end)
             /\ LieApart(c.mem, Range(c.index), used \cup {pos}, g.end)
             /\ pos \notin used
  <1> DEFINE c == Cut(g, i, request, align)
             free == Range(g.index)
             hole == g.index[i]
             top == EndOf(g.mem, hole)
             front == InFront(g, i, align)
             pos == Pos(g, i, align)
  <1>1. /\ Replaces(g.mem, free, used, {hole}, hole, top, c.fronted, front, {})
        /\ Replaces(g.mem, free, used, {hole}, hole, top, c.blocked, front, {pos})
        /\ Replaces(g.mem, free, used, {hole}, hole, top, c.mem, front \cup c.behind, {pos})
    BY CutReplaces
  <1>2. /\ Range(c.dropped) = (free \ {hole}) \cup front
        /\ Range(c.index) = (free \ {hole}) \cup front \cup c.behind
        /\ hole \in free
        /\ pos \notin used
    BY CutIndex
  <1>3. Typed(g.mem, free, used, g.end) /\ LieApart(g.mem, free, used, g.end)
    BY DEF CanCut, InShape
  <1>4. top <= g.end
    BY PartsLie
  <1> HIDE DEF c, free, hole, top, front, pos
  <1>5. used \ {hole} = used
    BY <1>2, <1>3 DEF LieApart
  <1>6. /\ Typed(c.fronted, Range(c.dropped), used, g.end)
        /\ LieApart(c.fronted, Range(c.dropped), used, g.end)
    <2>1. /\ Typed(c.fronted, (free \ {hole}) \cup front, (used \ {hole}) \cup {}, g.end)
          /\ LieApart(c.fronted, (free \ {hole}) \cup front, (used \ {hole}) \cup {}, g.end)
      BY <1>1, <1>3, <1>4, ReplacedApart
    <2>2. (used \ {hole}) \cup {} = used
      BY <1>5
    <2> QED
      BY <1>2, <2>1, <2>2
  <1>7. /\ Typed(c.blocked, Range(c.dropped), used \cup {pos}, g.end)
        /\ LieApart(c.blocked, Range(c.dropped), used \cup {pos}, g.end)
    <2>1. /\ Typed(c.blocked, (free \ {hole}) \cup front, (used \ {hole}) \cup {pos}, g.end)
          /\ LieApart(c.blocked, (free \ {hole}) \cup front, (used \ {hole}) \cup {pos}, g.end)
      BY <1>1, <1>3, <1>4, ReplacedApart
    <2> QED
      BY <1>2, <1>5, <2>1
  <1>8. /\ Typed(c.mem, Range(c.index), used \cup {pos}, g.end)
        /\ LieApart(c.mem, Range(c.index), used \cup {pos}, g.end)
    <2>1. /\ Typed(c.mem, (free \ {hole}) \cup (front \cup c.behind),
                   (used \ {hole}) \cup {pos}, g.end)
          /\ LieApart(c.mem, (free \ {hole}) \cup (front \cup c.behind),
                      (used \ {hole}) \cup {pos}, g.end)
      BY <1>1, <1>3, <1>4, ReplacedApart
    <2>2. Range(c.index) = (free \ {hole}) \cup (front \cup c.behind)
      BY <1>2
    <2> QED
      BY <1>5, <2>1, <2>2
  <1> QED
    BY <1>2, <1>6, <1>7, <1>8 DEF c, pos

(* The blocks in use keep their sizes and their words.                     *)
LEMMA CutKeepsUsed ==
  ASSUME NEW g, NEW used, NEW i, NEW request, NEW align, CanCut(g, used, i, request, align),
         NEW c, c = Cut(g, i, request, align),
         NEW m \in {c.fronted, c.blocked, c.mem}, NEW h \in used
  PROVE  /\ Size(m, h) = Size(g.mem, h)
         /\ \A a \in h .. EndOf(g.mem, h) - 1 : a \in Address /\ m[a] = g.mem[a]
  <1> DEFINE free == Range(g.index)
             hole == g.index[i]
             top == EndOf(g.mem, hole)
             front == InFront(g, i, align)
             pos == Pos(g, i, align)
  <1>1. /\ Replaces(g.mem, free, used, {hole}, hole, top, c.fronted, front, {})
        /\ Replaces(g.mem, free, used, {hole}, hole, top, c.blocked, front, {pos})
        /\ Replaces(g.mem, free, used, {hole}, hole, top, c.mem, front \cup c.behind, {pos})
    BY CutReplaces
  <1>2. hole \in free
    BY CutIndex
  <1>3. Typed(g.mem, free, used, g.end) /\ LieApart(g.mem, free, used, g.end)
    BY DEF CanCut, InShape
  <1> HIDE DEF free, hole, top, front, pos
  <1>4. h \in (free \cup used) \ {hole}
    BY <1>2, <1>3 DEF LieApart
  <1>5. ASSUME NEW k, NEW F, NEW U, Replaces(g.mem, free, used, {hole}, hole, top, k, F, U)
        PROVE  /\ Size(k, h) = Size(g.mem, h)
               /\ \A a \in h .. EndOf(g.mem, h) - 1 : a \in Address /\ k[a] = g.mem[a]
    BY <1>3, <1>4, <1>5, OthersStay
  <1>6. CASE m = c.fronted
    BY <1>1, <1>5, <1>6
  <1>7. CASE m = c.blocked
    BY <1>1, <1>5, <1>7
  <1>8. CASE m = c.mem
    BY <1>1, <1>5, <1>8
  <1> QED
    BY <1>6, <1>7, <1>8

(* Blocks that met end to end still do, and their footers name them.       *)
LEMMA CutKeepsOrder ==
  ASSUME NEW g, NEW used, NEW i, NEW request, NEW align, CanCut(g, used, i, request, align),
         MeetEndToEnd(g.mem, Range(g.index), used, g.end)
  PROVE  LET c == Cut(g, i, request, align)
             pos == Pos(g, i, align)
         IN  /\ MeetEndToEnd(c.mem, Range(c.index), used \cup {pos}, g.end)
             /\ NameTheirHeaders(g.mem, Range(g.index), used, g.end) =>
                  NameTheirHeaders(c.mem, Range(c.index), used \cup {pos}, g.end)
  <1> DEFINE c == Cut(g, i, request, align)
             free == Range(g.index)
             hole == g.index[i]
             top == EndOf(g.mem, hole)
             Front1 == InFront(g, i, align)
             front == FrontSize(hole, align)
             need == Need(g, i, request)
             rest == Rest(g, i, request, align)
             pos == Pos(g, i, align)
             behind == Behind(g, i, request, align)
             m == c.mem
             F == Front1 \cup c.behind
  <1>1. /\ {hole, front, need, rest, pos, behind, top, g.end} \subseteq Int
        /\ hole \in free /\ HeapStart <= hole
        /\ pos = hole + front /\ behind = pos + need /\ top = behind + rest
        /\ top <= g.end /\ g.end <= Top + 1
        /\ align => front >= 5
        /\ ~ align => front = 0
        /\ need >= request /\ need >= 6 /\ (rest = 0 \/ rest >= 5)
    BY PartsLie
  <1>2. /\ align => /\ m[hole] = MAGIC /\ m[hole + 1] = 1 /\ m[hole + 2] = front
                    /\ m[pos - 2] = MAGIC /\ m[pos - 1] = hole
        /\ m[pos] = MAGIC /\ m[pos + 1] = 0 /\ m[pos + 2] = need
        /\ m[behind - 2] = MAGIC /\ m[behind - 1] = pos
        /\ rest > 0 => /\ m[behind] = MAGIC /\ m[behind + 1] = 1
                       /\ m[behind + 2] = rest
                       /\ m[top - 2] = MAGIC /\ m[top - 1] = behind
    <2>1. /\ \A k \in {c.fronted, c.blocked, c.mem} :
               /\ k \in [Address -> Word]
               /\ \A a \in Address : a < hole \/ top <= a => k[a] = g.mem[a]
               /\ align => /\ k[hole] = MAGIC /\ k[hole + 1] = 1 /\ k[hole + 2] = front
                           /\ k[pos - 2] = MAGIC /\ k[pos - 1] = hole
          /\ \A k \in {c.blocked, c.mem} :
               /\ k[pos] = MAGIC /\ k[pos + 1] = 0 /\ k[pos + 2] = need
               /\ k[behind - 2] = MAGIC /\ k[behind - 1] = pos
          /\ rest > 0 => /\ c.mem[behind] = MAGIC /\ c.mem[behind + 1] = 1
                         /\ c.mem[behind + 2] = rest
                         /\ c.mem[top - 2] = MAGIC /\ c.mem[top - 1] = behind
      BY CutPieces
    <2> HIDE DEF c, hole, front, need, rest, pos, behind, top
    <2> QED
      BY <2>1
  <1>3. c.behind = IF rest > 0 THEN {behind} ELSE {}
    BY Zenon DEF Cut, SizeOf, Need, Rest, Pos, Behind
  <1>4. Front1 = IF align THEN {hole} ELSE {}
    BY DEF InFront
  <1>5. /\ Typed(g.mem, free, used, g.end) /\ MeetEndToEnd(g.mem, free, used, g.end)
        /\ LieApart(g.mem, free, used, g.end) /\ align \in BOOLEAN
    BY DEF CanCut, InShape
  <1>6. Replaces(g.mem, free, used, {hole}, hole, top, m, F, {pos})
    BY CutReplaces
  <1>7. Range(c.index) = (free \ {hole}) \cup F
    BY CutIndex
  <1> HIDE DEF c, free, hole, top, Front1, front, need, rest, pos, behind, m
  <1>8. /\ hole <= pos /\ pos + 6 <= behind /\ behind <= top
        /\ align => hole + 5 <= pos
    BY <1>1, <1>5
  <1>9. /\ align => EndOf(m, hole) = pos
        /\ EndOf(m, pos) = behind
        /\ rest > 0 => EndOf(m, behind) = top
    BY <1>1, <1>2 DEF Size, EndOf
  <1>10. \A p : p \in F <=> (align /\ p = hole) \/ (rest > 0 /\ p = behind)
    BY <1>3, <1>4, <1>5
  <1> HIDE DEF F
  <1>11. Ends(m, F \cup {pos}) \cup {hole} = F \cup {pos} \cup {top}
    <2>1. \A e : e \in Ends(m, F \cup {pos}) <=>
                   (align /\ e = pos) \/ e = behind \/ (rest > 0 /\ e = top)
      BY <1>9, <1>10 DEF Ends
    <2>2. ~ align => hole = pos
      BY <1>1
    <2>3. ~ (rest > 0) => behind = top
      BY <1>1
    <2> QED
      BY <1>10, <2>1, <2>2, <2>3
  <1>12. \A p \in F \cup {pos} : m[p] = MAGIC /\ (IsHole(m, p) <=> p \in F)
    <2>1. pos \notin F
      BY <1>1, <1>8, <1>10
    <2>2. \A p \in F : m[p] = MAGIC /\ m[p + 1] = 1
      BY <1>2, <1>10
    <2>3. m[pos] = MAGIC /\ m[pos + 1] # 1
      BY <1>2
    <2> QED
      BY <2>1, <2>2, <2>3 DEF IsHole
  <1>13. Ends(g.mem, {hole}) \cup {hole} = {hole} \cup {top}
    BY DEF Ends, top
  <1>14. hole < top /\ \A h \in {hole} : hole <= h /\ h < top
    BY <1>1, <1>8
  <1>15. used \ {hole} = used
    BY <1>1, <1>5 DEF LieApart
  <1>16. MeetEndToEnd(m, (free \ {hole}) \cup F, used \cup {pos}, g.end)
    <2>1. {hole} \subseteq free \cup used /\ top <= g.end
      BY <1>1
    <2>2. MeetEndToEnd(m, (free \ {hole}) \cup F, (used \ {hole}) \cup {pos}, g.end)
      BY <1>5, <1>6, <1>11, <1>12, <1>13, <1>14, <2>1, ReplacedMeet
    <2> QED
      BY <1>15, <2>2
  <1>17. ASSUME NameTheirHeaders(g.mem, free, used, g.end)
         PROVE  NameTheirHeaders(m, (free \ {hole}) \cup F, used \cup {pos}, g.end)
    <2>1. NameTheirHeaders(m, F, {pos}, g.end)
      <3> SUFFICES ASSUME NEW p \in F \cup {pos}
                   PROVE  m[EndOf(m, p) - 2] = MAGIC /\ m[EndOf(m, p) - 2 + 1] = p
        BY Numbers DEF NameTheirHeaders
      <3>1. pos - 2 + 1 = pos - 1 /\ behind - 2 + 1 = behind - 1 /\ top - 2 + 1 = top - 1
        BY <1>1
      <3>2. CASE p = pos
        BY <1>2, <1>9, <3>1, <3>2
      <3>3. CASE align /\ p = hole
        BY <1>2, <1>9, <3>1, <3>3
      <3>4. CASE rest > 0 /\ p = behind
        BY <1>2, <1>9, <3>1, <3>4
      <3> QED
        BY <1>10, <3>2, <3>3, <3>4
    <2>2. NameTheirHeaders(m, (free \ {hole}) \cup F, (used \ {hole}) \cup {pos}, g.end)
      BY <1>5, <1>6, <1>17, <2>1, ReplacedFooters
    <2> QED
      BY <1>15, <2>2
  <1> QED
    BY <1>7, <1>16, <1>17 DEF c, free, m, pos

-----------------------------------------------------------------------------
(* The steps of malloc.                                                    *)

(* What the lemmas about blocks ask of a heap whose blocks lie apart.       *)
LEMMA ApartTyped ==
  ASSUME Apart
  PROVE  /\ Typed(mem, FreeBlocks, UsedBlocks, heap_end)
         /\ LieApart(mem, FreeBlocks, UsedBlocks, heap_end)
  <1>1. TypeOK /\ Held /\ LieApart(mem, FreeBlocks, UsedBlocks, heap_end)
    BY DEF Apart
  <1>2. /\ mem \in [Address -> Word] /\ heapIndex \in Seq(Address)
        /\ \A b \in live : b.address \in Address
    BY <1>1 DEF TypeOK
  <1>3. heap_end \in HeapStart + Page .. Top + 1
    BY <1>1 DEF Held
  <1>4. FreeBlocks \subseteq Int
    <2>1. Range(heapIndex) \subseteq Address
      BY <1>2, Entries
    <2> QED
      BY <2>1, Addresses DEF FreeBlocks
  <1>5. UsedBlocks \subseteq Int
    BY <1>2, Addresses, Numbers DEF UsedBlocks
  <1> QED
    BY <1>1, <1>2, <1>3, <1>4, <1>5 DEF Typed

(* A heap whose blocks lie apart is a heap in shape.                       *)
LEMMA CurrentHeap ==
  ASSUME Apart, IsInjective(heapIndex)
  PROVE  /\ InShape(Current, UsedBlocks)
         /\ Current.mem = mem /\ Current.index = heapIndex /\ Current.end = heap_end
         /\ Current.pages = pages /\ pages \subseteq Nat
         /\ Typed(mem, FreeBlocks, UsedBlocks, heap_end)
         /\ LieApart(mem, FreeBlocks, UsedBlocks, heap_end)
         /\ heapIndex \in Seq(Address) /\ heap_end \in Int
  <1>1. TypeOK /\ Held /\ LieApart(mem, FreeBlocks, UsedBlocks, heap_end)
    BY DEF Apart
  <1>2. /\ mem \in [Address -> Word] /\ heapIndex \in Seq(Address) /\ heap_end \in Nat
        /\ pages \subseteq Nat
    BY <1>1 DEF TypeOK
  <1>6. Typed(mem, FreeBlocks, UsedBlocks, heap_end)
    BY ApartTyped
  <1>7. /\ Current.mem = mem /\ Current.index = heapIndex /\ Current.end = heap_end
        /\ Current.pages = pages
    BY DEF Current
  <1>8. InShape(Current, UsedBlocks)
    BY <1>1, <1>2, <1>6, <1>7 DEF InShape, FreeBlocks
  <1> QED
    BY <1>1, <1>2, <1>6, <1>7, <1>8

(* A sound request finds a block that can be cut, in a heap that continues *)
(* the one it came to.                                                     *)
LEMMA RequestFinds ==
  ASSUME Apart, IsInjective(heapIndex),
         NEW size \in Sizes, NEW align \in Aligns, Sound(size, align),
         Grown(Current, size + HEADER + FOOTER, align).end <= Top + 1
  PROVE  LET request == size + HEADER + FOOTER
             g == Grown(Current, request, align)
             found == FindSmallestHole(g.mem, g.index, request, align)
         IN  /\ Continues(Current, g, UsedBlocks)
             /\ CanCut(g, UsedBlocks, found, request, align)
             /\ request \in Nat /\ request >= 6
  <1> DEFINE request == size + HEADER + FOOTER
             g == Grown(Current, request, align)
             found == FindSmallestHole(g.mem, g.index, request, align)
  <1>1. /\ InShape(Current, UsedBlocks)
        /\ Current.mem = mem /\ Current.index = heapIndex /\ Current.end = heap_end
    BY CurrentHeap
  <1>2. request \in Nat /\ request >= 6
    BY Numbers
  <1>3. align \in BOOLEAN
    BY HeapAssumption
  <1>4. FindSmallestHole(mem, heapIndex, request, align) = 0 => GrowsLast(Current)
    BY Zenon DEF Sound
  <1>5. align => LET front == FrontSize(g.index[found], align)
                     rest == SizeOf(g, found) - front - request
                 IN  front >= HEADER + FOOTER /\ (rest = 0 \/ rest >= HEADER + FOOTER)
    BY Zenon DEF Sound, SizeOf
  <1> HIDE DEF request
  <1>6. FindSmallestHole(Current.mem, Current.index, request, align) = 0 =>
          (Current.index # <<>> => EndOf(Current.mem, Max(Range(Current.index))) = Current.end)
    BY <1>1, <1>4, Zenon DEF GrowsLast
  <1>7. g.end <= Top + 1
    BY DEF request
  <1>8. /\ Continues(Current, g, UsedBlocks)
        /\ found \in 1 .. Len(g.index) /\ Fits(g.mem, g.index[found], request, align)
    BY <1>1, <1>2, <1>3, <1>6, <1>7, GrownIsEnough
  <1>9. InShape(g, UsedBlocks)
    BY <1>8 DEF Continues
  <1>10. CanCut(g, UsedBlocks, found, request, align)
    BY <1>2, <1>3, <1>5, <1>8, <1>9, Zenon DEF CanCut
  <1> QED
    BY <1>2, <1>8, <1>10 DEF request, g, found

(* What malloc leaves.                                                     *)
LEMMA MallocStep ==
  ASSUME Apart, IsInjective(heapIndex),
         NEW size \in Sizes, NEW align \in Aligns, Sound(size, align), Malloc(size, align)
  PROVE  LET request == size + HEADER + FOOTER
             g == Grown(Current, request, align)
             found == FindSmallestHole(g.mem, g.index, request, align)
             c == Cut(g, found, request, align)
             pos == Pos(g, found, align)
             b == [address |-> pos + HEADER, size |-> size, align |-> align]
         IN  /\ Continues(Current, g, UsedBlocks)
             /\ CanCut(g, UsedBlocks, found, request, align)
             /\ mem' = c.mem /\ heapIndex' = c.index /\ heap_end' = g.end /\ pages' = g.pages
             /\ live' = live \cup {b} /\ b \notin live
             /\ pos \in Int /\ UsedBlocks' = UsedBlocks \cup {pos} /\ pos \notin UsedBlocks
             /\ UNCHANGED <<stopped, halted>>
             /\ calls' = calls + 1 /\ calls < MaxCalls
  <1> DEFINE request == size + HEADER + FOOTER
             g == Grown(Current, request, align)
             found == FindSmallestHole(g.mem, g.index, request, align)
             c == Cut(g, found, request, align)
             pos == Pos(g, found, align)
             b == [address |-> pos + HEADER, size |-> size, align |-> align]
  <1>1. /\ g.end <= Top + 1
        /\ mem' = c.mem /\ heapIndex' = c.index /\ heap_end' = g.end /\ pages' = g.pages
        /\ live' = live \cup {[address |-> c.address, size |-> size, align |-> align]}
        /\ UNCHANGED <<stopped, halted>> /\ calls' = calls + 1 /\ calls < MaxCalls
    BY Zenon DEF Malloc
  <1>2. /\ Continues(Current, g, UsedBlocks)
        /\ CanCut(g, UsedBlocks, found, request, align)
    BY <1>1, RequestFinds
  <1>3. c.address = pos + HEADER
    BY Zenon DEF Cut, SizeOf, Need, Rest, Pos, Behind
  <1> HIDE DEF request, g, found, c
  <1>4. pos \in Int
    BY <1>2, PartsLie
  <1>5. pos \notin UsedBlocks
    BY <1>2, CutIndex
  <1> HIDE DEF pos
  <1>6. b.address - HEADER = pos /\ b.address \in Int
    BY <1>4, Numbers
  <1>7. b \notin live
    BY <1>5, <1>6, Zenon DEF UsedBlocks
  <1>8. live' = live \cup {b}
    BY <1>1, <1>3
  <1> HIDE DEF b
  <1>9. UsedBlocks' = UsedBlocks \cup {pos}
    <2>1. UsedBlocks' = {k.address - HEADER : k \in live'}
      BY Zenon DEF UsedBlocks
    <2> QED
      BY <1>6, <1>8, <2>1 DEF UsedBlocks
  <1> QED
    BY <1>1, <1>2, <1>4, <1>5, <1>7, <1>8, <1>9 DEF request, g, found, c, pos, b

(* The blocks stay apart, and those in use keep their words.               *)
LEMMA MallocLeavesApart ==
  ASSUME Apart, IsInjective(heapIndex),
         NEW size \in Sizes, NEW align \in Aligns, Sound(size, align), Malloc(size, align)
  PROVE  /\ Apart' /\ IsInjective(heapIndex)'
         /\ \A h \in UsedBlocks : \A a \in h .. EndOf(mem, h) - 1 :
              a \in Address /\ mem'[a] = mem[a]
  <1> DEFINE request == size + HEADER + FOOTER
             g == Grown(Current, request, align)
             found == FindSmallestHole(g.mem, g.index, request, align)
             c == Cut(g, found, request, align)
             pos == Pos(g, found, align)
             need == Need(g, found, request)
             b == [address |-> pos + HEADER, size |-> size, align |-> align]
  <1>1. /\ Continues(Current, g, UsedBlocks)
        /\ CanCut(g, UsedBlocks, found, request, align)
        /\ mem' = c.mem /\ heapIndex' = c.index /\ heap_end' = g.end /\ pages' = g.pages
        /\ live' = live \cup {b} /\ b \notin live
        /\ pos \in Int /\ UsedBlocks' = UsedBlocks \cup {pos} /\ pos \notin UsedBlocks
        /\ UNCHANGED <<stopped, halted>>
        /\ calls' = calls + 1 /\ calls < MaxCalls
    BY MallocStep
  <1>2. request = size + 5 /\ request \in Nat /\ HEADER = 3 /\ FOOTER = 2
        /\ size \in Nat /\ Top \in Nat /\ HeapStart \in Nat
    BY Numbers
  <1>3. TypeOK /\ Held
    BY DEF Apart
  <1>4. Current.mem = mem /\ Current.pages = pages /\ pages \subseteq Nat
    BY CurrentHeap
  <1> HIDE DEF request, g, found, c, pos, need
  <1>5. /\ Typed(c.mem, Range(c.index), UsedBlocks \cup {pos}, g.end)
        /\ LieApart(c.mem, Range(c.index), UsedBlocks \cup {pos}, g.end)
        /\ \A h \in UsedBlocks :
             /\ Size(c.mem, h) = Size(g.mem, h)
             /\ \A a \in h .. EndOf(g.mem, h) - 1 : a \in Address /\ c.mem[a] = g.mem[a]
    <2>1. CanCut(g, UsedBlocks, found, request, align)
      BY <1>1
    <2>2. /\ Typed(c.mem, Range(c.index), UsedBlocks \cup {pos}, g.end)
          /\ LieApart(c.mem, Range(c.index), UsedBlocks \cup {pos}, g.end)
      BY <2>1, CutKeepsApart DEF c, pos
    <2>3. \A m \in {c.fronted, c.blocked, c.mem} : \A h \in UsedBlocks :
            /\ Size(m, h) = Size(g.mem, h)
            /\ \A a \in h .. EndOf(g.mem, h) - 1 : a \in Address /\ m[a] = g.mem[a]
      BY <2>1, CutKeepsUsed DEF c
    <2> QED
      BY <2>2, <2>3
  <1>6. c.index \in Seq(Address) /\ IsInjective(c.index)
    BY <1>1, CutIndex DEF c
  <1>7. Size(c.mem, pos) >= size + HEADER + FOOTER
    <2>1. /\ \A m \in {c.blocked, c.mem} :
               /\ m[pos] = MAGIC /\ m[pos + 1] = 0 /\ m[pos + 2] = need
               /\ m[Behind(g, found, request, align) - 2] = MAGIC
               /\ m[Behind(g, found, request, align) - 1] = pos
      BY <1>1, CutPieces DEF c, pos, need
    <2>2. need \in Int /\ need >= request
      BY <1>1, PartsLie DEF need
    <2>3. Size(c.mem, pos) = need
      BY <2>1 DEF Size
    <2> QED
      BY <1>2, <2>2, <2>3
  <1>8. g.pages \subseteq Nat /\ \A h \in UsedBlocks :
          /\ Size(g.mem, h) = Size(mem, h) /\ EndOf(g.mem, h) = EndOf(mem, h)
          /\ \A a \in h .. EndOf(mem, h) - 1 : a \in Address /\ g.mem[a] = mem[a]
    <2>1. g.pages \subseteq Nat /\ \A h \in UsedBlocks :
          /\ Size(g.mem, h) = Size(mem, h)
          /\ \A a \in h .. EndOf(mem, h) - 1 : a \in Address /\ g.mem[a] = mem[a]
      BY <1>1, <1>4 DEF Continues
    <2> QED
      BY <2>1 DEF EndOf
  <1>9. LieApart(mem', FreeBlocks', UsedBlocks', heap_end')
    BY <1>1, <1>5 DEF FreeBlocks
  <1>10. pos + 3 \in Address
    <2>1. /\ pos \in HeapStart .. Top
          /\ {EndOf(c.mem, pos) - 2, EndOf(c.mem, pos) - 1} \subseteq Address
          /\ EndOf(c.mem, pos) \in Int /\ EndOf(c.mem, pos) = pos + Size(c.mem, pos)
          /\ Size(c.mem, pos) \in Int /\ Size(c.mem, pos) >= 5
      BY <1>5, BlockLies
    <2>2. EndOf(c.mem, pos) - 1 <= Top
      BY <2>1, Addresses
    <2>3. pos \in Int /\ HeapStart <= pos /\ pos + 3 <= Top
      BY <1>2, <2>1, <2>2
    <2> QED
      BY <1>2, <2>3, Addresses
  <1>11. b \in [address : Address, size : Sizes, align : Aligns]
         /\ b.address = pos + 3 /\ b.size = size
    BY <1>2, <1>10
  <1> HIDE DEF b
  <1>12. TypeOK'
    <2>1. mem' \in [Address -> Word] /\ heap_end' \in Nat
          /\ heap_end' \in HeapStart + Page .. Top + 1
      BY <1>1, <1>2, <1>5, Numbers DEF Typed
    <2>2. heapIndex' \in Seq(Address) /\ pages' \subseteq Nat
      BY <1>1, <1>6, <1>8
    <2>3. live' \subseteq [address : Address, size : Sizes, align : Aligns]
      BY <1>1, <1>3, <1>11 DEF TypeOK
    <2>4. calls' \in 0 .. MaxCalls
      BY <1>1, <1>3, Numbers DEF TypeOK
    <2>5. /\ stopped' \in {"Nowhere", "Growing", "Removing", "Cutting", "Inserting"}
          /\ halted' \in BOOLEAN
      BY <1>1, <1>3 DEF TypeOK
    <2> QED
      BY <2>1, <2>2, <2>3, <2>4, <2>5 DEF TypeOK
  <1>13. Held'
    <2>1. ~ halted'
      BY <1>1, <1>3 DEF Held
    <2>2. heap_end' \in HeapStart + Page .. Top + 1
      BY <1>1, <1>5 DEF Typed
    <2>3. \A k \in live : k.address - HEADER \in UsedBlocks /\ k.address \in Int
      BY <1>3, Addresses DEF UsedBlocks, TypeOK
    <2>4. \A k, l \in live' : k.address = l.address => k = l
      <3>1. \A k \in live : k.address # b.address
        BY <1>1, <1>2, <1>11, <2>3
      <3> QED
        BY <1>1, <1>3, <3>1 DEF Held
    <2>5. \A k \in live' : Size(mem', k.address - HEADER) >= k.size + HEADER + FOOTER
      <3>1. \A k \in live : Size(mem, k.address - HEADER) >= k.size + HEADER + FOOTER
        BY <1>3 DEF Held
      <3>2. b.address - HEADER = pos
        BY <1>1, <1>2, <1>11
      <3>3. Size(mem', b.address - HEADER) >= b.size + HEADER + FOOTER
        BY <1>1, <1>7, <1>11, <3>2
      <3>4. \A k \in live : Size(mem', k.address - HEADER) = Size(mem, k.address - HEADER)
        BY <1>1, <1>5, <1>8, <2>3
      <3> QED
        BY <1>1, <3>1, <3>3, <3>4
    <2> QED
      BY <2>1, <2>2, <2>4, <2>5 DEF Held
  <1>14. Apart'
    BY <1>9, <1>12, <1>13 DEF Apart
  <1>15. IsInjective(heapIndex)'
    BY <1>1, <1>6
  <1>16. \A h \in UsedBlocks : \A a \in h .. EndOf(mem, h) - 1 : a \in Address /\ mem'[a] = mem[a]
    BY <1>1, <1>5, <1>8
  <1> QED
    BY <1>14, <1>15, <1>16

(* The blocks of a heap in order lie apart.                                *)
LEMMA OrderIsApart ==
  ASSUME WellFormed
  PROVE  /\ Apart /\ IsInjective(heapIndex)
         /\ MeetEndToEnd(mem, FreeBlocks, UsedBlocks, heap_end)
  <1>1. /\ TypeOK /\ Held /\ IsInjective(heapIndex)
        /\ MeetEndToEnd(mem, FreeBlocks, UsedBlocks, heap_end)
    BY DEF WellFormed
  <1>2. /\ mem \in [Address -> Word] /\ heapIndex \in Seq(Address)
        /\ \A b \in live : b.address \in Address
    BY <1>1 DEF TypeOK
  <1>3. FreeBlocks \subseteq Int
    <2>1. Range(heapIndex) \subseteq Address
      BY <1>2, Entries
    <2> QED
      BY <2>1, Addresses DEF FreeBlocks
  <1>4. UsedBlocks \subseteq Int
    BY <1>2, Addresses, Numbers DEF UsedBlocks
  <1>5. Typed(mem, FreeBlocks, UsedBlocks, heap_end)
    BY <1>1, <1>2, <1>3, <1>4 DEF Typed, Held
  <1>6. LieApart(mem, FreeBlocks, UsedBlocks, heap_end)
    BY <1>1, <1>5, EndToEndIsApart
  <1> QED
    BY <1>1, <1>6 DEF Apart

(* A heap in order stays in order.                                         *)
LEMMA MallocLeavesOrder ==
  ASSUME WellFormed,
         NEW size \in Sizes, NEW align \in Aligns, Sound(size, align), Malloc(size, align)
  PROVE  WellFormed' /\ (FootersTrue => FootersTrue')
  <1> DEFINE request == size + HEADER + FOOTER
             g == Grown(Current, request, align)
             found == FindSmallestHole(g.mem, g.index, request, align)
             c == Cut(g, found, request, align)
             pos == Pos(g, found, align)
  <1>1. /\ Apart /\ IsInjective(heapIndex)
        /\ MeetEndToEnd(mem, FreeBlocks, UsedBlocks, heap_end)
    BY OrderIsApart
  <1>2. /\ Continues(Current, g, UsedBlocks)
        /\ CanCut(g, UsedBlocks, found, request, align)
        /\ mem' = c.mem /\ heapIndex' = c.index /\ heap_end' = g.end
        /\ UsedBlocks' = UsedBlocks \cup {pos}
    BY <1>1, MallocStep
  <1>3. Apart' /\ IsInjective(heapIndex)'
    BY <1>1, MallocLeavesApart
  <1>4. Current.mem = mem /\ Current.index = heapIndex /\ Current.end = heap_end
    BY <1>1, CurrentHeap
  <1> HIDE DEF request, g, found, c, pos
  <1>5. /\ MeetEndToEnd(g.mem, Range(g.index), UsedBlocks, g.end)
        /\ NameTheirHeaders(mem, FreeBlocks, UsedBlocks, heap_end) =>
             NameTheirHeaders(g.mem, Range(g.index), UsedBlocks, g.end)
    BY <1>1, <1>2, <1>4 DEF Continues, FreeBlocks
  <1>6. /\ MeetEndToEnd(c.mem, Range(c.index), UsedBlocks \cup {pos}, g.end)
        /\ NameTheirHeaders(g.mem, Range(g.index), UsedBlocks, g.end) =>
             NameTheirHeaders(c.mem, Range(c.index), UsedBlocks \cup {pos}, g.end)
    BY <1>2, <1>5, CutKeepsOrder DEF c, pos
  <1>7. MeetEndToEnd(mem', FreeBlocks', UsedBlocks', heap_end')
    BY <1>2, <1>6 DEF FreeBlocks
  <1>8. NameTheirHeaders(mem, FreeBlocks, UsedBlocks, heap_end) =>
          NameTheirHeaders(mem', FreeBlocks', UsedBlocks', heap_end')
    BY <1>2, <1>5, <1>6 DEF FreeBlocks
  <1> QED
    BY <1>3, <1>7, <1>8 DEF WellFormed, Apart, FootersTrue

(* A block that is new comes from a call of malloc for its size.           *)
LEMMA NewBlockIsMalloc ==
  ASSUME [Next]_vars, NEW b \in live' \ live
  PROVE  \E size \in Sizes, align \in Aligns :
           Malloc(size, align) /\ b.size = size /\ b.align = align
  <1>1. CASE UNCHANGED vars
    BY <1>1 DEF vars
  <1>2. ASSUME NEW size \in Sizes, NEW align \in Aligns, Malloc(size, align)
        PROVE  b.size = size /\ b.align = align
    <2>1. \E a : live' = live \cup {[address |-> a, size |-> size, align |-> align]}
      BY <1>2, Zenon DEF Malloc
    <2> QED
      BY <2>1
  <1>3. ASSUME NEW size \in Sizes, NEW align \in Aligns, AbandonMalloc(size, align)
        PROVE  FALSE
    BY <1>3, Zenon DEF AbandonMalloc
  <1>4. ASSUME NEW k \in live, Free(k)
        PROVE  FALSE
    <2>1. live' = live \/ live' = live \ {k}
      BY <1>4, Zenon DEF Free
    <2> QED
      BY <2>1
  <1>5. ASSUME NEW k \in live, Write(k)
        PROVE  FALSE
    BY <1>5, Zenon DEF Write
  <1> QED
    BY <1>1, <1>2, <1>3, <1>4, <1>5 DEF Next

(* Malloc keeps a heap as it is, with blocks apart, if no entry is twice   *)
(* in the index.                                                           *)
THEOREM SpecMallocKeepsApart == Spec => MallocKeepsApart
  <1>1. ASSUME [Next]_vars, NEW b \in live' \ live,
               Apart, IsInjective(heapIndex), Sound(b.size, b.align)
        PROVE  Apart' /\ IsInjective(heapIndex)'
    <2>1. PICK size \in Sizes, align \in Aligns :
            Malloc(size, align) /\ b.size = size /\ b.align = align
      BY <1>1, NewBlockIsMalloc
    <2> QED
      BY <1>1, <2>1, MallocLeavesApart
  <1>2. [Next]_vars =>
          [\A b \in live' \ live :
             Apart /\ IsInjective(heapIndex) /\ Sound(b.size, b.align) =>
               Apart' /\ IsInjective(heapIndex)']_vars
    BY <1>1
  <1> QED
    BY <1>2, PTL DEF Spec, MallocKeepsApart

(* Malloc keeps a heap in order.                                           *)
THEOREM SpecMallocKeepsForm == Spec => MallocKeepsForm
  <1>1. ASSUME [Next]_vars, NEW b \in live' \ live, WellFormed, Sound(b.size, b.align)
        PROVE  WellFormed' /\ (FootersTrue => FootersTrue')
    <2>1. PICK size \in Sizes, align \in Aligns :
            Malloc(size, align) /\ b.size = size /\ b.align = align
      BY <1>1, NewBlockIsMalloc
    <2> QED
      BY <1>1, <2>1, MallocLeavesOrder
  <1>2. [Next]_vars =>
          [\A b \in live' \ live :
             WellFormed /\ Sound(b.size, b.align) =>
               WellFormed' /\ (FootersTrue => FootersTrue')]_vars
    BY <1>1
  <1> QED
    BY <1>2, PTL DEF Spec, MallocKeepsForm

-----------------------------------------------------------------------------
(* The merging of a block that is given back with its free neighbours.     *)

(* A block that has grown over the words from lo up to hi: its header is   *)
(* that of a free block of this size, and nothing else is written.         *)
Spans(m, m2, lo, hi) ==
  /\ m2 \in [Address -> Word]
  /\ \A a \in Address : a < lo \/ hi <= a => m2[a] = m[a]
  /\ m2[lo] = MAGIC /\ m2[lo + 1] = 1 /\ m2[lo + 2] = hi - lo

(* What one word that is written leaves.                                   *)
LEMMA WordPut ==
  ASSUME NEW m \in [Address -> Word], NEW a \in Address, NEW w \in Word
  PROVE  /\ [m EXCEPT ![a] = w] \in [Address -> Word]
         /\ [m EXCEPT ![a] = w][a] = w
         /\ \A x \in Address : x # a => [m EXCEPT ![a] = w][x] = m[x]
  OBVIOUS

(* The footer in front of a block is that of its neighbour on the left.    *)
LEMMA LeftNeighbour ==
  ASSUME NEW m, NEW free, NEW used, NEW end, NEW h \in used,
         Typed(m, free, used, end), MeetEndToEnd(m, free, used, end),
         NameTheirHeaders(m, free, used, end), LieApart(m, free, used, end),
         m[h - 2] = MAGIC
  PROVE  m[h - 1] \in free \cup used /\ EndOf(m, m[h - 1]) = h
  <1>1. HEADER = 3 /\ FOOTER = 2 /\ HeapStart \in Nat /\ Top \in Nat
    BY Numbers
  <1>2. /\ h \in Int /\ HeapStart <= h
        /\ EndOf(m, h) \in Int /\ EndOf(m, h) >= h + 5 /\ EndOf(m, h) <= end /\ end \in Int
    <2>1. /\ h \in HeapStart .. Top
          /\ Size(m, h) \in Int /\ Size(m, h) >= 5
          /\ EndOf(m, h) \in Int /\ EndOf(m, h) = h + Size(m, h) /\ EndOf(m, h) <= end
          /\ end \in Int /\ end <= Top + 1
      BY BlockLies
    <2> QED
      BY <1>1, <2>1
  <1>3. h # HeapStart
    BY <1>1 DEF MeetEndToEnd
  <1>4. h \in {EndOf(m, k) : k \in free \cup used} \cup {HeapStart}
    BY DEF MeetEndToEnd
  <1>5. PICK k \in free \cup used : EndOf(m, k) = h
    BY <1>3, <1>4
  <1>6. EndOf(m, k) < end
    BY <1>2, <1>5
  <1>7. m[EndOf(m, k) - FOOTER] = MAGIC /\ m[EndOf(m, k) - FOOTER + 1] = k
    BY <1>6 DEF NameTheirHeaders
  <1>8. EndOf(m, k) - FOOTER + 1 = h - 1
    BY <1>1, <1>2, <1>5
  <1>9. m[h - 1] = k
    BY <1>7, <1>8
  <1> QED
    BY <1>5, <1>9

(* A block that is marked as free.                                         *)
Freed(m, h) == [m EXCEPT ![h + 1] = 1]

(* The merge with the left neighbour.                                      *)
LeftMerged(m, free, h, left) ==
  /\ left.footer = EndOf(m, h) - 2
  /\ Spans(m, left.mem, left.header, EndOf(m, h))
  /\ left.header = h \/ (left.header \in free /\ EndOf(m, left.header) = h)

(* What it comes to.                                                       *)
LEMMA LeftMerge ==
  ASSUME NEW m, NEW free, NEW used, NEW end, NEW h \in used,
         Typed(m, free, used, end), MeetEndToEnd(m, free, used, end),
         NameTheirHeaders(m, free, used, end), LieApart(m, free, used, end)
  PROVE  LeftMerged(m, free, h, MergedLeft(Freed(m, h), h))
  <1> DEFINE left == MergedLeft(Freed(m, h), h)
             m0 == [m EXCEPT ![h + 1] = 1]
             size == Size(m, h)
             end1 == EndOf(m, h)
             k == m[h - 1]
  <1>1. HEADER = 3 /\ FOOTER = 2 /\ HeapStart \in Nat /\ Top \in Nat /\ 1 \in Word
    BY Numbers
  <1>2. m \in [Address -> Word]
    BY DEF Typed
  <1>3. /\ h \in Int /\ HeapStart <= h /\ size \in Int /\ size >= 5
        /\ end1 \in Int /\ end1 = h + size /\ end1 <= Top + 1
        /\ m[h] = MAGIC
    <2>1. /\ h \in HeapStart .. Top
          /\ Size(m, h) \in Int /\ Size(m, h) >= 5
          /\ EndOf(m, h) \in Int /\ EndOf(m, h) = h + Size(m, h) /\ EndOf(m, h) <= end
          /\ end \in Int /\ end <= Top + 1
      BY BlockLies
    <2>2. m[h] = MAGIC
      BY DEF MeetEndToEnd
    <2> HIDE DEF size, end1
    <2> QED
      BY <1>1, <2>1, <2>2 DEF size, end1
  <1>4. {h - 2, h - 1, h, h + 1, h + 2, end1 - 1} \subseteq Address
    BY <1>1, <1>3, Addresses
  <1>5. /\ m0 \in [Address -> Word] /\ m0[h + 1] = 1
        /\ \A a \in Address : a # h + 1 => m0[a] = m[a]
    BY <1>1, <1>2, <1>4, WordPut
  <1> HIDE DEF left, m0, size, end1, k
  <1> SUFFICES LeftMerged(m, free, h, left)
    BY DEF left
  <1>6. m0[h - 2] = m[h - 2] /\ m0[h - 1] = k /\ m0[h] = MAGIC /\ m0[h + 2] = size
    BY <1>3, <1>4, <1>5 DEF k, size, Size
  <1>7. Size(m0, h) = size /\ h - FOOTER + 1 = h - 1 /\ h - FOOTER = h - 2
        /\ h + Size(m0, h) - FOOTER = end1 - 2 /\ end1 - 2 + 1 = end1 - 1
    BY <1>1, <1>3, <1>6 DEF Size
  <1>8. left = IF m0[h - 2] = MAGIC /\ IsHole(m0, k)
                 THEN [mem |-> [m0 EXCEPT ![end1 - 2 + 1] = k, ![k + 2] = Wrap(@ + size)],
                       header |-> k, footer |-> end1 - 2]
                 ELSE [mem |-> m0, header |-> h, footer |-> end1 - 2]
    BY <1>6, <1>7 DEF left, MergedLeft, Freed, m0
  <1>9. CASE ~ (m0[h - 2] = MAGIC /\ IsHole(m0, k))
    <2>1. left.mem = m0 /\ left.header = h /\ left.footer = end1 - 2
      BY <1>8, <1>9
    <2>2. Spans(m, m0, h, end1)
      <3>1. end1 - h = size
        BY <1>3
      <3>2. \A a \in Address : a < h \/ end1 <= a => a # h + 1
        BY <1>3, Addresses
      <3> QED
        BY <1>5, <1>6, <3>1, <3>2 DEF Spans
    <2> QED
      BY <2>1, <2>2 DEF end1, LeftMerged
  <1>10. CASE m0[h - 2] = MAGIC /\ IsHole(m0, k)
    <2>1. k \in free \cup used /\ EndOf(m, k) = h
      <3>1. m[h - 2] = MAGIC
        BY <1>6, <1>10
      <3>2. m[h - 1] \in free \cup used /\ EndOf(m, m[h - 1]) = h
        BY <3>1, LeftNeighbour
      <3> QED
        BY <3>2 DEF k
    <2>2. /\ k \in Int /\ HeapStart <= k /\ Size(m, k) \in Int /\ Size(m, k) >= 5
          /\ h = k + Size(m, k)
      <3>1. /\ k \in HeapStart .. Top
            /\ Size(m, k) \in Int /\ Size(m, k) >= 5
            /\ EndOf(m, k) = k + Size(m, k)
        BY <2>1, BlockLies
      <3> QED
        BY <1>1, <2>1, <3>1
    <2>3. {k, k + 1, k + 2} \subseteq Address /\ k \in Word
      BY <1>1, <1>3, <2>2, Addresses
    <2>4. m0[k + 1] = m[k + 1] /\ m0[k + 2] = Size(m, k) /\ m0[k] = m[k]
      <3>1. k # h + 1 /\ k + 1 # h + 1 /\ k + 2 # h + 1
        BY <1>3, <2>2
      <3> QED
        BY <1>5, <2>3, <3>1 DEF Size
    <2>5. IsHole(m, k) /\ m[k] = MAGIC /\ m[k + 1] = 1
      BY <1>10, <2>1, <2>4 DEF IsHole, MeetEndToEnd
    <2>6. k \in free
      BY <2>1, <2>5 DEF MeetEndToEnd
    <2> DEFINE m1 == [m0 EXCEPT ![end1 - 1] = k]
               m2 == [m1 EXCEPT ![k + 2] = end1 - k]
    <2>7. Size(m, k) + size = end1 - k /\ end1 - k \in Word
      BY <1>1, <1>3, <2>2, Addresses
    <2>8. Wrap(Size(m, k) + size) = end1 - k
      BY <2>7, WrapOfWord
    <2>9. /\ m1 \in [Address -> Word]
          /\ \A a \in Address : a # end1 - 1 => m1[a] = m0[a]
      BY <1>4, <1>5, <2>3, WordPut
    <2> HIDE DEF m1
    <2>10. /\ m2 \in [Address -> Word] /\ m2[k + 2] = end1 - k
           /\ \A a \in Address : a # k + 2 => m2[a] = m1[a]
      BY <2>3, <2>7, <2>9, WordPut
    <2> HIDE DEF m2
    <2>11. left.mem = m2 /\ left.header = k /\ left.footer = end1 - 2
      <3>1. left = [mem |-> [m1 EXCEPT ![k + 2] = Wrap(m0[k + 2] + size)],
                    header |-> k, footer |-> end1 - 2]
        BY <1>7, <1>8, <1>10, Zenon DEF m1
      <3>2. Wrap(m0[k + 2] + size) = end1 - k
        BY <2>4, <2>8
      <3>3. left = [mem |-> m2, header |-> k, footer |-> end1 - 2]
        BY <3>1, <3>2, Zenon DEF m2
      <3> QED
        BY <3>3
    <2>12. Spans(m, m2, k, end1)
      <3>1. \A a \in Address : a < k \/ end1 <= a => a # k + 2 /\ a # end1 - 1 /\ a # h + 1
        BY <1>3, <2>2, Addresses
      <3>2. \A a \in {k, k + 1} : a # k + 2 /\ a # end1 - 1
        BY <1>3, <2>2
      <3>3. m2[k] = MAGIC /\ m2[k + 1] = 1
        BY <2>3, <2>4, <2>5, <2>9, <2>10, <3>2
      <3>4. \A a \in Address : a < k \/ end1 <= a => m2[a] = m[a]
        BY <1>5, <2>9, <2>10, <3>1
      <3> QED
        BY <2>10, <3>3, <3>4 DEF Spans
    <2> QED
      BY <2>1, <2>6, <2>11, <2>12 DEF end1, LeftMerged
  <1> QED
    BY <1>9, <1>10

(* The block on the right, seen from a block that has grown up to it.      *)
MeetsRight(m, free, m1, lo, r) ==
  /\ r \in Int /\ EndOf(m, r) \in Int
  /\ m1[r] = MAGIC /\ (IsHole(m1, r) <=> r \in free)
  /\ Wrap(m1[lo + 2] + Size(m1, r)) = EndOf(m, r) - lo
  /\ r + Size(m1, r) - FOOTER = EndOf(m, r) - 2
  /\ Spans(m, [m1 EXCEPT ![lo + 2] = EndOf(m, r) - lo], lo, EndOf(m, r))

(* There is such a block, for a block that is not the last one.            *)
LEMMA RightNeighbour ==
  ASSUME NEW m, NEW free, NEW used, NEW end, NEW h \in used,
         Typed(m, free, used, end), MeetEndToEnd(m, free, used, end),
         LieApart(m, free, used, end), EndOf(m, h) < end,
         NEW r, r = EndOf(m, h),
         NEW m1 \in [Address -> Word], NEW lo \in Int, HeapStart <= lo, lo + 5 <= r,
         Spans(m, m1, lo, r)
  PROVE  MeetsRight(m, free, m1, lo, r)
  <1> DEFINE size == Size(m, r)
             next == EndOf(m, r)
  <1>1. HEADER = 3 /\ FOOTER = 2 /\ HeapStart \in Nat /\ Top \in Nat
    BY Numbers
  <1>2. /\ h \in Int /\ HeapStart <= h /\ r \in Int /\ r >= h + 5
        /\ end \in Int /\ end <= Top + 1
    <2>1. /\ h \in HeapStart .. Top
          /\ Size(m, h) \in Int /\ Size(m, h) >= 5
          /\ EndOf(m, h) \in Int /\ EndOf(m, h) = h + Size(m, h) /\ EndOf(m, h) <= end
          /\ end \in Int /\ end <= Top + 1
      BY BlockLies
    <2> QED
      BY <1>1, <2>1
  <1>3. r \in free \cup used
    <2>1. {EndOf(m, b) : b \in free \cup used} \cup {HeapStart} = free \cup used \cup {end}
      BY DEF MeetEndToEnd
    <2>2. r \in {EndOf(m, b) : b \in free \cup used}
      OBVIOUS
    <2>3. r # end
      BY <1>2
    <2> QED
      BY <2>1, <2>2, <2>3
  <1>4. /\ {r, r + 1, r + 2} \subseteq Address /\ size \in Int /\ size >= 5
        /\ next \in Int /\ next = r + size /\ next <= end
    BY <1>3, BlockLies
  <1>5. m[r] = MAGIC /\ (IsHole(m, r) <=> r \in free)
    BY <1>3 DEF MeetEndToEnd
  <1>6. /\ m1 \in [Address -> Word]
        /\ \A a \in Address : a < lo \/ r <= a => m1[a] = m[a]
        /\ m1[lo] = MAGIC /\ m1[lo + 1] = 1 /\ m1[lo + 2] = r - lo
    BY DEF Spans
  <1>7. m1[r] = MAGIC /\ m1[r + 2] = size /\ m1[r + 1] = m[r + 1]
    <2> HIDE DEF size, next
    <2>1. r <= r /\ r <= r + 1 /\ r <= r + 2
      BY <1>2
    <2>2. m1[r] = m[r] /\ m1[r + 1] = m[r + 1] /\ m1[r + 2] = m[r + 2]
      BY <1>4, <1>6, <2>1
    <2>3. size = m[r + 2]
      BY DEF size, Size
    <2> QED
      BY <1>5, <2>2, <2>3
  <1>8. Size(m1, r) = size /\ (IsHole(m1, r) <=> r \in free)
    BY <1>5, <1>7 DEF Size, IsHole
  <1> HIDE DEF size, next
  <1>9. m1[lo + 2] + Size(m1, r) = next - lo /\ r + Size(m1, r) - FOOTER = next - 2
    BY <1>1, <1>2, <1>4, <1>6, <1>8
  <1>10. next - lo \in Word /\ lo \in Address /\ lo + 1 \in Address /\ lo + 2 \in Address
    BY <1>1, <1>2, <1>4, Addresses
  <1>11. Wrap(m1[lo + 2] + Size(m1, r)) = next - lo
    BY <1>9, <1>10, WrapOfWord
  <1> DEFINE m2 == [m1 EXCEPT ![lo + 2] = next - lo]
  <1>12. /\ m2 \in [Address -> Word] /\ m2[lo + 2] = next - lo
         /\ \A a \in Address : a # lo + 2 => m2[a] = m1[a]
    BY <1>6, <1>10, WordPut
  <1> HIDE DEF m2
  <1>13. Spans(m, m2, lo, next)
    <2>1. \A a \in Address : a < lo \/ next <= a => a # lo + 2 /\ (a < lo \/ r <= a)
      BY <1>2, <1>4, Addresses
    <2>2. \A a \in Address : a < lo \/ next <= a => m2[a] = m[a]
      BY <1>6, <1>12, <2>1
    <2>3. lo # lo + 2 /\ lo + 1 # lo + 2
      OBVIOUS
    <2>4. m2[lo] = MAGIC /\ m2[lo + 1] = 1
      BY <1>6, <1>10, <1>12, <2>3
    <2> QED
      BY <1>12, <2>2, <2>4 DEF Spans
  <1> QED
    BY <1>2, <1>4, <1>7, <1>8, <1>9, <1>11, <1>13 DEF m2, next, MeetsRight

(* The entry of a free block is dropped.                                   *)
LEMMA EntryDropped ==
  ASSUME NEW index \in Seq(Address), IsInjective(index), NEW r \in Range(index)
  PROVE  LET at == {i \in DOMAIN index : index[i] = r}
             drop == Drop(index, IF at = {} THEN 0 ELSE Min(at))
         IN  drop \in Seq(Address) /\ IsInjective(drop) /\ Range(drop) = Range(index) \ {r}
  <1> DEFINE at == {i \in DOMAIN index : index[i] = r}
             i == Min(at)
  <1>1. IsFiniteSet(at) /\ at \in SUBSET Int /\ at # {} /\ \A k \in at : k \in 1 .. Len(index)
    <2>1. at \in SUBSET (1 .. Len(index) + 1) /\ \A k \in at : k \in 1 .. Len(index)
      BY Entries
    <2>2. \E k \in 1 .. Len(index) : index[k] = r
      BY Entries
    <2>3. at # {}
      BY <2>2, Entries
    <2> HIDE DEF at
    <2> QED
      BY <2>1, <2>3, Positions
  <1>2. \A k \in at : index[k] = r
    OBVIOUS
  <1> HIDE DEF at
  <1>3. i \in at
    BY <1>1, LeastAndGreatest
  <1>4. i \in 1 .. Len(index) /\ index[i] = r
    BY <1>1, <1>2, <1>3
  <1> HIDE DEF i
  <1>5. /\ Drop(index, i) \in Seq(Address) /\ IsInjective(Drop(index, i))
        /\ Range(Drop(index, i)) = Range(index) \ {r}
    BY <1>4, Dropped
  <1>6. (IF at = {} THEN 0 ELSE Min(at)) = i
    BY <1>1 DEF i
  <1> QED
    BY <1>5, <1>6 DEF at

(* The merge with the right neighbour, which goes from the index.          *)
LEMMA RightMerge ==
  ASSUME NEW m, NEW r, NEW m1, NEW lo \in Int, Spans(m, m1, lo, r),
         NEW index \in Seq(Address), IsInjective(index),
         MeetsRight(m, Range(index), m1, lo, r),
         NEW right, right = MergedRight(m1, index, lo, r - 2)
  PROVE  /\ right.footer \in Int
         /\ Spans(m, right.mem, lo, right.footer + 2)
         /\ right.index \in Seq(Address) /\ IsInjective(right.index)
         /\ \/ right.footer + 2 = r /\ Range(right.index) = Range(index)
            \/ /\ r \in Range(index) /\ right.footer + 2 = EndOf(m, r)
               /\ Range(right.index) = Range(index) \ {r}
  <1> DEFINE at == {i \in DOMAIN index : index[i] = r}
             drop == Drop(index, IF at = {} THEN 0 ELSE Min(at))
             m2 == [m1 EXCEPT ![lo + 2] = EndOf(m, r) - lo]
             next == EndOf(m, r)
  <1>1. r \in Int /\ next \in Int
    BY DEF MeetsRight
  <1>2. r - 2 + FOOTER = r
    BY <1>1, Numbers
  <1>3. right = IF m1[r] = MAGIC /\ IsHole(m1, r)
                  THEN [mem |-> [m1 EXCEPT ![lo + 2] = Wrap(m1[lo + 2] + Size(m1, r))],
                        index |-> drop, footer |-> r + Size(m1, r) - FOOTER]
                  ELSE [mem |-> m1, index |-> index, footer |-> r - 2]
    BY <1>2, Zenon DEF MergedRight
  <1>4. /\ m1[r] = MAGIC
        /\ IsHole(m1, r) <=> r \in Range(index)
        /\ Wrap(m1[lo + 2] + Size(m1, r)) = next - lo
        /\ r + Size(m1, r) - FOOTER = next - 2
    BY Zenon DEF MeetsRight
  <1>5. Spans(m, m2, lo, next)
    BY Zenon DEF MeetsRight
  <1>6. CASE r \notin Range(index)
    <2>1. right = [mem |-> m1, index |-> index, footer |-> r - 2]
      BY <1>3, <1>4, <1>6, Zenon
    <2>2. right.mem = m1 /\ right.index = index /\ right.footer = r - 2
      BY <2>1
    <2>3. r - 2 \in Int /\ r - 2 + 2 = r
      BY <1>1
    <2> QED
      BY <2>2, <2>3
  <1>7. CASE r \in Range(index)
    <2>1. drop \in Seq(Address) /\ IsInjective(drop) /\ Range(drop) = Range(index) \ {r}
      BY <1>7, EntryDropped
    <2>2. right = [mem |-> m2, index |-> drop, footer |-> next - 2]
      BY <1>3, <1>4, <1>7, Zenon
    <2> HIDE DEF drop, at, m2, next
    <2>3. right.mem = m2 /\ right.index = drop /\ right.footer = next - 2
      BY <2>2
    <2>4. next - 2 \in Int /\ next - 2 + 2 = next
      BY <1>1
    <2> QED
      BY <1>5, <1>7, <2>1, <2>3, <2>4 DEF next
  <1> QED
    BY <1>6, <1>7

(* A heap that keeps its end is not made shorter by Contract: the size of  *)
(* its last block stays, and a footer is written.                          *)
LEMMA ContractedInPlace ==
  ASSUME NEW m, NEW m1, NEW lo \in Int, HeapStart <= lo, NEW end \in Int, lo + 5 <= end,
         end <= Top + 1, Spans(m, m1, lo, end),
         NEW cut, cut = Contracted(m1, lo, end), cut.end = end
  PROVE  Spans(m, cut.mem, lo, end)
  <1> DEFINE old == end - HeapStart
             new == NewSize(lo - HeapStart)
             size == Wrap(Size(m1, lo) - (old - new))
             footer == Wrap(lo + size - FOOTER)
             m2 == [m1 EXCEPT ![lo + 2] = size]
  <1>1. HEADER = 3 /\ FOOTER = 2 /\ HeapStart \in Nat /\ Top \in Nat /\ Page \in Nat
    BY Numbers
  <1>2. /\ m1 \in [Address -> Word]
        /\ \A a \in Address : a < lo \/ end <= a => m1[a] = m[a]
        /\ m1[lo] = MAGIC /\ m1[lo + 1] = 1 /\ m1[lo + 2] = end - lo
    BY DEF Spans
  <1>3. cut = [mem |-> IF size > 0 THEN PutFooter(m2, footer, lo) ELSE m1,
               end |-> HeapStart + new, freed |-> FreedPages(old, new)]
    BY Zenon DEF Contracted
  <1>4. new \in Int
    <2>1. MinSize \in Nat
      BY HeapAssumption
    <2> DEFINE x == lo - HeapStart
               rounded == IF (x \div Page) % 2 = 1 THEN 2 * Page ELSE x
    <2>2. new = IF rounded < MinSize THEN MinSize ELSE rounded
      BY Zenon DEF NewSize
    <2>3. x \in Int /\ 2 * Page \in Int
      BY <1>1
    <2> HIDE DEF x, new
    <2>4. rounded \in Int
      BY <2>3
    <2> HIDE DEF rounded
    <2> QED
      BY <2>1, <2>2, <2>4
  <1> HIDE DEF new, size, footer, m2
  <1>5. old - new = 0
    <2>1. HeapStart + new = end
      BY <1>3
    <2> QED
      BY <1>1, <1>4, <2>1
  <1> HIDE DEF old
  <1>6. size = end - lo
    <2>1. Size(m1, lo) - (old - new) = end - lo /\ end - lo \in Word
      BY <1>1, <1>2, <1>5, Addresses DEF Size
    <2> QED
      BY <2>1, WrapOfWord DEF size
  <1>7. footer = end - 2
    <2>1. lo + size - FOOTER = end - 2 /\ end - 2 \in Word
      BY <1>1, <1>6, Addresses
    <2> QED
      BY <2>1, WrapOfWord DEF footer
  <1>8. /\ {lo, lo + 1, lo + 2, end - 2, end - 2 + 1} \subseteq Address
        /\ lo \in Word /\ size \in Word
    BY <1>1, <1>6, Addresses
  <1>9. /\ m2 \in [Address -> Word] /\ m2[lo + 2] = size
        /\ \A a \in Address : a # lo + 2 => m2[a] = m1[a]
    BY <1>2, <1>8, WordPut DEF m2
  <1> DEFINE m3 == PutFooter(m2, end - 2, lo)
  <1>10. /\ m3 \in [Address -> Word]
         /\ \A a \in Address : a \notin {end - 2, end - 2 + 1} => m3[a] = m2[a]
    <2> DEFINE f == end - 2
    <2>1. f \in Address /\ f + 1 \in Address
      BY <1>8
    <2> HIDE DEF f
    <2>2. /\ PutFooter(m2, f, lo) \in [Address -> Word]
          /\ \A a \in Address : a \notin {f, f + 1} => PutFooter(m2, f, lo)[a] = m2[a]
      BY <1>8, <1>9, <2>1, FooterPut
    <2> QED
      BY <2>2 DEF f
  <1> HIDE DEF m3
  <1>11. cut.mem = m3
    <2>1. size > 0
      BY <1>6
    <2>2. cut.mem = IF size > 0 THEN PutFooter(m2, footer, lo) ELSE m1
      BY <1>3
    <2> QED
      BY <1>7, <2>1, <2>2, Zenon DEF m3
  <1>12. \A a \in {lo, lo + 1, lo + 2} : a \notin {end - 2, end - 2 + 1}
    OBVIOUS
  <1>13. m3[lo] = MAGIC /\ m3[lo + 1] = 1 /\ m3[lo + 2] = end - lo
    <2>1. lo # lo + 2 /\ lo + 1 # lo + 2
      OBVIOUS
    <2> QED
      BY <1>2, <1>6, <1>8, <1>9, <1>10, <1>12, <2>1
  <1>14. \A a \in Address : a < lo \/ end <= a => m3[a] = m[a]
    <2>1. \A a \in Address : a < lo \/ end <= a => a # lo + 2 /\ a \notin {end - 2, end - 2 + 1}
      BY Addresses
    <2> QED
      BY <1>2, <1>9, <1>10, <2>1
  <1> QED
    BY <1>10, <1>11, <1>13, <1>14 DEF Spans

(* The words that free makes one block of: those of the block, and of the  *)
(* free blocks on its left and on its right.                               *)
Merges(m, free, h, lo, hi, L, R) ==
  /\ \/ L = {} /\ lo = h
     \/ L = {lo} /\ lo \in free /\ EndOf(m, lo) = h
  /\ \/ R = {} /\ hi = EndOf(m, h)
     \/ R = {EndOf(m, h)} /\ EndOf(m, h) \in free /\ hi = EndOf(m, EndOf(m, h))

(* Where they lie.                                                         *)
LEMMA MergedLies ==
  ASSUME NEW m, NEW free, NEW used, NEW end, NEW h \in used,
         Typed(m, free, used, end), LieApart(m, free, used, end),
         NEW lo, NEW hi, NEW L, NEW R, Merges(m, free, h, lo, hi, L, R)
  PROVE  /\ h \in Int /\ EndOf(m, h) \in Int /\ h + 5 <= EndOf(m, h)
         /\ lo \in Int /\ hi \in Int /\ HeapStart <= lo /\ lo <= h /\ EndOf(m, h) <= hi
         /\ hi <= end /\ end \in Int /\ end <= Top + 1
         /\ L = {} \/ lo < h
         /\ R = {} \/ EndOf(m, h) < hi
         /\ L \subseteq free /\ R \subseteq free /\ h \notin free
  <1> DEFINE r == EndOf(m, h)
  <1>1. \A g \in free \cup used : /\ g \in Int /\ HeapStart <= g /\ EndOf(m, g) \in Int
                                  /\ g + 5 <= EndOf(m, g) /\ EndOf(m, g) <= end
                                  /\ end \in Int /\ end <= Top + 1
    <2> TAKE g \in free \cup used
    <2>1. /\ g \in HeapStart .. Top
          /\ Size(m, g) \in Int /\ Size(m, g) >= 5
          /\ EndOf(m, g) \in Int /\ EndOf(m, g) = g + Size(m, g) /\ EndOf(m, g) <= end
          /\ end \in Int /\ end <= Top + 1
      BY BlockLies
    <2> QED
      BY <2>1, Numbers
  <1>2. h \notin free
    BY DEF LieApart
  <1>3. CASE L = {} /\ lo = h
    <2>1. lo \in Int /\ HeapStart <= lo /\ lo <= h
      BY <1>1, <1>3
    <2>2. CASE R = {} /\ hi = r
      BY <1>1, <1>2, <1>3, <2>1, <2>2
    <2>3. CASE R = {r} /\ r \in free /\ hi = EndOf(m, r)
      BY <1>1, <1>2, <1>3, <2>1, <2>3
    <2> QED
      BY <2>2, <2>3 DEF Merges
  <1>4. CASE L = {lo} /\ lo \in free /\ EndOf(m, lo) = h
    <2>1. lo \in Int /\ HeapStart <= lo /\ lo < h
      BY <1>1, <1>4
    <2>2. CASE R = {} /\ hi = r
      BY <1>1, <1>2, <1>4, <2>1, <2>2
    <2>3. CASE R = {r} /\ r \in free /\ hi = EndOf(m, r)
      BY <1>1, <1>2, <1>4, <2>1, <2>3
    <2> QED
      BY <2>2, <2>3 DEF Merges
  <1> QED
    BY <1>3, <1>4 DEF Merges

(* The block that they become takes their place.                           *)
LEMMA MergedReplaces ==
  ASSUME NEW m, NEW free, NEW used, NEW end, NEW h \in used,
         Typed(m, free, used, end), MeetEndToEnd(m, free, used, end),
         LieApart(m, free, used, end),
         NEW lo, NEW hi, NEW L, NEW R, Merges(m, free, h, lo, hi, L, R),
         NEW m2, Spans(m, m2, lo, hi)
  PROVE  Replaces(m, free, used, L \cup {h} \cup R, lo, hi, m2, {lo}, {})
  <1> DEFINE gone == L \cup {h} \cup R
             r == EndOf(m, h)
  <1>1. /\ h \in Int /\ r \in Int /\ h + 5 <= r
        /\ lo \in Int /\ hi \in Int /\ HeapStart <= lo /\ lo <= h /\ r <= hi
        /\ hi <= end /\ end \in Int /\ end <= Top + 1
        /\ L = {} \/ lo < h
        /\ R = {} \/ r < hi
        /\ L \subseteq free /\ R \subseteq free /\ h \notin free
    BY MergedLies
  <1>2. /\ (L = {} /\ lo = h) \/ (L = {lo} /\ lo \in free /\ EndOf(m, lo) = h)
        /\ (R = {} /\ hi = r) \/ (R = {r} /\ r \in free /\ hi = EndOf(m, r))
    BY DEF Merges
  <1>3. \A g \in free \cup used : /\ g \in Int /\ EndOf(m, g) \in Int
                                  /\ Size(m, g) \in Int /\ g + 5 <= EndOf(m, g)
    <2> TAKE g \in free \cup used
    <2>1. /\ g \in HeapStart .. Top
          /\ Size(m, g) \in Int /\ Size(m, g) >= 5
          /\ EndOf(m, g) \in Int /\ EndOf(m, g) = g + Size(m, g) /\ EndOf(m, g) <= end
      BY BlockLies
    <2> QED
      BY <2>1, Numbers
  <1>4. \A g, k \in free \cup used : g < k => EndOf(m, g) <= k
    BY DEF LieApart
  <1> HIDE DEF r
  <1>5. \A g \in (free \cup used) \ gone : EndOf(m, g) <= lo \/ hi <= g
    <2> TAKE g \in (free \cup used) \ gone
    <2>1. g # h /\ g \notin L /\ g \notin R /\ g \in free \cup used
      OBVIOUS
    <2>2. EndOf(m, g) <= h \/ r <= g
      BY <1>1, <1>3, <1>4, <2>1 DEF r
    <2>3. CASE EndOf(m, g) <= h
      <3>1. CASE L = {} /\ lo = h
        BY <2>3, <3>1
      <3>2. CASE L = {lo} /\ lo \in free /\ EndOf(m, lo) = h
        <4>1. g # lo
          BY <2>1, <3>2
        <4>2. ~ (lo < g)
          BY <1>1, <1>3, <1>4, <2>1, <2>3, <3>2
        <4> QED
          BY <1>1, <1>3, <1>4, <2>1, <3>2, <4>1, <4>2
      <3> QED
        BY <1>2, <3>1, <3>2
    <2>4. CASE r <= g
      <3>1. CASE R = {} /\ hi = r
        BY <2>4, <3>1
      <3>2. CASE R = {r} /\ r \in free /\ hi = EndOf(m, r)
        <4>1. g # r
          BY <2>1, <3>2
        <4> QED
          BY <1>1, <1>3, <1>4, <2>1, <2>4, <3>2, <4>1
      <3> QED
        BY <1>2, <3>1, <3>2
    <2> QED
      BY <2>2, <2>3, <2>4
  <1>6. /\ m2 \in [Address -> Word]
        /\ \A a \in Address : a < lo \/ hi <= a => m2[a] = m[a]
        /\ m2[lo] = MAGIC /\ m2[lo + 1] = 1 /\ m2[lo + 2] = hi - lo
    BY DEF Spans
  <1>7. Size(m2, lo) = hi - lo /\ EndOf(m2, lo) = hi
    BY <1>1, <1>6 DEF Size, EndOf
  <1>8. \A p \in {lo} \cup {} : p = lo
    OBVIOUS
  <1>9. Replaces(m, free, used, gone, lo, hi, m2, {lo}, {})
    <2>1. \A p \in {lo} \cup {} : /\ p \in Int /\ lo <= p /\ p + 3 <= hi
                                  /\ Size(m2, p) >= 5 /\ EndOf(m2, p) <= hi
      BY <1>1, <1>7, <1>8
    <2>2. \A p, q \in {lo} \cup {} : p < q => EndOf(m2, p) <= q
      BY <1>1, <1>8
    <2> QED
      BY <1>1, <1>5, <1>6, <2>1, <2>2 DEF Replaces
  <1> QED
    BY <1>9

(* They become one free block, and the heap stays in order.                *)
LEMMA MergedMeet ==
  ASSUME NEW m, NEW free, NEW used, NEW end, NEW h \in used,
         Typed(m, free, used, end), MeetEndToEnd(m, free, used, end),
         LieApart(m, free, used, end),
         NEW lo, NEW hi, NEW L, NEW R, Merges(m, free, h, lo, hi, L, R),
         NEW m2, Spans(m, m2, lo, hi)
  PROVE  /\ Typed(m2, (free \ R) \cup {lo}, used \ {h}, end)
         /\ MeetEndToEnd(m2, (free \ R) \cup {lo}, used \ {h}, end)
  <1> DEFINE gone == L \cup {h} \cup R
             r == EndOf(m, h)
  <1>1. /\ h \in Int /\ r \in Int /\ h + 5 <= r
        /\ lo \in Int /\ hi \in Int /\ HeapStart <= lo /\ lo <= h /\ r <= hi
        /\ hi <= end /\ end \in Int /\ end <= Top + 1
        /\ L = {} \/ lo < h
        /\ R = {} \/ r < hi
        /\ L \subseteq free /\ R \subseteq free /\ h \notin free
    BY MergedLies
  <1>2. /\ (L = {} /\ lo = h) \/ (L = {lo} /\ lo \in free /\ EndOf(m, lo) = h)
        /\ (R = {} /\ hi = r) \/ (R = {r} /\ r \in free /\ hi = EndOf(m, r))
    BY DEF Merges
  <1> HIDE DEF r
  <1>6. /\ m2 \in [Address -> Word]
        /\ \A a \in Address : a < lo \/ hi <= a => m2[a] = m[a]
        /\ m2[lo] = MAGIC /\ m2[lo + 1] = 1 /\ m2[lo + 2] = hi - lo
    BY DEF Spans
  <1>7. Size(m2, lo) = hi - lo /\ EndOf(m2, lo) = hi
    BY <1>1, <1>6 DEF Size, EndOf
  <1>9. Replaces(m, free, used, gone, lo, hi, m2, {lo}, {})
    BY MergedReplaces
  <1>10. Ends(m, gone) \cup {lo} = gone \cup {hi}
    <2>1. \A e : e \in Ends(m, gone) <=>
                   \/ \E g \in L : e = EndOf(m, g)
                   \/ e = r
                   \/ \E g \in R : e = EndOf(m, g)
      BY DEF Ends, r
    <2> HIDE DEF gone
    <2>2. \A e : e \in gone <=> e \in L \/ e = h \/ e \in R
      BY DEF gone
    <2> QED
      BY <1>2, <2>1, <2>2
  <1>11. Ends(m2, {lo} \cup {}) \cup {lo} = {lo} \cup {} \cup {hi}
    BY <1>7 DEF Ends
  <1>12. \A p \in {lo} \cup {} : m2[p] = MAGIC /\ (IsHole(m2, p) <=> p \in {lo})
    BY <1>6 DEF IsHole
  <1>13. gone \subseteq free \cup used /\ lo < hi
    BY <1>1
  <1>14. \A g \in gone : lo <= g /\ g < hi
    BY <1>1, <1>2
  <1> HIDE DEF gone
  <1>15. /\ Typed(m2, (free \ gone) \cup {lo}, (used \ gone) \cup {}, end)
         /\ MeetEndToEnd(m2, (free \ gone) \cup {lo}, (used \ gone) \cup {}, end)
    BY <1>1, <1>9, <1>10, <1>11, <1>12, <1>13, <1>14, ReplacedMeet
  <1>16. (used \ gone) \cup {} = used \ {h}
    <2>1. free \cap used = {}
      BY DEF LieApart
    <2> QED
      BY <1>1, <2>1 DEF gone
  <1>17. (free \ gone) \cup {lo} = (free \ R) \cup {lo}
    BY <1>1, <1>2 DEF gone
  <1> QED
    BY <1>15, <1>16, <1>17

(* The other blocks in use keep their words.                               *)
LEMMA MergedKeepsUsed ==
  ASSUME NEW m, NEW free, NEW used, NEW end, NEW h \in used,
         Typed(m, free, used, end), MeetEndToEnd(m, free, used, end),
         LieApart(m, free, used, end),
         NEW lo, NEW hi, NEW L, NEW R, Merges(m, free, h, lo, hi, L, R),
         NEW m2, Spans(m, m2, lo, hi),
         NEW g \in used \ {h}
  PROVE  /\ Size(m2, g) = Size(m, g)
         /\ \A a \in g .. EndOf(m, g) - 1 : a \in Address /\ m2[a] = m[a]
  <1> DEFINE gone == L \cup {h} \cup R
  <1>1. Replaces(m, free, used, gone, lo, hi, m2, {lo}, {})
    BY MergedReplaces
  <1>2. L \subseteq free /\ R \subseteq free
    BY MergedLies
  <1>3. g \in (free \cup used) \ gone
    BY <1>2 DEF LieApart
  <1> HIDE DEF gone
  <1> QED
    BY <1>1, <1>3, OthersStay

-----------------------------------------------------------------------------
(* The step of free.                                                       *)

(* What free stores, and what the index holds then.                        *)
LEMMA FreeMerges ==
  ASSUME WellFormed, NEW b \in live, Free(b), FreesInside(b), live' # live,
         NEW h, h = b.address - HEADER
  PROVE  /\ live' = live \ {b} /\ UNCHANGED <<calls, stopped, halted>>
         /\ pages' \subseteq pages /\ heap_end' = heap_end
         /\ heapIndex' \in Seq(Address) /\ IsInjective(heapIndex)'
         /\ \E lo, hi, L, R : /\ Merges(mem, FreeBlocks, h, lo, hi, L, R)
                              /\ Spans(mem, mem', lo, hi)
                              /\ FreeBlocks' = (FreeBlocks \ R) \cup {lo}
  <1> DEFINE left == MergedLeft([mem EXCEPT ![h + 1] = 1], h)
             right == MergedRight(left.mem, heapIndex, left.header, left.footer)
             cut == Contracted(right.mem, left.header, heap_end)
             end == right.footer + FOOTER = heap_end
             final == IF end THEN cut.mem ELSE right.mem
             r == EndOf(mem, h)
  <1>1. /\ UNCHANGED <<calls, stopped>>
        /\ IF (left.footer + FOOTER) \div Page \notin pages
             THEN /\ halted' = TRUE
                  /\ mem' = left.mem
                  /\ UNCHANGED <<heapIndex, heap_end, pages, live>>
             ELSE /\ mem' = final
                  /\ heapIndex' = IF left.header = h
                                    THEN Insert(final, right.index, h) ELSE right.index
                  /\ heap_end' = IF end THEN cut.end ELSE heap_end
                  /\ pages' = IF end THEN pages \ cut.freed ELSE pages
                  /\ live' = live \ {b}
                  /\ UNCHANGED halted
    BY Zenon DEF Free
  <1>2. /\ Apart /\ IsInjective(heapIndex)
        /\ MeetEndToEnd(mem, FreeBlocks, UsedBlocks, heap_end)
    BY OrderIsApart
  <1>3. /\ Typed(mem, FreeBlocks, UsedBlocks, heap_end)
        /\ LieApart(mem, FreeBlocks, UsedBlocks, heap_end)
        /\ heapIndex \in Seq(Address) /\ heap_end \in Int
    BY <1>2, CurrentHeap
  <1>4. /\ NameTheirHeaders(mem, FreeBlocks, UsedBlocks, heap_end)
        /\ r < heap_end /\ heap_end' = heap_end
    BY DEF FreesInside, FootersTrue
  <1>5. h \in UsedBlocks
    BY DEF UsedBlocks
  <1> HIDE DEF left, right, cut, end, final, r
  <1>6. /\ left.footer = r - 2
        /\ Spans(mem, left.mem, left.header, r)
        /\ left.header = h \/ (left.header \in FreeBlocks /\ EndOf(mem, left.header) = h)
    <2>1. left = MergedLeft(Freed(mem, h), h)
      BY DEF left, Freed
    <2>2. MeetEndToEnd(mem, FreeBlocks, UsedBlocks, heap_end)
      BY <1>2
    <2>3. LeftMerged(mem, FreeBlocks, h, MergedLeft(Freed(mem, h), h))
      BY <1>3, <1>4, <1>5, <2>2, LeftMerge
    <2> QED
      BY <2>1, <2>3 DEF r, LeftMerged
  <1> DEFINE lo == left.header
             L == IF left.header = h THEN {} ELSE {lo}
  <1>7. (L = {} /\ lo = h) \/ (L = {lo} /\ lo \in FreeBlocks /\ EndOf(mem, lo) = h)
    BY <1>6
  <1>8. /\ h \in Int /\ r \in Int /\ h + 5 <= r
        /\ lo \in Int /\ HeapStart <= lo /\ lo <= h
        /\ heap_end <= Top + 1 /\ h \notin FreeBlocks
    <2>1. Merges(mem, FreeBlocks, h, lo, r, L, {})
      BY <1>7 DEF Merges, r
    <2> HIDE DEF lo, L
    <2> QED
      BY <1>3, <1>5, <2>1, MergedLies DEF r
  <1>9. left.mem \in [Address -> Word]
    BY <1>6 DEF Spans
  <1> HIDE DEF lo, L
  <1>10. lo + 5 <= r
    BY <1>8
  <1>11. MeetsRight(mem, FreeBlocks, left.mem, lo, r)
    BY <1>2, <1>3, <1>4, <1>5, <1>6, <1>8, <1>9, <1>10, RightNeighbour DEF lo, r
  <1>12. right = MergedRight(left.mem, heapIndex, lo, r - 2)
    BY <1>6, Zenon DEF right, lo
  <1>13. /\ right.footer \in Int
         /\ Spans(mem, right.mem, lo, right.footer + 2)
         /\ right.index \in Seq(Address) /\ IsInjective(right.index)
         /\ \/ right.footer + 2 = r /\ Range(right.index) = FreeBlocks
            \/ /\ r \in FreeBlocks /\ right.footer + 2 = EndOf(mem, r)
               /\ Range(right.index) = FreeBlocks \ {r}
    BY <1>2, <1>3, <1>6, <1>8, <1>11, <1>12, RightMerge DEF lo, FreeBlocks
  <1> DEFINE hi == right.footer + 2
             R == IF hi = r THEN {} ELSE {r}
  <1>14. /\ right.footer + FOOTER = hi /\ hi \in Int
         /\ (R = {} /\ hi = r) \/ (R = {r} /\ r \in FreeBlocks /\ hi = EndOf(mem, r))
         /\ Range(right.index) = FreeBlocks \ R
    <2>1. right.footer + FOOTER = hi /\ hi \in Int
      BY <1>13, Numbers
    <2>2. CASE right.footer + 2 = r /\ Range(right.index) = FreeBlocks
      BY <2>1, <2>2
    <2>3. CASE /\ r \in FreeBlocks /\ right.footer + 2 = EndOf(mem, r)
               /\ Range(right.index) = FreeBlocks \ {r}
      <3>1. EndOf(mem, r) >= r + 5
        <4>1. Size(mem, r) \in Int /\ Size(mem, r) >= 5 /\ EndOf(mem, r) = r + Size(mem, r)
          BY <1>3, <2>3, BlockLies
        <4> QED
          BY <1>8, <4>1
      <3>2. hi # r
        BY <1>8, <2>1, <2>3, <3>1
      <3> QED
        BY <2>1, <2>3, <3>2
    <2> QED
      BY <1>13, <2>2, <2>3
  <1> HIDE DEF hi, R
  <1>15. Merges(mem, FreeBlocks, h, lo, hi, L, R)
    BY <1>7, <1>14 DEF Merges, r
  <1>16. /\ r <= hi /\ hi <= heap_end /\ R \subseteq FreeBlocks /\ L \subseteq FreeBlocks
         /\ L = {} \/ lo < h
    BY <1>3, <1>5, <1>15, MergedLies DEF r
  <1>17. ~ (halted' = TRUE /\ live' = live)
    OBVIOUS
  <1>18. /\ mem' = final
         /\ heapIndex' = IF lo = h THEN Insert(final, right.index, h) ELSE right.index
         /\ heap_end' = IF end THEN cut.end ELSE heap_end
         /\ pages' = IF end THEN pages \ cut.freed ELSE pages
         /\ live' = live \ {b}
         /\ UNCHANGED halted
    BY <1>1, Zenon DEF lo
  <1>19. end <=> hi = heap_end
    BY <1>14 DEF end
  <1>20. Spans(mem, right.mem, lo, hi)
    BY <1>13 DEF hi
  <1>21. Spans(mem, final, lo, hi)
    <2>1. CASE end
      <3>1. hi = heap_end /\ cut.end = heap_end /\ final = cut.mem
        BY <1>4, <1>18, <1>19, <2>1 DEF final
      <3>2. cut = Contracted(right.mem, lo, heap_end)
        BY DEF cut, lo
      <3>3. lo + 5 <= heap_end /\ Spans(mem, right.mem, lo, heap_end)
        BY <1>3, <1>8, <1>10, <1>16, <1>20, <3>1
      <3>4. Spans(mem, cut.mem, lo, heap_end)
        BY <1>3, <1>8, <3>1, <3>2, <3>3, ContractedInPlace
      <3> QED
        BY <3>1, <3>4
    <2>2. CASE ~ end
      BY <1>20, <2>2 DEF final
    <2> QED
      BY <2>1, <2>2
  <1>22. h \in Address
    <2>1. h \in HeapStart .. Top /\ {h, h + 1, h + 2} \subseteq Address
      BY <1>3, <1>5, BlockLies
    <2> QED
      BY <2>1
  <1>23. /\ heapIndex' \in Seq(Address) /\ IsInjective(heapIndex')
         /\ Range(heapIndex') = (FreeBlocks \ R) \cup {lo}
    <2>1. CASE lo = h
      <3>1. h \notin Range(right.index)
        BY <1>8, <1>14
      <3>2. /\ Insert(final, right.index, h) \in Seq(Address)
            /\ Range(Insert(final, right.index, h)) = Range(right.index) \cup {h}
            /\ IsInjective(Insert(final, right.index, h))
        BY <1>13, <1>22, <3>1, Inserted
      <3> QED
        BY <1>14, <1>18, <2>1, <3>2
    <2>2. CASE lo # h
      <3>1. lo \in FreeBlocks /\ lo \notin R
        <4>1. lo \in FreeBlocks /\ lo < r
          BY <1>7, <1>8, <1>10, <2>2
        <4> QED
          BY <1>8, <1>14, <4>1
      <3> QED
        BY <1>13, <1>14, <1>18, <2>2, <3>1
    <2> QED
      BY <2>1, <2>2
  <1>24. pages' \subseteq pages
    BY <1>18
  <1>25. FreeBlocks' = (FreeBlocks \ R) \cup {lo}
    BY <1>23 DEF FreeBlocks
  <1>26. Spans(mem, mem', lo, hi)
    BY <1>18, <1>21
  <1> QED
    BY <1>1, <1>4, <1>15, <1>18, <1>23, <1>24, <1>25, <1>26

(* The heap stays in order, and the other blocks in use keep their words.  *)
LEMMA FreeLeavesOrder ==
  ASSUME WellFormed, NEW b \in live, Free(b), FreesInside(b), live' # live
  PROVE  /\ WellFormed' /\ live' = live \ {b}
         /\ \A k \in live \ {b} :
              \A a \in k.address - HEADER .. EndOf(mem, k.address - HEADER) - 1 :
                a \in Address /\ mem'[a] = mem[a]
  <1> DEFINE h == b.address - HEADER
  <1>1. /\ live' = live \ {b} /\ UNCHANGED <<calls, stopped, halted>>
        /\ pages' \subseteq pages /\ heap_end' = heap_end
        /\ heapIndex' \in Seq(Address) /\ IsInjective(heapIndex)'
        /\ \E lo, hi, L, R : /\ Merges(mem, FreeBlocks, h, lo, hi, L, R)
                             /\ Spans(mem, mem', lo, hi)
                             /\ FreeBlocks' = (FreeBlocks \ R) \cup {lo}
    BY FreeMerges
  <1>2. PICK lo, hi, L, R : /\ Merges(mem, FreeBlocks, h, lo, hi, L, R)
                            /\ Spans(mem, mem', lo, hi)
                            /\ FreeBlocks' = (FreeBlocks \ R) \cup {lo}
    BY <1>1
  <1>3. /\ Apart /\ IsInjective(heapIndex)
        /\ MeetEndToEnd(mem, FreeBlocks, UsedBlocks, heap_end)
    BY OrderIsApart
  <1>4. /\ Typed(mem, FreeBlocks, UsedBlocks, heap_end)
        /\ LieApart(mem, FreeBlocks, UsedBlocks, heap_end)
    BY <1>3, CurrentHeap
  <1>5. TypeOK /\ Held
    BY DEF WellFormed
  <1>6. h \in UsedBlocks
    BY DEF UsedBlocks
  <1>7. \A k \in live : k.address \in Int
    BY <1>5, Addresses DEF TypeOK
  <1>8. \A k \in live : k.address - HEADER = h => k = b
    <2> TAKE k \in live
    <2>1. k.address - HEADER = h => k.address = b.address
      BY <1>7, Numbers
    <2> QED
      BY <1>5, <2>1 DEF Held
  <1> HIDE DEF h
  <1>9. UsedBlocks' = UsedBlocks \ {h}
    <2>1. UsedBlocks' = {k.address - HEADER : k \in live'}
      BY Zenon DEF UsedBlocks
    <2>2. \A x : x \in {k.address - HEADER : k \in live'} <=> x \in UsedBlocks \ {h}
      <3> TAKE x
      <3>1. x \in {k.address - HEADER : k \in live'} <=> \E k \in live : k # b /\ x = k.address - HEADER
        BY <1>1
      <3>2. x \in UsedBlocks <=> \E k \in live : x = k.address - HEADER
        BY DEF UsedBlocks
      <3>3. h = b.address - HEADER
        BY DEF h
      <3> QED
        BY <1>8, <3>1, <3>2, <3>3
    <2> QED
      BY <2>1, <2>2
  <1>10. /\ Typed(mem', (FreeBlocks \ R) \cup {lo}, UsedBlocks \ {h}, heap_end)
         /\ MeetEndToEnd(mem', (FreeBlocks \ R) \cup {lo}, UsedBlocks \ {h}, heap_end)
         /\ \A g \in UsedBlocks \ {h} :
              /\ Size(mem', g) = Size(mem, g)
              /\ \A a \in g .. EndOf(mem, g) - 1 : a \in Address /\ mem'[a] = mem[a]
    <2>1. PICK m2 : m2 = mem'
      OBVIOUS
    <2>2. Merges(mem, FreeBlocks, h, lo, hi, L, R) /\ Spans(mem, m2, lo, hi)
      BY <1>2, <2>1
    <2>3. /\ Typed(m2, (FreeBlocks \ R) \cup {lo}, UsedBlocks \ {h}, heap_end)
          /\ MeetEndToEnd(m2, (FreeBlocks \ R) \cup {lo}, UsedBlocks \ {h}, heap_end)
      BY <1>3, <1>4, <1>6, <2>2, MergedMeet
    <2>4. ASSUME NEW g \in UsedBlocks \ {h}
          PROVE  /\ Size(m2, g) = Size(mem, g)
                 /\ \A a \in g .. EndOf(mem, g) - 1 : a \in Address /\ m2[a] = mem[a]
      BY <1>3, <1>4, <1>6, <2>2, MergedKeepsUsed
    <2> QED
      BY <2>1, <2>3, <2>4
  <1>11. \A k \in live \ {b} : k.address - HEADER \in UsedBlocks \ {h}
    BY <1>8 DEF UsedBlocks
  <1>12. MeetEndToEnd(mem', FreeBlocks', UsedBlocks', heap_end')
    BY <1>1, <1>2, <1>9, <1>10
  <1>13. TypeOK'
    <2>1. mem' \in [Address -> Word]
      BY <1>10 DEF Typed
    <2>2. live' \subseteq live /\ pages' \subseteq pages
      BY <1>1
    <2> QED
      BY <1>1, <1>5, <2>1, <2>2 DEF TypeOK
  <1>14. Held'
    <2>1. ~ halted' /\ heap_end' \in HeapStart + Page .. Top + 1
      BY <1>1, <1>5 DEF Held
    <2>2. \A k, l \in live' : k.address = l.address => k = l
      BY <1>1, <1>5 DEF Held
    <2>3. \A k \in live' : Size(mem', k.address - HEADER) >= k.size + HEADER + FOOTER
      <3> TAKE k \in live'
      <3>1. k \in live \ {b}
        BY <1>1
      <3>2. Size(mem', k.address - HEADER) = Size(mem, k.address - HEADER)
        BY <1>10, <1>11, <3>1
      <3>3. Size(mem, k.address - HEADER) >= k.size + HEADER + FOOTER
        BY <1>5, <3>1 DEF Held
      <3> QED
        BY <3>2, <3>3
    <2> QED
      BY <2>1, <2>2, <2>3 DEF Held
  <1>15. WellFormed'
    BY <1>1, <1>12, <1>13, <1>14 DEF WellFormed
  <1>16. \A k \in live \ {b} :
           \A a \in k.address - HEADER .. EndOf(mem, k.address - HEADER) - 1 :
             a \in Address /\ mem'[a] = mem[a]
    BY <1>10, <1>11
  <1> QED
    BY <1>1, <1>15, <1>16

(* A block goes when its owner gives it back.                              *)
LEMMA GoneBlockIsFree ==
  ASSUME [Next]_vars, NEW b \in live \ live'
  PROVE  Free(b) /\ live' # live
  <1>1. CASE UNCHANGED vars
    BY <1>1 DEF vars
  <1>2. ASSUME NEW size \in Sizes, NEW align \in Aligns, Malloc(size, align)
        PROVE  FALSE
    <2>1. \E a : live' = live \cup {[address |-> a, size |-> size, align |-> align]}
      BY <1>2, Zenon DEF Malloc
    <2> QED
      BY <2>1
  <1>3. ASSUME NEW size \in Sizes, NEW align \in Aligns, AbandonMalloc(size, align)
        PROVE  FALSE
    BY <1>3, Zenon DEF AbandonMalloc
  <1>4. ASSUME NEW k \in live, Free(k)
        PROVE  k = b
    <2>1. live' = live \/ live' = live \ {k}
      BY <1>4, Zenon DEF Free
    <2> QED
      BY <2>1
  <1>5. ASSUME NEW k \in live, Write(k)
        PROVE  FALSE
    BY <1>5, Zenon DEF Write
  <1> QED
    BY <1>1, <1>2, <1>3, <1>4, <1>5 DEF Next

(* Free keeps a heap in order when its footers are true, away from the end *)
(* of the heap.                                                            *)
THEOREM SpecFreeKeepsForm == Spec => FreeKeepsForm
  <1>1. ASSUME [Next]_vars, NEW b \in live \ live', WellFormed, FreesInside(b)
        PROVE  WellFormed'
    <2>1. Free(b) /\ live' # live
      BY <1>1, GoneBlockIsFree
    <2> QED
      BY <1>1, <2>1, FreeLeavesOrder
  <1>2. [Next]_vars =>
          [\A b \in live \ live' : WellFormed /\ FreesInside(b) => WellFormed']_vars
    BY <1>1
  <1> QED
    BY <1>2, PTL DEF Spec, FreeKeepsForm

-----------------------------------------------------------------------------
(* A caller that is given up in malloc.                                    *)

(* A heap in which the blocks that callers hold are as they are now, and   *)
(* apart from each other and from the free ones.                           *)
Survives(m, index, end, mapped) ==
  /\ Typed(m, Range(index), UsedBlocks, end)
  /\ LieApart(m, Range(index), UsedBlocks, end)
  /\ index \in Seq(Address) /\ mapped \subseteq Nat
  /\ \A h \in UsedBlocks :
       /\ Size(m, h) = Size(mem, h)
       /\ \A a \in h .. EndOf(mem, h) - 1 : a \in Address /\ m[a] = mem[a]

(* A heap that continues this one is such a heap, and so is one with fewer *)
(* free blocks and a later end.                                            *)
LEMMA FewerSurvive ==
  ASSUME Apart, IsInjective(heapIndex), NEW g, Continues(Current, g, UsedBlocks),
         NEW index \in Seq(Address), Range(index) \subseteq Range(g.index),
         NEW end \in Int, g.end <= end, end <= Top + 1,
         NEW mapped, mapped \subseteq Nat
  PROVE  Survives(g.mem, index, end, mapped)
  <1>1. Current.mem = mem
    BY CurrentHeap
  <1>2. InShape(g, UsedBlocks)
    BY DEF Continues
  <1>3. /\ Typed(g.mem, Range(g.index), UsedBlocks, g.end)
        /\ LieApart(g.mem, Range(g.index), UsedBlocks, g.end)
    BY <1>2 DEF InShape
  <1>4. UsedBlocks \subseteq UsedBlocks
    OBVIOUS
  <1>5. /\ Typed(g.mem, Range(index), UsedBlocks, end)
        /\ LieApart(g.mem, Range(index), UsedBlocks, end)
    BY <1>3, <1>4, FewerApart
  <1>6. \A h \in UsedBlocks :
          /\ Size(g.mem, h) = Size(mem, h)
          /\ \A a \in h .. EndOf(mem, h) - 1 : a \in Address /\ g.mem[a] = mem[a]
    BY <1>1 DEF Continues
  <1> QED
    BY <1>5, <1>6 DEF Survives

(* How far a growth moves the end.                                         *)
LEMMA GrownEnd ==
  ASSUME NEW g, NEW size
  PROVE  Grow(g, size).end = g.end + Growth(g.end, size)
  BY DEF Grow, Growth

(* In Expand: pages have been mapped, and the end may have moved.          *)
LEMMA StopGrowingSurvives ==
  ASSUME Apart, IsInjective(heapIndex), NEW request \in Nat, request >= 6, NEW align,
         FindSmallestHole(mem, heapIndex, request, align) = 0 => GrowsLast(Current),
         StopGrowing(request, align)
  PROVE  /\ Survives(mem', heapIndex', heap_end', pages')
         /\ IsInjective(heapIndex') /\ stopped' = "Growing"
  <1>1. PICK h \in {Current, Grow(Current, request)} :
          /\ FindSmallestHole(mem, heapIndex, request, align) = 0
          /\ Grow(h, request).end <= Top + 1
          /\ stopped' = "Growing"
          /\ pages' = Grow(h, request).pages /\ heap_end' \in {h.end, Grow(h, request).end}
          /\ mem' = h.mem /\ heapIndex' = h.index
    BY Zenon DEF StopGrowing
  <1>2. /\ InShape(Current, UsedBlocks)
        /\ Current.pages = pages /\ pages \subseteq Nat /\ Current.end \in Int
    BY CurrentHeap
  <1>3. Current.index # <<>> => EndOf(Current.mem, Max(Range(Current.index))) = Current.end
    BY <1>1, Zenon DEF GrowsLast
  <1>4. /\ Continues(Current, h, UsedBlocks)
        /\ h.index # <<>> => EndOf(h.mem, Max(Range(h.index))) = h.end
    <2>1. CASE h = Current
      BY <1>2, <1>3, <2>1, ContinuesItself
    <2>2. CASE h = Grow(Current, request)
      <3> DEFINE once == Grow(Current, request)
                 twice == Grow(once, request)
      <3>1. twice.end <= Top + 1
        BY <1>1, <2>2
      <3>2. once.end = Current.end + Growth(Current.end, request)
            /\ twice.end = once.end + Growth(once.end, request)
        BY GrownEnd
      <3>3. /\ Current.end \in Int /\ HeapStart + Page <= Current.end
            /\ HeapStart \in Nat /\ Page \in Nat /\ Page > 0 /\ Top \in Nat
        BY <1>2, Numbers DEF InShape, Typed
      <3>4. Growth(Current.end, request) \in Int /\ Growth(Current.end, request) > request
        BY <3>3, GrowthIsEnough
      <3> HIDE DEF once, twice
      <3>5. once.end \in Int /\ HeapStart + Page <= once.end
        BY <3>2, <3>3, <3>4
      <3>6. Growth(once.end, request) \in Int /\ Growth(once.end, request) > request
        BY <3>5, GrowthIsEnough
      <3>7. once.end <= Top + 1
        BY <3>1, <3>2, <3>3, <3>5, <3>6
      <3>8. Continues(Current, once, UsedBlocks)
        BY <1>2, <1>3, <3>7, GrowContinues DEF once
      <3>9. /\ Max(Range(once.index)) = LastOf(Current)
            /\ EndOf(once.mem, LastOf(Current)) = once.end
        BY <1>2, <1>3, <3>7, GrowKeepsShape DEF once
      <3> QED
        BY <2>2, <3>8, <3>9 DEF once
    <2> QED
      BY <2>1, <2>2
  <1>5. InShape(h, UsedBlocks) /\ h.pages \subseteq Nat /\ h.end \in Int
    BY <1>2, <1>4 DEF Continues
  <1>6. Continues(h, Grow(h, request), UsedBlocks)
    BY <1>1, <1>4, <1>5, GrowContinues
  <1>7. /\ Grow(h, request).end \in Int /\ h.end <= Grow(h, request).end
        /\ Grow(h, request).pages \subseteq Nat
    BY <1>5, <1>6 DEF Continues
  <1>8. h.index \in Seq(Address) /\ IsInjective(h.index)
    BY <1>5 DEF InShape
  <1>9. /\ heap_end' \in Int /\ h.end <= heap_end' /\ heap_end' <= Top + 1
        /\ pages' \subseteq Nat
    <2>1. Top \in Int
      BY Numbers
    <2> QED
      BY <1>1, <1>5, <1>7, <2>1
  <1>10. Range(h.index) \subseteq Range(h.index)
    OBVIOUS
  <1>11. Survives(h.mem, h.index, heap_end', pages')
    BY <1>4, <1>8, <1>9, <1>10, FewerSurvive
  <1> QED
    BY <1>1, <1>8, <1>11

(* In the Remove of Alloc, between its stores, or in its Insert.           *)
LEMMA StopCuttingSurvives ==
  ASSUME Apart, IsInjective(heapIndex), NEW request \in Nat, NEW align,
         LET g == Grown(Current, request, align)
             found == FindSmallestHole(g.mem, g.index, request, align)
         IN  g.end <= Top + 1 =>
               /\ Continues(Current, g, UsedBlocks)
               /\ CanCut(g, UsedBlocks, found, request, align),
         StopCutting(request, align)
  PROVE  /\ Survives(mem', heapIndex', heap_end', pages')
         /\ stopped' = "Removing" \/ IsInjective(heapIndex')
         /\ stopped' \in {"Removing", "Cutting", "Inserting"}
  <1> DEFINE g == Grown(Current, request, align)
             found == FindSmallestHole(g.mem, g.index, request, align)
             c == Cut(g, found, request, align)
             pos == Pos(g, found, align)
             hole == g.index[found]
             front == InFront(g, found, align)
  <1>1. /\ g.end <= Top + 1 /\ pages' = g.pages /\ heap_end' = g.end
        /\ \/ /\ stopped' = "Removing" /\ mem' = g.mem
              /\ \E k \in 0 .. Len(g.index) - found : heapIndex' = Dropping(g.index, found, k)
           \/ /\ stopped' = "Cutting" /\ heapIndex' = c.dropped
              /\ mem' \in {g.mem, c.fronted, c.blocked, c.mem}
           \/ /\ stopped' = "Inserting" /\ mem' = c.mem
              /\ \E h \in c.behind :
                   \E k \in 0 .. Len(c.dropped) - Place(c.mem, c.dropped, h) :
                     heapIndex' = Inserting(c.mem, c.dropped, h, k)
    BY Zenon DEF StopCutting
  <1>2. /\ Continues(Current, g, UsedBlocks)
        /\ CanCut(g, UsedBlocks, found, request, align)
    BY <1>1
  <1>3. Current.mem = mem /\ Current.pages = pages /\ pages \subseteq Nat
    BY CurrentHeap
  <1> HIDE DEF g, found, c, pos, hole, front
  <1>4. /\ InShape(g, UsedBlocks) /\ found \in 1 .. Len(g.index)
        /\ g.index \in Seq(Address) /\ g.pages \subseteq Nat /\ g.end \in Int
    BY <1>2, <1>3 DEF Continues, CanCut, InShape
  <1>5. /\ c.dropped \in Seq(Address) /\ IsInjective(c.dropped)
        /\ Range(c.dropped) = (Range(g.index) \ {hole}) \cup front
        /\ Range(c.index) = (Range(g.index) \ {hole}) \cup front \cup c.behind
        /\ c.behind \subseteq Address /\ c.behind \cap (Range(g.index) \cup UsedBlocks) = {}
        /\ front \subseteq {hole} /\ hole \in Range(g.index)
    BY <1>2, CutIndex DEF c, front, hole
  <1>6. Range(c.dropped) \subseteq Range(g.index) /\ Range(c.dropped) \subseteq Range(c.index)
    BY <1>5
  <1>7. /\ Typed(c.fronted, Range(c.dropped), UsedBlocks, g.end)
        /\ LieApart(c.fronted, Range(c.dropped), UsedBlocks, g.end)
        /\ Typed(c.blocked, Range(c.dropped), UsedBlocks \cup {pos}, g.end)
        /\ LieApart(c.blocked, Range(c.dropped), UsedBlocks \cup {pos}, g.end)
        /\ Typed(c.mem, Range(c.index), UsedBlocks \cup {pos}, g.end)
        /\ LieApart(c.mem, Range(c.index), UsedBlocks \cup {pos}, g.end)
    BY <1>2, CutKeepsApart DEF c, pos
  <1>8. UsedBlocks \subseteq UsedBlocks \cup {pos} /\ g.end <= g.end /\ UsedBlocks \subseteq UsedBlocks
    BY <1>4
  <1>9. ASSUME NEW m \in {c.fronted, c.blocked, c.mem}, NEW index \in Seq(Address),
               Typed(m, Range(index), UsedBlocks, g.end),
               LieApart(m, Range(index), UsedBlocks, g.end)
        PROVE  Survives(m, index, g.end, g.pages)
    <2>1. ASSUME NEW h \in UsedBlocks
          PROVE  /\ Size(m, h) = Size(mem, h)
                 /\ \A a \in h .. EndOf(mem, h) - 1 : a \in Address /\ m[a] = mem[a]
      <3>1. /\ Size(m, h) = Size(g.mem, h)
            /\ \A a \in h .. EndOf(g.mem, h) - 1 : a \in Address /\ m[a] = g.mem[a]
        BY <1>2, CutKeepsUsed DEF c
      <3>2. /\ Size(g.mem, h) = Size(mem, h)
            /\ \A a \in h .. EndOf(mem, h) - 1 : a \in Address /\ g.mem[a] = mem[a]
        BY <1>2, <1>3 DEF Continues
      <3>3. EndOf(g.mem, h) = EndOf(mem, h)
        BY <3>2 DEF EndOf
      <3> QED
        BY <3>1, <3>2, <3>3
    <2> QED
      BY <1>4, <1>9, <2>1 DEF Survives
  <1>10. CASE /\ stopped' = "Removing" /\ mem' = g.mem
              /\ \E k \in 0 .. Len(g.index) - found : heapIndex' = Dropping(g.index, found, k)
    <2>1. PICK k \in 0 .. Len(g.index) - found : heapIndex' = Dropping(g.index, found, k)
      BY <1>10
    <2>2. heapIndex' \in Seq(Address) /\ Range(heapIndex') \subseteq Range(g.index)
      BY <1>4, <2>1, PartlyDropped
    <2>3. Survives(g.mem, heapIndex', g.end, g.pages)
      BY <1>1, <1>2, <1>4, <1>8, <2>2, FewerSurvive
    <2> QED
      BY <1>1, <1>10, <2>3
  <1>11. CASE /\ stopped' = "Cutting" /\ heapIndex' = c.dropped
              /\ mem' \in {g.mem, c.fronted, c.blocked, c.mem}
    <2>1. Survives(g.mem, c.dropped, g.end, g.pages)
      BY <1>1, <1>2, <1>4, <1>5, <1>6, <1>8, FewerSurvive
    <2>2. Survives(c.fronted, c.dropped, g.end, g.pages)
      BY <1>5, <1>7, <1>9
    <2>3. Survives(c.blocked, c.dropped, g.end, g.pages)
      <3>1. Range(c.dropped) \subseteq Range(c.dropped)
        OBVIOUS
      <3>2. /\ Typed(c.blocked, Range(c.dropped), UsedBlocks, g.end)
            /\ LieApart(c.blocked, Range(c.dropped), UsedBlocks, g.end)
        BY <1>1, <1>4, <1>7, <1>8, <3>1, FewerApart
      <3> QED
        BY <1>5, <1>9, <3>2
    <2>4. Survives(c.mem, c.dropped, g.end, g.pages)
      <3>1. /\ Typed(c.mem, Range(c.dropped), UsedBlocks, g.end)
            /\ LieApart(c.mem, Range(c.dropped), UsedBlocks, g.end)
        BY <1>1, <1>4, <1>6, <1>7, <1>8, FewerApart
      <3> QED
        BY <1>5, <1>9, <3>1
    <2> QED
      BY <1>1, <1>5, <1>11, <2>1, <2>2, <2>3, <2>4
  <1>12. CASE /\ stopped' = "Inserting" /\ mem' = c.mem
              /\ \E h \in c.behind :
                   \E k \in 0 .. Len(c.dropped) - Place(c.mem, c.dropped, h) :
                     heapIndex' = Inserting(c.mem, c.dropped, h, k)
    <2>1. PICK h \in c.behind : \E k \in 0 .. Len(c.dropped) - Place(c.mem, c.dropped, h) :
                                  heapIndex' = Inserting(c.mem, c.dropped, h, k)
      BY <1>12
    <2>2. PICK k \in 0 .. Len(c.dropped) - Place(c.mem, c.dropped, h) :
            heapIndex' = Inserting(c.mem, c.dropped, h, k)
      BY <2>1
    <2>3. h \in Address /\ h \notin Range(c.dropped)
      BY <1>5, <1>6
    <2>4. /\ heapIndex' \in Seq(Address) /\ IsInjective(heapIndex')
          /\ Range(heapIndex') \subseteq Range(c.dropped) \cup {h}
      BY <1>5, <2>2, <2>3, PartlyInserted
    <2>5. Range(heapIndex') \subseteq Range(c.index)
      BY <1>5, <2>4
    <2>6. /\ Typed(c.mem, Range(heapIndex'), UsedBlocks, g.end)
          /\ LieApart(c.mem, Range(heapIndex'), UsedBlocks, g.end)
      BY <1>1, <1>4, <1>7, <1>8, <2>5, FewerApart
    <2>7. Survives(c.mem, heapIndex', g.end, g.pages)
      BY <1>9, <2>4, <2>6
    <2> QED
      BY <1>1, <1>12, <2>4, <2>7
  <1> QED
    BY <1>1, <1>10, <1>11, <1>12

(* The heap of a caller that was given up: its blocks, free and in use,    *)
(* are apart from each other, and those in use are as they were.           *)
LEMMA AbandonLeavesApart ==
  ASSUME Apart, IsInjective(heapIndex),
         NEW size \in Sizes, NEW align \in Aligns, Sound(size, align),
         AbandonMalloc(size, align)
  PROVE  /\ Apart' /\ (stopped' = "Removing" \/ IsInjective(heapIndex)') /\ live' = live
         /\ \A h \in UsedBlocks : \A a \in h .. EndOf(mem, h) - 1 :
              a \in Address /\ mem'[a] = mem[a]
  <1> DEFINE request == size + HEADER + FOOTER
  <1>1. /\ calls < MaxCalls /\ calls' = calls + 1
        /\ UNCHANGED <<live, halted>>
        /\ StopGrowing(request, align) \/ StopCutting(request, align)
    BY Zenon DEF AbandonMalloc
  <1>2. TypeOK /\ Held
    BY DEF Apart
  <1>3. request \in Nat /\ request >= 6
    BY Numbers
  <1>4. /\ Survives(mem', heapIndex', heap_end', pages')
        /\ stopped' = "Removing" \/ IsInjective(heapIndex')
        /\ stopped' \in {"Growing", "Removing", "Cutting", "Inserting"}
    <2>1. CASE StopGrowing(request, align)
      <3>1. FindSmallestHole(mem, heapIndex, request, align) = 0 => GrowsLast(Current)
        BY Zenon DEF Sound
      <3> HIDE DEF request
      <3> QED
        BY <1>3, <2>1, <3>1, StopGrowingSurvives
    <2>2. CASE StopCutting(request, align)
      <3>1. LET g == Grown(Current, request, align)
                found == FindSmallestHole(g.mem, g.index, request, align)
            IN  g.end <= Top + 1 =>
                  /\ Continues(Current, g, UsedBlocks)
                  /\ CanCut(g, UsedBlocks, found, request, align)
        BY RequestFinds
      <3> HIDE DEF request
      <3>2. /\ Survives(mem', heapIndex', heap_end', pages')
            /\ stopped' = "Removing" \/ IsInjective(heapIndex')
            /\ stopped' \in {"Removing", "Cutting", "Inserting"}
        BY <1>3, <2>2, <3>1, StopCuttingSurvives
      <3> QED
        BY <3>2
    <2> QED
      BY <1>1, <2>1, <2>2
  <1>5. /\ Typed(mem', Range(heapIndex'), UsedBlocks, heap_end')
        /\ LieApart(mem', Range(heapIndex'), UsedBlocks, heap_end')
        /\ heapIndex' \in Seq(Address) /\ pages' \subseteq Nat
        /\ \A h \in UsedBlocks :
             /\ Size(mem', h) = Size(mem, h)
             /\ \A a \in h .. EndOf(mem, h) - 1 : a \in Address /\ mem'[a] = mem[a]
    BY <1>4 DEF Survives
  <1>6. UsedBlocks' = UsedBlocks
    BY <1>1, Zenon DEF UsedBlocks
  <1>7. LieApart(mem', FreeBlocks', UsedBlocks', heap_end')
    BY <1>5, <1>6 DEF FreeBlocks
  <1>8. TypeOK'
    <2>1. mem' \in [Address -> Word] /\ heap_end' \in Nat
      BY <1>5, Numbers DEF Typed
    <2>2. calls' \in 0 .. MaxCalls
      BY <1>1, <1>2, Numbers DEF TypeOK
    <2> QED
      BY <1>1, <1>2, <1>4, <1>5, <2>1, <2>2 DEF TypeOK
  <1>9. Held'
    <2>1. heap_end' \in HeapStart + Page .. Top + 1
      BY <1>5 DEF Typed
    <2>2. \A k \in live : k.address - HEADER \in UsedBlocks
      BY DEF UsedBlocks
    <2>3. \A k \in live' : Size(mem', k.address - HEADER) >= k.size + HEADER + FOOTER
      BY <1>1, <1>2, <1>5, <2>2 DEF Held
    <2> QED
      BY <1>1, <1>2, <2>1, <2>3 DEF Held
  <1>10. Apart'
    BY <1>7, <1>8, <1>9 DEF Apart
  <1> QED
    BY <1>1, <1>4, <1>5, <1>10

(* A caller that is given up in malloc loses words and nothing else.       *)
THEOREM SpecAbandonedMallocLosesWords == Spec => AbandonedMallocLosesWords
  <1>1. ASSUME NEW size \in Sizes, NEW align \in Aligns,
               WellFormed, Sound(size, align), AbandonMalloc(size, align)
        PROVE  Apart' /\ (stopped' = "Removing" \/ IsInjective(heapIndex)')
    BY <1>1, OrderIsApart, AbandonLeavesApart
  <1>2. stopped' # stopped =>
          \A size \in Sizes, align \in Aligns :
            WellFormed /\ Sound(size, align) /\ AbandonMalloc(size, align) =>
              Apart' /\ (stopped' = "Removing" \/ IsInjective(heapIndex)')
    BY <1>1
  <1>3. [Next]_vars =>
          [stopped' # stopped =>
             \A size \in Sizes, align \in Aligns :
               WellFormed /\ Sound(size, align) /\ AbandonMalloc(size, align) =>
                 Apart' /\ (stopped' = "Removing" \/ IsInjective(heapIndex)')]_vars
    BY <1>2
  <1> QED
    BY <1>3, PTL DEF Spec, AbandonedMallocLosesWords

-----------------------------------------------------------------------------
(* What callers rely on.                                                   *)

(* The words that a caller uses lie in its block, behind the header.       *)
LEMMA WordsInBlock ==
  ASSUME NEW m, NEW free, NEW used, NEW end,
         Typed(m, free, used, end), LieApart(m, free, used, end),
         NEW b, b.address \in Int, b.size \in Int, b.address - HEADER \in used,
         Size(m, b.address - HEADER) >= b.size + HEADER + FOOTER,
         NEW a \in A!Words(b)
  PROVE  /\ a \in b.address - HEADER .. EndOf(m, b.address - HEADER) - 1
         /\ a \in HeapStart .. Top /\ a \in Address /\ a \in Words(b)
  <1> DEFINE h == b.address - HEADER
  <1>1. HEADER = 3 /\ FOOTER = 2 /\ HeapStart \in Nat /\ Top \in Nat
    BY Numbers
  <1>2. a \in Int /\ b.address <= a /\ a <= b.address + b.size - 1 /\ a \in Words(b)
    BY DEF A!Words, Words
  <1>3. b.address = h + 3 /\ h \in Int /\ Size(m, h) >= b.size + 5
    BY <1>1
  <1>4. /\ h \in HeapStart .. Top /\ Size(m, h) \in Int
        /\ EndOf(m, h) \in Int /\ EndOf(m, h) = h + Size(m, h) /\ EndOf(m, h) <= end
        /\ end \in Int /\ end <= Top + 1
    BY BlockLies
  <1> HIDE DEF h
  <1>5. h <= a /\ a <= EndOf(m, h) - 1 /\ HeapStart <= a /\ a <= Top
    BY <1>1, <1>2, <1>3, <1>4
  <1> QED
    BY <1>1, <1>2, <1>4, <1>5, Addresses DEF h

(* Callers of different blocks use different words.                        *)
LEMMA WordsDiffer ==
  ASSUME NEW m, NEW free, NEW used, NEW end,
         Typed(m, free, used, end), LieApart(m, free, used, end),
         NEW b, b.address \in Int, b.size \in Int, b.address - HEADER \in used,
         Size(m, b.address - HEADER) >= b.size + HEADER + FOOTER,
         NEW c, c.address \in Int, c.size \in Int, c.address - HEADER \in used,
         Size(m, c.address - HEADER) >= c.size + HEADER + FOOTER,
         b.address # c.address
  PROVE  A!Words(b) \cap A!Words(c) = {}
  <1> SUFFICES ASSUME NEW a, a \in A!Words(b), a \in A!Words(c)
               PROVE  FALSE
    OBVIOUS
  <1> DEFINE g == b.address - HEADER
             h == c.address - HEADER
  <1>1. a \in g .. EndOf(m, g) - 1
    BY WordsInBlock
  <1>2. a \in h .. EndOf(m, h) - 1
    BY WordsInBlock
  <1>3. g \in Int /\ h \in Int /\ g # h /\ g \in used /\ h \in used
    BY Numbers
  <1>4. EndOf(m, g) \in Int /\ EndOf(m, h) \in Int
    BY <1>3, BlockLies
  <1> HIDE DEF g, h
  <1>5. \A x, y \in free \cup used : x < y => EndOf(m, x) <= y
    BY DEF LieApart
  <1>6. (g < h => EndOf(m, g) <= h) /\ (h < g => EndOf(m, h) <= g)
    BY <1>3, <1>5
  <1> QED
    BY <1>1, <1>2, <1>3, <1>4, <1>6

(* What is said of the blocks in use when they lie apart.                  *)
LEMMA HeldBlock ==
  ASSUME Apart, NEW b \in live
  PROVE  /\ b.address \in Int /\ b.size \in Int /\ b.address - HEADER \in UsedBlocks
         /\ Size(mem, b.address - HEADER) >= b.size + HEADER + FOOTER
         /\ \A c \in live : c # b => c.address # b.address
  <1>1. TypeOK /\ Held
    BY DEF Apart
  <1>2. b.address \in Int /\ b.size \in Int
    BY <1>1, Addresses, Numbers DEF TypeOK
  <1>3. b.address - HEADER \in UsedBlocks
    BY DEF UsedBlocks
  <1> QED
    BY <1>1, <1>2, <1>3 DEF Held

(* Words that stay in the blocks in use stay for their callers.            *)
LEMMA KeptForCallers ==
  ASSUME Apart, IsInjective(heapIndex), NEW blocks \in SUBSET live,
         \A b \in blocks :
           \A a \in b.address - HEADER .. EndOf(mem, b.address - HEADER) - 1 : mem'[a] = mem[a]
  PROVE  A!Kept(blocks)
  <1>1. /\ Typed(mem, FreeBlocks, UsedBlocks, heap_end)
        /\ LieApart(mem, FreeBlocks, UsedBlocks, heap_end)
    BY CurrentHeap
  <1>2. ASSUME NEW b \in blocks, NEW a \in A!Words(b)
        PROVE  mem'[a] = mem[a]
    <2>1. /\ b.address \in Int /\ b.size \in Int /\ b.address - HEADER \in UsedBlocks
          /\ Size(mem, b.address - HEADER) >= b.size + HEADER + FOOTER
      BY HeldBlock
    <2>2. a \in b.address - HEADER .. EndOf(mem, b.address - HEADER) - 1
      BY <1>1, <2>1, WordsInBlock
    <2> QED
      BY <2>2
  <1> QED
    BY <1>2 DEF A!Kept

(* The payload of an aligned block starts a page.                          *)
LEMMA PayloadAligned ==
  ASSUME NEW hole \in Int, NEW align \in BOOLEAN, align
  PROVE  (hole + FrontSize(hole, align) + HEADER) % Page = 0
  <1> DEFINE q == hole \div Page
  <1>1. Page \in Nat /\ Page > 0 /\ HEADER = 3
    BY Numbers
  <1>2. q \in Int /\ q * Page \in Int /\ hole % Page \in Int /\ hole = q * Page + (hole % Page)
    BY WholePages
  <1>3. FrontSize(hole, align) = Page - (hole % Page) - HEADER
    BY DEF FrontSize
  <1> DEFINE r == hole % Page
             front == FrontSize(hole, align)
  <1> HIDE DEF q, r
  <1>4. hole + FrontSize(hole, align) + HEADER = (q + 1) * Page
    <2>1. r \in Int /\ hole = q * Page + r /\ front = Page - r - 3
      BY <1>1, <1>2, <1>3 DEF r
    <2> HIDE DEF front
    <2>2. hole + front + HEADER = q * Page + Page
      BY <1>1, <1>2, <2>1
    <2>3. hole + front + HEADER = (q + 1) * Page
      BY <1>1, <1>2, <2>2
    <2> QED
      BY <2>3 DEF front
  <1>5. ((q + 1) * Page) % Page = 0
    BY <1>1, <1>2
  <1> QED
    BY <1>4, <1>5

(* A call of malloc hands out a block as Allocator promises it.            *)
LEMMA MallocKeepsPromise ==
  ASSUME WellFormed,
         NEW size \in Sizes, NEW align \in Aligns, Sound(size, align), Malloc(size, align)
  PROVE  A!Next
  <1> DEFINE request == size + HEADER + FOOTER
             g == Grown(Current, request, align)
             found == FindSmallestHole(g.mem, g.index, request, align)
             pos == Pos(g, found, align)
             b == [address |-> pos + HEADER, size |-> size, align |-> align]
  <1>1. Apart /\ IsInjective(heapIndex)
    BY OrderIsApart
  <1>2. /\ CanCut(g, UsedBlocks, found, request, align)
        /\ live' = live \cup {b} /\ b \notin live /\ pos \in Int
        /\ UsedBlocks' = UsedBlocks \cup {pos}
    BY <1>1, MallocStep
  <1>3. /\ Apart' /\ IsInjective(heapIndex)'
        /\ \A h \in UsedBlocks : \A a \in h .. EndOf(mem, h) - 1 :
             a \in Address /\ mem'[a] = mem[a]
    BY <1>1, MallocLeavesApart
  <1> HIDE DEF request, g, found
  <1>4. b.align => b.address % Page = 0
    <2>1. align \in BOOLEAN
      BY HeapAssumption
    <2> SUFFICES ASSUME align PROVE (pos + HEADER) % Page = 0
      OBVIOUS
    <2>2. g.index[found] \in Int /\ pos = g.index[found] + FrontSize(g.index[found], align)
      <3>1. g.index \in Seq(Address) /\ found \in 1 .. Len(g.index)
        BY <1>2 DEF CanCut, InShape
      <3>2. g.index[found] \in Address
        BY <3>1, ElementOfSeq
      <3> QED
        BY <3>2, Addresses DEF Pos
    <2> HIDE DEF pos
    <2>3. (g.index[found] + FrontSize(g.index[found], align) + HEADER) % Page = 0
      BY <2>1, <2>2, PayloadAligned
    <2> QED
      BY <2>2, <2>3
  <1> HIDE DEF pos, b
  <1>5. /\ Typed(mem', FreeBlocks', UsedBlocks', heap_end')
        /\ LieApart(mem', FreeBlocks', UsedBlocks', heap_end')
    <2>1. LieApart(mem', FreeBlocks', UsedBlocks', heap_end') /\ TypeOK' /\ Held'
      BY <1>3 DEF Apart
    <2>2. /\ mem' \in [Address -> Word] /\ heapIndex' \in Seq(Address)
          /\ heap_end' \in HeapStart + Page .. Top + 1
      BY <2>1 DEF TypeOK, Held
    <2>3. FreeBlocks' \cup UsedBlocks' \subseteq Int
      BY <2>1, Addresses, Numbers DEF LieApart
    <2> QED
      BY <2>1, <2>2, <2>3 DEF Typed
  <1>6. \A k \in live' :
          /\ k.address \in Int /\ k.size \in Int /\ k.address - HEADER \in UsedBlocks'
          /\ Size(mem', k.address - HEADER) >= k.size + HEADER + FOOTER
          /\ \A c \in live' : c # k => c.address # k.address
    <2>1. TypeOK' /\ Held'
      BY <1>3 DEF Apart
    <2> TAKE k \in live'
    <2>2. k.address \in Int /\ k.size \in Int
      BY <2>1, Addresses, Numbers DEF TypeOK
    <2>3. k.address - HEADER \in UsedBlocks'
      BY DEF UsedBlocks
    <2> QED
      BY <2>1, <2>2, <2>3 DEF Held
  <1>7. b \in live' \ live /\ live \subseteq live'
    BY <1>2
  <1>8. A!Words(b) \subseteq HeapStart .. Top
    <2> SUFFICES ASSUME NEW a \in A!Words(b) PROVE a \in HeapStart .. Top
      OBVIOUS
    <2> QED
      BY <1>5, <1>6, <1>7, WordsInBlock
  <1>9. \A c \in live : A!Words(b) \cap A!Words(c) = {}
    <2> TAKE c \in live
    <2>1. c # b /\ c \in live'
      BY <1>7
    <2> QED
      BY <1>5, <1>6, <1>7, <2>1, WordsDiffer
  <1>10. A!Kept(live)
    <2>1. \A k \in live : k.address - HEADER \in UsedBlocks
      BY DEF UsedBlocks
    <2> QED
      BY <1>1, <1>3, <2>1, KeptForCallers
  <1>11. A!Malloc(b)
    BY <1>2, <1>4, <1>8, <1>9, <1>10 DEF A!Malloc
  <1> QED
    BY <1>7, <1>11 DEF A!Next

(* A caller that is given up leaves the blocks of the others alone.        *)
LEMMA AbandonKeepsPromise ==
  ASSUME WellFormed,
         NEW size \in Sizes, NEW align \in Aligns, Sound(size, align), AbandonMalloc(size, align)
  PROVE  A!Next
  <1>1. Apart /\ IsInjective(heapIndex)
    BY OrderIsApart
  <1>2. /\ live' = live
        /\ \A h \in UsedBlocks : \A a \in h .. EndOf(mem, h) - 1 :
             a \in Address /\ mem'[a] = mem[a]
    BY <1>1, AbandonLeavesApart
  <1>3. \A k \in live : k.address - HEADER \in UsedBlocks
    BY DEF UsedBlocks
  <1>4. A!Kept(live)
    BY <1>1, <1>2, <1>3, KeptForCallers
  <1> QED
    BY <1>2, <1>4 DEF A!Next

(* A call of free takes one block and leaves the others alone.             *)
LEMMA FreeKeepsPromise ==
  ASSUME WellFormed, NEW b \in live, Free(b), FreesInside(b), live' # live
  PROVE  A!Next
  <1>1. Apart /\ IsInjective(heapIndex)
    BY OrderIsApart
  <1>2. /\ live' = live \ {b}
        /\ \A k \in live \ {b} :
             \A a \in k.address - HEADER .. EndOf(mem, k.address - HEADER) - 1 :
               a \in Address /\ mem'[a] = mem[a]
    BY FreeLeavesOrder
  <1>3. A!Kept(live \ {b})
    BY <1>1, <1>2, KeptForCallers
  <1>4. A!Kept(live')
    BY <1>2, <1>3
  <1> QED
    BY <1>2, <1>4 DEF A!Next, A!Free

(* A caller that writes its words leaves those of the others alone.        *)
LEMMA WriteKeepsPromise ==
  ASSUME WellFormed, NEW b \in live, Write(b)
  PROVE  A!Next
  <1>1. Apart /\ IsInjective(heapIndex)
    BY OrderIsApart
  <1>2. /\ mem' = [a \in Address |-> IF a \in Words(b) THEN DATA ELSE mem[a]]
        /\ UNCHANGED live
    BY Zenon DEF Write
  <1>3. /\ Typed(mem, FreeBlocks, UsedBlocks, heap_end)
        /\ LieApart(mem, FreeBlocks, UsedBlocks, heap_end)
    BY <1>1, CurrentHeap
  <1>4. ASSUME NEW c \in live \ {b}, NEW a \in A!Words(c)
        PROVE  mem'[a] = mem[a]
    <2>1. /\ b.address \in Int /\ b.size \in Int /\ b.address - HEADER \in UsedBlocks
          /\ Size(mem, b.address - HEADER) >= b.size + HEADER + FOOTER
          /\ c.address # b.address
      BY <1>1, HeldBlock
    <2>2. /\ c.address \in Int /\ c.size \in Int /\ c.address - HEADER \in UsedBlocks
          /\ Size(mem, c.address - HEADER) >= c.size + HEADER + FOOTER
      BY <1>1, HeldBlock
    <2>3. A!Words(b) \cap A!Words(c) = {}
      BY <1>3, <2>1, <2>2, WordsDiffer
    <2>4. a \in Address
      BY <1>3, <2>2, WordsInBlock
    <2>5. A!Words(b) = Words(b)
      BY DEF A!Words, Words
    <2>6. a \notin Words(b)
      BY <2>3, <2>5
    <2> QED
      BY <1>2, <2>4, <2>6
  <1>5. A!Kept(live \ {b})
    BY <1>4 DEF A!Kept
  <1> QED
    BY <1>2, <1>5 DEF A!Next, A!Write

(* From a heap in order, malloc and free keep the promises made to their   *)
(* callers, and so does a malloc that is given up.                         *)
THEOREM SpecKeepsPromises == Spec => KeepsPromises
  <1> DEFINE P == /\ WellFormed /\ UNCHANGED halted
                  /\ \A b \in live \ live' : FreesInside(b)
                  /\ calls' # calls =>
                       \E size \in Sizes, align \in Aligns :
                         /\ Sound(size, align)
                         /\ Malloc(size, align) \/ AbandonMalloc(size, align)
  <1>1. ASSUME [Next]_vars, P
        PROVE  A!Next
    <2>1. CASE calls' # calls
      <3>1. PICK size \in Sizes, align \in Aligns :
              /\ Sound(size, align)
              /\ Malloc(size, align) \/ AbandonMalloc(size, align)
        BY <1>1, <2>1
      <3> QED
        BY <1>1, <3>1, MallocKeepsPromise, AbandonKeepsPromise
    <2>2. CASE UNCHANGED vars
      BY <2>2 DEF vars, A!Next, A!Kept
    <2>3. ASSUME NEW size \in Sizes, NEW align \in Aligns,
                 Malloc(size, align) \/ AbandonMalloc(size, align)
          PROVE  calls' # calls
      <3>1. calls' = calls + 1
        BY <2>3, Zenon DEF Malloc, AbandonMalloc
      <3>2. calls \in Int
        BY <1>1, Numbers DEF WellFormed, TypeOK
      <3> QED
        BY <3>1, <3>2
    <2>4. ASSUME NEW b \in live, Free(b)
          PROVE  A!Next
      <3>1. halted' = TRUE \/ live' = live \ {b}
        BY <2>4, Zenon DEF Free
      <3>2. ~ halted
        BY <2>4, Zenon DEF Free
      <3>3. live' = live \ {b}
        BY <1>1, <3>1, <3>2
      <3>4. FreesInside(b) /\ live' # live
        BY <1>1, <3>3
      <3> QED
        BY <1>1, <2>4, <3>4, FreeKeepsPromise
    <2>5. ASSUME NEW b \in live, Write(b)
          PROVE  A!Next
      BY <1>1, <2>5, WriteKeepsPromise
    <2> QED
      BY <1>1, <2>1, <2>2, <2>3, <2>4, <2>5 DEF Next
  <1>2. [Next]_vars => [P => A!Next]_vars
    BY <1>1
  <1> QED
    BY <1>2, PTL DEF Spec, KeepsPromises

-----------------------------------------------------------------------------
(* A heap in order, from the first call on.                                *)

(* Headers that stay, and the word in front of the first one.              *)
HeadersStay(m, m2, blocks) ==
  /\ \A h \in blocks : m2[h] = m[h] /\ m2[h + 1] = m[h + 1] /\ m2[h + 2] = m[h + 2]
  /\ m2[HeapStart - FOOTER] = m[HeapStart - FOOTER]

(* They keep the order of the blocks.                                      *)
LEMMA SameHeaders ==
  ASSUME NEW m, NEW m2, NEW free, NEW used, NEW end, MeetEndToEnd(m, free, used, end),
         HeadersStay(m, m2, free \cup used)
  PROVE  /\ MeetEndToEnd(m2, free, used, end)
         /\ \A h \in free \cup used : Size(m2, h) = Size(m, h) /\ EndOf(m2, h) = EndOf(m, h)
  <1>1. \A h \in free \cup used : /\ Size(m2, h) = Size(m, h) /\ EndOf(m2, h) = EndOf(m, h)
                                  /\ IsHole(m2, h) <=> IsHole(m, h)
    BY DEF HeadersStay, Size, EndOf, IsHole
  <1>2. {EndOf(m2, h) : h \in free \cup used} = {EndOf(m, h) : h \in free \cup used}
    BY <1>1
  <1>3. \A h \in free \cup used : h \in HeapStart .. end - HEADER /\ m2[h] = MAGIC
    BY DEF HeadersStay, MeetEndToEnd
  <1>4. /\ free \cap used = {} /\ m2[HeapStart - FOOTER] # MAGIC
        /\ \A h \in free \cup used : Size(m, h) >= HEADER + FOOTER /\ (IsHole(m, h) <=> h \in free)
        /\ {EndOf(m, h) : h \in free \cup used} \cup {HeapStart} = free \cup used \cup {end}
        /\ \A g, h \in free \cup used : EndOf(m, g) = EndOf(m, h) => g = h
    BY DEF HeadersStay, MeetEndToEnd
  <1>5. \A h \in free \cup used : /\ h \in HeapStart .. end - HEADER
                                  /\ m2[h] = MAGIC /\ Size(m2, h) >= HEADER + FOOTER
                                  /\ IsHole(m2, h) <=> h \in free
    BY <1>1, <1>3, <1>4
  <1>6. \A g, h \in free \cup used : EndOf(m2, g) = EndOf(m2, h) => g = h
    BY <1>1, <1>4
  <1>7. {EndOf(m2, h) : h \in free \cup used} \cup {HeapStart} = free \cup used \cup {end}
    BY <1>2, <1>4
  <1>8. MeetEndToEnd(m2, free, used, end)
    BY <1>4, <1>5, <1>6, <1>7 DEF MeetEndToEnd
  <1> QED
    BY <1>1, <1>8

(* A caller that stays in its words writes into no header and no footer.   *)
LEMMA WordsOnly ==
  ASSUME NEW m, NEW free, NEW used, NEW end,
         Typed(m, free, used, end), LieApart(m, free, used, end),
         NEW b, b.address \in Int, b.size \in Int, b.address - HEADER \in used,
         Size(m, b.address - HEADER) >= b.size + HEADER + FOOTER,
         NEW h \in free \cup used,
         NEW a, a \in {h, h + 1, h + 2, EndOf(m, h) - 2, EndOf(m, h) - 1}
  PROVE  a \in Address /\ a \notin Words(b)
  <1> DEFINE k == b.address - HEADER
  <1>1. HEADER = 3 /\ FOOTER = 2
    BY Numbers
  <1>2. /\ h \in HeapStart .. Top /\ {h, h + 1, h + 2} \subseteq Address
        /\ Size(m, h) \in Int /\ Size(m, h) >= 5
        /\ EndOf(m, h) \in Int /\ EndOf(m, h) = h + Size(m, h)
        /\ {EndOf(m, h) - 2, EndOf(m, h) - 1} \subseteq Address
    BY BlockLies
  <1>3. /\ k \in Int /\ EndOf(m, k) \in Int /\ EndOf(m, k) = k + Size(m, k)
        /\ Size(m, k) \in Int /\ k \in free \cup used
    <2>1. k \in free \cup used
      OBVIOUS
    <2>2. /\ k \in HeapStart .. Top
          /\ Size(m, k) \in Int /\ Size(m, k) >= 5
          /\ EndOf(m, k) \in Int /\ EndOf(m, k) = k + Size(m, k) /\ EndOf(m, k) <= end
      BY <2>1, BlockLies
    <2> HIDE DEF k
    <2> QED
      BY <2>1, <2>2
  <1>4. b.address = k + 3 /\ Size(m, k) >= b.size + 5
    BY <1>1
  <1> HIDE DEF k
  <1>5. (h < k => EndOf(m, h) <= k) /\ (k < h => EndOf(m, k) <= h)
    BY <1>3 DEF LieApart
  <1>6. a \in Address
    BY <1>2
  <1>7. a \in Int /\ h <= a /\ a < EndOf(m, h) /\ (a <= h + 2 \/ a >= EndOf(m, h) - 2)
    BY <1>2
  <1>8. ~ (b.address <= a /\ a <= b.address + b.size - 1)
    <2>1. CASE h = k
      BY <1>2, <1>3, <1>4, <1>7, <2>1
    <2>2. CASE h < k
      BY <1>2, <1>3, <1>4, <1>5, <1>7, <2>2
    <2>3. CASE k < h
      BY <1>2, <1>3, <1>4, <1>5, <1>7, <2>3
    <2> QED
      BY <1>2, <1>3, <2>1, <2>2, <2>3
  <1> QED
    BY <1>6, <1>8 DEF Words

(* So a heap in order stays in order when callers use their blocks.        *)
LEMMA WriteLeavesOrder ==
  ASSUME WellFormed, NEW b \in live, Write(b)
  PROVE  WellFormed' /\ (FootersTrue => FootersTrue')
  <1>1. /\ Apart /\ IsInjective(heapIndex)
        /\ MeetEndToEnd(mem, FreeBlocks, UsedBlocks, heap_end)
    BY OrderIsApart
  <1>2. /\ mem' = [a \in Address |-> IF a \in Words(b) THEN DATA ELSE mem[a]]
        /\ UNCHANGED <<heapIndex, heap_end, pages, live, calls, stopped, halted>>
    BY Zenon DEF Write
  <1>3. /\ Typed(mem, FreeBlocks, UsedBlocks, heap_end)
        /\ LieApart(mem, FreeBlocks, UsedBlocks, heap_end)
    BY <1>1, CurrentHeap
  <1>4. TypeOK /\ Held
    BY DEF WellFormed
  <1>5. /\ b.address \in Int /\ b.size \in Int /\ b.address - HEADER \in UsedBlocks
        /\ Size(mem, b.address - HEADER) >= b.size + HEADER + FOOTER
    BY <1>1, HeldBlock
  <1>6. ASSUME NEW h \in FreeBlocks \cup UsedBlocks,
               NEW a \in {h, h + 1, h + 2, EndOf(mem, h) - 2, EndOf(mem, h) - 1}
        PROVE  mem'[a] = mem[a]
    <2>1. a \in Address /\ a \notin Words(b)
      BY <1>3, <1>5, WordsOnly
    <2> QED
      BY <1>2, <2>1
  <1>7. mem'[HeapStart - FOOTER] = mem[HeapStart - FOOTER]
    <2>1. HeapStart - FOOTER \in Address
      <3>1. /\ HeapStart - FOOTER = HeapStart - 2 /\ HeapStart - 2 \in Int
            /\ HeapStart - 2 <= HeapStart - 2 /\ HeapStart - 2 <= Top
        BY HeapAssumption, Numbers
      <3> QED
        BY <3>1, Addresses
    <2>2. ASSUME HeapStart - FOOTER \in Words(b) PROVE FALSE
      <3>1. HeapStart - FOOTER \in A!Words(b)
        BY <2>2 DEF A!Words, Words
      <3>2. HeapStart - FOOTER \in HeapStart .. Top
        BY <1>3, <1>5, <3>1, WordsInBlock
      <3> QED
        BY <3>2, Numbers
    <2> QED
      BY <1>2, <2>1, <2>2
  <1>8. FreeBlocks' = FreeBlocks /\ UsedBlocks' = UsedBlocks
    BY <1>2 DEF FreeBlocks, UsedBlocks
  <1>9. HeadersStay(mem, mem', FreeBlocks \cup UsedBlocks)
    <2>1. \A h \in FreeBlocks \cup UsedBlocks :
            mem'[h] = mem[h] /\ mem'[h + 1] = mem[h + 1] /\ mem'[h + 2] = mem[h + 2]
      BY <1>6
    <2> QED
      BY <1>7, <2>1 DEF HeadersStay
  <1>10. /\ MeetEndToEnd(mem', FreeBlocks, UsedBlocks, heap_end)
         /\ \A h \in FreeBlocks \cup UsedBlocks :
              Size(mem', h) = Size(mem, h) /\ EndOf(mem', h) = EndOf(mem, h)
    BY <1>1, <1>9, SameHeaders
  <1>11. TypeOK'
    <2>1. DATA \in Word
      BY DEF DATA, Word, MaxWord
    <2>2. mem' \in [Address -> Word]
      BY <1>2, <1>4, <2>1 DEF TypeOK
    <2> QED
      BY <1>2, <1>4, <2>2 DEF TypeOK
  <1>12. Held'
    <2>1. \A k \in live : Size(mem', k.address - HEADER) = Size(mem, k.address - HEADER)
      BY <1>10 DEF UsedBlocks
    <2> QED
      BY <1>2, <1>4, <2>1 DEF Held
  <1>13. WellFormed'
    <2>1. MeetEndToEnd(mem', FreeBlocks', UsedBlocks', heap_end')
      BY <1>2, <1>8, <1>10
    <2>2. IsInjective(heapIndex')
      BY <1>1, <1>2
    <2> QED
      BY <1>11, <1>12, <2>1, <2>2 DEF WellFormed
  <1>14. ASSUME FootersTrue PROVE FootersTrue'
    <2>1. \A h \in FreeBlocks \cup UsedBlocks :
            EndOf(mem, h) - FOOTER = EndOf(mem, h) - 2 /\ EndOf(mem, h) - FOOTER + 1 = EndOf(mem, h) - 1
      <3> TAKE h \in FreeBlocks \cup UsedBlocks
      <3>1. EndOf(mem, h) \in Int
        BY <1>3, BlockLies
      <3> QED
        BY <3>1, Numbers
    <2>2. \A h \in FreeBlocks \cup UsedBlocks :
            /\ mem'[EndOf(mem', h) - FOOTER] = mem[EndOf(mem, h) - FOOTER]
            /\ mem'[EndOf(mem', h) - FOOTER + 1] = mem[EndOf(mem, h) - FOOTER + 1]
      BY <1>6, <1>10, <2>1
    <2>3. NameTheirHeaders(mem', FreeBlocks, UsedBlocks, heap_end)
      BY <1>10, <1>14, <2>2 DEF NameTheirHeaders, FootersTrue
    <2> QED
      BY <1>2, <1>8, <2>3 DEF FootersTrue
  <1> QED
    BY <1>2, <1>8, <1>10, <1>13, <1>14

(* Init makes one free block of all the heap.                              *)
LEMMA OrderAtFirst ==
  ASSUME InitialEnd - HeapStart >= HEADER + FOOTER, Init
  PROVE  WellFormed /\ FootersTrue
  <1> DEFINE size == InitialEnd - HeapStart
             zero == [a \in Address |-> 0]
  <1>1. /\ mem = PutHeader(zero, HeapStart, size, 1)
        /\ heapIndex = <<HeapStart>> /\ heap_end = InitialEnd
        /\ pages = 0 .. InitialEnd \div Page
        /\ live = {} /\ calls = 0 /\ stopped = "Nowhere" /\ halted = FALSE
    BY Zenon DEF Init
  <1>2. /\ HeapStart \in Nat /\ InitialEnd \in Nat /\ Top \in Nat /\ Page \in Nat /\ Page > 0
        /\ HEADER = 3 /\ FOOTER = 2 /\ Top < MaxWord /\ MaxWord \in Nat /\ MaxCalls \in Nat
        /\ HeapStart < InitialEnd /\ InitialEnd < Top
        /\ HeapStart % Page = 0 /\ InitialEnd % Page = 0
    BY HeapAssumption, Numbers
  <1>3. size \in Int /\ size >= 5 /\ HeapStart + size = InitialEnd
    BY <1>2
  <1> HIDE DEF size
  <1>4. /\ HeapStart \in Address /\ HeapStart + 1 \in Address /\ HeapStart + 2 \in Address
        /\ HeapStart - 2 \in Address /\ size \in Word /\ 0 \in Word /\ 1 \in {0, 1}
    <2>1. {HeapStart, HeapStart + 1, HeapStart + 2, HeapStart - 2} \subseteq Address
      BY <1>2, <1>3, Addresses
    <2>2. size <= Top + 1
      BY <1>2, <1>3
    <2> QED
      BY <1>3, <2>1, <2>2, Addresses, Numbers
  <1>5. zero \in [Address -> Word]
    BY <1>4
  <1>6. zero[HeapStart - 2] = 0
    BY <1>4
  <1> HIDE DEF zero
  <1>7. /\ mem \in [Address -> Word]
        /\ mem[HeapStart] = MAGIC /\ mem[HeapStart + 1] = 1 /\ mem[HeapStart + 2] = size
        /\ mem[HeapStart - 2] = 0
    <2>1. /\ mem \in [Address -> Word]
          /\ mem[HeapStart] = MAGIC /\ mem[HeapStart + 1] = 1 /\ mem[HeapStart + 2] = size
          /\ \A a \in Address : a \notin {HeapStart, HeapStart + 1, HeapStart + 2} => mem[a] = zero[a]
      BY SMTT(30), <1>1, <1>4, <1>5, HeaderPut
    <2>2. HeapStart - 2 \notin {HeapStart, HeapStart + 1, HeapStart + 2}
      BY <1>2
    <2> QED
      BY <1>4, <1>6, <2>1, <2>2
  <1>8. heapIndex \in Seq(Address) /\ IsInjective(heapIndex) /\ FreeBlocks = {HeapStart}
    <2>1. heapIndex \in Seq(Address) /\ Len(heapIndex) = 1 /\ heapIndex[1] = HeapStart
      BY <1>1, <1>4
    <2>2. \A x : x \in FreeBlocks <=> \E i \in 1 .. 1 : heapIndex[i] = x
      BY <2>1, Entries DEF FreeBlocks
    <2>3. IsInjective(heapIndex) <=> \A i, j \in 1 .. 1 : heapIndex[i] = heapIndex[j] => i = j
      BY <2>1, Entries
    <2>4. \A i \in 1 .. 1 : i = 1
      OBVIOUS
    <2> QED
      BY <2>1, <2>2, <2>3, <2>4
  <1>9. UsedBlocks = {}
    BY <1>1 DEF UsedBlocks
  <1>10. Size(mem, HeapStart) = size /\ EndOf(mem, HeapStart) = InitialEnd
    BY <1>3, <1>7 DEF Size, EndOf
  <1>11. MeetEndToEnd(mem, FreeBlocks, UsedBlocks, heap_end)
    <2>1. FreeBlocks \cup UsedBlocks = {HeapStart} /\ FreeBlocks \cap UsedBlocks = {}
      BY <1>8, <1>9
    <2>2. HeapStart \in HeapStart .. heap_end - HEADER
      BY <1>1, <1>2, <1>3
    <2>3. Size(mem, HeapStart) >= HEADER + FOOTER
      BY <1>2, <1>3, <1>10
    <2>4. mem[HeapStart - FOOTER] # MAGIC
      <3>1. MAGIC # 0
        BY DEF MAGIC
      <3> QED
        BY <1>2, <1>7, <3>1
    <2>5. IsHole(mem, HeapStart)
      BY <1>7 DEF IsHole
    <2>6. {EndOf(mem, h) : h \in {HeapStart}} = {InitialEnd}
      BY <1>10
    <2> QED
      BY <1>1, <1>7, <1>8, <2>1, <2>2, <2>3, <2>4, <2>5, <2>6 DEF MeetEndToEnd
  <1>12. heap_end \in HeapStart + Page .. Top + 1
    <2> DEFINE p == HeapStart \div Page
               q == InitialEnd \div Page
    <2>1. p \in Int /\ q \in Int /\ HeapStart = p * Page /\ InitialEnd = q * Page
      BY <1>2, WholePages
    <2> HIDE DEF p, q
    <2>2. p < q
      <3>1. p * Page < q * Page
        BY <1>2, <2>1
      <3> QED
        BY <1>2, <2>1, <3>1
    <2>3. (p + 1) * Page <= q * Page
      BY <1>2, <2>1, <2>2
    <2>4. HeapStart + Page <= InitialEnd
      BY <1>2, <2>1, <2>3
    <2> QED
      BY <1>1, <1>2, <2>4
  <1>13. TypeOK
    <2>1. pages \subseteq Nat
      BY <1>1
    <2>2. 0 \in 0 .. MaxCalls
      BY <1>2
    <2> QED
      BY <1>1, <1>2, <1>7, <1>8, <2>1, <2>2 DEF TypeOK
  <1>14. Held
    BY <1>1, <1>12 DEF Held
  <1>15. WellFormed
    BY <1>8, <1>11, <1>13, <1>14 DEF WellFormed
  <1>16. FootersTrue
    <2>1. ~ (InitialEnd < heap_end)
      BY <1>1, <1>2
    <2> QED
      BY <1>8, <1>9, <1>10, <2>1 DEF FootersTrue, NameTheirHeaders
  <1> QED
    BY <1>15, <1>16

(* What a heap whose blocks lie apart says of the words that callers use.  *)
LEMMA ApartGivesBlocks ==
  ASSUME Apart
  PROVE  BlocksApart /\ EndAboveBlocks
  <1>2. /\ Typed(mem, FreeBlocks, UsedBlocks, heap_end)
        /\ LieApart(mem, FreeBlocks, UsedBlocks, heap_end)
    BY ApartTyped
  <1>3. ASSUME NEW b \in live, NEW c \in live, b # c
        PROVE  Words(b) \cap Words(c) = {}
    <2>1. /\ b.address \in Int /\ b.size \in Int /\ b.address - HEADER \in UsedBlocks
          /\ Size(mem, b.address - HEADER) >= b.size + HEADER + FOOTER
          /\ b.address # c.address
      BY <1>3, HeldBlock
    <2>2. /\ c.address \in Int /\ c.size \in Int /\ c.address - HEADER \in UsedBlocks
          /\ Size(mem, c.address - HEADER) >= c.size + HEADER + FOOTER
      BY HeldBlock
    <2>3. A!Words(b) \cap A!Words(c) = {}
      BY <1>2, <2>1, <2>2, WordsDiffer
    <2>4. A!Words(b) = Words(b) /\ A!Words(c) = Words(c)
      BY DEF A!Words, Words
    <2> QED
      BY <2>3, <2>4
  <1>4. ASSUME NEW b \in live
        PROVE  b.address + b.size <= heap_end
    <2> DEFINE h == b.address - HEADER
    <2>1. /\ b.address \in Int /\ b.size \in Int /\ h \in UsedBlocks
          /\ Size(mem, h) >= b.size + HEADER + FOOTER
      BY HeldBlock
    <2>2. b.address = h + 3 /\ Size(mem, h) >= b.size + 5 /\ h \in Int
      BY <2>1, Numbers
    <2> HIDE DEF h
    <2>3. /\ Size(mem, h) \in Int /\ EndOf(mem, h) \in Int
          /\ EndOf(mem, h) = h + Size(mem, h) /\ EndOf(mem, h) <= heap_end
          /\ heap_end \in Int
      BY <1>2, <2>1, BlockLies
    <2> QED
      BY <2>1, <2>2, <2>3
  <1> QED
    BY <1>3, <1>4 DEF BlocksApart, EndAboveBlocks

(* So does a heap in order, which also has the form that TypeOK states.    *)
LEMMA OrderGivesBlocks ==
  ASSUME WellFormed
  PROVE  TypeOK /\ BlocksApart /\ EndAboveBlocks
  <1>1. Apart /\ TypeOK
    BY OrderIsApart DEF WellFormed
  <1> QED
    BY <1>1, ApartGivesBlocks

(* A step that meets what malloc and free need, whatever is asked for.     *)
SoundStep ==
  /\ UNCHANGED halted
  /\ \A b \in live \ live' : FreesInside(b)
  /\ calls' # calls =>
       \E size \in Sizes, align \in Aligns : Sound(size, align) /\ Malloc(size, align)

(* It keeps a heap in order, and is one that Allocator allows.             *)
LEMMA SoundStepKeepsOrder ==
  ASSUME WellFormed, [Next /\ SoundStep]_vars
  PROVE  WellFormed' /\ [A!Next]_(A!vars)
  <1>1. CASE UNCHANGED vars
    <2>1. WellFormed'
      BY <1>1 DEF vars, WellFormed, TypeOK, Held, FreeBlocks, UsedBlocks
    <2> QED
      BY <1>1, <2>1 DEF vars, A!vars
  <1>2. CASE Next /\ SoundStep /\ calls' # calls
    <2>1. PICK size \in Sizes, align \in Aligns : Sound(size, align) /\ Malloc(size, align)
      BY <1>2 DEF SoundStep
    <2>2. WellFormed'
      BY <2>1, MallocLeavesOrder
    <2>3. A!Next
      BY <2>1, MallocKeepsPromise
    <2> QED
      BY <2>2, <2>3
  <1>3. CASE Next /\ SoundStep /\ calls' = calls
    <2>1. ASSUME NEW size \in Sizes, NEW align \in Aligns,
                 Malloc(size, align) \/ AbandonMalloc(size, align)
          PROVE  FALSE
      <3>1. calls' = calls + 1
        BY <2>1, Zenon DEF Malloc, AbandonMalloc
      <3>2. calls \in Int
        BY Numbers DEF WellFormed, TypeOK
      <3> QED
        BY <1>3, <3>1, <3>2
    <2>2. ASSUME NEW b \in live, Free(b)
          PROVE  WellFormed' /\ A!Next
      <3>1. (halted' = TRUE \/ live' = live \ {b}) /\ ~ halted
        BY <2>2, Zenon DEF Free
      <3>2. UNCHANGED halted /\ \A k \in live \ live' : FreesInside(k)
        BY <1>3, Zenon DEF SoundStep
      <3>3. live' = live \ {b}
        BY <3>1, <3>2
      <3>4. FreesInside(b) /\ live' # live
        BY <3>2, <3>3
      <3>5. WellFormed'
        BY <2>2, <3>4, FreeLeavesOrder
      <3> QED
        BY <2>2, <3>4, <3>5, FreeKeepsPromise
    <2>3. ASSUME NEW b \in live, Write(b)
          PROVE  WellFormed' /\ A!Next
      BY <2>3, WriteLeavesOrder, WriteKeepsPromise
    <2> QED
      BY <1>3, <2>1, <2>2, <2>3 DEF Next
  <1> QED
    BY <1>1, <1>2, <1>3

(* As long as every call is sound, the heap is in order, the blocks lie    *)
(* apart and below its end, and it is the allocator that Allocator         *)
(* describes.                                                              *)
THEOREM SoundHeapImplementsAllocator ==
  ASSUME InitialEnd - HeapStart >= HEADER + FOOTER
  PROVE  Init /\ [][Next /\ SoundStep]_vars =>
           [](WellFormed /\ BlocksApart /\ EndAboveBlocks) /\ A!Spec
  <1>1. Init => WellFormed /\ A!Init
    BY OrderAtFirst, Zenon DEF Init, A!Init
  <1>2. WellFormed /\ [Next /\ SoundStep]_vars => WellFormed' /\ [A!Next]_(A!vars)
    BY SoundStepKeepsOrder
  <1>3. WellFormed => BlocksApart /\ EndAboveBlocks
    BY OrderGivesBlocks
  <1> QED
    BY <1>1, <1>2, <1>3, PTL DEF A!Spec

-----------------------------------------------------------------------------
(* A heap in which a caller is given up.                                   *)

(* Every call of malloc is sound, also the one that is given up; nothing   *)
(* is freed after that, and nothing is asked for if it was in Remove.      *)
SoundCall ==
  /\ UNCHANGED halted
  /\ \A b \in live \ live' : stopped = "Nowhere" /\ FreesInside(b)
  /\ calls' # calls =>
       /\ stopped # "Removing"
       /\ \E size \in Sizes, align \in Aligns :
            Sound(size, align) /\ (Malloc(size, align) \/ AbandonMalloc(size, align))

(* In order until then, and apart for ever after.                          *)
Survived ==
  /\ Apart
  /\ stopped # "Removing" => IsInjective(heapIndex)
  /\ stopped = "Nowhere" => WellFormed

(* A caller that writes into its block leaves the headers as they are.     *)
LEMMA WriteLeavesApart ==
  ASSUME Apart, NEW b \in live, Write(b)
  PROVE  Apart' /\ UNCHANGED heapIndex
  <1>1. /\ mem' = [a \in Address |-> IF a \in Words(b) THEN DATA ELSE mem[a]]
        /\ UNCHANGED <<heapIndex, heap_end, pages, live, calls, stopped, halted>>
    BY Zenon DEF Write
  <1>2. /\ Typed(mem, FreeBlocks, UsedBlocks, heap_end)
        /\ LieApart(mem, FreeBlocks, UsedBlocks, heap_end)
    BY ApartTyped
  <1>3. TypeOK /\ Held
    BY DEF Apart
  <1>4. /\ b.address \in Int /\ b.size \in Int /\ b.address - HEADER \in UsedBlocks
        /\ Size(mem, b.address - HEADER) >= b.size + HEADER + FOOTER
    BY HeldBlock
  <1>5. \A h \in FreeBlocks \cup UsedBlocks : Size(mem', h) = Size(mem, h) /\ EndOf(mem', h) = EndOf(mem, h)
    <2> TAKE h \in FreeBlocks \cup UsedBlocks
    <2>1. h + 2 \in Address /\ h + 2 \notin Words(b)
      BY <1>2, <1>4, WordsOnly
    <2>2. mem'[h + 2] = mem[h + 2]
      BY <1>1, <2>1
    <2> QED
      BY <2>2 DEF Size, EndOf
  <1>6. FreeBlocks' = FreeBlocks /\ UsedBlocks' = UsedBlocks
    BY <1>1 DEF FreeBlocks, UsedBlocks
  <1>7. LieApart(mem', FreeBlocks, UsedBlocks, heap_end)
    BY <1>2, <1>5 DEF LieApart
  <1>8. TypeOK'
    <2>1. DATA \in Word
      BY DEF DATA, Word, MaxWord
    <2>2. mem' \in [Address -> Word]
      BY <1>1, <1>3, <2>1 DEF TypeOK
    <2> QED
      BY <1>1, <1>3, <2>2 DEF TypeOK
  <1>9. Held'
    <2>1. \A k \in live : Size(mem', k.address - HEADER) = Size(mem, k.address - HEADER)
      BY <1>5 DEF UsedBlocks
    <2> QED
      BY <1>1, <1>3, <2>1 DEF Held
  <1> QED
    BY <1>1, <1>6, <1>7, <1>8, <1>9 DEF Apart

(* A heap in order after a step is one whose blocks are apart after it.    *)
LEMMA OrderIsApartNext ==
  WellFormed' => Apart' /\ IsInjective(heapIndex)'
  <1>1. WellFormed => Apart /\ IsInjective(heapIndex)
    BY OrderIsApart
  <1> QED
    BY <1>1, PTL

(* No step of sound calls, and no caller given up in one, moves blocks     *)
(* into each other.                                                        *)
LEMMA SoundCallSurvives ==
  ASSUME Survived, [Next /\ SoundCall]_vars
  PROVE  Survived'
  <1>1. CASE UNCHANGED vars
    BY <1>1 DEF vars, Survived, Apart, WellFormed, TypeOK, Held, FreeBlocks, UsedBlocks
  <1>2. CASE Next /\ SoundCall /\ calls' # calls
    <2>1. PICK size \in Sizes, align \in Aligns :
            Sound(size, align) /\ (Malloc(size, align) \/ AbandonMalloc(size, align))
      BY <1>2 DEF SoundCall
    <2>2. Apart /\ IsInjective(heapIndex) /\ (stopped = "Nowhere" => WellFormed)
      BY <1>2 DEF Survived, SoundCall
    <2>3. CASE Malloc(size, align)
      <3>1. stopped' = stopped
        BY <2>3, Zenon DEF Malloc
      <3>2. Apart' /\ IsInjective(heapIndex)'
        BY <2>1, <2>2, <2>3, MallocLeavesApart
      <3>3. stopped = "Nowhere" => WellFormed'
        BY <2>1, <2>2, <2>3, MallocLeavesOrder
      <3> QED
        BY <3>1, <3>2, <3>3 DEF Survived
    <2>4. CASE AbandonMalloc(size, align)
      <3>1. Apart' /\ (stopped' = "Removing" \/ IsInjective(heapIndex)')
        BY <2>1, <2>2, <2>4, AbandonLeavesApart
      <3>2. stopped' # "Nowhere"
        <4>1. StopGrowing(size + HEADER + FOOTER, align) \/ StopCutting(size + HEADER + FOOTER, align)
          BY <2>4, Zenon DEF AbandonMalloc
        <4>2. stopped' \in {"Growing", "Removing", "Cutting", "Inserting"}
          BY <4>1, Zenon DEF StopGrowing, StopCutting
        <4> QED
          BY <4>2
      <3> QED
        BY <3>1, <3>2 DEF Survived
    <2> QED
      BY <2>1, <2>3, <2>4
  <1>3. CASE Next /\ SoundCall /\ calls' = calls
    <2>1. ASSUME NEW size \in Sizes, NEW align \in Aligns,
                 Malloc(size, align) \/ AbandonMalloc(size, align)
          PROVE  FALSE
      <3>1. calls' = calls + 1
        BY <2>1, Zenon DEF Malloc, AbandonMalloc
      <3>2. calls \in Int
        BY Numbers DEF Survived, Apart, TypeOK
      <3> QED
        BY <1>3, <3>1, <3>2
    <2>2. ASSUME NEW b \in live, Free(b)
          PROVE  Survived'
      <3>1. (halted' = TRUE \/ live' = live \ {b}) /\ ~ halted /\ stopped' = stopped
        BY <2>2, Zenon DEF Free
      <3>2. UNCHANGED halted /\ \A k \in live \ live' : stopped = "Nowhere" /\ FreesInside(k)
        BY <1>3, Zenon DEF SoundCall
      <3>3. live' = live \ {b}
        BY <3>1, <3>2
      <3>4. stopped = "Nowhere" /\ FreesInside(b) /\ live' # live
        BY <3>2, <3>3
      <3>5. WellFormed'
        BY <2>2, <3>4, FreeLeavesOrder DEF Survived
      <3>6. Apart' /\ IsInjective(heapIndex)'
        BY <3>5, OrderIsApartNext
      <3> QED
        BY <3>5, <3>6 DEF Survived
    <2>3. ASSUME NEW b \in live, Write(b)
          PROVE  Survived'
      <3>1. Apart' /\ UNCHANGED heapIndex
        BY <2>3, WriteLeavesApart DEF Survived
      <3>2. stopped' = stopped
        BY <2>3, Zenon DEF Write
      <3>3. stopped = "Nowhere" => WellFormed'
        BY <2>3, WriteLeavesOrder DEF Survived
      <3> QED
        BY <3>1, <3>2, <3>3 DEF Survived
    <2> QED
      BY <1>3, <2>1, <2>2, <2>3 DEF Next
  <1> QED
    BY <1>1, <1>2, <1>3

(* Wherever a caller is given up in malloc, the blocks stay apart and      *)
(* below the end of the heap for all that is asked for and written after.  *)
THEOREM GivenUpHeapStaysApart ==
  ASSUME InitialEnd - HeapStart >= HEADER + FOOTER
  PROVE  Init /\ [][Next /\ SoundCall]_vars => [](Apart /\ BlocksApart /\ EndAboveBlocks)
  <1>1. Init => Survived
    <2> SUFFICES ASSUME Init PROVE Survived
      OBVIOUS
    <2>1. WellFormed
      BY OrderAtFirst
    <2> QED
      BY <2>1, OrderIsApart DEF Survived
  <1>2. Survived /\ [Next /\ SoundCall]_vars => Survived'
    BY SoundCallSurvives
  <1>3. Survived => Apart /\ BlocksApart /\ EndAboveBlocks
    BY ApartGivesBlocks DEF Survived
  <1> QED
    BY <1>1, <1>2, <1>3, PTL

=============================================================================
