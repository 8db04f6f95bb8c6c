--------------------------- MODULE CatalogueProofs ---------------------------
(***************************************************************************)
(* What a store shows, for any number of products' parts, images, editors  *)
(* and rows: the catalogue of a product with its gallery, the categories,  *)
(* and the lists that are read page by page.  A sequence the code sorts is *)
(* a CHOOSE in the models, so the proofs first show that a finite set can  *)
(* be put in any strict total order, and that a sequence in that order     *)
(* holds every element of the set.                                         *)
(***************************************************************************)
EXTENDS Gallery, Categories, Paging, SumTheorems, SequenceTheorems

-----------------------------------------------------------------------------
(* Orders: a finite set can be put in any strict total order R of its       *)
(* elements, by how many of them come before each.                          *)

StrictTotalOrder(R, S) ==
    /\ \A v \in S : <<v, v>> \notin R
    /\ \A u, v, w \in S : <<u, v>> \in R /\ <<v, w>> \in R => <<u, w>> \in R
    /\ \A v, w \in S : v # w => <<v, w>> \in R \/ <<w, v>> \in R

RankBy(S, R) == [v \in S |-> Cardinality({w \in S : <<w, v>> \in R})]

LEMMA RanksAreInOrder ==
    ASSUME NEW S, IsFiniteSet(S), NEW R, StrictTotalOrder(R, S)
    PROVE  /\ Cardinality(S) \in Nat
           /\ RankBy(S, R) \in Bijection(S, 0 .. Cardinality(S) - 1)
           /\ \A v, w \in S : RankBy(S, R)[v] < RankBy(S, R)[w] => <<v, w>> \in R
  <1>. DEFINE below(v) == {w \in S : <<w, v>> \in R}
              r == RankBy(S, R)
              n == Cardinality(S)
  <1>1. n \in Nat /\ \A v \in S : r[v] = Cardinality(below(v))
    BY FS_CardinalityType DEF RankBy
  <1>2. \A v \in S : IsFiniteSet(below(v)) /\ Cardinality(below(v)) \in Nat
    <2>. SUFFICES ASSUME NEW v \in S
                  PROVE  IsFiniteSet(below(v)) /\ Cardinality(below(v)) \in Nat
      OBVIOUS
    <2>1. below(v) \subseteq S
      OBVIOUS
    <2>. HIDE DEF below
    <2>. QED
      BY <2>1, FS_Subset, FS_CardinalityType
  <1>3. ASSUME NEW v \in S PROVE r[v] \in 0 .. n - 1
    <2>1. below(v) \subseteq S /\ below(v) # S
      BY <1>3 DEF StrictTotalOrder
    <2>2. Cardinality(below(v)) <= n /\ Cardinality(below(v)) # n
      <3>. HIDE DEF below
      <3>. QED
        BY <2>1, FS_Subset
    <2>3. r[v] = Cardinality(below(v)) /\ Cardinality(below(v)) \in Nat
      BY <1>1, <1>2, <1>3
    <2>. HIDE DEF r, n, below
    <2>. QED
      BY <1>1, <2>2, <2>3
  <1>4. ASSUME NEW v \in S, NEW w \in S, <<v, w>> \in R PROVE r[v] < r[w]
    <2>1. below(v) \subseteq below(w) /\ v \in below(w) /\ v \notin below(v)
      BY <1>4 DEF StrictTotalOrder
    <2>2. /\ Cardinality(below(v)) <= Cardinality(below(w))
          /\ Cardinality(below(v)) # Cardinality(below(w))
      <3>1. IsFiniteSet(below(w)) /\ below(v) # below(w)
        BY <1>2, <2>1
      <3>. HIDE DEF below
      <3>. QED
        BY <2>1, <3>1, FS_Subset
    <2>3. /\ r[v] = Cardinality(below(v)) /\ Cardinality(below(v)) \in Nat
          /\ r[w] = Cardinality(below(w)) /\ Cardinality(below(w)) \in Nat
      BY <1>1, <1>2, <1>4
    <2>. HIDE DEF r, n, below
    <2>. QED
      BY <2>2, <2>3
  <1>5. \A v \in S : r[v] \in Nat
    BY <1>1, <1>2
  <1>6. r \in Injection(S, 0 .. n - 1)
    <2>1. r \in [S -> 0 .. n - 1]
      BY <1>3 DEF RankBy
    <2>2. ASSUME NEW v \in S, NEW w \in S, r[v] = r[w] PROVE v = w
      <3>1. ~(<<v, w>> \in R) /\ ~(<<w, v>> \in R)
        <4>. HIDE DEF r
        <4>. QED
          BY <1>4, <1>5, <2>2
      <3>. QED
        BY <3>1 DEF StrictTotalOrder
    <2>. HIDE DEF r
    <2>. QED
      BY <2>1, <2>2 DEF Injection, IsInjective
  <1>7. IsFiniteSet(0 .. n - 1) /\ Cardinality(0 .. n - 1) = n
    BY <1>1, FS_Interval
  <1>8. r \in Surjection(S, 0 .. n - 1)
    <2>. HIDE DEF r
    <2>. QED
      BY <1>6, <1>7, FS_Injection
  <1>9. ASSUME NEW v \in S, NEW w \in S, r[v] < r[w] PROVE <<v, w>> \in R
    <2>. HIDE DEF r
    <2>1. ~(<<w, v>> \in R) /\ v # w
      BY <1>4, <1>5, <1>9
    <2>. QED
      BY <2>1 DEF StrictTotalOrder
  <1>. QED
    BY <1>1, <1>6, <1>8, <1>9 DEF Bijection

LEMMA SortingExists ==
    ASSUME NEW S, IsFiniteSet(S), NEW R, StrictTotalOrder(R, S)
    PROVE  \E s \in [1 .. Cardinality(S) -> S] :
              \A i, j \in 1 .. Cardinality(S) : i < j => <<s[i], s[j]>> \in R
  <1>. DEFINE n == Cardinality(S)
              r == RankBy(S, R)
              s == [i \in 1 .. n |-> CHOOSE v \in S : r[v] = i - 1]
  <1>1. /\ n \in Nat /\ r \in Surjection(S, 0 .. n - 1)
        /\ \A v, w \in S : r[v] < r[w] => <<v, w>> \in R
    BY RanksAreInOrder DEF Bijection
  <1>. HIDE DEF r
  <1>2. ASSUME NEW i \in 1 .. n PROVE \E v \in S : r[v] = i - 1
    <2>1. i - 1 \in 0 .. n - 1
      BY <1>1
    <2>. HIDE DEF n
    <2>. QED
      BY <1>1, <2>1 DEF Surjection
  <1>3. \A i \in 1 .. n : s[i] \in S /\ r[s[i]] = i - 1
    BY <1>2
  <1>4. s \in [1 .. n -> S]
    BY <1>3
  <1>5. \A i, j \in 1 .. n : i < j => <<s[i], s[j]>> \in R
    BY <1>1, <1>3
  <1>. QED
    BY <1>4, <1>5

\* A sequence in that order holds every element of the set.
LEMMA SortedHasAll ==
    ASSUME NEW S, IsFiniteSet(S), NEW R, StrictTotalOrder(R, S),
           NEW s \in [1 .. Cardinality(S) -> S],
           \A i, j \in 1 .. Cardinality(S) : i < j => <<s[i], s[j]>> \in R
    PROVE  \A v \in S : \E i \in 1 .. Cardinality(S) : s[i] = v
  <1>1. Cardinality(S) \in Nat
    BY FS_CardinalityType
  <1>2. \A i, j \in 1 .. Cardinality(S) : s[i] = s[j] => i = j
    <2>. SUFFICES ASSUME NEW i \in 1 .. Cardinality(S), NEW j \in 1 .. Cardinality(S), s[i] = s[j]
                  PROVE  i = j
      OBVIOUS
    <2>1. <<s[i], s[i]>> \notin R /\ <<s[j], s[j]>> \notin R
      BY DEF StrictTotalOrder
    <2>2. ~(i < j) /\ ~(j < i)
      BY <2>1
    <2>. QED
      BY <1>1, <2>2
  <1>3. s \in Injection(1 .. Cardinality(S), S)
    BY <1>2 DEF Injection, IsInjective
  <1>4. IsFiniteSet(1 .. Cardinality(S)) /\ Cardinality(1 .. Cardinality(S)) = Cardinality(S)
    BY <1>1, FS_Interval
  <1>5. s \in Surjection(1 .. Cardinality(S), S)
    BY <1>3, <1>4, FS_Injection
  <1>. QED
    BY <1>5 DEF Surjection

(* The same for elements with a number each, different ones. *)
ByKey(S, key) == {p \in S \X S : key[p[1]] < key[p[2]]}
Rank(S, key) == [v \in S |-> Cardinality({w \in S : key[w] < key[v]})]

LEMMA KeysOrder ==
    ASSUME NEW S, NEW key, \A v \in S : key[v] \in Int,
           \A v, w \in S : key[v] = key[w] => v = w
    PROVE  /\ StrictTotalOrder(ByKey(S, key), S)
           /\ \A v, w \in S : <<v, w>> \in ByKey(S, key) <=> key[v] < key[w]
           /\ Rank(S, key) = RankBy(S, ByKey(S, key))
  <1>1. \A v, w \in S : <<v, w>> \in ByKey(S, key) <=> key[v] < key[w]
    BY DEF ByKey
  <1>2. StrictTotalOrder(ByKey(S, key), S)
    <2>1. \A v \in S : <<v, v>> \notin ByKey(S, key)
      BY <1>1
    <2>2. \A u, v, w \in S : <<u, v>> \in ByKey(S, key) /\ <<v, w>> \in ByKey(S, key)
                                => <<u, w>> \in ByKey(S, key)
      BY <1>1
    <2>3. \A v, w \in S : v # w => <<v, w>> \in ByKey(S, key) \/ <<w, v>> \in ByKey(S, key)
      BY <1>1
    <2>. QED
      BY <2>1, <2>2, <2>3 DEF StrictTotalOrder
  <1>3. ASSUME NEW v \in S
        PROVE  {w \in S : key[w] < key[v]} = {w \in S : <<w, v>> \in ByKey(S, key)}
    BY <1>1, <1>3
  <1>4. Rank(S, key) = RankBy(S, ByKey(S, key))
    BY <1>3, Zenon DEF Rank, RankBy
  <1>. QED
    BY <1>1, <1>2, <1>4

LEMMA RankOrders ==
    ASSUME NEW S, IsFiniteSet(S), NEW key, \A v \in S : key[v] \in Int,
           \A v, w \in S : key[v] = key[w] => v = w
    PROVE  Rank(S, key) \in Bijection(S, 0 .. Cardinality(S) - 1)
  BY KeysOrder, RanksAreInOrder

\* A finite set can be put in the order of its keys.
LEMMA OrderExists ==
    ASSUME NEW S, IsFiniteSet(S), NEW key, \A v \in S : key[v] \in Int,
           \A v, w \in S : key[v] = key[w] => v = w
    PROVE  \E s \in [1 .. Cardinality(S) -> S] :
              \A i, j \in 1 .. Cardinality(S) : i < j => key[s[i]] < key[s[j]]
  <1>1. /\ StrictTotalOrder(ByKey(S, key), S)
        /\ \A v, w \in S : <<v, w>> \in ByKey(S, key) <=> key[v] < key[w]
    BY KeysOrder
  <1>2. PICK s \in [1 .. Cardinality(S) -> S] :
            \A i, j \in 1 .. Cardinality(S) : i < j => <<s[i], s[j]>> \in ByKey(S, key)
    BY <1>1, SortingExists
  <1>3. \A i \in 1 .. Cardinality(S) : s[i] \in S
    OBVIOUS
  <1>4. \A i, j \in 1 .. Cardinality(S) : i < j => key[s[i]] < key[s[j]]
    BY <1>1, <1>2, <1>3
  <1>. QED
    BY <1>4

-----------------------------------------------------------------------------
(* The images of a product and their files                                 *)

UploadRows == [pc : {"idle", "upload", "insert", "failed", "done"},
               left : SUBSET Files, files : SUBSET Files]

GalleryTypeOK ==
    /\ gallery \in Seq(Files) /\ IsInjective(gallery)
    /\ storage \subseteq Files /\ unused \subseteq Files
    /\ uploads \in [Uploaders -> UploadRows]
    /\ removals \in [Removers -> SUBSET Files]
    /\ cleanup \in [Files -> Nat]

\* The files of a request that may still become rows of the gallery, and those
\* that are to be deleted: a job is queued for them, or is about to be.
Pending(u) == IF uploads[u].pc \in {"upload", "insert"}
              THEN uploads[u].left \cup uploads[u].files ELSE {}
FailedFiles(u) == IF uploads[u].pc = "failed" THEN uploads[u].files ELSE {}
Doomed == {f \in Files : \/ cleanup[f] > 0
                         \/ \E r \in Removers : f \in removals[r]
                         \/ \E u \in Uploaders : f \in FailedFiles(u)}

\* A file is in one place: not drawn yet, on its way into the gallery with one
\* request, in the gallery, or to be deleted; only rows whose commit was not
\* answered may name a file that is to be deleted.
FilesAgree ==
    /\ GalleryTypeOK
    /\ InGallery \ doubted \subseteq storage
    /\ InGallery \cap unused = {} /\ InGallery \cap Doomed \subseteq doubted
    /\ Doomed \cap unused = {}
    /\ \A u \in Uploaders :
          /\ Pending(u) \cap (InGallery \cup unused \cup Doomed) = {}
          /\ uploads[u].pc \in {"upload", "insert"} => uploads[u].files \subseteq storage
          /\ uploads[u].pc = "upload" => uploads[u].left # {}
          /\ \A v \in Uploaders : u # v => Pending(u) \cap Pending(v) = {}

LEMMA GalleryElements ==
    ASSUME GalleryTypeOK
    PROVE  /\ InGallery \subseteq Files /\ IsFiniteSet(InGallery)
           /\ Cardinality(InGallery) = Len(gallery) /\ Len(gallery) \in Nat
           /\ \A f : f \in InGallery <=> \E i \in 1 .. Len(gallery) : f = gallery[i]
  <1>1. gallery \in [1 .. Len(gallery) -> Files] /\ Len(gallery) \in Nat
    BY DEF GalleryTypeOK
  <1>2. InGallery = {gallery[i] : i \in 1 .. Len(gallery)}
    BY <1>1 DEF InGallery, ToSet
  <1>3. gallery \in Bijection(1 .. Len(gallery), InGallery)
    BY <1>1, <1>2 DEF GalleryTypeOK, Bijection, Injection, Surjection, IsInjective
  <1>4. ExistsBijection(1 .. Len(gallery), InGallery)
    BY <1>3 DEF ExistsBijection
  <1>. QED
    BY <1>1, <1>2, <1>4, FS_CountingElements, FS_NatBijection

LEMMA FunctionIsSeq ==
    ASSUME NEW S, NEW n \in Nat, NEW f \in [1 .. n -> S]
    PROVE  f \in Seq(S) /\ Len(f) = n
  OBVIOUS

LEMMA SeqBehindSeq ==
    ASSUME NEW S, NEW s \in Seq(S), NEW t \in Seq(S)
    PROVE  /\ s \o t \in Seq(S) /\ Len(s \o t) = Len(s) + Len(t)
           /\ \A i \in 1 .. Len(s \o t) :
                 (s \o t)[i] = IF i <= Len(s) THEN s[i] ELSE t[i - Len(s)]
           /\ Len(s) \in Nat /\ Len(t) \in Nat
  OBVIOUS

LEMMA IntervalSize ==
    ASSUME NEW n \in Nat
    PROVE  IsFiniteSet(1 .. n) /\ Cardinality(1 .. n) = n
  BY FS_Interval

\* Two injections without a common value, one behind the other.
Differ(s, n) == \A i, j \in 1 .. n : s[i] = s[j] => i = j
Apart(s, m, t, n) == \A i \in 1 .. m, j \in 1 .. n : s[i] # t[j]
Joins(r, s, m, t, n) == \A i \in 1 .. m + n : r[i] = IF i <= m THEN s[i] ELSE t[i - m]

LEMMA InjectiveBehind ==
    ASSUME NEW s, NEW t, NEW r, NEW m \in Nat, NEW n \in Nat,
           Differ(s, m), Differ(t, n), Apart(s, m, t, n), Joins(r, s, m, t, n)
    PROVE  Differ(r, m + n)
  <1>. SUFFICES ASSUME NEW i \in 1 .. m + n, NEW j \in 1 .. m + n, r[i] = r[j]
                PROVE  i = j
    BY DEF Differ
  <1>. USE DEF Differ, Apart, Joins
  <1>1. \A k \in 1 .. m + n : k > m => k - m \in 1 .. n
    OBVIOUS
  <1>2. CASE i <= m /\ j <= m
    BY <1>2
  <1>3. CASE i > m /\ j > m
    <2>1. i - m \in 1 .. n /\ j - m \in 1 .. n /\ t[i - m] = t[j - m]
      BY <1>1, <1>3
    <2>2. i - m = j - m
      BY <2>1
    <2>. QED
      BY <2>2
  <1>4. CASE i <= m /\ j > m
    <2>1. i \in 1 .. m /\ j - m \in 1 .. n /\ s[i] = t[j - m]
      BY <1>1, <1>4
    <2>. QED
      BY <2>1
  <1>5. CASE i > m /\ j <= m
    <2>1. j \in 1 .. m /\ i - m \in 1 .. n /\ s[j] = t[i - m]
      BY <1>1, <1>5
    <2>. QED
      BY <2>1
  <1>. QED
    BY <1>2, <1>3, <1>4, <1>5

\* The files of a finite set, in an order.
LEMMA SeqOfSet ==
    ASSUME NEW S, IsFiniteSet(S)
    PROVE  /\ SetToSeq(S) \in Seq(S) /\ Len(SetToSeq(S)) = Cardinality(S)
           /\ \A i, j \in 1 .. Len(SetToSeq(S)) : SetToSeq(S)[i] = SetToSeq(S)[j] => i = j
  <1>1. Cardinality(S) \in Nat /\ ExistsBijection(1 .. Cardinality(S), S)
    BY FS_CardinalityType
  <1>2. \E f \in [1 .. Cardinality(S) -> S] : IsInjective(f)
    BY <1>1 DEF ExistsBijection, Bijection, Injection, IsInjective
  <1>3. SetToSeq(S) \in [1 .. Cardinality(S) -> S] /\ IsInjective(SetToSeq(S))
    BY <1>2 DEF SetToSeq
  <1>4. SetToSeq(S) \in Seq(S) /\ Len(SetToSeq(S)) = Cardinality(S)
    BY <1>1, <1>3, FunctionIsSeq
  <1>. QED
    BY <1>3, <1>4 DEF IsInjective

\* One request goes on.
LEMMA UploadMoves ==
    ASSUME GalleryTypeOK, NEW u \in Uploaders, NEW row \in UploadRows,
           uploads' = [uploads EXCEPT ![u] = row]
    PROVE  /\ uploads' \in [Uploaders -> UploadRows] /\ uploads'[u] = row
           /\ \A v \in Uploaders : v # u =>
                 /\ uploads'[v] = uploads[v]
                 /\ Pending(v)' = Pending(v) /\ FailedFiles(v)' = FailedFiles(v)
  <1>1. /\ uploads' \in [Uploaders -> UploadRows] /\ uploads'[u] = row
        /\ \A v \in Uploaders : v # u => uploads'[v] = uploads[v]
    BY DEF GalleryTypeOK
  <1>. QED
    BY <1>1 DEF Pending, FailedFiles

LEMMA NamesAreDrawn ==
    ASSUME GalleryTypeOK, NEW n \in 1 .. 2, n <= Cardinality(unused)
    PROVE  \E s \in SUBSET unused : Cardinality(s) = n /\ s # {}
  <1>1. IsFiniteSet(unused) /\ Cardinality(unused) \in Nat
    BY GalleryAssumption, FS_Subset, FS_CardinalityType DEF GalleryTypeOK
  <1>2. PICK a \in unused : TRUE
    BY <1>1, FS_EmptySet
  <1>3. IsFiniteSet({a}) /\ Cardinality({a}) = 1
    BY FS_Singleton
  <1>4. CASE n = 1
    BY <1>2, <1>3, <1>4
  <1>5. CASE n = 2
    <2>1. PICK b \in unused : b # a
      <3>1. unused # {a}
        BY <1>3, <1>5
      <3>. QED
        BY <1>2, <3>1
    <2>2. Cardinality({a} \cup {b}) = 2
      BY <1>3, <2>1, FS_AddElement
    <2>. QED
      BY <1>2, <1>5, <2>1, <2>2
  <1>. QED
    BY <1>4, <1>5

LEMMA CheckMutableStep ==
    ASSUME FilesAgree, NEW u \in Uploaders, NEW n \in 1 .. 2, CheckMutable(u, n)
    PROVE  FilesAgree'
  <1>1. PICK names \in SUBSET unused :
           /\ names # {} /\ unused' = unused \ names
           /\ uploads' = [uploads EXCEPT ![u] = [pc |-> "upload", left |-> names, files |-> {}]]
           /\ UNCHANGED <<gallery, storage, removals, cleanup, doubted>>
    <2>1. n <= Cardinality(unused) /\ GalleryTypeOK
      BY DEF CheckMutable, FilesAgree
    <2>2. \A s \in SUBSET unused : Cardinality(s) = n => s # {}
      BY FS_EmptySet
    <2>. QED
      BY <2>1, <2>2, NamesAreDrawn DEF CheckMutable
  <1>2. [pc |-> "upload", left |-> names, files |-> {}] \in UploadRows
    BY <1>1 DEF UploadRows, FilesAgree, GalleryTypeOK
  <1>3. /\ uploads' \in [Uploaders -> UploadRows]
        /\ uploads'[u] = [pc |-> "upload", left |-> names, files |-> {}]
        /\ \A v \in Uploaders : v # u =>
              /\ uploads'[v] = uploads[v]
              /\ Pending(v)' = Pending(v) /\ FailedFiles(v)' = FailedFiles(v)
    BY <1>1, <1>2, UploadMoves DEF FilesAgree
  <1>4. GalleryTypeOK' /\ InGallery' = InGallery
    BY <1>1, <1>3 DEF FilesAgree, GalleryTypeOK, InGallery
  <1>5. Pending(u)' = names /\ FailedFiles(u)' = {}
    BY <1>3 DEF Pending, FailedFiles
  <1>6. Doomed' \subseteq Doomed
    BY <1>1, <1>3, <1>5 DEF Doomed
  <1>. QED
    BY <1>1, <1>3, <1>4, <1>5, <1>6 DEF FilesAgree

LEMMA UploadStep ==
    ASSUME FilesAgree, NEW u \in Uploaders, Upload(u)
    PROVE  FilesAgree'
  <1>0. /\ uploads[u].pc = "upload" /\ uploads[u].left # {}
        /\ uploads[u].left \subseteq Files /\ uploads[u].files \subseteq Files
        /\ uploads[u].files \subseteq storage
        /\ Pending(u) = uploads[u].left \cup uploads[u].files
    BY DEF Upload, FilesAgree, GalleryTypeOK, UploadRows, Pending
  <1>1. PICK f \in uploads[u].left :
           /\ \/ /\ storage' = storage \cup {f}
                 /\ uploads' = [uploads EXCEPT ![u] =
                        [pc |-> IF @.left = {f} THEN "insert" ELSE "upload",
                         left |-> @.left \ {f}, files |-> @.files \cup {f}]]
              \/ /\ storage' \in {storage, storage \cup {f}}
                 /\ uploads' = [uploads EXCEPT ![u].pc = "failed"]
           /\ UNCHANGED <<gallery, removals, cleanup, unused, doubted>>
    BY <1>0 DEF Upload
  <1>2. CASE /\ uploads' = [uploads EXCEPT ![u].pc = "failed"]
             /\ storage' \in {storage, storage \cup {f}}
    <2>1. /\ [uploads[u] EXCEPT !.pc = "failed"] \in UploadRows
          /\ uploads' = [uploads EXCEPT ![u] = [uploads[u] EXCEPT !.pc = "failed"]]
          /\ [uploads[u] EXCEPT !.pc = "failed"].pc = "failed"
          /\ [uploads[u] EXCEPT !.pc = "failed"].files = uploads[u].files
      BY <1>2 DEF UploadRows, FilesAgree, GalleryTypeOK
    <2>2. /\ uploads' \in [Uploaders -> UploadRows]
          /\ uploads'[u].pc = "failed" /\ uploads'[u].files = uploads[u].files
          /\ \A v \in Uploaders : v # u =>
                /\ uploads'[v] = uploads[v]
                /\ Pending(v)' = Pending(v) /\ FailedFiles(v)' = FailedFiles(v)
      BY <2>1, UploadMoves DEF FilesAgree
    <2>3. GalleryTypeOK' /\ InGallery' = InGallery
      BY <1>0, <1>1, <1>2, <2>2 DEF FilesAgree, GalleryTypeOK, InGallery
    <2>4. Pending(u)' = {} /\ FailedFiles(u)' = uploads[u].files
      BY <2>2 DEF Pending, FailedFiles
    <2>5. Doomed' \subseteq Doomed \cup Pending(u)
      BY <1>0, <1>1, <2>2, <2>4 DEF Doomed
    <2>. QED
      BY <1>1, <1>2, <2>2, <2>3, <2>4, <2>5 DEF FilesAgree
  <1>3. CASE /\ storage' = storage \cup {f}
             /\ uploads' = [uploads EXCEPT ![u] =
                    [pc |-> IF @.left = {f} THEN "insert" ELSE "upload",
                     left |-> @.left \ {f}, files |-> @.files \cup {f}]]
    <2>. DEFINE row == [pc |-> IF uploads[u].left = {f} THEN "insert" ELSE "upload",
                        left |-> uploads[u].left \ {f}, files |-> uploads[u].files \cup {f}]
    <2>1. row \in UploadRows /\ uploads' = [uploads EXCEPT ![u] = row]
      BY <1>0, <1>3 DEF UploadRows
    <2>2. /\ uploads' \in [Uploaders -> UploadRows] /\ uploads'[u] = row
          /\ \A v \in Uploaders : v # u =>
                /\ uploads'[v] = uploads[v]
                /\ Pending(v)' = Pending(v) /\ FailedFiles(v)' = FailedFiles(v)
      <3>. HIDE DEF row
      <3>. QED
        BY <2>1, UploadMoves DEF FilesAgree
    <2>3. GalleryTypeOK' /\ InGallery' = InGallery
      BY <1>0, <1>1, <1>3, <2>2 DEF FilesAgree, GalleryTypeOK, InGallery
    <2>4. Pending(u)' = Pending(u) /\ FailedFiles(u)' = {}
      BY <1>0, <2>2 DEF Pending, FailedFiles
    <2>5. Doomed' \subseteq Doomed
      BY <1>1, <2>2, <2>4 DEF Doomed
    <2>6. /\ uploads'[u].files \subseteq storage'
          /\ uploads'[u].pc = "upload" => uploads'[u].left # {}
      BY <1>0, <1>3, <2>2
    <2>. QED
      BY <1>1, <1>3, <2>2, <2>3, <2>4, <2>5, <2>6 DEF FilesAgree
  <1>. QED
    BY <1>1, <1>2, <1>3

LEMMA InsertStep ==
    ASSUME FilesAgree, NEW u \in Uploaders, Insert(u)
    PROVE  FilesAgree'
  <1>. DEFINE files == uploads[u].files
  <1>1. PICK pc \in {"done", "failed"} :
        /\ uploads[u].pc = "insert" /\ UNCHANGED <<storage, removals, cleanup, unused>>
        /\ uploads' = [uploads EXCEPT ![u].pc = pc]
        /\ \/ gallery' = gallery /\ doubted' = doubted
           \/ /\ gallery' = gallery \o SetToSeq(files)
              /\ (pc = "done" /\ doubted' = doubted) \/ doubted' = doubted \cup files
    BY DEF Insert, NextAfterInsert
  <1>. DEFINE row == [uploads[u] EXCEPT !.pc = pc]
  <1>2. /\ files \subseteq Files /\ files \subseteq Pending(u) /\ files \subseteq storage
        /\ row \in UploadRows /\ row.files = files /\ row.pc = pc
        /\ uploads' = [uploads EXCEPT ![u] = row]
    BY <1>1 DEF FilesAgree, GalleryTypeOK, UploadRows, Pending
  <1>3. IsFiniteSet(files)
    BY <1>2, GalleryAssumption, FS_Subset
  <1>4. /\ SetToSeq(files) \in Seq(files)
        /\ \A i, j \in 1 .. Len(SetToSeq(files)) : SetToSeq(files)[i] = SetToSeq(files)[j] => i = j
    BY <1>3, SeqOfSet
  <1>5. /\ uploads' \in [Uploaders -> UploadRows] /\ uploads'[u] = row
        /\ \A v \in Uploaders : v # u =>
              /\ uploads'[v] = uploads[v]
              /\ Pending(v)' = Pending(v) /\ FailedFiles(v)' = FailedFiles(v)
    <2>. HIDE DEF row
    <2>. QED
      BY <1>1, <1>2, UploadMoves DEF FilesAgree
  <1>. HIDE DEF row
  <1>8. Pending(u)' = {} /\ FailedFiles(u)' = IF pc = "failed" THEN files ELSE {}
    BY <1>2, <1>5 DEF Pending, FailedFiles
  <1>9. Doomed' \subseteq Doomed \cup FailedFiles(u)'
    BY <1>1, <1>5 DEF Doomed
  <1>6. CASE gallery' = gallery /\ doubted' = doubted
    <2>1. Doomed' \subseteq Doomed \cup Pending(u)
      BY <1>2, <1>8, <1>9
    <2>3. GalleryTypeOK' /\ InGallery' = InGallery
      BY <1>1, <1>5, <1>6 DEF FilesAgree, GalleryTypeOK, InGallery
    <2>4. uploads'[u].pc \in {"done", "failed"}
      BY <1>2, <1>5
    <2>. QED
      BY <1>1, <1>2, <1>5, <1>6, <1>8, <2>1, <2>3, <2>4 DEF FilesAgree
  <1>7. CASE /\ gallery' = gallery \o SetToSeq(files)
             /\ (pc = "done" /\ doubted' = doubted) \/ doubted' = doubted \cup files
    <2>1. FailedFiles(u)' \subseteq doubted' \cap files /\ doubted \subseteq doubted'
      BY <1>7, <1>8
    <2>2. Doomed' \subseteq Doomed \cup (doubted' \cap files)
      BY <1>9, <2>1
    <2>. DEFINE s == SetToSeq(files)
    <2>3. s \in Seq(files) /\ gallery' = gallery \o s
      BY <1>4, <1>7
    <2>4. \A i, j \in 1 .. Len(s) : s[i] = s[j] => i = j
      BY <1>4
    <2>. HIDE DEF s, files
    <2>5. gallery \in Seq(Files) /\ s \in Seq(Files) /\ InGallery \cap files = {}
      BY <1>2, <2>3 DEF FilesAgree, GalleryTypeOK
    <2>6. /\ gallery' \in Seq(Files) /\ Len(gallery') = Len(gallery) + Len(s)
          /\ \A i \in 1 .. Len(gallery') :
                gallery'[i] = IF i <= Len(gallery) THEN gallery[i] ELSE s[i - Len(gallery)]
          /\ Len(gallery) \in Nat /\ Len(s) \in Nat
      BY <2>3, <2>5, SeqBehindSeq
    <2>7. \A i \in 1 .. Len(gallery) : gallery[i] \in InGallery
      BY GalleryElements DEF FilesAgree
    <2>8. \A i \in 1 .. Len(s) : s[i] \in files
      BY <2>3
    <2>9. \A i, j \in 1 .. Len(gallery) : gallery[i] = gallery[j] => i = j
      BY <2>5 DEF FilesAgree, GalleryTypeOK, IsInjective
    <2>10. \A i, j \in 1 .. Len(gallery') : gallery'[i] = gallery'[j] => i = j
      <3>1. Apart(gallery, Len(gallery), s, Len(s))
        BY <2>5, <2>7, <2>8 DEF Apart
      <3>2. Joins(gallery', gallery, Len(gallery), s, Len(s))
        BY <2>6 DEF Joins
      <3>3. Differ(gallery, Len(gallery)) /\ Differ(s, Len(s))
        BY <2>4, <2>9 DEF Differ
      <3>4. Differ(gallery', Len(gallery) + Len(s))
        BY <2>6, <3>1, <3>2, <3>3, InjectiveBehind
      <3>. QED
        BY <2>6, <3>4 DEF Differ
    <2>11. GalleryTypeOK'
      <3>1. IsInjective(gallery')
        BY <2>6, <2>10 DEF IsInjective
      <3>. QED
        BY <1>1, <1>5, <2>6, <3>1 DEF FilesAgree, GalleryTypeOK
    <2>12. InGallery' \subseteq InGallery \cup files
      <3>. SUFFICES ASSUME NEW i \in 1 .. Len(gallery')
                    PROVE  gallery'[i] \in InGallery \cup files
        BY <2>6 DEF InGallery, ToSet
      <3>1. CASE i <= Len(gallery)
        BY <2>6, <2>7, <3>1
      <3>2. CASE i > Len(gallery)
        <4>1. i - Len(gallery) \in 1 .. Len(s)
          BY <2>6, <3>2
        <4>. QED
          BY <2>6, <2>8, <3>2, <4>1
      <3>. QED
        BY <2>6, <3>1, <3>2
    <2>13. uploads'[u].pc \in {"done", "failed"}
      BY <1>2, <1>5
    <2>14. InGallery' \ doubted' \subseteq storage'
      BY <1>1, <1>2, <2>1, <2>12 DEF FilesAgree
    <2>15. InGallery' \cap Doomed' \subseteq doubted'
      BY <1>2, <2>1, <2>2, <2>5, <2>12 DEF FilesAgree
    <2>. QED
      BY <1>1, <1>2, <1>5, <1>8, <2>2, <2>11, <2>12, <2>13, <2>14, <2>15 DEF FilesAgree
  <1>. QED
    BY <1>1, <1>6, <1>7

LEMMA NoUploadRow == NoUpload \in UploadRows /\ NoUpload.pc = "idle"
  BY DEF NoUpload, UploadRows

\* A step that dooms no other file, keeps what is not doomed and at most ends
\* requests.
LEMMA NothingMoreIsDoomed ==
    ASSUME FilesAgree, UNCHANGED <<gallery, unused, doubted>>,
           storage' \subseteq storage, storage \subseteq storage' \cup Doomed,
           removals' \in [Removers -> SUBSET Files], cleanup' \in [Files -> Nat],
           uploads' \in [Uploaders -> UploadRows],
           \A u \in Uploaders : uploads'[u] = uploads[u] \/ uploads'[u] = NoUpload,
           \A f \in Files : f \in Doomed' => f \in Doomed
    PROVE  FilesAgree'
  <1>1. GalleryTypeOK' /\ InGallery' = InGallery /\ Doomed' \subseteq Doomed
    BY DEF FilesAgree, GalleryTypeOK, InGallery, Doomed
  <1>2. \A u \in Uploaders : Pending(u)' \subseteq Pending(u)
    BY NoUploadRow DEF Pending
  <1>3. ASSUME NEW u \in Uploaders, uploads'[u].pc \in {"upload", "insert"}
        PROVE  uploads'[u] = uploads[u] /\ uploads[u].files \subseteq storage'
    <2>1. uploads'[u] = uploads[u] /\ uploads[u].files \subseteq Pending(u)
      BY <1>3, NoUploadRow DEF Pending
    <2>. QED
      BY <1>3, <2>1 DEF FilesAgree
  <1>. QED
    BY <1>1, <1>2, <1>3 DEF FilesAgree

LEMMA RequestEnds ==
    ASSUME GalleryTypeOK, NEW u \in Uploaders, uploads' = [uploads EXCEPT ![u] = NoUpload]
    PROVE  /\ uploads' \in [Uploaders -> UploadRows]
           /\ \A v \in Uploaders : uploads'[v] = uploads[v] \/ uploads'[v] = NoUpload
           /\ \A v \in Uploaders : FailedFiles(v)' \subseteq FailedFiles(v)
  BY NoUploadRow DEF GalleryTypeOK, FailedFiles

LEMMA EnqueueType ==
    ASSUME GalleryTypeOK, NEW fs, Enqueue(fs)
    PROVE  /\ cleanup' \in [Files -> Nat]
           /\ \A f \in Files : f \in fs \/ cleanup'[f] = cleanup[f]
  BY GalleryAssumption DEF GalleryTypeOK, Enqueue

LEMMA CleanUpFailedStep ==
    ASSUME FilesAgree, NEW u \in Uploaders, CleanUpFailed(u)
    PROVE  FilesAgree'
  <1>1. /\ uploads[u].pc = "failed" /\ Enqueue(uploads[u].files)
        /\ uploads' = [uploads EXCEPT ![u] = NoUpload]
        /\ UNCHANGED <<gallery, storage, removals, unused, doubted>>
    BY DEF CleanUpFailed
  <1>2. /\ cleanup' \in [Files -> Nat]
        /\ \A f \in Files : f \in FailedFiles(u) \/ cleanup'[f] = cleanup[f]
    BY <1>1, EnqueueType DEF FilesAgree, FailedFiles
  <1>3. /\ uploads' \in [Uploaders -> UploadRows]
        /\ \A v \in Uploaders : uploads'[v] = uploads[v] \/ uploads'[v] = NoUpload
        /\ \A v \in Uploaders : FailedFiles(v)' \subseteq FailedFiles(v)
    BY <1>1, RequestEnds DEF FilesAgree
  <1>4. \A f \in Files : f \in Doomed' => f \in Doomed
    BY <1>1, <1>2, <1>3 DEF Doomed
  <1>. QED
    BY <1>1, <1>2, <1>3, <1>4, NothingMoreIsDoomed DEF FilesAgree, GalleryTypeOK

LEMMA AnsweredStep ==
    ASSUME FilesAgree, NEW u \in Uploaders, Answered(u)
    PROVE  FilesAgree'
  <1>1. /\ uploads' = [uploads EXCEPT ![u] = NoUpload]
        /\ UNCHANGED <<gallery, storage, removals, unused, cleanup, doubted>>
    BY DEF Answered
  <1>2. /\ uploads' \in [Uploaders -> UploadRows]
        /\ \A v \in Uploaders : uploads'[v] = uploads[v] \/ uploads'[v] = NoUpload
        /\ \A v \in Uploaders : FailedFiles(v)' \subseteq FailedFiles(v)
    BY <1>1, RequestEnds DEF FilesAgree
  <1>3. \A f \in Files : f \in Doomed' => f \in Doomed
    BY <1>1, <1>2 DEF Doomed
  <1>. QED
    BY <1>1, <1>2, <1>3, NothingMoreIsDoomed DEF FilesAgree, GalleryTypeOK

LEMMA CleanUpRemovedStep ==
    ASSUME FilesAgree, NEW r \in Removers, CleanUpRemoved(r)
    PROVE  FilesAgree'
  <1>1. /\ Enqueue(removals[r]) /\ removals' = [removals EXCEPT ![r] = {}]
        /\ UNCHANGED <<gallery, storage, uploads, unused, doubted>>
    BY DEF CleanUpRemoved
  <1>2. /\ cleanup' \in [Files -> Nat]
        /\ \A f \in Files : f \in removals[r] \/ cleanup'[f] = cleanup[f]
    BY <1>1, EnqueueType DEF FilesAgree
  <1>3. /\ removals' \in [Removers -> SUBSET Files]
        /\ \A q \in Removers : removals'[q] \subseteq removals[q]
    BY <1>1 DEF FilesAgree, GalleryTypeOK
  <1>4. \A f \in Files : f \in Doomed' => f \in Doomed
    BY <1>1, <1>2, <1>3 DEF Doomed, FailedFiles
  <1>. QED
    BY <1>1, <1>2, <1>3, <1>4, NothingMoreIsDoomed DEF FilesAgree, GalleryTypeOK

LEMMA GalleryCrashStep ==
    ASSUME FilesAgree, GalleryCrash
    PROVE  FilesAgree'
  <1>1. UNCHANGED <<gallery, storage, cleanup, unused, doubted>>
    BY DEF GalleryCrash
  <1>2. CASE \E u \in Uploaders : uploads' = [uploads EXCEPT ![u] = NoUpload]
             /\ UNCHANGED removals
    <2>1. /\ uploads' \in [Uploaders -> UploadRows]
          /\ \A v \in Uploaders : uploads'[v] = uploads[v] \/ uploads'[v] = NoUpload
          /\ \A v \in Uploaders : FailedFiles(v)' \subseteq FailedFiles(v)
      BY <1>2, RequestEnds DEF FilesAgree
    <2>2. \A f \in Files : f \in Doomed' => f \in Doomed
      BY <1>1, <1>2, <2>1 DEF Doomed
    <2>. QED
      BY <1>1, <1>2, <2>1, <2>2, NothingMoreIsDoomed DEF FilesAgree, GalleryTypeOK
  <1>3. CASE \E r \in Removers : removals' = [removals EXCEPT ![r] = {}]
             /\ UNCHANGED uploads
    <2>1. /\ removals' \in [Removers -> SUBSET Files]
          /\ \A q \in Removers : removals'[q] \subseteq removals[q]
      BY <1>3 DEF FilesAgree, GalleryTypeOK
    <2>2. \A f \in Files : f \in Doomed' => f \in Doomed
      BY <1>1, <1>3, <2>1 DEF Doomed, FailedFiles
    <2>. QED
      BY <1>1, <1>3, <2>1, <2>2, NothingMoreIsDoomed DEF FilesAgree, GalleryTypeOK
  <1>. QED
    BY <1>2, <1>3 DEF GalleryCrash

LEMMA CleanUpFileStep ==
    ASSUME FilesAgree, NEW f \in Files, CleanUp(f)
    PROVE  FilesAgree'
  <1>1. /\ cleanup[f] \in Nat /\ cleanup[f] > 0
        /\ UNCHANGED <<gallery, uploads, removals, unused, doubted>>
        /\ \/ storage' = storage \ {f} /\ cleanup' = [cleanup EXCEPT ![f] = 0]
           \/ storage' \in {storage, storage \ {f}} /\ cleanup' = [cleanup EXCEPT ![f] = cleanup[f] - 1]
    BY DEF CleanUp, AttemptsAfterFailure, FilesAgree, GalleryTypeOK
  <1>2. f \in Doomed
    BY <1>1 DEF Doomed
  <1>3. /\ cleanup' \in [Files -> Nat]
        /\ \A g \in Files : g = f \/ cleanup'[g] = cleanup[g]
    <2>1. PICK n \in Nat : cleanup' = [cleanup EXCEPT ![f] = n]
      <3>1. cleanup[f] - 1 \in Nat
        BY <1>1
      <3>. QED
        BY <1>1, <3>1
    <2>. QED
      BY <2>1 DEF FilesAgree, GalleryTypeOK
  <1>4. \A g \in Files : g \in Doomed' => g \in Doomed
    BY <1>1, <1>2, <1>3 DEF Doomed, FailedFiles
  <1>. QED
    BY <1>1, <1>2, <1>3, <1>4, NothingMoreIsDoomed DEF FilesAgree, GalleryTypeOK

\* The rows that stay: none of those deleted, none twice, and some when fewer
\* are deleted than there are.
LEMMA RowsThatStay ==
    ASSUME GalleryTypeOK, NEW fs \in SUBSET InGallery,
           NEW row \in [1 .. Cardinality({i \in DOMAIN gallery : gallery[i] \notin fs}) ->
                            {i \in DOMAIN gallery : gallery[i] \notin fs}],
           \A i, j \in DOMAIN row : i < j => row[i] < row[j],
           gallery' = [i \in DOMAIN row |-> gallery[row[i]]]
    PROVE  /\ gallery' \in Seq(Files) /\ IsInjective(gallery')
           /\ InGallery' \subseteq InGallery \ fs
           /\ Len(gallery) > Cardinality(fs) => gallery' # <<>>
  <1>. DEFINE staying == {i \in DOMAIN gallery : gallery[i] \notin fs}
              n == Cardinality(staying)
  <1>1. gallery \in [1 .. Len(gallery) -> Files] /\ Len(gallery) \in Nat
    BY DEF GalleryTypeOK
  <1>2. IsFiniteSet(staying) /\ n \in Nat
    <2>1. IsFiniteSet(1 .. Len(gallery)) /\ staying \subseteq 1 .. Len(gallery)
      BY <1>1, FS_Interval
    <2>. QED
      BY <2>1, FS_Subset, FS_CardinalityType
  <1>3. row \in [1 .. n -> staying] /\ \A i \in staying : i \in Nat /\ gallery[i] \in Files \ fs
    BY <1>1
  <1>4. /\ gallery' = [i \in 1 .. n |-> gallery[row[i]]]
        /\ \A i \in 1 .. n : row[i] \in staying /\ gallery'[i] = gallery[row[i]]
    BY <1>3
  <1>5. \A i \in staying : i \in DOMAIN gallery
    OBVIOUS
  <1>6. \A i, j \in 1 .. n : row[i] = row[j] => i = j
    <2>. SUFFICES ASSUME NEW i \in 1 .. n, NEW j \in 1 .. n, i < j PROVE row[i] # row[j]
      BY <1>2
    <2>1. row[i] < row[j] /\ row[i] \in Nat /\ row[j] \in Nat
      BY <1>3
    <2>. QED
      BY <2>1
  <1>7. IsInjective(gallery')
    BY <1>4, <1>5, <1>6 DEF GalleryTypeOK, IsInjective
  <1>8. gallery' \in [1 .. n -> Files]
    BY <1>3, <1>4
  <1>9. gallery' \in Seq(Files) /\ Len(gallery') = n
    <2>. HIDE DEF n
    <2>. QED
      BY <1>2, <1>8, FunctionIsSeq
  <1>10. InGallery' \subseteq InGallery \ fs
    BY <1>3, <1>4 DEF InGallery, ToSet
  <1>11. ASSUME Len(gallery) > Cardinality(fs) PROVE gallery' # <<>>
    <2>1. PICK f \in InGallery : f \notin fs
      <3>1. Cardinality(InGallery) = Len(gallery)
        BY GalleryElements
      <3>2. Cardinality(fs) \in Nat
        BY GalleryElements, FS_Subset, FS_CardinalityType
      <3>3. fs # InGallery
        BY <1>1, <1>11, <3>1, <3>2
      <3>. QED
        BY <3>3
    <2>2. staying # {}
      BY <2>1 DEF InGallery, ToSet
    <2>3. n # 0
      BY <1>2, <2>2, FS_EmptySet
    <2>. QED
      BY <1>9, <2>3
  <1>. QED
    BY <1>7, <1>9, <1>10, <1>11

LEMMA DeleteRowsStep ==
    ASSUME FilesAgree, NEW r \in Removers, DeleteRows(r)
    PROVE  FilesAgree' /\ (product = "published" => gallery' # <<>>)
  <1>1. PICK fs \in SUBSET InGallery :
           /\ RetainsImage(Cardinality(fs))
           /\ \E row \in [1 .. Cardinality({i \in DOMAIN gallery : gallery[i] \notin fs}) ->
                              {i \in DOMAIN gallery : gallery[i] \notin fs}] :
                /\ \A i, j \in DOMAIN row : i < j => row[i] < row[j]
                /\ gallery' = [i \in DOMAIN row |-> gallery[row[i]]]
           /\ removals' = [removals EXCEPT ![r] = fs]
           /\ UNCHANGED <<storage, uploads, cleanup, unused, doubted>>
    BY DEF DeleteRows
  <1>2. /\ gallery' \in Seq(Files) /\ IsInjective(gallery')
        /\ InGallery' \subseteq InGallery \ fs
        /\ Len(gallery) > Cardinality(fs) => gallery' # <<>>
    BY <1>1, RowsThatStay DEF FilesAgree
  <1>3. removals' \in [Removers -> SUBSET Files] /\ fs \subseteq Files
        /\ \A q \in Removers : removals'[q] = IF q = r THEN fs ELSE removals[q]
    BY <1>1, GalleryElements DEF FilesAgree, GalleryTypeOK
  <1>4. GalleryTypeOK'
    BY <1>1, <1>2, <1>3 DEF FilesAgree, GalleryTypeOK
  <1>5. \A u \in Uploaders : Pending(u)' = Pending(u) /\ FailedFiles(u)' = FailedFiles(u)
    BY <1>1 DEF Pending, FailedFiles
  <1>6. Doomed' \subseteq Doomed \cup fs
    BY <1>1, <1>3, <1>5 DEF Doomed
  <1>7. product = "published" => gallery' # <<>>
    BY <1>1, <1>2 DEF RetainsImage
  <1>. QED
    BY <1>1, <1>2, <1>4, <1>5, <1>6, <1>7 DEF FilesAgree

LEMMA ReorderGalleryStep ==
    ASSUME FilesAgree, Reorder
    PROVE  FilesAgree' /\ gallery' # <<>>
  <1>1. /\ gallery' \in [DOMAIN gallery -> InGallery] /\ InGallery' = InGallery
        /\ Len(gallery) > 1 /\ UNCHANGED galleryOnly
    BY DEF Reorder, InGallery
  <1>2. DOMAIN gallery = 1 .. Len(gallery) /\ Len(gallery) \in Nat
    BY DEF FilesAgree, GalleryTypeOK
  <1>3. /\ InGallery \subseteq Files /\ Cardinality(InGallery) = Len(gallery)
    BY GalleryElements DEF FilesAgree
  <1>4. gallery' \in Seq(InGallery) /\ Len(gallery') = Len(gallery)
    BY <1>1, <1>2, FunctionIsSeq
  <1>5. InGallery = {gallery'[i] : i \in DOMAIN gallery'}
    BY <1>1 DEF InGallery, ToSet
  <1>6. gallery' \in Surjection(1 .. Len(gallery), InGallery)
    BY <1>1, <1>2, <1>5 DEF Surjection
  <1>7. IsFiniteSet(1 .. Len(gallery)) /\ Cardinality(1 .. Len(gallery)) = Len(gallery)
    BY <1>2, IntervalSize
  <1>8. gallery' \in Injection(1 .. Len(gallery), InGallery)
    BY <1>3, <1>6, <1>7, FS_SurjSameCardinalityImpliesInj
  <1>9. IsInjective(gallery')
    BY <1>8 DEF Injection, IsInjective
  <1>10. GalleryTypeOK'
    BY <1>1, <1>3, <1>4, <1>9 DEF FilesAgree, GalleryTypeOK, galleryOnly
  <1>11. Doomed' = Doomed /\ \A u \in Uploaders : Pending(u)' = Pending(u)
    BY <1>1 DEF Doomed, Pending, FailedFiles, galleryOnly
  <1>. QED
    BY <1>1, <1>2, <1>4, <1>10, <1>11 DEF FilesAgree, galleryOnly

LEMMA CatalogueKeepsGallery ==
    ASSUME CatalogueNext PROVE UNCHANGED gallery
  BY DEF CatalogueNext, CreateProduct, CreateSetup, Archive, StoreCloses, TransitionProduct,
     CreateOption, DeleteOption, ReorderValues, DeleteValue, CreateValue, UpdateValue,
     ReplaceOptionValues, CreateVariant, GiveUpForm, ArchiveVariant, OpenForm, UpdateVariant, Saved

LEMMA FilesStep ==
    ASSUME FilesAgree, [ProductNext]_galleryVars
    PROVE  FilesAgree'
  <1>1. CASE UNCHANGED <<gallery, galleryOnly>>
    BY <1>1 DEF FilesAgree, GalleryTypeOK, InGallery, Doomed, Pending, FailedFiles, galleryOnly
  <1>2. CASE UNCHANGED galleryVars
    BY <1>1, <1>2 DEF galleryVars, catalogueVars
  <1>3. CASE CatalogueNext /\ UNCHANGED galleryOnly
    BY <1>1, <1>3, CatalogueKeepsGallery
  <1>4. CASE GalleryNext
    <2>1. CASE /\ TransitionProduct("published") \/ TransitionProduct("draft") \/ Archive \/ StoreCloses
               /\ UNCHANGED galleryOnly
      BY <1>1, <2>1 DEF TransitionProduct, Archive, StoreCloses
    <2>. QED
      BY <1>4, <2>1, UploadStep, InsertStep, CleanUpFailedStep, AnsweredStep, CheckMutableStep,
         DeleteRowsStep, CleanUpRemovedStep, CleanUpFileStep, ReorderGalleryStep, GalleryCrashStep
      DEF GalleryNext
  <1>. QED
    BY <1>2, <1>3, <1>4 DEF ProductNext

LEMMA FilesBegin ==
    ASSUME CatalogueInit, GalleryInit PROVE FilesAgree
  <1>1. InGallery = {} /\ gallery \in Seq(Files) /\ IsInjective(gallery)
    BY DEF GalleryInit, InGallery, ToSet, IsInjective
  <1>2. GalleryTypeOK
    BY <1>1, NoUploadRow DEF GalleryInit, GalleryTypeOK
  <1>3. \A u \in Uploaders : Pending(u) = {} /\ FailedFiles(u) = {} /\ uploads[u].pc = "idle"
    BY NoUploadRow DEF GalleryInit, Pending, FailedFiles
  <1>4. Doomed = {}
    BY <1>3 DEF GalleryInit, Doomed
  <1>. QED
    BY <1>1, <1>2, <1>3, <1>4 DEF FilesAgree

\* Rows, uploads, storage and clean-ups agree: a file that a row names is
\* stored, and no deletion is aimed at it, whatever an upload or a clean-up that
\* fails, is repeated or loses its answer leaves behind; but for rows that were
\* committed without an answer, whose files the service cleans up itself
\* (product-images.service.ts).
THEOREM FilesConsistency == ProductSpec => []FilesAgree
  <1>. QED
    BY FilesBegin, FilesStep, PTL DEF ProductSpec

LEMMA FilesInPlace ==
    ASSUME FilesAgree PROVE EveryImageHasItsFile
  <1>1. ASSUME NEW f \in InGallery \ doubted
        PROVE  /\ f \in storage
               /\ cleanup[f] = 0
               /\ \A r \in Removers : f \notin removals[r]
               /\ \A u \in Uploaders : uploads[u].pc = "failed" => f \notin uploads[u].files
    <2>1. f \in Files /\ f \notin Doomed /\ f \in storage /\ cleanup[f] \in Nat
      BY GalleryElements DEF FilesAgree, GalleryTypeOK
    <2>. QED
      BY <2>1 DEF Doomed, FailedFiles
  <1>. QED
    BY <1>1 DEF EveryImageHasItsFile

-----------------------------------------------------------------------------
(* Signatures *)

LEMMA SignatureOrders ==
    ASSUME NEW picks \in SUBSET Values, NEW pos,
           \A v \in picks : pos[OptionOf[v]] \in Int,
           \A v, w \in picks : pos[OptionOf[v]] = pos[OptionOf[w]] => v = w
    PROVE  Signature(picks, pos) \in Seq(picks)
  <1>1. IsFiniteSet(picks) /\ Cardinality(picks) \in Nat
    BY CatalogueAssumption, FS_Subset, FS_CardinalityType
  <1>. DEFINE key == [v \in picks |-> pos[OptionOf[v]]]
  <1>2. PICK s \in [1 .. Cardinality(picks) -> picks] :
            \A i, j \in 1 .. Cardinality(picks) : i < j => key[s[i]] < key[s[j]]
    <2>1. \A v \in picks : key[v] \in Int
      OBVIOUS
    <2>2. \A v, w \in picks : key[v] = key[w] => v = w
      OBVIOUS
    <2>. HIDE DEF key
    <2>. QED
      BY <1>1, <2>1, <2>2, OrderExists
  <1>3. \A i, j \in DOMAIN s : i < j => pos[OptionOf[s[i]]] < pos[OptionOf[s[j]]]
    BY <1>2
  <1>4. Signature(picks, pos) \in [1 .. Cardinality(picks) -> picks]
    BY <1>3 DEF Signature
  <1>. QED
    BY <1>1, <1>4, FunctionIsSeq

\* Moving options without changing their order changes no signature.
LEMMA SignatureStays ==
    ASSUME NEW picks, NEW pos, NEW qos,
           \A v, w \in picks : pos[OptionOf[v]] < pos[OptionOf[w]]
                                  <=> qos[OptionOf[v]] < qos[OptionOf[w]]
    PROVE  Signature(picks, pos) = Signature(picks, qos)
  <1>1. \A s \in [1 .. Cardinality(picks) -> picks] :
           (\A i, j \in DOMAIN s : i < j => pos[OptionOf[s[i]]] < pos[OptionOf[s[j]]])
             <=> (\A i, j \in DOMAIN s : i < j => qos[OptionOf[s[i]]] < qos[OptionOf[s[j]]])
    OBVIOUS
  <1>. QED
    BY <1>1 DEF Signature

\* A title depends on the names of the selected values only.
LEMMA TitleStays ==
    ASSUME NEW S, NEW signature \in Seq(S), NEW names, NEW others,
           \A v \in S : names[v] = others[v]
    PROVE  Title(signature, names) = Title(signature, others)
  BY DEF Title

-----------------------------------------------------------------------------
(* Positions without gap or tie *)

Dense(S, f) == {f[x] : x \in S} = 0 .. Cardinality(S) - 1

LEMMA DenseIsInjective ==
    ASSUME NEW S, IsFiniteSet(S), NEW f, Dense(S, f)
    PROVE  /\ Cardinality(S) \in Nat
           /\ \A x \in S : f[x] \in 0 .. Cardinality(S) - 1
           /\ \A x, y \in S : f[x] = f[y] => x = y
  <1>. DEFINE n == Cardinality(S)
              g == [x \in S |-> f[x]]
  <1>1. n \in Nat
    BY FS_CardinalityType
  <1>2. IsFiniteSet(0 .. n - 1) /\ Cardinality(0 .. n - 1) = n
    BY <1>1, FS_Interval
  <1>3. g \in Surjection(S, 0 .. n - 1)
    BY DEF Dense, Surjection
  <1>4. g \in Injection(S, 0 .. n - 1)
    <2>. HIDE DEF g
    <2>. QED
      BY <1>2, <1>3, FS_SurjSameCardinalityImpliesInj
  <1>5. \A x, y \in S : g[x] = g[y] => x = y
    <2>. HIDE DEF g
    <2>. QED
      BY <1>3, <1>4 DEF Injection, Surjection, IsInjective
  <1>. QED
    BY <1>1, <1>5 DEF Dense

LEMMA InjectiveIsDense ==
    ASSUME NEW S, IsFiniteSet(S), NEW f, \A x \in S : f[x] \in 0 .. Cardinality(S) - 1,
           \A x, y \in S : f[x] = f[y] => x = y
    PROVE  Dense(S, f)
  <1>. DEFINE n == Cardinality(S)
              g == [x \in S |-> f[x]]
  <1>1. n \in Nat
    BY FS_CardinalityType
  <1>2. IsFiniteSet(0 .. n - 1) /\ Cardinality(0 .. n - 1) = n
    BY <1>1, FS_Interval
  <1>3. g \in Injection(S, 0 .. n - 1)
    BY DEF Injection, IsInjective
  <1>4. g \in Surjection(S, 0 .. n - 1)
    <2>. HIDE DEF g
    <2>. QED
      BY <1>2, <1>3, FS_Injection
  <1>5. \A k \in 0 .. n - 1 : \E x \in S : g[x] = k
    <2>. HIDE DEF g
    <2>. QED
      BY <1>4 DEF Surjection
  <1>. QED
    BY <1>5 DEF Dense

LEMMA DenseGrows ==
    ASSUME NEW S, IsFiniteSet(S), NEW f, NEW g, NEW x, x \notin S, Dense(S, f),
           g[x] = Cardinality(S), \A y \in S : g[y] = f[y]
    PROVE  Dense(S \cup {x}, g)
  <1>1. /\ Cardinality(S) \in Nat
        /\ \A y \in S : f[y] \in 0 .. Cardinality(S) - 1
        /\ \A y, z \in S : f[y] = f[z] => y = z
    BY DenseIsInjective
  <1>2. IsFiniteSet(S \cup {x}) /\ Cardinality(S \cup {x}) = Cardinality(S) + 1
    BY FS_AddElement
  <1>3. \A y \in S \cup {x} : g[y] \in 0 .. Cardinality(S \cup {x}) - 1
    BY <1>1, <1>2
  <1>4. \A y, z \in S \cup {x} : g[y] = g[z] => y = z
    BY <1>1
  <1>. QED
    BY <1>2, <1>3, <1>4, InjectiveIsDense

LEMMA DenseShrinks ==
    ASSUME NEW S, IsFiniteSet(S), NEW f, NEW g, NEW x \in S, Dense(S, f),
           \A y \in S \ {x} : g[y] = IF f[y] > f[x] THEN f[y] - 1 ELSE f[y]
    PROVE  /\ Dense(S \ {x}, g)
           /\ \A y, z \in S \ {x} : f[y] < f[z] <=> g[y] < g[z]
  <1>. DEFINE n == Cardinality(S)
  <1>1. /\ n \in Nat /\ \A y \in S : f[y] \in 0 .. n - 1
        /\ \A y, z \in S : f[y] = f[z] => y = z
    BY DenseIsInjective
  <1>2. IsFiniteSet(S \ {x}) /\ Cardinality(S \ {x}) = n - 1
    BY FS_RemoveElement
  <1>. HIDE DEF n
  <1>3. \A y \in S \ {x} : f[y] # f[x] /\ f[y] \in 0 .. n - 1 /\ f[x] \in 0 .. n - 1
    BY <1>1
  <1>4. \A y \in S \ {x} : g[y] \in 0 .. (n - 1) - 1
    BY <1>1, <1>3
  <1>5. \A y, z \in S \ {x} : f[y] < f[z] <=> g[y] < g[z]
    BY <1>1, <1>3
  <1>6. \A y, z \in S \ {x} : g[y] = g[z] => y = z
    <2>. SUFFICES ASSUME NEW y \in S \ {x}, NEW z \in S \ {x}, g[y] = g[z] PROVE y = z
      OBVIOUS
    <2>1. ~(f[y] < f[z]) /\ ~(f[z] < f[y])
      <3>1. g[y] \in Int /\ g[z] \in Int
        BY <1>1, <1>4
      <3>. QED
        BY <1>5, <3>1
    <2>2. f[y] = f[z]
      BY <1>1, <1>3, <2>1
    <2>. QED
      BY <1>1, <2>2
  <1>. QED
    BY <1>2, <1>4, <1>5, <1>6, InjectiveIsDense

LEMMA DenseStays ==
    ASSUME NEW S, NEW f, NEW g, Dense(S, f), \A y \in S : g[y] = f[y]
    PROVE  Dense(S, g)
  BY DEF Dense

-----------------------------------------------------------------------------
(* The catalogue *)

VariantRows == [status : {"none", "active", "archived"}, picks : SUBSET Values,
                signature : Seq(Values), title : Seq(Names), price : Prices \cup {0}]
FormRows == {NoForm} \cup [variant : Variants, seen : VariantRows, fresh : BOOLEAN]

CatalogueTypeOK ==
    /\ product \in {"absent", "draft", "published", "archived"}
    /\ optionPos \in [Options -> Nat \cup {Missing}]
    /\ valuePos \in [Values -> Nat \cup {Missing}]
    /\ valueName \in [Values -> Names]
    /\ variants \in [Variants -> VariantRows]
    /\ forms \in [Editors -> FormRows]

\* Options and values stand densely, and no value outlives its option.
OptionsAgree ==
    /\ PositionsAreDense /\ Cardinality(Present) <= MaxProductOptions
    /\ \A v \in Values : valuePos[v] # Missing => OptionOf[v] \in Present

\* A variant picks at most one value of an option.
Single(picks) == \A v, w \in picks : OptionOf[v] = OptionOf[w] => v = w

VariantsAgree == LabelsFollowSelections /\ \A x \in Variants : Single(variants[x].picks)

\* A fresh form shows the row as it is.
FormIsSound(form) ==
    form # NoForm => /\ variants[form.variant].status # "none"
                     /\ form.fresh => form.seen = variants[form.variant]

NothingBeforeCreation ==
    product = "absent" =>
        /\ Present = {} /\ \A x \in Variants : variants[x].status = "none"
        /\ \A e \in Editors : forms[e] = NoForm
        /\ \A v, w \in Values : v # w /\ OptionOf[v] = OptionOf[w] => valueName[v] # valueName[w]

SellableButForImages ==
    product = "published" =>
        /\ Active # {}
        /\ Present = {} => Cardinality(Active) = 1
        /\ \A x \in Active : Complete(variants[x].picks)
        /\ \A x, y \in Active : x # y => variants[x].signature # variants[y].signature

CatalogueAgrees ==
    /\ CatalogueTypeOK /\ OptionsAgree /\ VariantsAgree
    /\ \A e \in Editors : FormIsSound(forms[e])
    /\ NothingBeforeCreation /\ SellableButForImages

LEMMA SetsAreFinite ==
    /\ Present \subseteq Options /\ IsFiniteSet(Present) /\ Cardinality(Present) \in Nat
    /\ \A S : S \subseteq Values => IsFiniteSet(S) /\ Cardinality(S) \in Nat
    /\ \A S : S \subseteq Options => IsFiniteSet(S) /\ Cardinality(S) \in Nat
    /\ \A S : S \subseteq Variants => IsFiniteSet(S) /\ Cardinality(S) \in Nat
    /\ \A o : ValuesOf(o) \subseteq Values
  <1>1. Present \subseteq Options /\ \A o : ValuesOf(o) \subseteq Values
    BY DEF Present, ValuesOf
  <1>. QED
    BY <1>1, CatalogueAssumption, FS_Subset, FS_CardinalityType

LEMMA ValuesArePresent ==
    ASSUME CatalogueTypeOK, OptionsAgree
    PROVE  AllValues = {v \in Values : valuePos[v] # Missing}
  BY CatalogueAssumption DEF AllValues, ValuesOf, OptionsAgree

\* Options stand at different places.
LEMMA OptionsDiffer ==
    ASSUME CatalogueTypeOK, OptionsAgree
    PROVE  /\ \A o \in Present : optionPos[o] \in 0 .. Cardinality(Present) - 1
           /\ \A o, p \in Present : optionPos[o] = optionPos[p] => o = p
           /\ Cardinality(Present) \in 0 .. 3
  <1>1. Dense(Present, optionPos)
    BY DEF OptionsAgree, PositionsAreDense, Dense
  <1>2. Cardinality(Present) \in 0 .. 3
    BY CatalogueAssumption, SetsAreFinite DEF OptionsAgree
  <1>. QED
    BY <1>1, <1>2, DenseIsInjective, SetsAreFinite

\* One value for each of as many options: none is selected twice.
LEMMA OneOfEach ==
    ASSUME NEW picks \in SUBSET Values, NEW os \in SUBSET Options,
           {OptionOf[v] : v \in picks} = os, Cardinality(picks) = Cardinality(os)
    PROVE  Single(picks)
  <1>. DEFINE f == [v \in picks |-> OptionOf[v]]
  <1>1. f \in Surjection(picks, os)
    BY DEF Surjection
  <1>2. f \in Injection(picks, os)
    <2>. HIDE DEF f
    <2>. QED
      BY <1>1, SetsAreFinite, FS_SurjSameCardinalityImpliesInj
  <1>3. \A v, w \in picks : f[v] = f[w] => v = w
    <2>. HIDE DEF f
    <2>. QED
      BY <1>1, <1>2 DEF Injection, Surjection, IsInjective
  <1>. QED
    BY <1>3 DEF Single

\* What is stored of sound selections.
LEMMA LabelsType ==
    ASSUME NEW picks \in SUBSET Values, Single(picks), NEW pos, NEW names \in [Values -> Names],
           NEW os \in SUBSET Options, \A o \in os : pos[o] \in Int,
           \A o, p \in os : pos[o] = pos[p] => o = p,
           \A v \in picks : OptionOf[v] \in os
    PROVE  /\ Signature(picks, pos) \in Seq(picks) /\ Signature(picks, pos) \in Seq(Values)
           /\ Title(Signature(picks, pos), names) \in Seq(Names)
  <1>1. Signature(picks, pos) \in Seq(picks)
    BY SignatureOrders DEF Single
  <1>. DEFINE s == Signature(picks, pos)
  <1>2. s \in Seq(Values) /\ Len(s) \in Nat /\ s \in [1 .. Len(s) -> Values]
    BY <1>1
  <1>. HIDE DEF s
  <1>3. Title(s, names) \in [1 .. Len(s) -> Names]
    BY <1>2 DEF Title
  <1>4. Title(s, names) \in Seq(Names)
    BY <1>2, <1>3, FunctionIsSeq
  <1>. QED
    BY <1>1, <1>2, <1>4 DEF s

\* The row of a variant that selects one value of each option.
LEMMA RowIsSound ==
    ASSUME CatalogueTypeOK, OptionsAgree, NEW picks \in SUBSET Values, Complete(picks),
           NEW price \in Prices \cup {0}
    PROVE  /\ Row(picks, price) \in VariantRows /\ Row(picks, price).status = "active"
           /\ Row(picks, price).picks = picks /\ Single(picks) /\ picks \subseteq AllValues
           /\ Row(picks, price).signature = Signature(picks, optionPos)
           /\ Row(picks, price).title = Title(Signature(picks, optionPos), valueName)
  <1>1. Single(picks) /\ picks \subseteq AllValues /\ \A v \in picks : OptionOf[v] \in Present
    BY OneOfEach, SetsAreFinite DEF Complete
  <1>2. \A o \in Present : optionPos[o] \in Int
    BY OptionsDiffer
  <1>3. /\ Signature(picks, optionPos) \in Seq(Values)
        /\ Title(Signature(picks, optionPos), valueName) \in Seq(Names)
    BY <1>1, <1>2, OptionsDiffer, SetsAreFinite, LabelsType DEF CatalogueTypeOK
  <1>. QED
    BY <1>1, <1>3 DEF Row, VariantRows

-----------------------------------------------------------------------------
(* What the steps share *)

LEMMA DraftIsFree ==
    ASSUME product' = "draft" PROVE NothingBeforeCreation' /\ SellableButForImages'
  BY DEF NothingBeforeCreation, SellableButForImages

LEMMA OptionsRest ==
    ASSUME CatalogueAgrees, UNCHANGED optionVars
    PROVE  /\ OptionsAgree' /\ UNCHANGED <<Present, AllValues>>
           /\ UNCHANGED <<optionPos, valuePos, valueName>>
           /\ \A o : ValuesOf(o)' = ValuesOf(o)
  <1>1. UNCHANGED <<optionPos, valuePos, valueName>>
    BY DEF optionVars
  <1>2. UNCHANGED <<Present, AllValues>> /\ \A o : ValuesOf(o)' = ValuesOf(o)
    BY <1>1 DEF Present, AllValues, ValuesOf
  <1>3. PositionsAreDense'
    BY <1>1, <1>2 DEF CatalogueAgrees, OptionsAgree, PositionsAreDense
  <1>. QED
    BY <1>1, <1>2, <1>3 DEF CatalogueAgrees, OptionsAgree

LEMMA FormsRest ==
    ASSUME CatalogueAgrees, UNCHANGED <<variants, forms>>
    PROVE  /\ \A e \in Editors : FormIsSound(forms[e])'
           /\ \A s : WithStatus(s)' = WithStatus(s)
  BY DEF CatalogueAgrees, FormIsSound, WithStatus

\* What is known of the row of a variant.
LEMMA RowFacts ==
    ASSUME CatalogueAgrees, NEW x \in Variants, variants[x].status # "none"
    PROVE  /\ variants[x] \in VariantRows /\ variants[x].picks \in SUBSET Values
           /\ Single(variants[x].picks)
           /\ \A v \in variants[x].picks : valuePos[v] # Missing /\ OptionOf[v] \in Present
           /\ variants[x].picks \subseteq AllValues
           /\ variants[x].signature = Signature(variants[x].picks, optionPos)
           /\ variants[x].title = Title(variants[x].signature, valueName)
           /\ variants[x].signature \in Seq(variants[x].picks)
  <1>1. /\ variants[x] \in VariantRows /\ variants[x].picks \in SUBSET Values
        /\ Single(variants[x].picks)
    BY DEF CatalogueAgrees, CatalogueTypeOK, VariantRows, VariantsAgree
  <1>2. x \in Variants \ WithStatus("none")
    BY DEF WithStatus
  <1>3. /\ variants[x].picks \subseteq AllValues
        /\ variants[x].signature = Signature(variants[x].picks, optionPos)
        /\ variants[x].title = Title(variants[x].signature, valueName)
    BY <1>2 DEF CatalogueAgrees, VariantsAgree, LabelsFollowSelections
  <1>4. \A v \in variants[x].picks : valuePos[v] # Missing /\ OptionOf[v] \in Present
    BY <1>3, ValuesArePresent DEF CatalogueAgrees, OptionsAgree
  <1>5. \A o \in Present : optionPos[o] \in Int
    BY OptionsDiffer DEF CatalogueAgrees
  <1>6. valueName \in [Values -> Names]
    BY DEF CatalogueAgrees, CatalogueTypeOK
  <1>7. Signature(variants[x].picks, optionPos) \in Seq(variants[x].picks)
    BY <1>1, <1>4, <1>5, <1>6, OptionsDiffer, SetsAreFinite, LabelsType DEF CatalogueAgrees
  <1>. QED
    BY <1>1, <1>3, <1>4, <1>7

\* Labels stay right when what they were derived from did not change for them.
LEMMA LabelsStay ==
    ASSUME CatalogueAgrees, UNCHANGED variants,
           \A x \in Variants : variants[x].status # "none" =>
              /\ variants[x].picks \subseteq AllValues'
              /\ \A v, w \in variants[x].picks :
                    optionPos[OptionOf[v]] < optionPos[OptionOf[w]]
                      <=> optionPos'[OptionOf[v]] < optionPos'[OptionOf[w]]
              /\ \A v \in variants[x].picks : valueName[v] = valueName'[v]
    PROVE  VariantsAgree'
  <1>1. ASSUME NEW x \in Variants, variants[x].status # "none"
        PROVE  /\ variants[x].signature = Signature(variants[x].picks, optionPos')
               /\ variants[x].title = Title(variants[x].signature, valueName')
    <2>1. Signature(variants[x].picks, optionPos) = Signature(variants[x].picks, optionPos')
      BY <1>1, SignatureStays
    <2>2. Title(variants[x].signature, valueName) = Title(variants[x].signature, valueName')
      BY <1>1, RowFacts, TitleStays
    <2>. QED
      BY <1>1, <2>1, <2>2, RowFacts
  <1>2. LabelsFollowSelections'
    <2>. SUFFICES ASSUME NEW x \in (Variants \ WithStatus("none"))'
                  PROVE  /\ variants'[x].picks \subseteq AllValues'
                         /\ variants'[x].signature = Signature(variants'[x].picks, optionPos')
                         /\ variants'[x].title = Title(variants'[x].signature, valueName')
      BY DEF LabelsFollowSelections
    <2>1. x \in Variants /\ variants[x].status # "none" /\ variants' = variants
      BY DEF WithStatus
    <2>. QED
      BY <1>1, <2>1
  <1>. QED
    BY <1>2 DEF CatalogueAgrees, VariantsAgree

\* The rows xs are rewritten: each stays a variant, and its labels are right.
LEMMA RowsRewritten ==
    ASSUME CatalogueAgrees, UNCHANGED optionVars, variants' \in [Variants -> VariantRows],
           \A x \in Variants : variants'[x] # variants[x] =>
              /\ variants'[x].status # "none"
              /\ Single(variants'[x].picks) /\ variants'[x].picks \subseteq AllValues
              /\ variants'[x].signature = Signature(variants'[x].picks, optionPos)
              /\ variants'[x].title = Title(variants'[x].signature, valueName)
    PROVE  VariantsAgree'
  <1>1. UNCHANGED <<optionPos, valueName, AllValues>>
    BY OptionsRest
  <1>2. LabelsFollowSelections'
    <2>. SUFFICES ASSUME NEW x \in (Variants \ WithStatus("none"))'
                  PROVE  /\ variants'[x].picks \subseteq AllValues'
                         /\ variants'[x].signature = Signature(variants'[x].picks, optionPos')
                         /\ variants'[x].title = Title(variants'[x].signature, valueName')
      BY DEF LabelsFollowSelections
    <2>1. x \in Variants /\ variants'[x].status # "none"
      BY DEF WithStatus
    <2>2. CASE variants'[x] = variants[x]
      BY <1>1, <2>1, <2>2, RowFacts
    <2>3. CASE variants'[x] # variants[x]
      BY <1>1, <2>1, <2>3
    <2>. QED
      BY <2>2, <2>3
  <1>3. \A x \in Variants : Single(variants'[x].picks)
    BY DEF CatalogueAgrees, VariantsAgree
  <1>. QED
    BY <1>2, <1>3 DEF VariantsAgree

LEMMA FormShape ==
    ASSUME CatalogueTypeOK, NEW e \in Editors, forms[e] # NoForm
    PROVE  /\ forms[e] \in [variant : Variants, seen : VariantRows, fresh : BOOLEAN]
           /\ forms[e].variant \in Variants
  BY DEF CatalogueTypeOK, FormRows

\* The forms opened on the rows xs, after these were written.
LEMMA BumpedForm ==
    ASSUME CatalogueTypeOK, NEW xs \in SUBSET Variants, NEW e \in Editors
    PROVE  /\ Bumped(xs)[e] \in FormRows
           /\ Bumped(xs)[e] # NoForm =>
                 /\ forms[e] # NoForm /\ Bumped(xs)[e].variant = forms[e].variant
                 /\ forms[e].variant \in Variants
                 /\ Bumped(xs)[e].fresh =>
                       /\ forms[e].variant \notin xs /\ Bumped(xs)[e] = forms[e]
           /\ forms[e] = NoForm => Bumped(xs)[e] = NoForm
  <1>1. CASE forms[e] # NoForm /\ forms[e].variant \in xs
    <2>1. Bumped(xs)[e] = [forms[e] EXCEPT !.fresh = FALSE]
      BY <1>1 DEF Bumped
    <2>2. forms[e] \in [variant : Variants, seen : VariantRows, fresh : BOOLEAN]
      BY <1>1, FormShape
    <2>. QED
      BY <1>1, <2>1, <2>2 DEF FormRows
  <1>2. CASE forms[e] # NoForm /\ forms[e].variant \notin xs
    BY <1>2, FormShape DEF Bumped, CatalogueTypeOK
  <1>3. CASE forms[e] = NoForm
    <2>1. [NoForm EXCEPT !.fresh = FALSE] = NoForm
      BY DEF NoForm
    <2>2. Bumped(xs)[e] = NoForm
      BY <1>3, <2>1 DEF Bumped
    <2>. QED
      BY <1>3, <2>2 DEF FormRows
  <1>. QED
    BY <1>1, <1>2, <1>3

\* Forms stay sound when every row that is written has its forms bumped.
LEMMA FormsAfterWrite ==
    ASSUME CatalogueAgrees, NEW xs \in SUBSET Variants, NEW gone \in SUBSET Editors,
           forms' = [e \in Editors |-> IF e \in gone THEN NoForm ELSE Bumped(xs)[e]],
           \A x \in Variants : variants[x].status # "none" => variants'[x].status # "none",
           \A x \in Variants \ xs : variants'[x] = variants[x]
    PROVE  forms' \in [Editors -> FormRows] /\ \A e \in Editors : FormIsSound(forms[e])'
  <1>1. forms' \in [Editors -> FormRows]
    <2>1. \A e \in Editors : Bumped(xs)[e] \in FormRows
      BY BumpedForm DEF CatalogueAgrees
    <2>. QED
      BY <2>1 DEF FormRows
  <1>2. ASSUME NEW e \in Editors, forms'[e] # NoForm
        PROVE  /\ variants'[forms'[e].variant].status # "none"
               /\ forms'[e].fresh => forms'[e].seen = variants'[forms'[e].variant]
    <2>1. forms'[e] = Bumped(xs)[e] /\ forms'[e] # NoForm
      BY <1>2
    <2>2. /\ forms[e] # NoForm /\ forms'[e].variant = forms[e].variant
          /\ forms[e].variant \in Variants
          /\ forms'[e].fresh => forms[e].variant \notin xs /\ forms'[e] = forms[e]
      BY <2>1, BumpedForm DEF CatalogueAgrees
    <2>3. FormIsSound(forms[e])
      BY DEF CatalogueAgrees
    <2>. QED
      BY <2>2, <2>3 DEF FormIsSound
  <1>. QED
    BY <1>1, <1>2 DEF FormIsSound

-----------------------------------------------------------------------------
(* Creation and lifecycle *)

LEMMA CreateProductStep ==
    ASSUME CatalogueAgrees, CreateProduct PROVE CatalogueAgrees'
  <1>1. product' = "draft" /\ UNCHANGED <<optionVars, variants, forms>>
    BY DEF CreateProduct
  <1>2. CatalogueTypeOK'
    BY <1>1 DEF CatalogueAgrees, CatalogueTypeOK, optionVars
  <1>3. OptionsAgree' /\ \A e \in Editors : FormIsSound(forms[e])'
    BY <1>1, OptionsRest, FormsRest
  <1>4. VariantsAgree'
    BY <1>1, <1>2, RowsRewritten DEF CatalogueTypeOK
  <1>. QED
    BY <1>1, <1>2, <1>3, <1>4, DraftIsFree DEF CatalogueAgrees

LEMMA TransitionProductStep ==
    ASSUME CatalogueAgrees, NEW s \in {"draft", "published"}, TransitionProduct(s)
    PROVE  CatalogueAgrees'
  <1>1. /\ product' = s /\ UNCHANGED <<optionVars, variants, forms>>
        /\ s = "published" => Publishable
    BY DEF TransitionProduct
  <1>2. CatalogueTypeOK'
    BY <1>1 DEF CatalogueAgrees, CatalogueTypeOK, optionVars
  <1>3. /\ OptionsAgree' /\ UNCHANGED <<Present, AllValues>>
        /\ \A e \in Editors : FormIsSound(forms[e])' /\ \A t : WithStatus(t)' = WithStatus(t)
    BY <1>1, OptionsRest, FormsRest
  <1>4. VariantsAgree'
    BY <1>1, <1>2, RowsRewritten DEF CatalogueTypeOK
  <1>5. SellableButForImages'
    <2>1. Active' = Active
      BY <1>1 DEF Active, WithStatus
    <2>. QED
      BY <1>1, <1>3, <2>1 DEF SellableButForImages, Publishable, Complete
  <1>6. NothingBeforeCreation'
    BY <1>1 DEF NothingBeforeCreation
  <1>. QED
    BY <1>2, <1>3, <1>4, <1>5, <1>6 DEF CatalogueAgrees

LEMMA StoreClosesStep ==
    ASSUME CatalogueAgrees, UNCHANGED <<product, optionVars, variants, forms>>
    PROVE  CatalogueAgrees'
  <1>1. CatalogueTypeOK'
    BY DEF CatalogueAgrees, CatalogueTypeOK, optionVars
  <1>2. /\ OptionsAgree' /\ UNCHANGED <<Present, AllValues, valueName>>
        /\ \A e \in Editors : FormIsSound(forms[e])' /\ \A t : WithStatus(t)' = WithStatus(t)
    BY OptionsRest, FormsRest
  <1>3. VariantsAgree'
    BY <1>1, RowsRewritten DEF CatalogueTypeOK
  <1>4. Active' = Active
    BY DEF Active, WithStatus
  <1>5. SellableButForImages' /\ NothingBeforeCreation'
    BY <1>2, <1>4 DEF CatalogueAgrees, SellableButForImages, Complete, NothingBeforeCreation
  <1>. QED
    BY <1>1, <1>2, <1>3, <1>5 DEF CatalogueAgrees

\* A row that changes its price or its status only.
LEMMA RowKeepsLabels ==
    ASSUME CatalogueAgrees, NEW x \in Variants, variants[x].status # "none", NEW row,
           \/ row = [variants[x] EXCEPT !.status = "archived"]
           \/ \E price \in Prices : row = [variants[x] EXCEPT !.price = price]
    PROVE  /\ row \in VariantRows /\ row.status # "none"
           /\ row.status \in {variants[x].status, "archived"}
           /\ row.picks = variants[x].picks /\ row.signature = variants[x].signature
           /\ row.title = variants[x].title
           /\ Single(row.picks) /\ row.picks \subseteq AllValues
           /\ row.signature = Signature(row.picks, optionPos)
           /\ row.title = Title(row.signature, valueName)
  <1>1. /\ row \in VariantRows /\ row.status # "none"
        /\ row.status \in {variants[x].status, "archived"}
        /\ row.picks = variants[x].picks /\ row.signature = variants[x].signature
        /\ row.title = variants[x].title
    BY DEF CatalogueAgrees, CatalogueTypeOK, VariantRows
  <1>. QED
    BY <1>1, RowFacts

LEMMA ArchiveStep ==
    ASSUME CatalogueAgrees, Archive PROVE CatalogueAgrees'
  <1>1. /\ product' = "archived" /\ UNCHANGED optionVars
        /\ variants' = [x \in Variants |-> IF x \in Active THEN [variants[x] EXCEPT !.status = "archived"]
                                           ELSE variants[x]]
        /\ forms' = Bumped(Active)
    BY DEF Archive
  <1>2. Active \in SUBSET Variants /\ \A x \in Active : variants[x].status # "none"
    BY DEF Active, WithStatus
  <1>3. \A x \in Variants :
           /\ variants'[x] \in VariantRows
           /\ variants[x].status # "none" => variants'[x].status # "none"
           /\ x \notin Active => variants'[x] = variants[x]
           /\ variants'[x] # variants[x] =>
                 /\ variants'[x].status # "none"
                 /\ Single(variants'[x].picks) /\ variants'[x].picks \subseteq AllValues
                 /\ variants'[x].signature = Signature(variants'[x].picks, optionPos)
                 /\ variants'[x].title = Title(variants'[x].signature, valueName)
    <2>. SUFFICES ASSUME NEW x \in Variants
                  PROVE  /\ variants'[x] \in VariantRows
                         /\ variants[x].status # "none" => variants'[x].status # "none"
                         /\ x \notin Active => variants'[x] = variants[x]
                         /\ variants'[x] # variants[x] =>
                               /\ variants'[x].status # "none"
                               /\ Single(variants'[x].picks) /\ variants'[x].picks \subseteq AllValues
                               /\ variants'[x].signature = Signature(variants'[x].picks, optionPos)
                               /\ variants'[x].title = Title(variants'[x].signature, valueName)
      OBVIOUS
    <2>1. CASE x \in Active
      <3>1. variants'[x] = [variants[x] EXCEPT !.status = "archived"] /\ variants[x].status # "none"
        BY <1>1, <1>2, <2>1
      <3>. QED
        BY <2>1, <3>1, RowKeepsLabels
    <2>2. CASE x \notin Active
      BY <1>1, <2>2 DEF CatalogueAgrees, CatalogueTypeOK
    <2>. QED
      BY <2>1, <2>2
  <1>4. variants' \in [Variants -> VariantRows]
    BY <1>1, <1>3
  <1>5. VariantsAgree' /\ OptionsAgree'
    BY <1>1, <1>3, <1>4, RowsRewritten, OptionsRest
  <1>6. forms' \in [Editors -> FormRows] /\ \A e \in Editors : FormIsSound(forms[e])'
    <2>1. forms' = [e \in Editors |-> IF e \in {} THEN NoForm ELSE Bumped(Active)[e]]
      BY <1>1 DEF Bumped
    <2>2. \A x \in Variants \ Active : variants'[x] = variants[x]
      BY <1>3
    <2>3. \A x \in Variants : variants[x].status # "none" => variants'[x].status # "none"
      BY <1>3
    <2>4. {} \in SUBSET Editors /\ Active \in SUBSET Variants
      BY <1>2
    <2>. HIDE DEF Active
    <2>. QED
      BY <2>1, <2>2, <2>3, <2>4, FormsAfterWrite
  <1>7. CatalogueTypeOK'
    BY <1>1, <1>4, <1>6 DEF CatalogueAgrees, CatalogueTypeOK, optionVars
  <1>8. NothingBeforeCreation' /\ SellableButForImages'
    BY <1>1 DEF NothingBeforeCreation, SellableButForImages
  <1>. QED
    BY <1>5, <1>6, <1>7, <1>8 DEF CatalogueAgrees

-----------------------------------------------------------------------------
(* Options and values *)

LEMMA OptionStepFrame ==
    ASSUME CatalogueAgrees, InDraft, product' = product, UNCHANGED <<variants, forms>>,
           optionPos' \in [Options -> Nat \cup {Missing}],
           valuePos' \in [Values -> Nat \cup {Missing}], valueName' \in [Values -> Names],
           OptionsAgree',
           \A x \in Variants : variants[x].status # "none" =>
              /\ variants[x].picks \subseteq AllValues'
              /\ \A v, w \in variants[x].picks :
                    optionPos[OptionOf[v]] < optionPos[OptionOf[w]]
                      <=> optionPos'[OptionOf[v]] < optionPos'[OptionOf[w]]
              /\ \A v \in variants[x].picks : valueName[v] = valueName'[v]
    PROVE  CatalogueAgrees'
  <1>1. product' = "draft"
    BY DEF InDraft
  <1>2. CatalogueTypeOK'
    BY <1>1 DEF CatalogueAgrees, CatalogueTypeOK
  <1>. QED
    BY <1>1, <1>2, DraftIsFree, FormsRest, LabelsStay DEF CatalogueAgrees

LEMMA CreateOptionStep ==
    ASSUME CatalogueAgrees, NEW o \in Options, CreateOption(o) PROVE CatalogueAgrees'
  <1>1. /\ InDraft /\ product' = product /\ o \notin Present /\ Cardinality(Present) < MaxProductOptions
        /\ optionPos' = [optionPos EXCEPT ![o] = Cardinality(Present)]
        /\ UNCHANGED <<valuePos, valueName, variants, forms>>
    BY DEF CreateOption
  <1>2. /\ CatalogueTypeOK /\ OptionsAgree /\ Cardinality(Present) \in Nat /\ IsFiniteSet(Present)
        /\ Present \subseteq Options
    BY SetsAreFinite DEF CatalogueAgrees
  <1>3. /\ optionPos' \in [Options -> Nat \cup {Missing}] /\ optionPos'[o] = Cardinality(Present)
        /\ \A p \in Options : p # o => optionPos'[p] = optionPos[p]
    BY <1>1, <1>2 DEF CatalogueTypeOK
  <1>4. Present' = Present \cup {o}
    BY <1>1, <1>2, <1>3 DEF Present, Missing
  <1>5. Dense(Present', optionPos')
    <2>1. Dense(Present, optionPos)
      BY <1>2 DEF OptionsAgree, PositionsAreDense, Dense
    <2>2. \A p \in Present : optionPos'[p] = optionPos[p]
      BY <1>1, <1>2, <1>3
    <2>. QED
      BY <1>1, <1>2, <1>3, <1>4, <2>1, <2>2, DenseGrows
  <1>6. ValuesOf(o) = {} /\ \A p : ValuesOf(p)' = ValuesOf(p)
    BY <1>1, <1>2 DEF OptionsAgree, ValuesOf
  <1>7. ASSUME NEW p \in Present' PROVE Dense(ValuesOf(p), valuePos)'
    <2>1. CASE p = o
      <3>1. ValuesOf(p)' = {} /\ Cardinality({}) = 0
        BY <1>6, <2>1, FS_EmptySet
      <3>. QED
        BY <3>1 DEF Dense
    <2>2. CASE p \in Present
      BY <1>1, <1>2, <1>6, <2>2 DEF Dense, OptionsAgree, PositionsAreDense
    <2>. QED
      BY <1>4, <2>1, <2>2
  <1>8. OptionsAgree'
    <2>1. PositionsAreDense'
      BY <1>5, <1>7 DEF PositionsAreDense, Dense
    <2>2. Cardinality(Present') <= MaxProductOptions
      <3>1. Cardinality(Present') = Cardinality(Present) + 1
        BY <1>1, <1>2, <1>4, FS_AddElement
      <3>. QED
        BY <1>1, <1>2, <3>1, CatalogueAssumption
    <2>. QED
      BY <1>1, <1>2, <1>4, <2>1, <2>2 DEF OptionsAgree
  <1>9. ASSUME NEW x \in Variants, variants[x].status # "none"
        PROVE  /\ variants[x].picks \subseteq AllValues'
               /\ \A v \in variants[x].picks : optionPos'[OptionOf[v]] = optionPos[OptionOf[v]]
    <2>1. \A v \in variants[x].picks : OptionOf[v] \in Present /\ v \in Values /\ valuePos[v] # Missing
      BY <1>9, RowFacts
    <2>2. \A v \in variants[x].picks : v \in ValuesOf(OptionOf[v])'
      BY <1>1, <2>1 DEF ValuesOf
    <2>. QED
      BY <1>1, <1>2, <1>3, <1>4, <2>1, <2>2 DEF AllValues
  <1>. QED
    BY <1>1, <1>2, <1>3, <1>8, <1>9, OptionStepFrame DEF CatalogueTypeOK

\* Closing the gap one position at a time moves every later option up by one.
LEMMA GapCloses ==
    ASSUME CatalogueTypeOK, OptionsAgree, NEW o \in Present,
           optionPos' = CloseOptionGap([optionPos EXCEPT ![o] = Missing], optionPos[o])
    PROVE  /\ optionPos' \in [Options -> Nat \cup {Missing}] /\ optionPos'[o] = Missing
           /\ \A p \in Present \ {o} :
                 /\ optionPos'[p] = IF optionPos[p] > optionPos[o] THEN optionPos[p] - 1
                                    ELSE optionPos[p]
                 /\ optionPos'[p] # Missing
           /\ \A p \in Options \ Present : optionPos'[p] = Missing
  <1>1. /\ Present \subseteq Options /\ optionPos[o] \in 0 .. 2
        /\ \A p \in Present : optionPos[p] \in 0 .. 2
        /\ \A p \in Present : optionPos[p] = optionPos[o] => p = o
        /\ \A p \in Options \ Present : optionPos[p] = Missing
    BY OptionsDiffer, SetsAreFinite DEF Present
  <1>. DEFINE pos == [optionPos EXCEPT ![o] = Missing]
              d == optionPos[o]
              first == [p \in Options |-> IF d = 0 /\ pos[p] = 1 THEN 0 ELSE pos[p]]
  <1>2. optionPos' = [p \in Options |-> IF d <= 1 /\ first[p] = 2 THEN 1 ELSE first[p]]
    BY DEF CloseOptionGap
  <1>3. /\ pos[o] = Missing /\ \A p \in Options : p # o => pos[p] = optionPos[p]
    BY <1>1 DEF CatalogueTypeOK
  <1>4. \A p \in Options :
           optionPos'[p] = IF d <= 1 /\ first[p] = 2 THEN 1 ELSE first[p]
    BY <1>2
  <1>5. \A p \in Options : first[p] = IF d = 0 /\ pos[p] = 1 THEN 0 ELSE pos[p]
    OBVIOUS
  <1>. HIDE DEF pos, first
  <1>10. ASSUME NEW p \in Options, pos[p] = Missing PROVE optionPos'[p] = Missing
    <2>1. Missing # 0 /\ Missing # 1 /\ Missing # 2
      BY DEF Missing
    <2>2. first[p] = Missing
      BY <1>5, <1>10, <2>1
    <2>. QED
      BY <1>4, <2>1, <2>2
  <1>6. optionPos'[o] = Missing
    BY <1>1, <1>3, <1>10
  <1>7. \A p \in Options \ Present : optionPos'[p] = Missing
    BY <1>1, <1>3, <1>10
  <1>8. ASSUME NEW p \in Present \ {o}
        PROVE  /\ optionPos'[p] = IF optionPos[p] > d THEN optionPos[p] - 1 ELSE optionPos[p]
               /\ optionPos'[p] # Missing /\ optionPos'[p] \in Nat
    <2>1. pos[p] = optionPos[p] /\ optionPos[p] \in 0 .. 2 /\ optionPos[p] # d /\ d \in 0 .. 2
      BY <1>1, <1>3
    <2>2. /\ first[p] = IF d = 0 /\ optionPos[p] = 1 THEN 0 ELSE optionPos[p]
          /\ optionPos'[p] = IF d <= 1 /\ first[p] = 2 THEN 1 ELSE first[p]
      BY <1>1, <1>4, <1>5, <2>1
    <2>. HIDE DEF d
    <2>. QED
      BY <2>1, <2>2 DEF Missing
  <1>9. optionPos' \in [Options -> Nat \cup {Missing}]
    <2>1. \A p \in Options : optionPos'[p] \in Nat \cup {Missing}
      BY <1>6, <1>7, <1>8
    <2>. QED
      BY <1>2, <2>1
  <1>. QED
    BY <1>6, <1>7, <1>8, <1>9

LEMMA DeleteOptionStep ==
    ASSUME CatalogueAgrees, NEW o \in Options, DeleteOption(o) PROVE CatalogueAgrees'
  <1>1. /\ InDraft /\ product' = product /\ o \in Present
        /\ \A v \in Assigned : OptionOf[v] # o
        /\ valuePos' = [v \in Values |-> IF OptionOf[v] = o THEN Missing ELSE valuePos[v]]
        /\ optionPos' = CloseOptionGap([optionPos EXCEPT ![o] = Missing], optionPos[o])
        /\ UNCHANGED <<valueName, variants, forms>>
    BY DEF DeleteOption
  <1>2. /\ CatalogueTypeOK /\ OptionsAgree /\ Cardinality(Present) \in Nat /\ IsFiniteSet(Present)
        /\ Present \subseteq Options
    BY SetsAreFinite DEF CatalogueAgrees
  <1>3. /\ optionPos' \in [Options -> Nat \cup {Missing}] /\ optionPos'[o] = Missing
        /\ \A p \in Present \ {o} :
              /\ optionPos'[p] = IF optionPos[p] > optionPos[o] THEN optionPos[p] - 1
                                 ELSE optionPos[p]
              /\ optionPos'[p] # Missing
        /\ \A p \in Options \ Present : optionPos'[p] = Missing
    BY <1>1, <1>2, GapCloses
  <1>4. Present' = Present \ {o}
    BY <1>2, <1>3 DEF Present
  <1>5. /\ Dense(Present', optionPos')
        /\ \A p, q \in Present \ {o} : optionPos[p] < optionPos[q] <=> optionPos'[p] < optionPos'[q]
    <2>1. Dense(Present, optionPos)
      BY <1>2 DEF OptionsAgree, PositionsAreDense, Dense
    <2>2. \A p \in Present \ {o} :
             optionPos'[p] = IF optionPos[p] > optionPos[o] THEN optionPos[p] - 1 ELSE optionPos[p]
      BY <1>3
    <2>3. Dense(Present \ {o}, optionPos') /\ \A p, q \in Present \ {o} :
             optionPos[p] < optionPos[q] <=> optionPos'[p] < optionPos'[q]
      <3>1. IsFiniteSet(Present) /\ o \in Present
        BY <1>1, <1>2
      <3>. QED
        BY ONLY <2>1, <2>2, <3>1, DenseShrinks, Zenon
    <2>. QED
      BY <1>4, <2>3
  <1>6. /\ valuePos' \in [Values -> Nat \cup {Missing}]
        /\ \A v \in Values : OptionOf[v] # o => valuePos'[v] = valuePos[v]
        /\ \A v \in Values : OptionOf[v] = o => valuePos'[v] = Missing
    BY <1>1, <1>2 DEF CatalogueTypeOK
  <1>7. ASSUME NEW p \in Present' PROVE Dense(ValuesOf(p), valuePos)'
    <2>1. p \in Present /\ p # o
      BY <1>4
    <2>2. ValuesOf(p)' = ValuesOf(p)
      BY <1>6, <2>1 DEF ValuesOf
    <2>3. \A v \in ValuesOf(p) : valuePos'[v] = valuePos[v]
      BY <1>6, <2>1 DEF ValuesOf
    <2>4. Dense(ValuesOf(p), valuePos)
      BY <1>2, <2>1 DEF OptionsAgree, PositionsAreDense, Dense
    <2>. QED
      BY <2>2, <2>3, <2>4, DenseStays
  <1>8. OptionsAgree'
    <2>1. PositionsAreDense'
      BY <1>5, <1>7 DEF PositionsAreDense, Dense
    <2>2. Cardinality(Present') <= MaxProductOptions
      <3>1. Cardinality(Present') = Cardinality(Present) - 1
        BY <1>1, <1>2, <1>4, FS_RemoveElement
      <3>. QED
        BY <1>2, <3>1, CatalogueAssumption DEF OptionsAgree
    <2>3. \A v \in Values : valuePos'[v] # Missing => OptionOf[v] \in Present'
      BY <1>2, <1>4, <1>6 DEF OptionsAgree
    <2>. QED
      BY <2>1, <2>2, <2>3 DEF OptionsAgree
  <1>9. ASSUME NEW x \in Variants, variants[x].status # "none"
        PROVE  /\ variants[x].picks \subseteq AllValues'
               /\ \A v \in variants[x].picks : OptionOf[v] \in Present \ {o}
    <2>1. \A v \in variants[x].picks :
             OptionOf[v] \in Present /\ v \in Values /\ valuePos[v] # Missing /\ v \in Assigned
      BY <1>9, RowFacts DEF Assigned
    <2>2. \A v \in variants[x].picks : OptionOf[v] \in Present \ {o} /\ valuePos'[v] # Missing
      BY <1>1, <1>6, <2>1
    <2>3. \A v \in variants[x].picks : v \in ValuesOf(OptionOf[v])'
      BY <2>1, <2>2 DEF ValuesOf
    <2>. QED
      BY <1>4, <2>2, <2>3 DEF AllValues
  <1>. QED
    BY <1>1, <1>2, <1>3, <1>5, <1>6, <1>8, <1>9, OptionStepFrame DEF CatalogueTypeOK

\* A step that changes the values of one option only, and no assigned one.
LEMMA ValueStep ==
    ASSUME CatalogueAgrees, NEW o \in Present, UNCHANGED optionPos,
           valuePos' \in [Values -> Nat \cup {Missing}],
           \A v \in Values : OptionOf[v] # o => valuePos'[v] = valuePos[v],
           Dense(ValuesOf(o), valuePos)',
           \A v \in Assigned : valuePos[v] # Missing => valuePos'[v] # Missing
    PROVE  /\ OptionsAgree' /\ Present' = Present
           /\ \A x \in Variants : variants[x].status # "none" => variants[x].picks \subseteq AllValues'
  <1>1. Present' = Present
    BY DEF Present
  <1>2. ASSUME NEW p \in Present PROVE Dense(ValuesOf(p), valuePos)'
    <2>1. CASE p = o
      BY <2>1
    <2>2. CASE p # o
      <3>1. ValuesOf(p)' = ValuesOf(p)
        BY <2>2 DEF ValuesOf
      <3>2. \A v \in ValuesOf(p) : valuePos'[v] = valuePos[v]
        BY <2>2 DEF ValuesOf
      <3>3. Dense(ValuesOf(p), valuePos)
        BY DEF CatalogueAgrees, OptionsAgree, PositionsAreDense, Dense
      <3>. QED
        BY <3>1, <3>2, <3>3, DenseStays
    <2>. QED
      BY <2>1, <2>2
  <1>3. OptionsAgree'
    <2>1. PositionsAreDense'
      BY <1>1, <1>2 DEF PositionsAreDense, Dense, CatalogueAgrees, OptionsAgree
    <2>2. \A v \in Values : valuePos'[v] # Missing => OptionOf[v] \in Present
      BY DEF CatalogueAgrees, OptionsAgree
    <2>. QED
      BY <1>1, <2>1, <2>2 DEF CatalogueAgrees, OptionsAgree
  <1>4. ASSUME NEW x \in Variants, variants[x].status # "none"
        PROVE  variants[x].picks \subseteq AllValues'
    <2>1. \A v \in variants[x].picks :
             OptionOf[v] \in Present /\ v \in Values /\ valuePos[v] # Missing /\ v \in Assigned
      BY <1>4, RowFacts DEF Assigned
    <2>2. \A v \in variants[x].picks : v \in ValuesOf(OptionOf[v])'
      BY <2>1 DEF ValuesOf
    <2>. QED
      BY <1>1, <2>1, <2>2 DEF AllValues
  <1>. QED
    BY <1>1, <1>3, <1>4

LEMMA CreateValueStep ==
    ASSUME CatalogueAgrees, NEW v \in Values, NEW n \in Names, CreateValue(v, n)
    PROVE  CatalogueAgrees'
  <1>. DEFINE o == OptionOf[v]
  <1>1. /\ InDraft /\ product' = product /\ o \in Present /\ v \notin ValuesOf(o)
        /\ valueName' = [valueName EXCEPT ![v] = n]
        /\ valuePos' = [valuePos EXCEPT ![v] = Cardinality(ValuesOf(o))]
        /\ UNCHANGED <<optionPos, variants, forms>>
    BY DEF CreateValue
  <1>2. /\ CatalogueTypeOK /\ OptionsAgree /\ IsFiniteSet(ValuesOf(o))
        /\ Cardinality(ValuesOf(o)) \in Nat /\ valuePos[v] = Missing
    BY <1>1, SetsAreFinite DEF CatalogueAgrees, ValuesOf
  <1>3. /\ valuePos' \in [Values -> Nat \cup {Missing}] /\ valuePos'[v] = Cardinality(ValuesOf(o))
        /\ \A w \in Values : w # v => valuePos'[w] = valuePos[w]
        /\ valueName' \in [Values -> Names]
        /\ \A w \in Values : w # v => valueName'[w] = valueName[w]
    BY <1>1, <1>2 DEF CatalogueTypeOK
  <1>4. ValuesOf(o)' = ValuesOf(o) \cup {v}
    BY <1>2, <1>3 DEF ValuesOf, Missing
  <1>5. Dense(ValuesOf(o), valuePos)'
    <2>1. Dense(ValuesOf(o), valuePos)
      BY <1>1, <1>2 DEF OptionsAgree, PositionsAreDense, Dense
    <2>2. \A w \in ValuesOf(o) : valuePos'[w] = valuePos[w]
      BY <1>1, <1>3 DEF ValuesOf
    <2>3. Dense(ValuesOf(o) \cup {v}, valuePos')
      <3>. HIDE DEF o
      <3>. QED
        <4>1. /\ IsFiniteSet(ValuesOf(o)) /\ v \notin ValuesOf(o)
              /\ valuePos'[v] = Cardinality(ValuesOf(o))
          BY <1>1, <1>2, <1>3
        <4>. QED
          BY ONLY <2>1, <2>2, <4>1, DenseGrows, Zenon
    <2>. QED
      BY <1>4, <2>3 DEF Dense
  <1>6. \A w \in Values : OptionOf[w] # o => valuePos'[w] = valuePos[w]
    BY <1>3
  <1>7. \A w \in Assigned : valuePos[w] # Missing => valuePos'[w] # Missing
    BY <1>1, <1>2, <1>3 DEF Assigned, CatalogueTypeOK, VariantRows, Missing
  <1>8. /\ OptionsAgree' /\ Present' = Present
        /\ \A x \in Variants : variants[x].status # "none" => variants[x].picks \subseteq AllValues'
    <2>. HIDE DEF o
    <2>. QED
      BY <1>1, <1>3, <1>5, <1>6, <1>7, ValueStep
  <1>9. \A x \in Variants : variants[x].status # "none" =>
           \A w \in variants[x].picks : w \in Values /\ w # v
    BY <1>2, RowFacts
  <1>. QED
    BY <1>1, <1>2, <1>3, <1>8, <1>9, OptionStepFrame DEF CatalogueTypeOK

LEMMA DeleteValueStep ==
    ASSUME CatalogueAgrees, NEW v \in Values, DeleteValue(v) PROVE CatalogueAgrees'
  <1>. DEFINE o == OptionOf[v]
  <1>1. /\ InDraft /\ product' = product /\ v \in AllValues /\ v \notin Assigned
        /\ valuePos' = [w \in Values |->
               CASE w = v -> Missing
                 [] OptionOf[w] = OptionOf[v] /\ valuePos[w] > valuePos[v] -> valuePos[w] - 1
                 [] OTHER -> valuePos[w]]
        /\ UNCHANGED <<optionPos, valueName, variants, forms>>
    BY DEF DeleteValue
  <1>2. /\ CatalogueTypeOK /\ OptionsAgree /\ IsFiniteSet(ValuesOf(o))
        /\ valuePos[v] # Missing /\ valuePos[v] \in Nat /\ o \in Present /\ v \in ValuesOf(o)
    <2>1. CatalogueTypeOK /\ OptionsAgree /\ valuePos[v] # Missing
      BY <1>1, ValuesArePresent DEF CatalogueAgrees
    <2>. QED
      BY <2>1, SetsAreFinite DEF CatalogueTypeOK, OptionsAgree, ValuesOf
  <1>3. \A w \in Values : w # v =>
           valuePos'[w] = IF OptionOf[w] = o /\ valuePos[w] > valuePos[v] THEN valuePos[w] - 1
                          ELSE valuePos[w]
    BY <1>1
  <1>4. valuePos'[v] = Missing
    BY <1>1, <1>2
  <1>5. \A w \in Values : /\ valuePos'[w] \in Nat \cup {Missing}
                          /\ w # v => (valuePos'[w] = Missing <=> valuePos[w] = Missing)
    <2>1. \A w \in Values : valuePos[w] \in Nat \cup {Missing}
      BY <1>2 DEF CatalogueTypeOK
    <2>. HIDE DEF o
    <2>. QED
      BY <1>2, <1>3, <1>4, <2>1 DEF Missing
  <1>6. valuePos' \in [Values -> Nat \cup {Missing}]
    BY <1>1, <1>5
  <1>7. ValuesOf(o)' = ValuesOf(o) \ {v}
    BY <1>4, <1>5 DEF ValuesOf
  <1>8. Dense(ValuesOf(o), valuePos)'
    <2>1. Dense(ValuesOf(o), valuePos)
      BY <1>2 DEF OptionsAgree, PositionsAreDense, Dense
    <2>2. \A w \in ValuesOf(o) \ {v} :
             valuePos'[w] = IF valuePos[w] > valuePos[v] THEN valuePos[w] - 1 ELSE valuePos[w]
      BY <1>3 DEF ValuesOf
    <2>3. Dense(ValuesOf(o) \ {v}, valuePos')
      <3>. HIDE DEF o
      <3>. QED
        BY <1>2, <2>1, <2>2, DenseShrinks
    <2>. QED
      BY <1>7, <2>3 DEF Dense
  <1>9. /\ \A w \in Values : OptionOf[w] # o => valuePos'[w] = valuePos[w]
        /\ \A w \in Assigned : valuePos[w] # Missing => valuePos'[w] # Missing
    BY <1>1, <1>3, <1>5 DEF Assigned, CatalogueAgrees, CatalogueTypeOK, VariantRows
  <1>10. /\ OptionsAgree' /\ Present' = Present
         /\ \A x \in Variants : variants[x].status # "none" => variants[x].picks \subseteq AllValues'
    <2>. HIDE DEF o
    <2>. QED
      BY <1>1, <1>2, <1>6, <1>8, <1>9, ValueStep
  <1>. QED
    BY <1>1, <1>2, <1>6, <1>10, OptionStepFrame DEF CatalogueTypeOK

LEMMA ReorderValuesStep ==
    ASSUME CatalogueAgrees, NEW o \in Options, ReorderValues(o) PROVE CatalogueAgrees'
  <1>1. PICK order \in [ValuesOf(o) -> 0 .. Cardinality(ValuesOf(o)) - 1] :
           /\ InDraft /\ product' = product /\ o \in Present
           /\ \A v, w \in ValuesOf(o) : order[v] = order[w] => v = w
           /\ valuePos' = [v \in Values |-> IF v \in ValuesOf(o) THEN order[v] ELSE valuePos[v]]
           /\ UNCHANGED <<optionPos, valueName, variants, forms>>
    BY DEF ReorderValues
  <1>2. /\ CatalogueTypeOK /\ IsFiniteSet(ValuesOf(o)) /\ ValuesOf(o) \subseteq Values
        /\ Cardinality(ValuesOf(o)) \in Nat
    BY SetsAreFinite DEF CatalogueAgrees
  <1>3. /\ \A v \in ValuesOf(o) : valuePos'[v] = order[v]
                                  /\ valuePos'[v] \in 0 .. Cardinality(ValuesOf(o)) - 1
        /\ \A v \in Values \ ValuesOf(o) : valuePos'[v] = valuePos[v]
    BY <1>1, <1>2
  <1>4. \A v \in ValuesOf(o) : valuePos'[v] \in Nat /\ valuePos'[v] # Missing
    BY <1>2, <1>3 DEF Missing
  <1>5. valuePos' \in [Values -> Nat \cup {Missing}]
    <2>1. \A v \in Values : valuePos'[v] \in Nat \cup {Missing}
      BY <1>2, <1>3, <1>4 DEF CatalogueTypeOK
    <2>. QED
      BY <1>1, <2>1
  <1>6. ValuesOf(o)' = ValuesOf(o)
    BY <1>3, <1>4 DEF ValuesOf
  <1>7. Dense(ValuesOf(o), valuePos)'
    <2>1. Dense(ValuesOf(o), valuePos')
      BY <1>1, <1>2, <1>3, InjectiveIsDense
    <2>. QED
      BY <1>6, <2>1 DEF Dense
  <1>8. /\ \A v \in Values : OptionOf[v] # o => valuePos'[v] = valuePos[v]
        /\ \A v \in Assigned : valuePos[v] # Missing => valuePos'[v] # Missing
    BY <1>2, <1>3, <1>4 DEF ValuesOf, Assigned, CatalogueTypeOK, VariantRows
  <1>9. /\ OptionsAgree' /\ Present' = Present
        /\ \A x \in Variants : variants[x].status # "none" => variants[x].picks \subseteq AllValues'
    BY <1>1, <1>5, <1>7, <1>8, ValueStep
  <1>. QED
    BY <1>1, <1>2, <1>5, <1>9, OptionStepFrame DEF CatalogueTypeOK

LEMMA UpdateValueStep ==
    ASSUME CatalogueAgrees, NEW v \in Values, NEW n \in Names, UpdateValue(v, n)
    PROVE  CatalogueAgrees'
  <1>. DEFINE rows == Variants \ WithStatus("none")
              s(x) == Signature(variants[x].picks, optionPos)
  <1>1. /\ product' = "draft" /\ UNCHANGED <<optionPos, valuePos>>
        /\ valueName' = [valueName EXCEPT ![v] = n]
        /\ variants' = [x \in Variants |-> IF x \notin rows THEN variants[x]
               ELSE [variants[x] EXCEPT !.signature = s(x), !.title = Title(s(x), valueName')]]
        /\ forms' = Bumped(rows)
    BY DEF UpdateValue, RefreshVariantGraph, InDraft
  <1>2. CatalogueTypeOK /\ OptionsAgree /\ valueName' \in [Values -> Names]
    BY <1>1 DEF CatalogueAgrees, CatalogueTypeOK
  <1>3. /\ Present' = Present /\ AllValues' = AllValues
        /\ \A o : ValuesOf(o)' = ValuesOf(o)
    <2>1. Present' = Present
      BY <1>1 DEF Present
    <2>2. \A o : ValuesOf(o)' = ValuesOf(o)
      BY <1>1 DEF ValuesOf
    <2>. QED
      BY <2>1, <2>2 DEF AllValues
  <1>4. OptionsAgree'
    BY <1>1, <1>2, <1>3 DEF OptionsAgree, PositionsAreDense
  <1>5. ASSUME NEW x \in Variants
        PROVE  /\ variants'[x] \in VariantRows /\ variants'[x].status = variants[x].status
               /\ Single(variants'[x].picks)
               /\ variants[x].status # "none" =>
                     /\ variants'[x].picks \subseteq AllValues
                     /\ variants'[x].signature = Signature(variants'[x].picks, optionPos)
                     /\ variants'[x].title = Title(variants'[x].signature, valueName')
               /\ x \notin rows => variants'[x] = variants[x]
    <2>1. CASE variants[x].status = "none"
      <3>1. x \notin rows
        BY <2>1 DEF WithStatus
      <3>2. variants'[x] = variants[x]
        BY <1>1, <3>1
      <3>. QED
        BY <1>2, <2>1, <3>2 DEF CatalogueTypeOK, CatalogueAgrees, VariantsAgree
    <2>2. CASE variants[x].status # "none"
      <3>1. x \in rows
        BY <2>2 DEF WithStatus
      <3>2. /\ variants[x] \in VariantRows /\ variants[x].picks \in SUBSET Values
            /\ Single(variants[x].picks) /\ variants[x].picks \subseteq AllValues
            /\ \A w \in variants[x].picks : OptionOf[w] \in Present
        BY <2>2, RowFacts
      <3>3. s(x) \in Seq(Values) /\ Title(s(x), valueName') \in Seq(Names)
        <4>1. \A o \in Present : optionPos[o] \in Int
          BY <1>2, OptionsDiffer
        <4>. QED
          BY <1>2, <3>2, <4>1, OptionsDiffer, SetsAreFinite, LabelsType
      <3>. HIDE DEF s
      <3>4. variants'[x] = [variants[x] EXCEPT !.signature = s(x), !.title = Title(s(x), valueName')]
        BY <1>1, <3>1
      <3>5. /\ variants'[x] \in VariantRows /\ variants'[x].status = variants[x].status
            /\ variants'[x].picks = variants[x].picks /\ variants'[x].signature = s(x)
            /\ variants'[x].title = Title(s(x), valueName')
        BY <3>2, <3>3, <3>4 DEF VariantRows
      <3>. QED
        BY <2>2, <3>1, <3>2, <3>5 DEF s
    <2>. QED
      BY <2>1, <2>2
  <1>6. variants' \in [Variants -> VariantRows]
    BY <1>1, <1>5
  <1>7. VariantsAgree'
    <2>1. ASSUME NEW x \in (Variants \ WithStatus("none"))'
          PROVE  /\ variants'[x].picks \subseteq AllValues'
                 /\ variants'[x].signature = Signature(variants'[x].picks, optionPos')
                 /\ variants'[x].title = Title(variants'[x].signature, valueName')
      <3>1. x \in Variants /\ variants[x].status # "none"
        BY <1>5, <2>1 DEF WithStatus
      <3>. QED
        BY <1>1, <1>3, <1>5, <3>1
    <2>. QED
      BY <1>5, <2>1 DEF VariantsAgree, LabelsFollowSelections
  <1>8. forms' \in [Editors -> FormRows] /\ \A e \in Editors : FormIsSound(forms[e])'
    <2>1. forms' = [e \in Editors |-> IF e \in {} THEN NoForm ELSE Bumped(rows)[e]]
      BY <1>1 DEF Bumped
    <2>2. \A x \in Variants \ rows : variants'[x] = variants[x]
      BY <1>5
    <2>3. \A x \in Variants : variants[x].status # "none" => variants'[x].status # "none"
      BY <1>5
    <2>4. {} \in SUBSET Editors /\ rows \in SUBSET Variants
      OBVIOUS
    <2>. HIDE DEF rows
    <2>. QED
      BY <2>1, <2>2, <2>3, <2>4, FormsAfterWrite
  <1>9. CatalogueTypeOK'
    BY <1>1, <1>2, <1>6, <1>8 DEF CatalogueTypeOK
  <1>. QED
    BY <1>1, <1>4, <1>7, <1>8, <1>9, DraftIsFree DEF CatalogueAgrees

\* Values inserted in the order of their names stand densely.
Kin(vs, o) == {v \in vs : OptionOf[v] = o}
Before(vs, names, v) == {w \in vs : OptionOf[w] = OptionOf[v] /\ names[w] < names[v]}

LEMMA NamesOrder ==
    ASSUME NEW vs \in SUBSET Values, NEW names \in [Values -> Names], NEW o,
           \A v, w \in Values : v # w /\ OptionOf[v] = OptionOf[w] => names[v] # names[w],
           NEW f, \A v \in Kin(vs, o) : f[v] = Cardinality(Before(vs, names, v))
    PROVE  Dense(Kin(vs, o), f) /\ \A v \in Kin(vs, o) : f[v] \in Nat
  <1>. DEFINE S == Kin(vs, o)
  <1>1. IsFiniteSet(S) /\ Cardinality(S) \in Nat /\ S \subseteq Values
    <2>1. S \subseteq Values
      BY DEF Kin
    <2>. HIDE DEF S
    <2>. QED
      BY <2>1, SetsAreFinite
  <1>2. /\ \A v \in S : names[v] \in Int
        /\ \A v, w \in S : names[v] = names[w] => v = w
    <2>1. ASSUME NEW v \in S PROVE names[v] \in Int
      <3>1. v \in Values
        BY <1>1
      <3>2. names[v] \in Names
        BY <3>1
      <3>3. \A m \in Names : m \in Nat
        BY CatalogueAssumption
      <3>4. names[v] \in Nat
        BY ONLY <3>2, <3>3, Zenon
      <3>. QED
        BY <3>4
    <2>2. ASSUME NEW v \in S, NEW w \in S, names[v] = names[w] PROVE v = w
      <3>1. v \in Values /\ w \in Values /\ OptionOf[v] = OptionOf[w]
        BY <1>1 DEF Kin
      <3>. QED
        BY <2>2, <3>1
    <2>. QED
      BY <2>1, <2>2
  <1>3. ASSUME NEW v \in S PROVE f[v] = Rank(S, names)[v]
    <2>1. Before(vs, names, v) = {w \in S : names[w] < names[v]}
      BY <1>3 DEF Before, Kin
    <2>2. f[v] = Cardinality(Before(vs, names, v))
      BY <1>3
    <2>. HIDE DEF S
    <2>. QED
      BY <1>3, <2>1, <2>2 DEF Rank
  <1>4. Rank(S, names) \in Surjection(S, 0 .. Cardinality(S) - 1)
    <2>. HIDE DEF S
    <2>. QED
      BY <1>1, <1>2, RankOrders DEF Bijection
  <1>5. {f[v] : v \in S} = 0 .. Cardinality(S) - 1
    <2>. HIDE DEF S
    <2>. QED
      BY <1>3, <1>4 DEF Surjection
  <1>6. ASSUME NEW v \in S PROVE f[v] \in Nat
    <2>1. f[v] \in 0 .. Cardinality(S) - 1
      BY <1>5, <1>6
    <2>. HIDE DEF S
    <2>. QED
      BY <1>1, <2>1
  <1>7. Dense(S, f)
    BY <1>5 DEF Dense
  <1>. QED
    BY <1>6, <1>7

LEMMA CreateSetupStep ==
    ASSUME CatalogueAgrees, CreateSetup PROVE CatalogueAgrees'
  <1>1. PICK os \in SUBSET Options, vs \in SUBSET Values,
             order \in [Options -> 0 .. MaxProductOptions - 1], xs \in SUBSET Variants :
          \E chosen \in [xs -> SUBSET vs], price \in Prices :
            /\ AcceptableSetup(os, order, vs, xs, chosen)
            /\ product' = "draft"
            /\ optionPos' = [o \in Options |-> IF o \in os THEN order[o] ELSE Missing]
            /\ valuePos' = [v \in Values |-> IF v \notin vs THEN Missing
                   ELSE Cardinality({w \in vs : OptionOf[w] = OptionOf[v] /\ valueName[w] < valueName[v]})]
            /\ variants' = [x \in Variants |-> IF x \notin xs THEN NoRow
                   ELSE LET s == Signature(chosen[x], order)
                        IN  [status |-> "active", picks |-> chosen[x], signature |-> s,
                             title |-> Title(s, valueName), price |-> price]]
            /\ UNCHANGED <<storeOpen, valueName, forms, gallery>>
    BY DEF CreateSetup
  <1>2. PICK chosen \in [xs -> SUBSET vs], price \in Prices :
            /\ AcceptableSetup(os, order, vs, xs, chosen)
            /\ product' = "draft"
            /\ optionPos' = [o \in Options |-> IF o \in os THEN order[o] ELSE Missing]
            /\ valuePos' = [v \in Values |-> IF v \notin vs THEN Missing
                   ELSE Cardinality({w \in vs : OptionOf[w] = OptionOf[v] /\ valueName[w] < valueName[v]})]
            /\ variants' = [x \in Variants |-> IF x \notin xs THEN NoRow
                   ELSE [status |-> "active", picks |-> chosen[x],
                         signature |-> Signature(chosen[x], order),
                         title |-> Title(Signature(chosen[x], order), valueName), price |-> price]]
            /\ UNCHANGED <<valueName, forms>>
    BY <1>1
  <1>3. /\ Cardinality(os) <= MaxProductOptions
        /\ {order[o] : o \in os} = 0 .. Cardinality(os) - 1
        /\ {OptionOf[v] : v \in vs} = os
        /\ \A x \in xs : {OptionOf[v] : v \in chosen[x]} = os
                         /\ Cardinality(chosen[x]) = Cardinality(os)
    BY <1>2 DEF AcceptableSetup
  <1>4. /\ CatalogueTypeOK /\ valueName \in [Values -> Names] /\ product = "absent"
        /\ \A e \in Editors : forms[e] = NoForm
        /\ \A v, w \in Values : v # w /\ OptionOf[v] = OptionOf[w] => valueName[v] # valueName[w]
    BY DEF CreateSetup, CatalogueAgrees, CatalogueTypeOK, NothingBeforeCreation
  <1>5. /\ \A o \in Options : order[o] \in Nat /\ order[o] # Missing
        /\ \A o \in os : optionPos'[o] = order[o]
        /\ \A o \in Options \ os : optionPos'[o] = Missing
        /\ optionPos' \in [Options -> Nat \cup {Missing}]
    <2>1. \A o \in Options : order[o] \in Nat /\ order[o] # Missing
      BY CatalogueAssumption DEF Missing
    <2>. QED
      BY <1>2, <2>1
  <1>6. Present' = os
    BY <1>5 DEF Present
  <1>7. ASSUME NEW o
        PROVE  /\ Dense(Kin(vs, o), valuePos')
               /\ \A v \in Kin(vs, o) : valuePos'[v] \in Nat
    <2>1. \A v \in Kin(vs, o) : valuePos'[v] = Cardinality(Before(vs, valueName, v))
      BY <1>2 DEF Kin, Before
    <2>2. /\ valueName \in [Values -> Names]
          /\ \A v, w \in Values : v # w /\ OptionOf[v] = OptionOf[w] => valueName[v] # valueName[w]
      BY <1>4
    <2>3. vs \in SUBSET Values
      OBVIOUS
    <2>. QED
      BY <2>1, <2>2, <2>3, NamesOrder
  <1>8. /\ valuePos' \in [Values -> Nat \cup {Missing}]
        /\ \A v \in Values : valuePos'[v] # Missing <=> v \in vs
    <2>1. \A v \in vs : valuePos'[v] \in Nat
      <3>1. \A v \in vs : v \in Kin(vs, OptionOf[v])
        BY DEF Kin
      <3>. QED
        BY <1>7, <3>1
    <2>2. \A v \in vs : valuePos'[v] # Missing
      BY <2>1 DEF Missing
    <2>3. \A v \in Values \ vs : valuePos'[v] = Missing
      BY <1>2
    <2>4. \A v \in Values : valuePos'[v] \in Nat \cup {Missing}
      BY <2>1, <2>3
    <2>5. valuePos' = [v \in Values |-> valuePos'[v]]
      BY <1>2
    <2>. QED
      BY <2>2, <2>3, <2>4, <2>5
  <1>9. ASSUME NEW o \in os PROVE Dense(ValuesOf(o), valuePos)'
    <2>1. ValuesOf(o)' = Kin(vs, o)
      BY <1>8 DEF ValuesOf, Kin
    <2>. QED
      BY <1>7, <2>1 DEF Dense
  <1>10. Dense(os, optionPos') /\ Dense(os, order)
    BY <1>3, <1>5 DEF Dense
  <1>11. OptionsAgree'
    <2>1. PositionsAreDense'
      BY <1>6, <1>9, <1>10 DEF PositionsAreDense, Dense
    <2>. QED
      BY <1>3, <1>6, <1>8, <2>1 DEF OptionsAgree
  <1>12. AllValues' = vs
    <2>1. \A v \in vs : v \in ValuesOf(OptionOf[v])' /\ OptionOf[v] \in os
      BY <1>3, <1>8 DEF ValuesOf
    <2>. QED
      BY <1>6, <1>8, <2>1 DEF AllValues, ValuesOf
  <1>13. ASSUME NEW x \in xs
         PROVE  /\ variants'[x] \in VariantRows /\ Single(variants'[x].picks)
                /\ variants'[x].picks \subseteq vs
                /\ variants'[x].signature = Signature(variants'[x].picks, optionPos')
                /\ variants'[x].title = Title(variants'[x].signature, valueName')
    <2>1. /\ chosen[x] \in SUBSET Values /\ chosen[x] \subseteq vs
          /\ \A v \in chosen[x] : OptionOf[v] \in os
      BY <1>3
    <2>2. Single(chosen[x])
      BY <1>3, <2>1, OneOfEach
    <2>3. /\ Signature(chosen[x], order) \in Seq(Values)
          /\ Title(Signature(chosen[x], order), valueName) \in Seq(Names)
      <3>1. \A o \in os : order[o] \in Int
        BY <1>5
      <3>2. \A o, p \in os : order[o] = order[p] => o = p
        BY <1>10, DenseIsInjective, SetsAreFinite
      <3>. QED
        BY <1>4, <2>1, <2>2, <3>1, <3>2, LabelsType
    <2>4. Signature(chosen[x], order) = Signature(chosen[x], optionPos')
      <3>1. \A v, w \in chosen[x] : order[OptionOf[v]] < order[OptionOf[w]]
                                       <=> optionPos'[OptionOf[v]] < optionPos'[OptionOf[w]]
        BY <1>5, <2>1
      <3>. QED
        BY ONLY <3>1, SignatureStays, Zenon
    <2>5. variants'[x] = [status |-> "active", picks |-> chosen[x],
                          signature |-> Signature(chosen[x], order),
                          title |-> Title(Signature(chosen[x], order), valueName), price |-> price]
      BY <1>2
    <2>. QED
      BY <1>2, <2>1, <2>2, <2>3, <2>4, <2>5 DEF VariantRows
  <1>14. ASSUME NEW x \in Variants \ xs
         PROVE  /\ variants'[x] \in VariantRows /\ Single(variants'[x].picks)
                /\ variants'[x].status = "none"
    <2>1. variants'[x] = NoRow
      BY <1>2
    <2>2. <<>> \in Seq(Values) /\ <<>> \in Seq(Names)
      OBVIOUS
    <2>. QED
      BY <2>1, <2>2 DEF NoRow, VariantRows, Single
  <1>15. variants' \in [Variants -> VariantRows]
    <2>1. \A x \in Variants : variants'[x] \in VariantRows
      BY <1>13, <1>14
    <2>2. variants' = [x \in Variants |-> variants'[x]]
      BY <1>2
    <2>. QED
      BY <2>1, <2>2
  <1>16. VariantsAgree'
    <2>1. ASSUME NEW x \in (Variants \ WithStatus("none"))'
          PROVE  /\ variants'[x].picks \subseteq AllValues'
                 /\ variants'[x].signature = Signature(variants'[x].picks, optionPos')
                 /\ variants'[x].title = Title(variants'[x].signature, valueName')
      <3>1. x \in Variants /\ variants'[x].status # "none"
        BY <2>1 DEF WithStatus
      <3>2. x \in xs
        BY <1>14, <3>1
      <3>. QED
        BY <1>12, <1>13, <3>2
    <2>2. \A x \in Variants : Single(variants'[x].picks)
      BY <1>13, <1>14
    <2>. QED
      BY <2>1, <2>2 DEF VariantsAgree, LabelsFollowSelections
  <1>17. forms' = forms /\ \A e \in Editors : FormIsSound(forms[e])'
    BY <1>2, <1>4 DEF FormIsSound
  <1>18. CatalogueTypeOK'
    BY <1>2, <1>4, <1>5, <1>8, <1>15, <1>17 DEF CatalogueTypeOK
  <1>. QED
    BY <1>2, <1>11, <1>16, <1>17, <1>18, DraftIsFree DEF CatalogueAgrees

-----------------------------------------------------------------------------
(* Variants *)

\* One row is written, and its labels are right.
LEMMA VariantWrite ==
    ASSUME CatalogueAgrees, UNCHANGED <<product, optionVars>>, product # "absent",
           NEW x \in Variants, NEW row, variants' = [variants EXCEPT ![x] = row],
           row \in VariantRows, row.status # "none", Single(row.picks), row.picks \subseteq AllValues,
           row.signature = Signature(row.picks, optionPos), row.title = Title(row.signature, valueName),
           NEW gone \in SUBSET Editors,
           forms' = [e \in Editors |-> IF e \in gone THEN NoForm ELSE Bumped({x})[e]],
           SellableButForImages'
    PROVE  CatalogueAgrees'
  <1>1. /\ variants \in [Variants -> VariantRows] /\ variants' \in [Variants -> VariantRows]
        /\ variants'[x] = row /\ \A y \in Variants \ {x} : variants'[y] = variants[y]
    BY DEF CatalogueAgrees, CatalogueTypeOK
  <1>2. \A y \in Variants : variants'[y] # variants[y] => y = x
    BY <1>1
  <1>3. VariantsAgree'
    BY <1>1, <1>2, RowsRewritten
  <1>4. forms' \in [Editors -> FormRows] /\ \A e \in Editors : FormIsSound(forms[e])'
    <2>1. \A y \in Variants : variants[y].status # "none" => variants'[y].status # "none"
      BY <1>1
    <2>2. {x} \in SUBSET Variants
      OBVIOUS
    <2>. QED
      BY <1>1, <2>1, <2>2, FormsAfterWrite
  <1>5. OptionsAgree' /\ CatalogueTypeOK'
    BY <1>1, <1>4, OptionsRest DEF CatalogueAgrees, CatalogueTypeOK
  <1>. QED
    BY <1>3, <1>4, <1>5 DEF CatalogueAgrees, NothingBeforeCreation

LEMMA CreateVariantStep ==
    ASSUME CatalogueAgrees, NEW x \in Variants, NEW picks \in SUBSET Values, NEW price \in Prices,
           CreateVariant(x, picks, price)
    PROVE  CatalogueAgrees'
  <1>1. /\ product = "draft" /\ product' = "draft" /\ UNCHANGED <<product, optionVars, forms>>
        /\ variants[x].status = "none" /\ Complete(picks)
        /\ variants' = [variants EXCEPT ![x] = Row(picks, price)]
    BY DEF CreateVariant, InDraft
  <1>2. /\ Row(picks, price) \in VariantRows /\ Row(picks, price).status = "active"
        /\ Row(picks, price).picks = picks /\ Single(picks) /\ picks \subseteq AllValues
        /\ Row(picks, price).signature = Signature(picks, optionPos)
        /\ Row(picks, price).title = Title(Signature(picks, optionPos), valueName)
    BY <1>1, RowIsSound DEF CatalogueAgrees
  <1>3. forms' = [e \in Editors |-> IF e \in {} THEN NoForm ELSE Bumped({x})[e]]
    <2>1. ASSUME NEW e \in Editors PROVE Bumped({x})[e] = forms[e]
      <3>1. CASE forms[e] = NoForm
        BY <3>1, BumpedForm DEF CatalogueAgrees
      <3>2. CASE forms[e] # NoForm
        <4>1. forms[e].variant # x
          BY <1>1, <3>2 DEF CatalogueAgrees, FormIsSound
        <4>. QED
          BY <4>1 DEF Bumped
      <3>. QED
        BY <3>1, <3>2
    <2>2. forms = [e \in Editors |-> forms[e]]
      BY DEF CatalogueAgrees, CatalogueTypeOK
    <2>. QED
      BY <1>1, <2>1, <2>2
  <1>4. SellableButForImages' /\ {} \in SUBSET Editors
    BY <1>1, DraftIsFree
  <1>. DEFINE row == Row(picks, price)
  <1>5. /\ row \in VariantRows /\ row.status # "none" /\ Single(row.picks)
        /\ row.picks \subseteq AllValues
        /\ row.signature = Signature(row.picks, optionPos)
        /\ row.title = Title(row.signature, valueName)
        /\ variants' = [variants EXCEPT ![x] = row]
    BY <1>1, <1>2
  <1>. HIDE DEF row
  <1>. QED
    BY <1>1, <1>3, <1>4, <1>5, VariantWrite

LEMMA ReplaceOptionValuesStep ==
    ASSUME CatalogueAgrees, NEW x \in Variants, NEW picks \in SUBSET Values,
           ReplaceOptionValues(x, picks)
    PROVE  CatalogueAgrees'
  <1>. DEFINE row == Row(picks, variants[x].price)
  <1>1. /\ product = "draft" /\ product' = "draft" /\ UNCHANGED <<product, optionVars>>
        /\ Complete(picks) /\ variants' = [variants EXCEPT ![x] = row] /\ forms' = Bumped({x})
    BY DEF ReplaceOptionValues, InDraft
  <1>2. variants[x].price \in Prices \cup {0}
    BY DEF CatalogueAgrees, CatalogueTypeOK, VariantRows
  <1>3. /\ row \in VariantRows /\ row.status = "active"
        /\ row.picks = picks /\ Single(picks) /\ picks \subseteq AllValues
        /\ row.signature = Signature(picks, optionPos)
        /\ row.title = Title(Signature(picks, optionPos), valueName)
    BY <1>1, <1>2, RowIsSound DEF CatalogueAgrees
  <1>4. forms' = [e \in Editors |-> IF e \in {} THEN NoForm ELSE Bumped({x})[e]]
    BY <1>1 DEF Bumped
  <1>5. SellableButForImages' /\ {} \in SUBSET Editors
    BY <1>1, DraftIsFree
  <1>. HIDE DEF row
  <1>. QED
    BY <1>1, <1>3, <1>4, <1>5, VariantWrite

LEMMA FormStep ==
    ASSUME CatalogueAgrees, UNCHANGED <<product, optionVars, variants>>, product # "absent",
           NEW e \in Editors, NEW form, forms' = [forms EXCEPT ![e] = form],
           \/ form = NoForm
           \/ \E x \in Active : form = [variant |-> x, seen |-> Shown(x), fresh |-> TRUE]
    PROVE  CatalogueAgrees'
  <1>1. variants \in [Variants -> VariantRows] /\ forms \in [Editors -> FormRows]
    BY DEF CatalogueAgrees, CatalogueTypeOK
  <1>2. form \in FormRows /\ FormIsSound(form)
    <2>1. CASE form = NoForm
      BY <2>1 DEF FormRows, FormIsSound
    <2>2. ASSUME NEW x \in Active, form = [variant |-> x, seen |-> Shown(x), fresh |-> TRUE]
          PROVE  form \in FormRows /\ FormIsSound(form)
      <3>1. x \in Variants /\ variants[x] \in VariantRows /\ variants[x].status # "none"
        BY <1>1, <2>2 DEF Active, WithStatus
      <3>2. form.variant = x /\ form.seen = variants[x]
        BY <2>2 DEF Shown
      <3>3. form \in [variant : Variants, seen : VariantRows, fresh : BOOLEAN]
        BY <2>2, <3>1 DEF Shown
      <3>. QED
        BY <3>1, <3>2, <3>3 DEF FormRows, FormIsSound
    <2>. QED
      BY <2>1, <2>2
  <1>3. forms' \in [Editors -> FormRows]
    BY <1>1, <1>2
  <1>4. ASSUME NEW d \in Editors PROVE FormIsSound(forms[d])'
    <2>1. forms'[d] = IF d = e THEN form ELSE forms[d]
      BY <1>1
    <2>2. FormIsSound(forms[d])
      BY DEF CatalogueAgrees
    <2>. QED
      BY <1>2, <2>1, <2>2 DEF FormIsSound
  <1>5. /\ OptionsAgree' /\ UNCHANGED <<Present, AllValues>>
        /\ UNCHANGED <<optionPos, valuePos, valueName>>
    BY OptionsRest
  <1>6. CatalogueTypeOK'
    BY <1>3, <1>5 DEF CatalogueAgrees, CatalogueTypeOK
  <1>7. VariantsAgree'
    BY <1>1, RowsRewritten
  <1>8. Active' = Active
    BY DEF Active, WithStatus
  <1>9. SellableButForImages' /\ NothingBeforeCreation'
    BY <1>5, <1>8 DEF CatalogueAgrees, SellableButForImages, Complete, NothingBeforeCreation
  <1>. QED
    BY <1>4, <1>5, <1>6, <1>7, <1>9 DEF CatalogueAgrees

LEMMA CreatedWhenUsed ==
    ASSUME CatalogueAgrees, NEW x \in Active PROVE product # "absent"
  BY DEF CatalogueAgrees, NothingBeforeCreation, Active, WithStatus

LEMMA OpenFormStep ==
    ASSUME CatalogueAgrees, NEW e \in Editors, NEW x \in Variants, OpenForm(e, x)
    PROVE  CatalogueAgrees'
  <1>1. /\ x \in Active /\ UNCHANGED <<product, optionVars, variants>>
        /\ forms' = [forms EXCEPT ![e] = [variant |-> x, seen |-> Shown(x), fresh |-> TRUE]]
    BY DEF OpenForm
  <1>2. product # "absent"
    BY <1>1, CreatedWhenUsed
  <1>. QED
    BY <1>1, <1>2, FormStep

LEMMA GiveUpFormStep ==
    ASSUME CatalogueAgrees, NEW e \in Editors, GiveUpForm(e) PROVE CatalogueAgrees'
  <1>1. /\ forms[e] # NoForm /\ forms' = [forms EXCEPT ![e] = NoForm]
        /\ UNCHANGED <<product, optionVars, variants>>
    BY DEF GiveUpForm
  <1>2. product # "absent"
    BY <1>1 DEF CatalogueAgrees, NothingBeforeCreation
  <1>. QED
    BY <1>1, <1>2, FormStep

\* What a save does to the forms.
LEMMA SavedForms ==
    ASSUME NEW e \in Editors, NEW row, Saved(e, row)
    PROVE  /\ variants' = [variants EXCEPT ![forms[e].variant] = row]
           /\ forms' = [d \in Editors |-> IF d \in {e} THEN NoForm ELSE Bumped({forms[e].variant})[d]]
           /\ UNCHANGED <<product, optionVars>> /\ {e} \in SUBSET Editors
  BY DEF Saved, Bumped

LEMMA UpdateVariantStep ==
    ASSUME CatalogueAgrees, NEW e \in Editors, NEW price \in Prices, UpdateVariant(e, price)
    PROVE  CatalogueAgrees'
  <1>. DEFINE x == forms[e].variant
              row == [variants[x] EXCEPT !.price = price]
  <1>1. x \in Active /\ x \in Variants /\ variants[x].status = "active" /\ Saved(e, row)
    BY DEF UpdateVariant, CanSave, Active, WithStatus
  <1>2. /\ variants' = [variants EXCEPT ![x] = row] /\ {e} \in SUBSET Editors
        /\ forms' = [d \in Editors |-> IF d \in {e} THEN NoForm ELSE Bumped({x})[d]]
        /\ UNCHANGED <<product, optionVars>>
    <2>. HIDE DEF row
    <2>. QED
      BY <1>1, SavedForms
  <1>3. product # "absent"
    BY <1>1, CreatedWhenUsed
  <1>4. /\ row \in VariantRows /\ row.status # "none"
        /\ row.picks = variants[x].picks /\ row.signature = variants[x].signature
        /\ Single(row.picks) /\ row.picks \subseteq AllValues
        /\ row.signature = Signature(row.picks, optionPos)
        /\ row.title = Title(row.signature, valueName)
    BY <1>1, RowKeepsLabels
  <1>5. row.status = "active"
    BY <1>1 DEF CatalogueAgrees, CatalogueTypeOK, VariantRows
  <1>. HIDE DEF row, x
  <1>6. \A y \in Variants : /\ variants'[y].status = variants[y].status
                            /\ variants'[y].picks = variants[y].picks
                            /\ variants'[y].signature = variants[y].signature
    BY <1>1, <1>2, <1>4, <1>5 DEF CatalogueAgrees, CatalogueTypeOK
  <1>7. Active' = Active /\ Active \subseteq Variants
    BY <1>6 DEF Active, WithStatus
  <1>8. SellableButForImages'
    BY <1>2, <1>6, <1>7, OptionsRest DEF CatalogueAgrees, SellableButForImages, Complete
  <1>. QED
    BY <1>1, <1>2, <1>3, <1>4, <1>8, VariantWrite

LEMMA ArchiveVariantStep ==
    ASSUME CatalogueAgrees, NEW e \in Editors, ArchiveVariant(e) PROVE CatalogueAgrees'
  <1>. DEFINE x == forms[e].variant
              row == [variants[x] EXCEPT !.status = "archived"]
  <1>1. /\ x \in Active /\ x \in Variants /\ variants[x].status = "active" /\ Saved(e, row)
        /\ product = "published" => HasOtherActiveVariant(x)
    BY DEF ArchiveVariant, CanSave, Active, WithStatus
  <1>2. /\ variants' = [variants EXCEPT ![x] = row] /\ {e} \in SUBSET Editors
        /\ forms' = [d \in Editors |-> IF d \in {e} THEN NoForm ELSE Bumped({x})[d]]
        /\ UNCHANGED <<product, optionVars>>
    <2>. HIDE DEF row
    <2>. QED
      BY <1>1, SavedForms
  <1>3. product # "absent"
    BY <1>1, CreatedWhenUsed
  <1>4. /\ row \in VariantRows /\ row.status # "none"
        /\ Single(row.picks) /\ row.picks \subseteq AllValues
        /\ row.signature = Signature(row.picks, optionPos)
        /\ row.title = Title(row.signature, valueName)
    BY <1>1, RowKeepsLabels
  <1>5. row.status = "archived"
    BY <1>1 DEF CatalogueAgrees, CatalogueTypeOK, VariantRows
  <1>. HIDE DEF row, x
  <1>6. /\ variants'[x].status = "archived"
        /\ \A y \in Variants \ {x} : variants'[y] = variants[y]
    BY <1>1, <1>2, <1>5 DEF CatalogueAgrees, CatalogueTypeOK
  <1>7. Active' = Active \ {x} /\ Active \subseteq Variants
    BY <1>6 DEF Active, WithStatus
  <1>8. ASSUME product = "published" PROVE Active' # {} /\ Present # {}
    <2>1. PICK y \in Active : y # x
      BY <1>1, <1>8 DEF HasOtherActiveVariant
    <2>2. Cardinality(Active) # 1
      <3>1. IsFiniteSet(Active)
        BY <1>7, SetsAreFinite
      <3>. QED
        BY <1>1, <2>1, <3>1, FS_Singleton
    <2>. QED
      BY <1>7, <1>8, <2>1, <2>2 DEF CatalogueAgrees, SellableButForImages
  <1>9. SellableButForImages'
    <2>1. SUFFICES ASSUME product = "published" PROVE SellableButForImages'
      BY <1>2 DEF SellableButForImages
    <2>2. /\ \A y \in Active : Complete(variants[y].picks)
          /\ \A y, z \in Active : y # z => variants[y].signature # variants[z].signature
      BY <2>1 DEF CatalogueAgrees, SellableButForImages
    <2>3. UNCHANGED <<Present, AllValues>>
      BY <1>2, OptionsRest
    <2>4. \A y \in Active' : y \in Active /\ variants'[y] = variants[y]
      BY <1>6, <1>7
    <2>5. \A y \in Active' : Complete(variants[y].picks)'
      BY <2>2, <2>3, <2>4 DEF Complete
    <2>. QED
      BY <1>8, <2>1, <2>2, <2>3, <2>4, <2>5 DEF SellableButForImages
  <1>. QED
    BY <1>1, <1>2, <1>3, <1>4, <1>9, VariantWrite

-----------------------------------------------------------------------------
(* The whole product *)

\* The images leave the rest of the catalogue alone.
LEMMA CatalogueRestsStep ==
    ASSUME CatalogueAgrees, CatalogueRests PROVE CatalogueAgrees'
  <1>1. UNCHANGED <<product, optionVars, variants, forms>>
    BY DEF CatalogueRests
  <1>. QED
    BY <1>1, StoreClosesStep

LEMMA CatalogueStep ==
    ASSUME CatalogueAgrees, CatalogueNext PROVE CatalogueAgrees'
  <1>1. CASE CreateProduct
    BY <1>1, CreateProductStep
  <1>2. CASE CreateSetup
    BY <1>2, CreateSetupStep
  <1>3. CASE Archive
    BY <1>3, ArchiveStep
  <1>4. CASE StoreCloses
    BY <1>4, StoreClosesStep DEF StoreCloses
  <1>5. CASE TransitionProduct("published") \/ TransitionProduct("draft")
    BY <1>5, TransitionProductStep
  <1>6. CASE \E o \in Options : CreateOption(o) \/ DeleteOption(o) \/ ReorderValues(o)
    BY <1>6, CreateOptionStep, DeleteOptionStep, ReorderValuesStep
  <1>7. CASE \E v \in Values : DeleteValue(v) \/ \E n \in Names : CreateValue(v, n) \/ UpdateValue(v, n)
    BY <1>7, DeleteValueStep, CreateValueStep, UpdateValueStep
  <1>8. CASE \E x \in Variants, picks \in SUBSET Values :
                ReplaceOptionValues(x, picks) \/ \E price \in Prices : CreateVariant(x, picks, price)
    BY <1>8, ReplaceOptionValuesStep, CreateVariantStep
  <1>9. CASE \E e \in Editors : \/ GiveUpForm(e) \/ ArchiveVariant(e)
                                \/ \E x \in Variants : OpenForm(e, x)
                                \/ \E price \in Prices : UpdateVariant(e, price)
    BY <1>9, GiveUpFormStep, ArchiveVariantStep, OpenFormStep, UpdateVariantStep
  <1>. QED
    BY <1>1, <1>2, <1>3, <1>4, <1>5, <1>6, <1>7, <1>8, <1>9 DEF CatalogueNext

\* The actions of a gallery that touch its rows or its files only.
ImagesOnly ==
    \/ \E u \in Uploaders : \/ Upload(u) \/ Insert(u) \/ CleanUpFailed(u) \/ Answered(u)
                            \/ \E n \in 1 .. 2 : CheckMutable(u, n)
    \/ \E r \in Removers : DeleteRows(r) \/ CleanUpRemoved(r)
    \/ \E f \in Files : CleanUp(f)
    \/ Reorder \/ GalleryCrash

LEMMA ProductSteps ==
    ASSUME ProductNext
    PROVE  ImagesOnly \/ (CatalogueNext /\ UNCHANGED galleryOnly)
  BY DEF ProductNext, GalleryNext, ImagesOnly, CatalogueNext

LEMMA ImagesRest ==
    ASSUME ImagesOnly PROVE CatalogueRests
  <1>1. ASSUME NEW u \in Uploaders,
               \/ Upload(u) \/ Insert(u) \/ CleanUpFailed(u) \/ Answered(u)
               \/ \E n \in 1 .. 2 : CheckMutable(u, n)
        PROVE  CatalogueRests
    BY <1>1 DEF Upload, Insert, CleanUpFailed, Answered, CheckMutable
  <1>2. ASSUME NEW r \in Removers, DeleteRows(r) \/ CleanUpRemoved(r) PROVE CatalogueRests
    BY <1>2 DEF DeleteRows, CleanUpRemoved
  <1>3. ASSUME NEW f \in Files, CleanUp(f) PROVE CatalogueRests
    BY <1>3 DEF CleanUp
  <1>4. CASE Reorder \/ GalleryCrash
    BY <1>4 DEF Reorder, GalleryCrash
  <1>. QED
    BY <1>1, <1>2, <1>3, <1>4 DEF ImagesOnly

LEMMA CatalogueBegins ==
    ASSUME CatalogueInit PROVE CatalogueAgrees
  <1>1. Present = {} /\ AllValues = {} /\ \A v \in Values : valuePos[v] = Missing
    BY DEF CatalogueInit, Present, AllValues
  <1>2. NoRow \in VariantRows
    <2>1. <<>> \in Seq(Values) /\ <<>> \in Seq(Names)
      OBVIOUS
    <2>. QED
      BY <2>1 DEF NoRow, VariantRows
  <1>3. CatalogueTypeOK
    BY <1>2 DEF CatalogueInit, CatalogueTypeOK, FormRows
  <1>4. Cardinality(Present) = 0
    BY <1>1, FS_EmptySet
  <1>5. OptionsAgree
    BY <1>1, <1>4, CatalogueAssumption DEF OptionsAgree, PositionsAreDense
  <1>6. \A x \in Variants : variants[x].status = "none" /\ variants[x].picks = {}
    BY DEF CatalogueInit, NoRow
  <1>7. VariantsAgree
    BY <1>6 DEF VariantsAgree, LabelsFollowSelections, WithStatus, Single
  <1>8. \A e \in Editors : forms[e] = NoForm
    BY DEF CatalogueInit
  <1>9. NothingBeforeCreation
    BY <1>1, <1>6, <1>8 DEF CatalogueInit, NothingBeforeCreation
  <1>. QED
    BY <1>3, <1>5, <1>7, <1>8, <1>9 DEF CatalogueInit, CatalogueAgrees, FormIsSound, SellableButForImages

\* The rows of a product agree at all times: the copies a variant keeps of its
\* selection with the options and values as they are now, positions with the
\* order shown, and what an editor's form holds with what it may still assume
\* (product-options and product-variants.repository.ts).
THEOREM CatalogueConsistency == ProductSpec => []CatalogueAgrees
  <1>1. CatalogueInit /\ GalleryInit => CatalogueAgrees
    BY CatalogueBegins
  <1>2. CatalogueAgrees /\ [ProductNext]_galleryVars => CatalogueAgrees'
    <2>. SUFFICES ASSUME CatalogueAgrees, [ProductNext]_galleryVars PROVE CatalogueAgrees'
      OBVIOUS
    <2>1. CASE ImagesOnly
      BY <2>1, ImagesRest, CatalogueRestsStep
    <2>2. CASE CatalogueNext
      BY <2>2, CatalogueStep
    <2>3. CASE UNCHANGED galleryVars
      <3>1. UNCHANGED <<product, optionVars, variants, forms>>
        BY <2>3 DEF galleryVars, catalogueVars, optionVars
      <3>. QED
        BY <3>1, StoreClosesStep
    <2>. QED
      BY <2>1, <2>2, <2>3, ProductSteps
  <1>. QED
    BY <1>1, <1>2, PTL DEF ProductSpec

-----------------------------------------------------------------------------
(* What a published product keeps *)

PublishedHasImages == product = "published" => gallery # <<>>

LEMMA ProductAfterCatalogueStep ==
    ASSUME CatalogueNext
    PROVE  product' = product \/ product' # "published" \/ (Publishable /\ gallery' = gallery)
  <1>1. CASE \/ CreateProduct \/ CreateSetup \/ Archive \/ StoreCloses
             \/ TransitionProduct("published") \/ TransitionProduct("draft")
    BY <1>1 DEF CreateProduct, CreateSetup, Archive, StoreCloses, TransitionProduct
  <1>2. ASSUME NEW o \in Options, CreateOption(o) \/ DeleteOption(o) \/ ReorderValues(o)
        PROVE  product' = product
    BY <1>2 DEF CreateOption, DeleteOption, ReorderValues
  <1>3. ASSUME NEW v \in Values, DeleteValue(v) \/ \E n \in Names : CreateValue(v, n) \/ UpdateValue(v, n)
        PROVE  product' = product
    BY <1>3 DEF DeleteValue, CreateValue, UpdateValue
  <1>4. ASSUME NEW x \in Variants, NEW picks \in SUBSET Values,
               ReplaceOptionValues(x, picks) \/ \E price \in Prices : CreateVariant(x, picks, price)
        PROVE  product' = product
    BY <1>4 DEF ReplaceOptionValues, CreateVariant
  <1>5. ASSUME NEW e \in Editors, \/ GiveUpForm(e) \/ ArchiveVariant(e)
                                  \/ \E x \in Variants : OpenForm(e, x)
                                  \/ \E price \in Prices : UpdateVariant(e, price)
        PROVE  product' = product
    BY <1>5 DEF GiveUpForm, ArchiveVariant, OpenForm, UpdateVariant, Saved
  <1>. QED
    BY <1>1, <1>2, <1>3, <1>4, <1>5 DEF CatalogueNext

LEMMA InsertKeepsImages ==
    ASSUME FilesAgree, NEW u \in Uploaders, Insert(u), gallery # <<>> PROVE gallery' # <<>>
  <1>. DEFINE files == uploads[u].files
  <1>1. gallery' = gallery \o SetToSeq(files) \/ gallery' = gallery
    BY DEF Insert
  <1>2. gallery \in Seq(Files) /\ files \subseteq Files
    BY DEF FilesAgree, GalleryTypeOK, UploadRows
  <1>3. IsFiniteSet(files)
    BY <1>2, GalleryAssumption, FS_Subset
  <1>4. SetToSeq(files) \in Seq(files)
    <2>. HIDE DEF files
    <2>. QED
      BY <1>3, SeqOfSet
  <1>5. SetToSeq(files) \in Seq(Files)
    <2>. HIDE DEF files
    <2>. QED
      BY <1>2, <1>4
  <1>. HIDE DEF files
  <1>. QED
    BY <1>1, <1>2, <1>5

LEMMA ImagesStayPublished ==
    ASSUME FilesAgree, PublishedHasImages, [ProductNext]_galleryVars PROVE PublishedHasImages'
  <1>1. CASE gallery' = gallery /\ product' = product
    BY <1>1 DEF PublishedHasImages
  <1>2. ASSUME NEW u \in Uploaders, Insert(u) PROVE PublishedHasImages'
    <2>1. product' = product
      BY <1>2 DEF Insert, CatalogueRests
    <2>. QED
      BY <1>2, <2>1, InsertKeepsImages DEF PublishedHasImages
  <1>3. ASSUME NEW r \in Removers, DeleteRows(r) PROVE PublishedHasImages'
    <2>1. product' = product
      BY <1>3 DEF DeleteRows, CatalogueRests
    <2>. QED
      BY <1>3, <2>1, DeleteRowsStep DEF PublishedHasImages
  <1>4. CASE Reorder
    BY <1>4, ReorderGalleryStep DEF PublishedHasImages
  <1>5. ASSUME NEW u \in Uploaders,
               Upload(u) \/ CleanUpFailed(u) \/ Answered(u) \/ \E n \in 1 .. 2 : CheckMutable(u, n)
        PROVE  gallery' = gallery /\ product' = product
    BY <1>5 DEF Upload, CleanUpFailed, Answered, CheckMutable, CatalogueRests
  <1>6. ASSUME NEW r \in Removers, CleanUpRemoved(r) PROVE gallery' = gallery /\ product' = product
    BY <1>6 DEF CleanUpRemoved, CatalogueRests
  <1>7. ASSUME NEW f \in Files, CleanUp(f) PROVE gallery' = gallery /\ product' = product
    BY <1>7 DEF CleanUp, CatalogueRests
  <1>8. ASSUME GalleryCrash PROVE gallery' = gallery /\ product' = product
    BY <1>8 DEF GalleryCrash, CatalogueRests
  <1>9. ASSUME UNCHANGED galleryVars PROVE gallery' = gallery /\ product' = product
    BY <1>9 DEF galleryVars, catalogueVars
  <1>10. CASE CatalogueNext
    BY <1>10, ProductAfterCatalogueStep, CatalogueKeepsGallery DEF PublishedHasImages, Publishable
  <1>11. CASE ImagesOnly
    BY <1>1, <1>2, <1>3, <1>4, <1>5, <1>6, <1>7, <1>8, <1>11 DEF ImagesOnly
  <1>. QED
    BY <1>1, <1>9, <1>10, <1>11, ProductSteps

LEMMA SellableWhilePublished ==
    ASSUME CatalogueAgrees, PublishedHasImages PROVE PublishedIsSellable
  <1>. SUFFICES ASSUME product = "published" PROVE Publishable
    BY DEF PublishedIsSellable
  <1>1. \A x \in Active : variants[x].signature = Signature(variants[x].picks, optionPos)
    <2>1. \A x \in Active : x \in Variants /\ variants[x].status # "none"
      BY DEF Active, WithStatus
    <2>. QED
      BY <2>1, RowFacts
  <1>. QED
    BY <1>1 DEF CatalogueAgrees, SellableButForImages, PublishedHasImages, Publishable

\* A published product can be bought, labels follow selections, positions are
\* dense: publication, archiving and every edit keep it so (products.service.ts).
THEOREM ProductSoundness ==
    ProductSpec => [](PublishedIsSellable /\ LabelsFollowSelections /\ PositionsAreDense)
  <1>1. CatalogueInit /\ GalleryInit => PublishedHasImages
    BY DEF CatalogueInit, PublishedHasImages
  <1>2. FilesAgree /\ PublishedHasImages /\ [ProductNext]_galleryVars => PublishedHasImages'
    BY ImagesStayPublished
  <1>3. CatalogueAgrees /\ PublishedHasImages
           => PublishedIsSellable /\ LabelsFollowSelections /\ PositionsAreDense
    BY SellableWhilePublished DEF CatalogueAgrees, VariantsAgree, OptionsAgree
  <1>4. ProductSpec => []CatalogueAgrees
    BY CatalogueConsistency
  <1>5. ProductSpec => []FilesAgree
    BY FilesConsistency
  <1>. QED
    BY <1>1, <1>2, <1>3, <1>4, <1>5, PTL DEF ProductSpec

-----------------------------------------------------------------------------
(* Saves *)

LEMMA FormIsSomething ==
    ASSUME CatalogueTypeOK, NEW e \in Editors, forms[e] # NoForm, NEW xs \in SUBSET Variants
    PROVE  Bumped(xs)[e] # NoForm
  <1>1. forms[e] \in [variant : Variants, seen : VariantRows, fresh : BOOLEAN]
    BY FormShape
  <1>2. Bumped(xs)[e] \in [variant : Variants, seen : VariantRows, fresh : BOOLEAN]
    BY <1>1 DEF Bumped
  <1>3. "fresh" \in DOMAIN Bumped(xs)[e]
    BY <1>2
  <1>4. "fresh" \notin DOMAIN NoForm
    BY DEF NoForm
  <1>. QED
    BY <1>3, <1>4

SavedAsSeen(e) ==
    forms[e] # NoForm /\ forms'[e] = NoForm /\ variants' # variants
        => forms[e].seen = Shown(forms[e].variant)

LEMMA SavedAsSeenBumped ==
    ASSUME CatalogueAgrees, NEW xs \in SUBSET Variants, forms' = Bumped(xs), NEW e \in Editors
    PROVE  SavedAsSeen(e)
  BY FormIsSomething DEF SavedAsSeen, CatalogueAgrees

LEMMA SavedAsSeenBySave ==
    ASSUME CatalogueAgrees, NEW d \in Editors, CanSave(d), NEW row, Saved(d, row), NEW e \in Editors
    PROVE  SavedAsSeen(e)
  <1>. DEFINE x == forms[d].variant
  <1>1. x \in Variants /\ forms[d] # NoForm /\ forms[d].fresh
    BY DEF CanSave, Active, WithStatus
  <1>2. forms' = [c \in Editors |-> IF c \in {d} THEN NoForm ELSE Bumped({x})[c]]
    BY SavedForms
  <1>3. CASE e = d
    BY <1>1, <1>3 DEF CatalogueAgrees, FormIsSound, SavedAsSeen, Shown
  <1>4. CASE e # d
    <2>1. forms'[e] = Bumped({x})[e]
      BY <1>2, <1>4
    <2>2. forms[e] # NoForm => Bumped({x})[e] # NoForm
      BY <1>1, FormIsSomething DEF CatalogueAgrees
    <2>. QED
      BY <2>1, <2>2 DEF SavedAsSeen
  <1>. QED
    BY <1>3, <1>4

LEMMA SavesStep ==
    ASSUME CatalogueAgrees, [ProductNext]_galleryVars, NEW e \in Editors PROVE SavedAsSeen(e)
  <1>1. CASE variants' = variants \/ forms' = forms
    BY <1>1 DEF SavedAsSeen
  <1>2. ASSUME \/ CreateProduct \/ CreateSetup \/ StoreCloses
               \/ TransitionProduct("published") \/ TransitionProduct("draft")
        PROVE  variants' = variants \/ forms' = forms
    BY <1>2 DEF CreateProduct, CreateSetup, StoreCloses, TransitionProduct
  <1>3. CASE Archive
    <2>1. forms' = Bumped(Active) /\ Active \in SUBSET Variants
      BY <1>3 DEF Archive, Active, WithStatus
    <2>. QED
      BY <2>1, SavedAsSeenBumped
  <1>4. ASSUME NEW o \in Options, CreateOption(o) \/ DeleteOption(o) \/ ReorderValues(o)
        PROVE  forms' = forms
    BY <1>4 DEF CreateOption, DeleteOption, ReorderValues
  <1>5. ASSUME NEW v \in Values, DeleteValue(v) \/ \E n \in Names : CreateValue(v, n)
        PROVE  forms' = forms
    BY <1>5 DEF DeleteValue, CreateValue
  <1>6. ASSUME NEW v \in Values, NEW n \in Names, UpdateValue(v, n) PROVE SavedAsSeen(e)
    <2>1. forms' = Bumped(Variants \ WithStatus("none"))
      BY <1>6 DEF UpdateValue, RefreshVariantGraph
    <2>. QED
      BY <2>1, SavedAsSeenBumped
  <1>7. ASSUME NEW x \in Variants, NEW picks \in SUBSET Values, ReplaceOptionValues(x, picks)
        PROVE  SavedAsSeen(e)
    <2>1. forms' = Bumped({x}) /\ {x} \in SUBSET Variants
      BY <1>7 DEF ReplaceOptionValues
    <2>. QED
      BY <2>1, SavedAsSeenBumped
  <1>8. ASSUME NEW x \in Variants, NEW picks \in SUBSET Values, NEW price \in Prices,
               CreateVariant(x, picks, price)
        PROVE  forms' = forms
    BY <1>8 DEF CreateVariant
  <1>9. ASSUME NEW d \in Editors, GiveUpForm(d) \/ \E x \in Variants : OpenForm(d, x)
        PROVE  variants' = variants
    BY <1>9 DEF GiveUpForm, OpenForm
  <1>10. ASSUME NEW d \in Editors, ArchiveVariant(d) \/ \E price \in Prices : UpdateVariant(d, price)
         PROVE  SavedAsSeen(e)
    BY <1>10, SavedAsSeenBySave DEF ArchiveVariant, UpdateVariant
  <1>11. CASE CatalogueNext
    BY <1>1, <1>2, <1>3, <1>4, <1>5, <1>6, <1>7, <1>8, <1>9, <1>10, <1>11 DEF CatalogueNext
  <1>12. CASE ImagesOnly
    BY <1>1, <1>12, ImagesRest DEF CatalogueRests
  <1>13. CASE UNCHANGED galleryVars
    BY <1>1, <1>13 DEF galleryVars, catalogueVars
  <1>. QED
    BY <1>11, <1>12, <1>13, ProductSteps

\* A variant is only saved over what the form showed when it was opened, by the
\* version the edit carries (product-variants.repository.ts).
THEOREM NoVariantIsOverwrittenUnseen == ProductSpec => SavesOverWhatWasSeen
  <1>1. CatalogueAgrees /\ [ProductNext]_galleryVars
          => [\A e \in Editors :
                 forms[e] # NoForm /\ forms'[e] = NoForm /\ variants' # variants
                     => forms[e].seen = Shown(forms[e].variant)]_catalogueVars
    BY SavesStep DEF SavedAsSeen
  <1>2. ProductSpec => []CatalogueAgrees
    BY CatalogueConsistency
  <1>. QED
    BY <1>1, <1>2, PTL DEF ProductSpec, SavesOverWhatWasSeen

-----------------------------------------------------------------------------
(* Categories                                                              *)

CategoryRows ==
    [status : {"none", "draft", "published", "archived"}, position : Nat,
     text : Texts \cup {NoCategory.text}]

PageRows ==
    {NoPage} \cup
    [open : {TRUE}, seen : [CategoryIds -> CategoryRows], listed : SUBSET CategoryIds,
     fresh : SUBSET CategoryIds]

ShelfRows == {NoPage} \cup [open : {TRUE}, seen : SUBSET CategoryIds, fresh : BOOLEAN]

CategoriesTypeOK ==
    /\ categories \in [CategoryIds -> CategoryRows]
    /\ members \subseteq CategoryIds /\ shelved \in {"absent", "live", "archived"}
    /\ pages \in [CategoryEditors -> PageRows]
    /\ shelfPages \in [CategoryEditors -> ShelfRows]

\* Where a page is fresh the row is as it was seen.
PageIsSound(page) ==
    page.open =>
        /\ IsFiniteSet(page.listed)
        /\ \A c \in page.fresh : /\ categories[c] = page.seen[c]
                                 /\ page.seen[c].status # "none"

\* A fresh page of the shelf shows what the product is in, but for categories
\* archived since.
ShelfPageIsSound(page) ==
    page.open => /\ shelved # "absent"
                 /\ page.fresh => members \ Archived = page.seen \ Archived

ShelfIsSound ==
    /\ shelved = "absent" => members = {}
    /\ IsFiniteSet(members \ Archived)
    /\ Cardinality(members \ Archived) <= MaxCategoriesPerProduct

CategoriesAgree ==
    /\ CategoriesTypeOK /\ IsFiniteSet(Current) /\ OrderIsStrict
    /\ \A e \in CategoryEditors : PageIsSound(pages[e]) /\ ShelfPageIsSound(shelfPages[e])
    /\ ShelfIsSound

LEMMA NoPageIsSound ==
    /\ PageIsSound(NoPage) /\ ShelfPageIsSound(NoPage)
    /\ NoPage \in PageRows /\ NoPage \in ShelfRows /\ ~NoPage.open
  BY DEF PageIsSound, ShelfPageIsSound, NoPage, PageRows, ShelfRows

LEMMA PageShape ==
    ASSUME CategoriesTypeOK, NEW e \in CategoryEditors, pages[e].open
    PROVE  /\ pages[e].seen \in [CategoryIds -> CategoryRows]
           /\ pages[e].listed \subseteq CategoryIds /\ pages[e].fresh \subseteq CategoryIds
           /\ pages[e] \in [open : {TRUE}, seen : [CategoryIds -> CategoryRows],
                            listed : SUBSET CategoryIds, fresh : SUBSET CategoryIds]
  <1>1. pages[e] \in PageRows
    BY DEF CategoriesTypeOK
  <1>2. pages[e] # NoPage
    BY NoPageIsSound
  <1>. QED
    BY <1>1, <1>2 DEF PageRows

\* A page that was made stale on some rows.
LEMMA StaleRow ==
    ASSUME CategoriesTypeOK, NEW cs, NEW e \in CategoryEditors
    PROVE  /\ Stale(cs)[e] \in PageRows
           /\ Stale(cs)[e].open = pages[e].open
           /\ pages[e].open => /\ Stale(cs)[e].seen = pages[e].seen
                               /\ Stale(cs)[e].listed = pages[e].listed
                               /\ Stale(cs)[e].fresh = pages[e].fresh \ cs
           /\ ~pages[e].open => Stale(cs)[e] = NoPage
  <1>1. CASE pages[e].open
    <2>1. Stale(cs)[e] = [pages[e] EXCEPT !.fresh = pages[e].fresh \ cs]
      BY <1>1 DEF Stale
    <2>. QED
      BY <1>1, <2>1, PageShape DEF PageRows
  <1>2. CASE ~pages[e].open
    BY <1>2 DEF Stale, CategoriesTypeOK, PageRows, NoPage
  <1>. QED
    BY <1>1, <1>2

LEMMA StaleShelfRow ==
    ASSUME CategoriesTypeOK, NEW e \in CategoryEditors
    PROVE  /\ StaleShelf[e] \in ShelfRows
           /\ StaleShelf[e].open = shelfPages[e].open
           /\ StaleShelf[e].open => ~StaleShelf[e].fresh
  <1>1. CASE shelfPages[e].open
    <2>1. StaleShelf[e] = [shelfPages[e] EXCEPT !.fresh = FALSE]
      BY <1>1 DEF StaleShelf
    <2>2. shelfPages[e] \in [open : {TRUE}, seen : SUBSET CategoryIds, fresh : BOOLEAN]
      <3>1. shelfPages[e] \in ShelfRows /\ shelfPages[e] # NoPage
        BY <1>1, NoPageIsSound DEF CategoriesTypeOK
      <3>. QED
        BY <3>1 DEF ShelfRows
    <2>. QED
      BY <1>1, <2>1, <2>2 DEF ShelfRows
  <1>2. CASE ~shelfPages[e].open
    BY <1>2 DEF StaleShelf, CategoriesTypeOK, ShelfRows, NoPage
  <1>. QED
    BY <1>1, <1>2

-----------------------------------------------------------------------------
(* The rows *)

\* A new category stands behind all that are there.
LEMMA NextPositionIsNew ==
    ASSUME CategoriesTypeOK, IsFiniteSet(Current)
    PROVE  /\ NextPosition \in Nat
           /\ \A c \in Current : categories[c].position < NextPosition
  <1>. DEFINE positions == {categories[c].position : c \in Current}
              above(c) == {d \in Current : categories[d].position > categories[c].position}
              family == {above(c) : c \in Current}
  <1>0. \A c \in Current : categories[c].position \in Nat
    BY DEF CategoriesTypeOK, Current, OfStatus, CategoryRows
  <1>1. CASE Current = {}
    BY <1>1 DEF NextPosition
  <1>2. CASE Current # {}
    <2>1. family \in SUBSET SUBSET Current /\ family # {}
      BY <1>2
    <2>2. PICK m \in family : \A s \in family : s \subseteq m => s = m
      <3>. HIDE DEF family
      <3>. QED
        BY <2>1, MinimalSubset
    <2>3. PICK c \in Current : m = above(c)
      BY <2>2
    <2>4. m = {}
      <3>. SUFFICES ASSUME NEW d \in m PROVE FALSE
        OBVIOUS
      <3>1. d \in Current /\ above(d) \subseteq m /\ d \notin above(d)
        BY <1>0, <2>3
      <3>2. above(d) \in family
        BY <3>1
      <3>. HIDE DEF above, family
      <3>. QED
        BY <2>2, <3>1, <3>2
    <2>5. \A d \in Current : categories[c].position >= categories[d].position
      BY <1>0, <2>3, <2>4
    <2>6. \E x \in positions : \A y \in positions : x >= y
      BY <2>5
    <2>7. Max(positions) \in positions /\ \A y \in positions : Max(positions) >= y
      <3>. HIDE DEF positions
      <3>. QED
        BY <2>6 DEF Max
    <2>8. NextPosition = Max(positions) + 1
      BY <1>2 DEF NextPosition
    <2>9. positions \subseteq Nat
      BY <1>0
    <2>10. Max(positions) \in Nat
      BY <2>7, <2>9
    <2>11. \A d \in Current : categories[d].position \in positions
      OBVIOUS
    <2>. HIDE DEF positions
    <2>. QED
      BY <1>0, <2>7, <2>8, <2>10, <2>11
  <1>. QED
    BY <1>1, <1>2

-----------------------------------------------------------------------------
(* Each step *)

\* The pages after a write to the rows cs, whose editor leaves.
LEMMA PagesAfterWrite ==
    ASSUME CategoriesTypeOK, \A f \in CategoryEditors : PageIsSound(pages[f]),
           NEW cs, NEW e \in CategoryEditors,
           pages' = [Stale(cs) EXCEPT ![e] = NoPage],
           \A c \in CategoryIds \ cs : categories'[c] = categories[c]
    PROVE  /\ pages' \in [CategoryEditors -> PageRows]
           /\ \A f \in CategoryEditors : PageIsSound(pages[f])'
  <1>1. pages' = [f \in CategoryEditors |-> IF f = e THEN NoPage ELSE Stale(cs)[f]]
    BY DEF Stale
  <1>2. pages' \in [CategoryEditors -> PageRows]
    <2>1. \A f \in CategoryEditors : Stale(cs)[f] \in PageRows
      BY StaleRow
    <2>. QED
      BY <1>1, <2>1, NoPageIsSound
  <1>3. ASSUME NEW f \in CategoryEditors, pages'[f].open
        PROVE  /\ IsFiniteSet(pages'[f].listed)
               /\ \A c \in pages'[f].fresh : /\ categories'[c] = pages'[f].seen[c]
                                             /\ pages'[f].seen[c].status # "none"
    <2>1. f # e /\ pages'[f] = Stale(cs)[f]
      BY <1>1, <1>3, NoPageIsSound
    <2>2. /\ pages[f].open /\ pages'[f].seen = pages[f].seen
          /\ pages'[f].listed = pages[f].listed /\ pages'[f].fresh = pages[f].fresh \ cs
      BY <1>3, <2>1, StaleRow
    <2>3. pages[f].fresh \subseteq CategoryIds
      BY <2>2, PageShape
    <2>. QED
      BY <2>2, <2>3 DEF PageIsSound
  <1>. QED
    BY <1>2, <1>3 DEF PageIsSound

LEMMA CreateCategoryStep ==
    ASSUME CategoriesAgree, NEW c \in CategoryIds, NEW t \in Texts, CreateCategory(c, t)
    PROVE  CategoriesAgree'
  <1>1. NextPosition \in Nat /\ \A d \in Current : categories[d].position < NextPosition
    BY NextPositionIsNew DEF CategoriesAgree
  <1>2. /\ categories' = [categories EXCEPT ![c] =
               [status |-> "draft", position |-> NextPosition, text |-> t]]
        /\ categories[c].status = "none"
        /\ UNCHANGED <<members, shelved, pages, shelfPages>>
    BY DEF CreateCategory
  <1>3. categories' \in [CategoryIds -> CategoryRows] /\ CategoriesTypeOK'
    BY <1>1, <1>2 DEF CategoriesAgree, CategoriesTypeOK, CategoryRows
  <1>4. Current' = Current \cup {c} /\ Archived' = Archived
    BY <1>2 DEF CategoriesAgree, CategoriesTypeOK, Current, Archived, OfStatus
  <1>5. IsFiniteSet(Current')
    BY <1>4, FS_AddElement DEF CategoriesAgree
  <1>6. /\ \A d \in Current : categories'[d] = categories[d]
        /\ \A d \in Current : categories[d].position \in Nat
        /\ categories'[c].position = NextPosition
    BY <1>2 DEF CategoriesAgree, CategoriesTypeOK, Current, OfStatus, CategoryRows
  <1>7. OrderIsStrict'
    BY <1>1, <1>4, <1>6 DEF CategoriesAgree, OrderIsStrict
  <1>8. ASSUME NEW e \in CategoryEditors
        PROVE  PageIsSound(pages[e])' /\ ShelfPageIsSound(shelfPages[e])'
    <2>1. PageIsSound(pages[e]) /\ ShelfPageIsSound(shelfPages[e])
      BY DEF CategoriesAgree
    <2>2. pages[e].open => \A d \in pages[e].fresh : d \in CategoryIds /\ d # c
      BY <1>2, <2>1, PageShape DEF PageIsSound, CategoriesAgree
    <2>3. \A d \in CategoryIds : d # c => categories'[d] = categories[d]
      BY <1>2 DEF CategoriesAgree, CategoriesTypeOK
    <2>4. PageIsSound(pages[e])'
      BY <1>2, <2>1, <2>2, <2>3 DEF PageIsSound
    <2>. QED
      BY <1>2, <1>4, <2>1, <2>4 DEF ShelfPageIsSound
  <1>9. ShelfIsSound'
    BY <1>2, <1>4 DEF CategoriesAgree, ShelfIsSound
  <1>. QED
    BY <1>3, <1>5, <1>7, <1>8, <1>9 DEF CategoriesAgree

LEMMA OpenOrClosePageStep ==
    ASSUME CategoriesAgree, NEW e \in CategoryEditors, OpenPage(e) \/ ClosePage(e)
    PROVE  CategoriesAgree'
  <1>1. /\ UNCHANGED <<categories, members, shelved, shelfPages>>
        /\ UNCHANGED <<Current, Archived>>
    BY DEF OpenPage, ClosePage, Current, Archived, OfStatus
  <1>2. PICK page :
           /\ pages' = [pages EXCEPT ![e] = page]
           /\ page = NoPage \/ page = [open |-> TRUE, seen |-> categories,
                                       listed |-> Current, fresh |-> Current]
    BY DEF OpenPage, ClosePage
  <1>3. page \in PageRows
    <2>1. categories \in [CategoryIds -> CategoryRows] /\ Current \subseteq CategoryIds
      BY DEF Current, OfStatus, CategoriesAgree, CategoriesTypeOK
    <2>2. [open |-> TRUE, seen |-> categories, listed |-> Current, fresh |-> Current] \in
            [open : {TRUE}, seen : [CategoryIds -> CategoryRows],
             listed : SUBSET CategoryIds, fresh : SUBSET CategoryIds]
      BY <2>1
    <2>. QED
      BY <1>2, <2>2 DEF PageRows
  <1>4. PageIsSound(page)
    <2>1. CASE page = NoPage
      BY <2>1, NoPageIsSound
    <2>2. CASE page = [open |-> TRUE, seen |-> categories, listed |-> Current, fresh |-> Current]
      BY <2>2 DEF PageIsSound, Current, OfStatus, CategoriesAgree
    <2>. QED
      BY <1>2, <2>1, <2>2
  <1>5. pages' \in [CategoryEditors -> PageRows] /\ CategoriesTypeOK'
    BY <1>1, <1>2, <1>3 DEF CategoriesAgree, CategoriesTypeOK
  <1>6. ASSUME NEW f \in CategoryEditors
        PROVE  PageIsSound(pages[f])' /\ ShelfPageIsSound(shelfPages[f])'
    <2>1. pages'[f] = IF f = e THEN page ELSE pages[f]
      BY <1>2 DEF CategoriesAgree, CategoriesTypeOK
    <2>2. PageIsSound(pages[f])'
      BY <1>1, <1>4, <2>1 DEF PageIsSound, CategoriesAgree
    <2>. QED
      BY <1>1, <2>2 DEF ShelfPageIsSound, CategoriesAgree
  <1>. QED
    BY <1>1, <1>5, <1>6 DEF CategoriesAgree, OrderIsStrict, ShelfIsSound

LEMMA WriteCategoryStep ==
    ASSUME CategoriesAgree, NEW e \in CategoryEditors, NEW c \in CategoryIds, NEW row,
           row \in CategoryRows, row.status # "none", row.position = categories[c].position,
           WriteCategory(e, c, row)
    PROVE  CategoriesAgree'
  <1>1. /\ categories' = [categories EXCEPT ![c] = row] /\ c \in Current
        /\ pages' = [Stale({c}) EXCEPT ![e] = NoPage]
        /\ UNCHANGED <<members, shelved, shelfPages>>
    BY DEF WriteCategory, CanWrite
  <1>2. /\ pages' \in [CategoryEditors -> PageRows]
        /\ \A f \in CategoryEditors : PageIsSound(pages[f])'
    <2>1. \A d \in CategoryIds \ {c} : categories'[d] = categories[d]
      BY <1>1 DEF CategoriesAgree, CategoriesTypeOK
    <2>. QED
      BY <1>1, <2>1, PagesAfterWrite DEF CategoriesAgree
  <1>3. CategoriesTypeOK'
    BY <1>1, <1>2 DEF CategoriesAgree, CategoriesTypeOK
  <1>4. Current' \subseteq Current /\ Archived \subseteq Archived'
    BY <1>1 DEF CategoriesAgree, CategoriesTypeOK, Current, Archived, OfStatus
  <1>5. \A d \in CategoryIds : categories'[d].position = categories[d].position
    BY <1>1 DEF CategoriesAgree, CategoriesTypeOK
  <1>6. OrderIsStrict' /\ IsFiniteSet(Current')
    <2>1. Current \subseteq CategoryIds
      BY DEF Current, OfStatus
    <2>. QED
      BY <1>4, <1>5, <2>1, FS_Subset DEF CategoriesAgree, OrderIsStrict
  <1>7. ASSUME NEW f \in CategoryEditors
        PROVE  ShelfPageIsSound(shelfPages[f])'
    BY <1>1, <1>4 DEF ShelfPageIsSound, CategoriesAgree
  <1>8. ShelfIsSound'
    <2>1. members \ Archived' \subseteq members \ Archived /\ IsFiniteSet(members \ Archived)
      BY <1>4 DEF CategoriesAgree, ShelfIsSound
    <2>2. /\ IsFiniteSet(members \ Archived')
          /\ Cardinality(members \ Archived') <= Cardinality(members \ Archived)
      BY <2>1, FS_Subset
    <2>3. /\ Cardinality(members \ Archived') \in Nat /\ Cardinality(members \ Archived) \in Nat
      BY <2>1, <2>2, FS_CardinalityType
    <2>. QED
      BY <1>1, <2>2, <2>3, CategoryAssumption DEF CategoriesAgree, ShelfIsSound
  <1>. QED
    BY <1>2, <1>3, <1>6, <1>7, <1>8 DEF CategoriesAgree

LEMMA CategoryEdits ==
    ASSUME CategoriesAgree, NEW e \in CategoryEditors, NEW c \in CategoryIds,
           \/ ArchiveCategory(e, c)
           \/ \E s \in {"draft", "published"} : TransitionCategory(e, c, s)
           \/ \E t \in Texts : UpdateCategory(e, c, t)
    PROVE  \E row \in CategoryRows : /\ row.status # "none"
                                     /\ row.position = categories[c].position
                                     /\ WriteCategory(e, c, row)
  <1>1. categories[c] \in CategoryRows
    BY DEF CategoriesAgree, CategoriesTypeOK
  <1>2. CASE ArchiveCategory(e, c)
    <2>1. /\ [categories[c] EXCEPT !.status = "archived"] \in CategoryRows
          /\ [categories[c] EXCEPT !.status = "archived"].status # "none"
          /\ [categories[c] EXCEPT !.status = "archived"].position = categories[c].position
      BY <1>1 DEF CategoryRows
    <2>. QED
      BY <1>2, <2>1 DEF ArchiveCategory
  <1>3. CASE \E s \in {"draft", "published"} : TransitionCategory(e, c, s)
    <2>1. PICK s \in {"draft", "published"} : TransitionCategory(e, c, s)
      BY <1>3
    <2>2. /\ [categories[c] EXCEPT !.status = s] \in CategoryRows
          /\ [categories[c] EXCEPT !.status = s].status # "none"
          /\ [categories[c] EXCEPT !.status = s].position = categories[c].position
      BY <1>1 DEF CategoryRows
    <2>. QED
      BY <2>1, <2>2 DEF TransitionCategory
  <1>4. CASE \E t \in Texts : UpdateCategory(e, c, t)
    <2>1. PICK t \in Texts : UpdateCategory(e, c, t)
      BY <1>4
    <2>2. categories[c].status # "none"
      BY <2>1 DEF UpdateCategory, WriteCategory, CanWrite, Current, OfStatus
    <2>3. /\ [categories[c] EXCEPT !.text = t] \in CategoryRows
          /\ [categories[c] EXCEPT !.text = t].status # "none"
          /\ [categories[c] EXCEPT !.text = t].position = categories[c].position
      BY <1>1, <2>2 DEF CategoryRows
    <2>. QED
      BY <2>1, <2>3 DEF UpdateCategory
  <1>. QED
    BY <1>2, <1>3, <1>4

\* An order that names as many categories as there are names them all.
LEMMA OrderNamesAll ==
    ASSUME CategoriesAgree, NEW e \in CategoryEditors, NamesAllFresh(e)
    PROVE  /\ pages[e].listed = Current /\ Current \subseteq pages[e].fresh
           /\ Cardinality(Current) \in Nat
  <1>1. /\ pages[e].listed \subseteq Current /\ pages[e].listed \subseteq pages[e].fresh
        /\ Cardinality(pages[e].listed) = Cardinality(Current) /\ IsFiniteSet(Current)
    BY DEF NamesAllFresh, CategoriesAgree
  <1>2. pages[e].listed = Current
    BY <1>1, FS_Subset
  <1>. QED
    BY <1>1, <1>2, FS_CardinalityType

LEMMA ReorderStep ==
    ASSUME CategoriesAgree, NEW e \in CategoryEditors, ReorderCategories(e)
    PROVE  CategoriesAgree'
  <1>1. PICK order \in [pages[e].listed -> 0 .. Cardinality(pages[e].listed) - 1] :
           /\ NamesAllFresh(e)
           /\ \A c, d \in pages[e].listed : order[c] = order[d] => c = d
           /\ categories' = [c \in CategoryIds |-> IF c \in pages[e].listed
                  THEN [categories[c] EXCEPT !.position = order[c]] ELSE categories[c]]
           /\ pages' = [Stale(pages[e].listed) EXCEPT ![e] = NoPage]
           /\ UNCHANGED <<members, shelved, shelfPages>>
    BY DEF ReorderCategories
  <1>2. pages[e].listed = Current /\ Cardinality(Current) \in Nat /\ Current \subseteq CategoryIds
    BY <1>1, OrderNamesAll DEF Current, OfStatus
  <1>3. \A c \in Current : order[c] \in Nat
    BY <1>2
  <1>4. ASSUME NEW c \in CategoryIds
        PROVE  /\ categories'[c] \in CategoryRows /\ categories'[c].status = categories[c].status
               /\ c \in Current => categories'[c].position = order[c]
               /\ c \notin Current => categories'[c] = categories[c]
    <2>1. categories[c] \in CategoryRows
      BY DEF CategoriesAgree, CategoriesTypeOK
    <2>. QED
      BY <1>1, <1>2, <1>3, <2>1 DEF CategoryRows
  <1>5. Current' = Current /\ Archived' = Archived
    BY <1>4 DEF Current, Archived, OfStatus
  <1>6. /\ pages' \in [CategoryEditors -> PageRows]
        /\ \A f \in CategoryEditors : PageIsSound(pages[f])'
    BY <1>1, <1>2, <1>4, PagesAfterWrite DEF CategoriesAgree
  <1>7. CategoriesTypeOK'
    <2>1. categories' \in [CategoryIds -> CategoryRows]
      BY <1>1, <1>4
    <2>. QED
      BY <1>1, <1>6, <2>1 DEF CategoriesAgree, CategoriesTypeOK
  <1>8. OrderIsStrict'
    BY <1>1, <1>2, <1>4, <1>5 DEF OrderIsStrict
  <1>. QED
    BY <1>1, <1>5, <1>6, <1>7, <1>8 DEF CategoriesAgree, ShelfPageIsSound, ShelfIsSound

\* What a product is put into.
LEMMA AssignableSize ==
    ASSUME CategoriesAgree, NEW cs, Assignable(cs)
    PROVE  /\ cs \subseteq CategoryIds /\ cs \cap Archived = {} /\ IsFiniteSet(cs)
           /\ Cardinality(cs) <= MaxCategoriesPerProduct
  <1>1. Current \subseteq CategoryIds /\ Current \cap Archived = {} /\ cs \subseteq Current
    BY DEF Current, Archived, OfStatus, Assignable
  <1>2. IsFiniteSet(cs)
    BY <1>1, FS_Subset DEF CategoriesAgree
  <1>. QED
    BY <1>1, <1>2 DEF Assignable

\* The rows and their pages stay as they are.
LEMMA RowsRest ==
    ASSUME CategoriesAgree, UNCHANGED <<categories, pages>>
    PROVE  /\ UNCHANGED <<Current, Archived>> /\ IsFiniteSet(Current') /\ OrderIsStrict'
           /\ \A e \in CategoryEditors : PageIsSound(pages[e])'
  <1>1. UNCHANGED <<Current, Archived>>
    BY DEF Current, Archived, OfStatus
  <1>. QED
    BY <1>1 DEF CategoriesAgree, OrderIsStrict, PageIsSound

LEMMA CreateShelvedStep ==
    ASSUME CategoriesAgree, NEW cs, CreateShelved(cs)
    PROVE  CategoriesAgree'
  <1>1. /\ shelved = "absent" /\ shelved' = "live" /\ members' = cs /\ Assignable(cs)
        /\ UNCHANGED <<categories, pages, shelfPages>>
    BY DEF CreateShelved
  <1>2. /\ UNCHANGED <<Current, Archived>> /\ IsFiniteSet(Current') /\ OrderIsStrict'
        /\ \A e \in CategoryEditors : PageIsSound(pages[e])'
    BY <1>1, RowsRest
  <1>3. /\ cs \subseteq CategoryIds /\ cs \ Archived = cs /\ IsFiniteSet(cs)
        /\ Cardinality(cs) <= MaxCategoriesPerProduct
    BY <1>1, AssignableSize
  <1>4. CategoriesTypeOK' /\ ShelfIsSound'
    BY <1>1, <1>2, <1>3 DEF CategoriesAgree, CategoriesTypeOK, ShelfIsSound
  <1>5. \A e \in CategoryEditors : ShelfPageIsSound(shelfPages[e])'
    BY <1>1 DEF CategoriesAgree, ShelfPageIsSound
  <1>. QED
    BY <1>2, <1>4, <1>5 DEF CategoriesAgree

LEMMA TouchShelvedStep ==
    ASSUME CategoriesAgree, NEW s \in {"live", "archived"}, TouchShelved(s)
    PROVE  CategoriesAgree'
  <1>1. /\ shelved = "live" /\ shelved' = s /\ shelfPages' = StaleShelf
        /\ UNCHANGED <<categories, members, pages>>
    BY DEF TouchShelved
  <1>2. /\ UNCHANGED <<Current, Archived>> /\ IsFiniteSet(Current') /\ OrderIsStrict'
        /\ \A e \in CategoryEditors : PageIsSound(pages[e])'
    BY <1>1, RowsRest
  <1>3. ASSUME NEW e \in CategoryEditors
        PROVE  shelfPages'[e] \in ShelfRows /\ ShelfPageIsSound(shelfPages[e])'
    <2>1. StaleShelf[e] \in ShelfRows /\ (StaleShelf[e].open => ~StaleShelf[e].fresh)
      BY StaleShelfRow DEF CategoriesAgree
    <2>. QED
      BY <1>1, <2>1 DEF ShelfPageIsSound
  <1>4. CategoriesTypeOK'
    <2>1. shelfPages' = [e \in CategoryEditors |-> shelfPages'[e]]
      BY <1>1 DEF StaleShelf
    <2>. QED
      BY <1>1, <1>3, <2>1 DEF CategoriesAgree, CategoriesTypeOK
  <1>. QED
    BY <1>1, <1>2, <1>3, <1>4 DEF CategoriesAgree, ShelfIsSound

LEMMA OpenShelfStep ==
    ASSUME CategoriesAgree, NEW e \in CategoryEditors, OpenShelf(e)
    PROVE  CategoriesAgree'
  <1>. DEFINE page == [open |-> TRUE, seen |-> members \ Archived, fresh |-> TRUE]
  <1>1. /\ shelved = "live" /\ shelfPages' = [shelfPages EXCEPT ![e] = page]
        /\ UNCHANGED <<categories, members, shelved, pages>>
    BY DEF OpenShelf
  <1>2. /\ UNCHANGED <<Current, Archived>> /\ IsFiniteSet(Current') /\ OrderIsStrict'
        /\ \A f \in CategoryEditors : PageIsSound(pages[f])'
    BY <1>1, RowsRest
  <1>3. page \in ShelfRows
    BY DEF ShelfRows, CategoriesAgree, CategoriesTypeOK
  <1>4. CategoriesTypeOK'
    BY <1>1, <1>3 DEF CategoriesAgree, CategoriesTypeOK
  <1>5. ASSUME NEW f \in CategoryEditors PROVE ShelfPageIsSound(shelfPages[f])'
    <2>1. shelfPages'[f] = IF f = e THEN page ELSE shelfPages[f]
      BY <1>1 DEF CategoriesAgree, CategoriesTypeOK
    <2>. QED
      BY <1>1, <1>2, <2>1 DEF ShelfPageIsSound, CategoriesAgree
  <1>. QED
    BY <1>1, <1>2, <1>4, <1>5 DEF CategoriesAgree, ShelfIsSound

LEMMA ReplaceStep ==
    ASSUME CategoriesAgree, NEW e \in CategoryEditors, NEW cs, ReplaceCategories(e, cs)
    PROVE  CategoriesAgree'
  <1>1. /\ shelved = "live" /\ Assignable(cs) /\ members' = (members \cap Archived) \cup cs
        /\ shelfPages' = [StaleShelf EXCEPT ![e] = NoPage]
        /\ UNCHANGED <<categories, shelved, pages>>
    BY DEF ReplaceCategories, Replaced, Kept
  <1>2. /\ UNCHANGED <<Current, Archived>> /\ IsFiniteSet(Current') /\ OrderIsStrict'
        /\ \A f \in CategoryEditors : PageIsSound(pages[f])'
    BY <1>1, RowsRest
  <1>3. /\ cs \subseteq CategoryIds /\ cs \cap Archived = {} /\ IsFiniteSet(cs)
        /\ Cardinality(cs) <= MaxCategoriesPerProduct
    BY <1>1, AssignableSize
  <1>4. members' \ Archived' = cs
    BY <1>1, <1>2, <1>3
  <1>5. ASSUME NEW f \in CategoryEditors
        PROVE  shelfPages'[f] \in ShelfRows /\ ShelfPageIsSound(shelfPages[f])'
    <2>1. shelfPages'[f] = IF f = e THEN NoPage ELSE StaleShelf[f]
      BY <1>1 DEF StaleShelf
    <2>2. StaleShelf[f] \in ShelfRows /\ (StaleShelf[f].open => ~StaleShelf[f].fresh)
      BY StaleShelfRow DEF CategoriesAgree
    <2>. QED
      BY <1>1, <2>1, <2>2, NoPageIsSound DEF ShelfPageIsSound
  <1>6. CategoriesTypeOK'
    <2>1. shelfPages' = [f \in CategoryEditors |-> shelfPages'[f]]
      BY <1>1 DEF StaleShelf
    <2>. QED
      BY <1>1, <1>3, <1>5, <2>1 DEF CategoriesAgree, CategoriesTypeOK
  <1>7. ShelfIsSound'
    BY <1>1, <1>3, <1>4 DEF ShelfIsSound
  <1>. QED
    BY <1>2, <1>5, <1>6, <1>7 DEF CategoriesAgree

LEMMA CategoriesStep ==
    ASSUME CategoriesAgree, [CategoriesNext]_categoryVars
    PROVE  CategoriesAgree'
  <1>1. CASE UNCHANGED categoryVars
    BY <1>1 DEF categoryVars, CategoriesAgree, CategoriesTypeOK, OrderIsStrict, PageIsSound,
       ShelfPageIsSound, ShelfIsSound, Current, Archived, OfStatus
  <1>2. ASSUME NEW e \in CategoryEditors, NEW c \in CategoryIds,
               \/ ArchiveCategory(e, c)
               \/ \E s \in {"draft", "published"} : TransitionCategory(e, c, s)
               \/ \E t \in Texts : UpdateCategory(e, c, t)
        PROVE  CategoriesAgree'
    BY <1>2, CategoryEdits, WriteCategoryStep
  <1>. QED
    BY <1>1, <1>2, CreateCategoryStep, OpenOrClosePageStep, ReorderStep, CreateShelvedStep,
       TouchShelvedStep, OpenShelfStep, ReplaceStep DEF CategoriesNext

LEMMA CategoriesBegin ==
    ASSUME CategoriesInit PROVE CategoriesAgree
  <1>1. categories = [c \in CategoryIds |-> NoCategory] /\ NoCategory \in CategoryRows
    BY DEF CategoriesInit, CategoryRows, NoCategory
  <1>2. Current = {} /\ members = {} /\ members \ Archived = {}
    BY <1>1 DEF Current, OfStatus, NoCategory, CategoriesInit
  <1>3. CategoriesTypeOK
    BY <1>1, NoPageIsSound DEF CategoriesInit, CategoriesTypeOK
  <1>. QED
    BY <1>2, <1>3, FS_EmptySet, CategoryAssumption, NoPageIsSound
    DEF CategoriesInit, CategoriesAgree, OrderIsStrict, ShelfIsSound

\* Positions and versions of the categories, the categories of a product and
\* the pages that editors look at agree, for any number of them
\* (categories.repository.ts).
THEOREM CategoriesConsistency == CategoriesSpec => []CategoriesAgree
  <1>. QED
    BY CategoriesBegin, CategoriesStep, PTL DEF CategoriesSpec

\* A page that closes while a category moves closes with the reordering it asked for.
LEMMA ReorderingSeesAll ==
    ASSUME CategoriesAgree, [CategoriesNext]_categoryVars, NEW e \in CategoryEditors,
           pages[e].open, ~pages'[e].open, NEW m \in CategoryIds,
           categories'[m].position # categories[m].position, categories[m].status # "none"
    PROVE  \A c \in CategoryIds : \/ c \in Current \cup pages[e].listed
                                       /\ categories[c] = pages[e].seen[c]
                                  \/ c \notin Current \cup pages[e].listed
  <1>1. ~UNCHANGED categoryVars /\ ~UNCHANGED pages /\ ~UNCHANGED categories
    BY DEF categoryVars
  <1>2. PICK f \in CategoryEditors :
           \/ ReorderCategories(f)
           \/ \E c \in CategoryIds : \/ ArchiveCategory(f, c)
                 \/ \E s \in {"draft", "published"} : TransitionCategory(f, c, s)
                 \/ \E t \in Texts : UpdateCategory(f, c, t)
    BY <1>1 DEF CategoriesNext, CreateCategory, OpenPage, ClosePage, OpenShelf, CreateShelved,
       TouchShelved, ReplaceCategories
  <1>3. ASSUME NEW c \in CategoryIds,
               \/ ArchiveCategory(f, c)
               \/ \E s \in {"draft", "published"} : TransitionCategory(f, c, s)
               \/ \E t \in Texts : UpdateCategory(f, c, t)
        PROVE  FALSE
    <2>1. PICK row \in CategoryRows : /\ row.position = categories[c].position
                                      /\ WriteCategory(f, c, row)
      BY <1>3, CategoryEdits
    <2>2. categories' = [categories EXCEPT ![c] = row]
      BY <2>1 DEF WriteCategory
    <2>. QED
      BY <2>1, <2>2 DEF CategoriesAgree, CategoriesTypeOK
  <1>4. ReorderCategories(f)
    BY <1>2, <1>3
  <1>5. NamesAllFresh(f) /\ \E cs : pages' = [Stale(cs) EXCEPT ![f] = NoPage]
    BY <1>4 DEF ReorderCategories
  <1>6. f = e
    <2>1. PICK cs : pages' = [Stale(cs) EXCEPT ![f] = NoPage]
      BY <1>5
    <2>2. f # e => pages'[e] = Stale(cs)[e]
      BY <2>1 DEF Stale
    <2>3. Stale(cs)[e].open
      BY StaleRow DEF CategoriesAgree
    <2>. QED
      BY <2>2, <2>3
  <1>7. pages[e].listed = Current /\ Current \subseteq pages[e].fresh
    BY <1>5, <1>6, OrderNamesAll
  <1>. QED
    BY <1>7 DEF CategoriesAgree, PageIsSound

\* A reordering rewrites exactly the list its editor saw: nothing was added,
\* archived, renamed or moved since (reorder in categories.repository.ts).
THEOREM OrdersAreAsSeen == CategoriesSpec => ReordersWhatWasSeen
  <1>. DEFINE seenAll ==
          \A e \in CategoryEditors :
              LET moved == {c \in CategoryIds : categories'[c].position # categories[c].position
                                                /\ categories[c].status # "none"}
              IN  pages[e].open /\ ~pages'[e].open /\ moved # {}
                      => \A c \in CategoryIds : \/ c \in Current \cup pages[e].listed
                                                     /\ categories[c] = pages[e].seen[c]
                                                \/ c \notin Current \cup pages[e].listed
  <1>1. CategoriesAgree /\ [CategoriesNext]_categoryVars => seenAll
    BY ReorderingSeesAll
  <1>2. CategoriesAgree /\ [CategoriesNext]_categoryVars => [seenAll]_categoryVars
    BY <1>1
  <1>. QED
    BY <1>2, CategoriesConsistency, PTL DEF CategoriesSpec, ReordersWhatWasSeen

LEMMA MembersStep ==
    ASSUME CategoriesAgree, [CategoriesNext]_categoryVars
    PROVE  /\ members \cap Archived \subseteq members'
           /\ Cardinality(members' \ Archived) <= MaxCategoriesPerProduct
  <1>1. CASE members' = members
    BY <1>1 DEF CategoriesAgree, ShelfIsSound
  <1>2. CASE members' # members
    <2>1. \E cs : \/ CreateShelved(cs)
                  \/ \E e \in CategoryEditors : ReplaceCategories(e, cs)
      BY <1>2 DEF CategoriesNext, categoryVars, CreateCategory, OpenPage, ClosePage, OpenShelf,
         ReorderCategories, ArchiveCategory, TransitionCategory, UpdateCategory, WriteCategory,
         TouchShelved
    <2>2. PICK cs : /\ Assignable(cs)
                    /\ \/ members = {} /\ members' = cs
                       \/ members' = (members \cap Archived) \cup cs
      BY <2>1 DEF CreateShelved, ReplaceCategories, Replaced, Kept, CategoriesAgree, ShelfIsSound
    <2>3. cs \cap Archived = {} /\ Cardinality(cs) <= MaxCategoriesPerProduct
      BY <2>2, AssignableSize
    <2>4. members' \ Archived = cs
      BY <2>2, <2>3
    <2>. QED
      BY <2>2, <2>3, <2>4
  <1>. QED
    BY <1>1, <1>2

\* Replacing a product's categories never takes it out of an archived one and
\* never leaves it in more current ones than allowed (replaceCategories).
THEOREM ShelvesKeepHistory == CategoriesSpec => ShelfKeepsItsHistory
  <1>1. CategoriesAgree /\ [CategoriesNext]_categoryVars =>
           [members \cap Archived \subseteq members' /\
            Cardinality(members' \ Archived) <= MaxCategoriesPerProduct]_categoryVars
    BY MembersStep
  <1>. QED
    BY <1>1, CategoriesConsistency, PTL DEF CategoriesSpec, ShelfKeepsItsHistory

LEMMA ShelfCloses ==
    ASSUME CategoriesAgree, [CategoriesNext]_categoryVars, NEW e \in CategoryEditors,
           shelfPages[e].open, ~shelfPages'[e].open
    PROVE  members \ Archived = shelfPages[e].seen \ Archived
  <1>1. ASSUME NEW f \in CategoryEditors, OpenShelf(f) PROVE FALSE
    <2>1. f # e /\ shelfPages'[e] = shelfPages[e]
      BY <1>1 DEF OpenShelf, CategoriesAgree, CategoriesTypeOK
    <2>. QED
      BY <2>1
  <1>2. StaleShelf[e].open
    BY StaleShelfRow DEF CategoriesAgree
  <1>3. PICK f \in CategoryEditors : \E cs : ReplaceCategories(f, cs)
    BY <1>1, <1>2 DEF CategoriesNext, categoryVars, CreateCategory, OpenPage, ClosePage,
       ReorderCategories, ArchiveCategory, TransitionCategory, UpdateCategory, WriteCategory,
       TouchShelved, CreateShelved
  <1>4. ShelfFresh(f) /\ shelfPages' = [StaleShelf EXCEPT ![f] = NoPage]
    BY <1>3 DEF ReplaceCategories
  <1>5. f = e
    BY <1>2, <1>4 DEF StaleShelf
  <1>. QED
    BY <1>4, <1>5 DEF ShelfFresh, CategoriesAgree, ShelfPageIsSound

\* A replacement is applied to the selection its editor saw, but for categories
\* archived since (the token replaceCategories compares).
THEOREM ReplacementsAreAsSeen == CategoriesSpec => ReplacesWhatWasSeen
  <1>. DEFINE asSeen == \A e \in CategoryEditors :
                            shelfPages[e].open /\ ~shelfPages'[e].open
                                => members \ Archived = shelfPages[e].seen \ Archived
  <1>1. CategoriesAgree /\ [CategoriesNext]_categoryVars => [asSeen]_categoryVars
    BY ShelfCloses
  <1>. QED
    BY <1>1, CategoriesConsistency, PTL DEF CategoriesSpec, ReplacesWhatWasSeen

-----------------------------------------------------------------------------
(* Lists *)

PagingTypeOK ==
    /\ keyOf \in [RowIds -> SortKeys \cup {NULL}]
    /\ present \subseteq RowIds /\ steady \subseteq present
    /\ ascending \in BOOLEAN /\ limit \in Limits /\ listing \in BOOLEAN
    /\ shown \in Seq(RowIds)

\* The cursor is made of the last row shown.
CursorFollows ==
    cursor = IF shown = <<>> THEN Start
             ELSE [started |-> TRUE, key |-> keyOf[shown[Len(shown)]], id |-> shown[Len(shown)]]

\* Whatever was there all along was shown, or lies behind the cursor.
NothingIsLost ==
    \A r \in steady : r \in ToSet(shown) \/ (listing /\ IsAfterCursor(r))

PagesAgree ==
    PagingTypeOK /\ CursorFollows /\ PagesAreInOrder /\ NothingIsLost

RowOrder == {p \in RowIds \X RowIds : Precedes(p[1], p[2])}

LEMMA PrecedesIsAnOrder ==
    ASSUME PagingTypeOK, NEW S \in SUBSET RowIds
    PROVE  /\ IsFiniteSet(S) /\ StrictTotalOrder(RowOrder, S)
           /\ \A r, s, t \in RowIds : Precedes(r, s) /\ Precedes(s, t) => Precedes(r, t)
           /\ \A r, s \in RowIds : Precedes(r, s) <=> <<r, s>> \in RowOrder
  <1>1. \A r \in RowIds : r \in Nat /\ keyOf[r] \in Int
    <2>. SUFFICES ASSUME NEW r \in RowIds PROVE r \in Nat /\ keyOf[r] \in Int
      OBVIOUS
    <2>1. RowIds \subseteq Nat /\ \A m \in SortKeys : m \in Nat
      BY PagingAssumption
    <2>2. keyOf[r] \in SortKeys \cup {NULL}
      BY DEF PagingTypeOK
    <2>3. keyOf[r] \in Nat \/ keyOf[r] = NULL
      BY ONLY <2>1, <2>2, Zenon
    <2>. QED
      BY <2>1, <2>3 DEF NULL
  <1>2. \A r, s, t \in RowIds : Precedes(r, s) /\ Precedes(s, t) => Precedes(r, t)
    BY <1>1 DEF Precedes, Beyond, NULL
  <1>3. \A r \in RowIds : ~Precedes(r, r)
    BY <1>1 DEF Precedes, Beyond, NULL
  <1>4. \A r, s \in RowIds : r # s => Precedes(r, s) \/ Precedes(s, r)
    BY <1>1 DEF Precedes, Beyond, NULL
  <1>5. \A r, s \in RowIds : Precedes(r, s) <=> <<r, s>> \in RowOrder
    BY DEF RowOrder
  <1>6. StrictTotalOrder(RowOrder, S)
    <2>1. \A v \in S : <<v, v>> \notin RowOrder
      BY <1>3, <1>5
    <2>2. \A u, v, w \in S : <<u, v>> \in RowOrder /\ <<v, w>> \in RowOrder => <<u, w>> \in RowOrder
      BY <1>2, <1>5
    <2>3. \A v, w \in S : v # w => <<v, w>> \in RowOrder \/ <<w, v>> \in RowOrder
      BY <1>4, <1>5
    <2>. QED
      BY <2>1, <2>2, <2>3 DEF StrictTotalOrder
  <1>. QED
    BY <1>2, <1>5, <1>6, PagingAssumption, FS_Subset

\* Behind a cursor made of a row is what comes after that row.
LEMMA BehindTheCursor ==
    ASSUME PagingTypeOK, NEW l \in RowIds,
           cursor = [started |-> TRUE, key |-> keyOf[l], id |-> l]
    PROVE  \A r \in RowIds : IsAfterCursor(r) <=> Precedes(l, r)
  <1>1. cursor # Start /\ cursor.key = keyOf[l] /\ cursor.id = l
    BY DEF Start
  <1>2. \A r \in RowIds : keyOf[r] \in Nat \cup {NULL}
    BY PagingAssumption DEF PagingTypeOK
  <1>. QED
    BY <1>1, <1>2 DEF IsAfterCursor, FieldIsAfter, Precedes

LEMMA RowsComeAndGo ==
    ASSUME PagesAgree, present' \subseteq RowIds, steady' \subseteq present', steady' \subseteq steady,
           UNCHANGED <<keyOf, ascending, limit, cursor, shown, listing>>
    PROVE  PagesAgree'
  <1>1. PagingTypeOK' /\ CursorFollows'
    BY DEF PagesAgree, PagingTypeOK, CursorFollows
  <1>2. \A r, s : Precedes(r, s)' <=> Precedes(r, s)
    BY DEF Precedes, Beyond
  <1>3. PagesAreInOrder'
    BY <1>2 DEF PagesAgree, PagesAreInOrder
  <1>4. \A r : IsAfterCursor(r)' <=> IsAfterCursor(r)
    BY DEF IsAfterCursor, FieldIsAfter, Beyond
  <1>5. NothingIsLost'
    BY <1>4 DEF PagesAgree, NothingIsLost
  <1>. QED
    BY <1>1, <1>3, <1>5 DEF PagesAgree

LEMMA FetchPageStep ==
    ASSUME PagesAgree, FetchPage PROVE PagesAgree'
  <1>. DEFINE after == {r \in present : IsAfterCursor(r)}
              n == Cardinality(after)
              found == CHOOSE s \in [1 .. n -> after] :
                           \A i, j \in DOMAIN s : i < j => Precedes(s[i], s[j])
              k == IF Len(found) < limit THEN Len(found) ELSE limit
              page == SubSeq(found, 1, k)
  <1>1. /\ listing /\ shown' = shown \o page /\ listing' = (Len(found) > limit)
        /\ cursor' = IF page = <<>> THEN cursor
                     ELSE [started |-> TRUE, key |-> CursorValue(Last(page)), id |-> Last(page)]
        /\ UNCHANGED <<keyOf, present, ascending, limit, steady>>
    BY DEF FetchPage
  <1>2. /\ PagingTypeOK /\ after \subseteq RowIds /\ after \subseteq present
        /\ limit \in Nat \ {0} /\ shown \in Seq(RowIds)
    BY PagingAssumption DEF PagesAgree, PagingTypeOK
  <1>3. /\ IsFiniteSet(after) /\ n \in Nat /\ StrictTotalOrder(RowOrder, after)
        /\ \A r, s, t \in RowIds : Precedes(r, s) /\ Precedes(s, t) => Precedes(r, t)
        /\ \A r, s \in RowIds : Precedes(r, s) <=> <<r, s>> \in RowOrder
    <2>. HIDE DEF after
    <2>. QED
      BY <1>2, PrecedesIsAnOrder, FS_CardinalityType
  <1>4. /\ found \in [1 .. n -> after]
        /\ \A i, j \in 1 .. n : i < j => Precedes(found[i], found[j])
    <2>. HIDE DEF after
    <2>1. PICK s \in [1 .. n -> after] : \A i, j \in 1 .. n : i < j => <<s[i], s[j]>> \in RowOrder
      BY <1>3, SortingExists
    <2>2. \A i, j \in DOMAIN s : i < j => Precedes(s[i], s[j])
      BY <1>2, <1>3, <2>1
    <2>. HIDE DEF n
    <2>. QED
      BY <2>2
  <1>5. \A v \in after : \E i \in 1 .. n : found[i] = v
    <2>. HIDE DEF after, found
    <2>1. \A i, j \in 1 .. n : i < j => <<found[i], found[j]>> \in RowOrder
      BY <1>2, <1>3, <1>4
    <2>. QED
      BY <1>3, <1>4, <2>1, SortedHasAll
  <1>. HIDE DEF found, n
  <1>6. /\ Len(found) = n /\ found \in Seq(after) /\ found \in Seq(RowIds)
        /\ k \in 0 .. n /\ k <= limit /\ (k < n => k = limit) /\ (k = 0 => n = 0)
    <2>1. found \in Seq(after) /\ Len(found) = n
      <3>. HIDE DEF after
      <3>. QED
        BY <1>3, <1>4
    <2>2. found \in Seq(RowIds)
      <3>. HIDE DEF after
      <3>. QED
        BY <1>2, <2>1
    <2>. QED
      BY <1>2, <1>3, <2>1, <2>2
  <1>. HIDE DEF k
  <1>7. page \in Seq(RowIds) /\ Len(page) = k /\ \A i \in 1 .. k : page[i] = found[i]
    <2>1. \A i \in 1 .. k : found[i] \in RowIds
      BY <1>3, <1>6
    <2>2. 1 \in Int /\ k \in Int /\ k >= 0
      BY <1>3, <1>6
    <2>3. /\ page \in Seq(RowIds) /\ Len(page) = IF 1 <= k THEN k - 1 + 1 ELSE 0
          /\ \A i \in 1 .. k - 1 + 1 : page[i] = found[1 + i - 1]
      BY <2>1, <2>2, SubSeqProperties
    <2>. QED
      BY <2>2, <2>3
  <1>. HIDE DEF page
  <1>8. /\ shown' \in Seq(RowIds) /\ Len(shown') = Len(shown) + k /\ Len(shown) \in Nat
        /\ \A i \in 1 .. Len(shown) : shown'[i] = shown[i]
        /\ \A i \in 1 .. k : shown'[Len(shown) + i] = found[i]
    <2>1. /\ shown \o page \in Seq(RowIds) /\ Len(shown \o page) = Len(shown) + Len(page)
          /\ \A i \in 1 .. Len(shown) + Len(page) :
                (shown \o page)[i] = IF i <= Len(shown) THEN shown[i] ELSE page[i - Len(shown)]
      BY <1>2, <1>7, ConcatProperties
    <2>. QED
      BY <1>1, <1>2, <1>3, <1>6, <1>7, <2>1
  <1>9. PagingTypeOK'
    BY <1>1, <1>8 DEF PagesAgree, PagingTypeOK
  <1>10. CASE k = 0
    <2>1. shown' = shown /\ cursor' = cursor /\ listing' = FALSE /\ after = {}
      <3>1. page = <<>>
        BY <1>7, <1>10
      <3>2. shown \o <<>> = shown
        BY <1>2
      <3>3. n = 0 /\ 0 \in Nat
        BY <1>6, <1>10
      <3>4. ~(Len(found) > limit)
        BY <1>2, <1>6, <3>3
      <3>5. after = {}
        <4>. HIDE DEF after
        <4>. QED
          BY <1>5, <3>3
      <3>6. listing' = FALSE
        <4>1. listing' \in BOOLEAN /\ ~listing'
          BY <1>1, <1>9, <3>4 DEF PagingTypeOK
        <4>. QED
          BY <4>1
      <3>7. shown' = shown /\ cursor' = cursor
        BY <1>1, <3>1, <3>2
      <3>. QED
        BY ONLY <3>5, <3>6, <3>7
    <2>2. CursorFollows'
      BY <1>1, <2>1 DEF PagesAgree, CursorFollows
    <2>3. PagesAreInOrder'
      BY <1>1, <2>1 DEF PagesAgree, PagesAreInOrder, Precedes, Beyond
    <2>4. NothingIsLost'
      BY <1>1, <2>1 DEF PagesAgree, PagingTypeOK, NothingIsLost
    <2>. QED
      BY <1>9, <2>2, <2>3, <2>4 DEF PagesAgree
  <1>11. CASE k # 0
    <2>1. PICK l \in RowIds :
             /\ l = found[k] /\ k \in 1 .. n /\ page # <<>> /\ Last(page) = l
             /\ shown' # <<>> /\ shown'[Len(shown')] = l
      <3>1. k \in 1 .. n /\ k \in 1 .. k
        BY <1>3, <1>6, <1>11
      <3>2. page # <<>> /\ shown' # <<>>
        BY <1>7, <1>8, <1>11, <3>1
      <3>. QED
        BY <1>6, <1>7, <1>8, <3>1, <3>2 DEF Last
    <2>2. cursor' = [started |-> TRUE, key |-> keyOf'[l], id |-> l]
      BY <1>1, <2>1 DEF CursorValue
    <2>3. CursorFollows'
      BY <2>1, <2>2 DEF CursorFollows
    <2>4. \A r, s \in RowIds : Precedes(r, s)' <=> Precedes(r, s)
      BY <1>1 DEF Precedes, Beyond
    <2>5. ASSUME NEW i \in 1 .. Len(shown'), NEW j \in 1 .. Len(shown'), i < j
          PROVE  Precedes(shown'[i], shown'[j])
      <3>1. CASE j <= Len(shown)
        <4>1. i \in 1 .. Len(shown) /\ j \in 1 .. Len(shown)
          BY <1>8, <2>5, <3>1
        <4>. QED
          BY <1>8, <2>5, <4>1 DEF PagesAgree, PagesAreInOrder
      <3>2. CASE i > Len(shown)
        <4>1. PICK a \in 1 .. k, b \in 1 .. k : i = Len(shown) + a /\ j = Len(shown) + b
          <5>1. i - Len(shown) \in 1 .. k /\ j - Len(shown) \in 1 .. k
            BY <1>3, <1>6, <1>8, <2>5, <3>2
          <5>. QED
            BY <1>8, <5>1
        <4>2. a \in 1 .. n /\ b \in 1 .. n /\ a < b
          BY <1>3, <1>6, <1>8, <2>5, <4>1
        <4>. QED
          BY <1>4, <1>8, <4>1, <4>2
      <3>3. CASE i <= Len(shown) /\ j > Len(shown)
        <4>1. PICK b \in 1 .. k : j = Len(shown) + b
          <5>1. j - Len(shown) \in 1 .. k
            BY <1>3, <1>6, <1>8, <2>5, <3>3
          <5>. QED
            BY <1>8, <5>1
        <4>2. b \in 1 .. n /\ found[b] \in after /\ found[b] \in RowIds /\ shown'[j] = found[b]
          <5>1. b \in 1 .. n
            BY <1>3, <1>6
          <5>. QED
            BY <1>2, <1>4, <1>8, <4>1, <5>1
        <4>. DEFINE e == shown[Len(shown)]
        <4>3. /\ i \in 1 .. Len(shown) /\ Len(shown) \in 1 .. Len(shown) /\ shown # <<>>
              /\ shown'[i] = shown[i] /\ shown[i] \in RowIds /\ e \in RowIds
          <5>1. i \in 1 .. Len(shown) /\ Len(shown) \in 1 .. Len(shown)
            BY <1>8, <2>5, <3>3
          <5>. QED
            BY <1>2, <1>8, <5>1
        <4>4. cursor = [started |-> TRUE, key |-> keyOf[e], id |-> e]
          BY <4>3 DEF PagesAgree, CursorFollows
        <4>5. Precedes(e, found[b])
          <5>1. IsAfterCursor(found[b])
            BY <4>2
          <5>. HIDE DEF e
          <5>. QED
            BY <1>2, <4>2, <4>3, <4>4, <5>1, BehindTheCursor
        <4>6. shown[i] = e \/ Precedes(shown[i], e)
          <5>1. i = Len(shown) \/ i < Len(shown)
            BY <1>8, <4>3
          <5>. QED
            BY <4>3, <5>1 DEF PagesAgree, PagesAreInOrder
        <4>. QED
          BY <1>3, <4>2, <4>3, <4>5, <4>6
      <3>. QED
        BY <1>8, <2>5, <3>1, <3>2, <3>3
    <2>6. PagesAreInOrder'
      <3>1. \A i \in 1 .. Len(shown') : shown'[i] \in RowIds
        BY <1>8
      <3>. QED
        BY <2>4, <2>5, <3>1 DEF PagesAreInOrder
    <2>7. ASSUME NEW r \in steady' PROVE (r \in ToSet(shown) \/ (listing /\ IsAfterCursor(r)))'
      <3>1. r \in steady /\ r \in present /\ r \in RowIds
        BY <1>1, <1>2, <2>7 DEF PagingTypeOK
      <3>2. CASE r \in ToSet(shown)
        <4>1. PICK i \in 1 .. Len(shown) : shown[i] = r
          BY <1>2, <3>2 DEF ToSet
        <4>2. i \in 1 .. Len(shown') /\ shown'[i] = r
          BY <1>3, <1>6, <1>8, <4>1
        <4>. QED
          BY <1>8, <4>2 DEF ToSet
      <3>3. CASE IsAfterCursor(r)
        <4>1. PICK m \in 1 .. n : found[m] = r
          BY <1>5, <3>1, <3>3
        <4>2. CASE m <= k
          <5>1. m \in 1 .. k
            BY <1>3, <1>6, <4>2
          <5>2. Len(shown) + m \in 1 .. Len(shown') /\ shown'[Len(shown) + m] = r
            BY <1>3, <1>6, <1>8, <4>1, <5>1
          <5>. QED
            BY <1>8, <5>2 DEF ToSet
        <4>3. CASE m > k
          <5>1. Precedes(l, r) /\ listing'
            <6>1. k < m /\ k < n /\ m \in 1 .. n /\ k \in 1 .. n
              BY <1>3, <1>6, <2>1, <4>3
            <6>2. Precedes(found[k], found[m])
              BY <1>4, <6>1
            <6>3. Len(found) > limit
              BY <1>2, <1>3, <1>6, <6>1
            <6>. QED
              BY <1>1, <2>1, <4>1, <6>2, <6>3
          <5>2. Precedes(l, r)'
            <6>1. Precedes(l, r)' <=> Precedes(l, r)
              BY <1>1 DEF Precedes, Beyond
            <6>. QED
              BY <5>1, <6>1
          <5>3. IsAfterCursor(r)' <=> Precedes(l, r)'
            <6>1. /\ cursor' # Start /\ cursor'.key = keyOf'[l] /\ cursor'.id = l
              BY <2>2 DEF Start
            <6>2. \A s \in RowIds : keyOf'[s] \in Nat \cup {NULL}
              BY <1>9, PagingAssumption DEF PagingTypeOK
            <6>. QED
              BY <2>1, <3>1, <6>1, <6>2 DEF IsAfterCursor, FieldIsAfter, Precedes
          <5>. QED
            BY <5>1, <5>2, <5>3
        <4>. QED
          BY <1>3, <1>6, <4>2, <4>3
      <3>. QED
        BY <3>1, <3>2, <3>3 DEF PagesAgree, NothingIsLost
    <2>8. NothingIsLost'
      BY <2>7 DEF NothingIsLost
    <2>. QED
      BY <1>9, <2>3, <2>6, <2>8 DEF PagesAgree
  <1>. QED
    BY <1>10, <1>11

LEMMA PagingBegins ==
    ASSUME PagingInit PROVE PagesAgree
  <1>1. shown = <<>> /\ shown \in Seq(RowIds) /\ Len(shown) = 0
    BY DEF PagingInit
  <1>. QED
    BY <1>1 DEF PagingInit, PagesAgree, PagingTypeOK, CursorFollows, PagesAreInOrder,
                NothingIsLost, IsAfterCursor

LEMMA PagingStep ==
    ASSUME PagesAgree, [PagingNext]_pagingVars PROVE PagesAgree'
  <1>1. CASE FetchPage
    BY <1>1, FetchPageStep
  <1>2. ASSUME NEW r \in RowIds, RowComes(r) \/ RowGoes(r) PROVE PagesAgree'
    <2>1. /\ present' \subseteq RowIds /\ steady' \subseteq present' /\ steady' \subseteq steady
          /\ UNCHANGED <<keyOf, ascending, limit, cursor, shown, listing>>
      BY <1>2 DEF RowComes, RowGoes, PagesAgree, PagingTypeOK
    <2>. QED
      BY <2>1, RowsComeAndGo
  <1>3. CASE UNCHANGED pagingVars
    <2>1. /\ present' \subseteq RowIds /\ steady' \subseteq present' /\ steady' \subseteq steady
          /\ UNCHANGED <<keyOf, ascending, limit, cursor, shown, listing>>
      BY <1>3 DEF pagingVars, PagesAgree, PagingTypeOK
    <2>. QED
      BY <2>1, RowsComeAndGo
  <1>. QED
    BY <1>1, <1>2, <1>3 DEF PagingNext

\* A reader's cursor is the last row it was shown, and of the rows that were in
\* the table all along each is shown already or behind the cursor (api-query).
THEOREM PagingConsistency == PagingSpec => []PagesAgree
  <1>. QED
    BY PagingBegins, PagingStep, PTL DEF PagingSpec

LEMMA ReadAsOneList ==
    ASSUME PagesAgree PROVE ListsAreFaithful
  BY DEF PagesAgree, NothingIsLost, ListsAreFaithful, NothingIsMissed

\* Pages read one after the other are one list: in order, nothing twice, and
\* nothing missed that was there all along, whatever comes and goes meanwhile.
THEOREM PagesReadAsOneList == PagingSpec => []ListsAreFaithful
  <1>. QED
    BY PagingConsistency, ReadAsOneList, PTL

=============================================================================
