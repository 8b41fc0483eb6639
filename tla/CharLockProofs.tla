--------------------------- MODULE CharLockProofs ---------------------------
(***************************************************************************)
(* Proofs about the character lock table, for any number of names, game    *)
(* servers and locks, and for tables of any size.                          *)
(***************************************************************************)
EXTENDS CharLockTable, SequenceTheorems, TLAPS

-----------------------------------------------------------------------------
(* The inductive invariant                                                 *)

Maybe(S) == S \cup {NULL}
Cell == [charname : Char, gsid : GsId, gsqnext : Maybe(Node), gsqprev : Maybe(Node)]

\* Types of the state.
TypeOK ==
  /\ DOMAIN heap \subseteq Node /\ heap \in [DOMAIN heap -> Cell]
  /\ clitbl \in [0..TblLen-1 -> Seq(Node)]
  /\ gsqtbl \in [0..GsMax-1 -> Maybe(Node)]
  /\ walk \in Maybe(Walk)

\* The chains of the hash table: each lock is on the chain of its name, and a
\* name is there once.
OnChain(n) == \E i \in DOMAIN clitbl[Bucket(heap[n].charname)] : clitbl[Bucket(heap[n].charname)][i] = n
Chains ==
  /\ \A b \in 0..TblLen-1 : \A i \in DOMAIN clitbl[b] :
       clitbl[b][i] \in DOMAIN heap /\ Bucket(heap[clitbl[b][i]].charname) = b
  /\ \A b \in 0..TblLen-1 : \A i, j \in DOMAIN clitbl[b] :
       heap[clitbl[b][i]].charname = heap[clitbl[b][j]].charname => i = j
  /\ \A n \in DOMAIN heap : OnChain(n)

BucketOf(n) == GsBucket(heap[n].gsid)

\* The lists of the game servers: links lead both ways and stay in a bucket.
Lists ==
  /\ \A b \in 0..GsMax-1 : gsqtbl[b] # NULL =>
       gsqtbl[b] \in DOMAIN heap /\ BucketOf(gsqtbl[b]) = b
  /\ \A n \in DOMAIN heap :
       /\ heap[n].gsqprev = NULL <=> gsqtbl[BucketOf(n)] = n
       /\ heap[n].gsqnext # NULL =>
            /\ heap[n].gsqnext \in DOMAIN heap /\ BucketOf(heap[n].gsqnext) = BucketOf(n)
            /\ heap[heap[n].gsqnext].gsqprev = n
       /\ heap[n].gsqprev # NULL =>
            /\ heap[n].gsqprev \in DOMAIN heap /\ BucketOf(heap[n].gsqprev) = BucketOf(n)
            /\ heap[heap[n].gsqprev].gsqnext = n

\* Every node is on its list, the one with the highest rank at the head.
Ordered(rank, top) ==
  /\ \A n \in DOMAIN heap : rank[n] < top
  /\ \A m, n \in DOMAIN heap : rank[m] = rank[n] => m = n
  /\ \A n \in DOMAIN heap :
       gsqtbl[BucketOf(n)] # NULL /\ rank[n] <= rank[gsqtbl[BucketOf(n)]]
  /\ \A n \in DOMAIN heap : heap[n].gsqnext # NULL => rank[heap[n].gsqnext] < rank[n]
  /\ \A m, n \in DOMAIN heap : BucketOf(m) = BucketOf(n) /\ rank[m] < rank[n] =>
       heap[n].gsqnext # NULL /\ rank[m] <= rank[heap[n].gsqnext]

\* A walk has all locks of its server still before it.
Ahead(rank) ==
  ~Idle =>
    /\ walk.pcl # NULL => walk.pcl \in DOMAIN heap /\ BucketOf(walk.pcl) = GsBucket(walk.gsid)
    /\ \A n \in DOMAIN heap : heap[n].gsid = walk.gsid =>
         walk.pcl # NULL /\ rank[n] <= rank[walk.pcl]

RankInv == \E rank \in [Node -> Nat], top \in Nat : Ordered(rank, top) /\ Ahead(rank)

Inv == TypeOK /\ Chains /\ Lists /\ RankInv

-----------------------------------------------------------------------------
(* Operators of the model                                                  *)

\* Names and servers have buckets of the tables.
LEMMA Buckets ==
  /\ \A c \in Char : Bucket(c) \in 0..TblLen-1
  /\ \A g \in GsId : GsBucket(g) \in 0..GsMax-1
<1>1. \A x \in Nat, k \in Nat \ {0} : x % k \in 0..k-1
  OBVIOUS
<1> QED
  BY <1>1, TableAssumption DEF Bucket, GsBucket

\* A sequence without its i-th element, place by place.
LEMMA RemoveAtFacts ==
  ASSUME NEW S, NEW s \in Seq(S), NEW i \in DOMAIN s
  PROVE  /\ RemoveAt(s, i) \in Seq(S)
         /\ DOMAIN s = 1..Len(s) /\ Len(s) \in Nat
         /\ DOMAIN RemoveAt(s, i) = 1..(Len(s) - 1)
         /\ \A j \in 1..(Len(s) - 1) : RemoveAt(s, i)[j] = IF j < i THEN s[j] ELSE s[j + 1]
<1> DEFINE n == Len(s)
           u == SubSeq(s, 1, i - 1)
           v == SubSeq(s, i + 1, n)
           w == u \o v
<1>1. DOMAIN s = 1..n /\ n \in Nat /\ i \in 1..n /\ \A j \in 1..n : s[j] \in S
  BY LenProperties, ElementOfSeq
<1>2. /\ u \in Seq(S) /\ Len(u) = i - 1 /\ \A j \in 1..(i - 1) : u[j] = s[j]
  <2>1. \A j \in 1..(i - 1) : s[j] \in S
    BY <1>1
  <2>2. i - 1 \in Int /\ 1 \in Int
    BY <1>1
  <2>3. /\ u \in Seq(S) /\ Len(u) = IF 1 <= i - 1 THEN (i - 1) - 1 + 1 ELSE 0
        /\ \A j \in 1..((i - 1) - 1 + 1) : u[j] = s[1 + j - 1]
    BY <2>1, <2>2, SubSeqProperties
  <2> HIDE DEF u
  <2> QED
    BY <1>1, <2>3
<1>3. /\ v \in Seq(S) /\ Len(v) = n - i /\ \A j \in 1..(n - i) : v[j] = s[j + i]
  <2>1. \A j \in (i + 1)..n : s[j] \in S
    BY <1>1
  <2>2. i + 1 \in Int /\ n \in Int
    BY <1>1
  <2>3. /\ v \in Seq(S) /\ Len(v) = IF i + 1 <= n THEN n - (i + 1) + 1 ELSE 0
        /\ \A j \in 1..(n - (i + 1) + 1) : v[j] = s[(i + 1) + j - 1]
    BY <2>1, <2>2, SubSeqProperties
  <2> HIDE DEF v, n
  <2>4. n - (i + 1) + 1 = n - i /\ \A j \in 1..(n - i) : (i + 1) + j - 1 = j + i
    BY <1>1
  <2>5. \A j \in 1..(n - i) : v[j] = s[j + i]
    BY <2>3, <2>4
  <2>6. Len(v) = n - i
    BY <1>1, <2>3
  <2> QED
    BY <2>3, <2>5, <2>6
<1>4. RemoveAt(s, i) = w
  BY DEF RemoveAt
<1>5. /\ w \in Seq(S) /\ Len(w) = Len(u) + Len(v)
      /\ \A j \in 1..(Len(u) + Len(v)) : w[j] = IF j <= Len(u) THEN u[j] ELSE v[j - Len(u)]
  BY <1>2, <1>3, ConcatProperties
<1> HIDE DEF u, v, w, n
<1>6. Len(w) = n - 1 /\ DOMAIN w = 1..(n - 1)
  <2>1. Len(w) = n - 1
    BY <1>1, <1>2, <1>3, <1>5
  <2> QED
    BY <1>5, <2>1, LenProperties
<1>7. ASSUME NEW j \in 1..(n - 1) PROVE w[j] = IF j < i THEN s[j] ELSE s[j + 1]
  <2>1. w[j] = IF j <= i - 1 THEN u[j] ELSE v[j - (i - 1)]
    BY <1>1, <1>2, <1>3, <1>5
  <2>2. CASE j < i
    BY <1>1, <1>2, <2>1, <2>2
  <2>3. CASE ~(j < i)
    <3>1. j - (i - 1) \in 1..(n - i) /\ (j - (i - 1)) + i = j + 1
      BY <1>1, <2>3
    <3>2. v[j - (i - 1)] = s[j + 1]
      BY <1>3, <3>1
    <3> QED
      BY <1>1, <2>1, <2>3, <3>2
  <2> QED
    BY <2>2, <2>3
<1> QED
  BY <1>1, <1>4, <1>5, <1>6, <1>7 DEF n

\* A sequence with one more element, place by place.
LEMMA AppendFacts ==
  ASSUME NEW S, NEW s \in Seq(S), NEW e \in S
  PROVE  /\ Append(s, e) \in Seq(S)
         /\ Len(s) \in Nat /\ DOMAIN s = 1..Len(s)
         /\ DOMAIN Append(s, e) = 1..(Len(s) + 1)
         /\ \A i \in 1..Len(s) : Append(s, e)[i] = s[i]
         /\ Append(s, e)[Len(s) + 1] = e
BY AppendProperties, LenProperties

\* A node of the heap, and what it can point to.
LEMMA Cells ==
  ASSUME TypeOK
  PROVE  /\ \A n \in DOMAIN heap :
              /\ n \in Node /\ n # NULL /\ heap[n] \in Cell
              /\ heap[n].charname \in Char /\ heap[n].gsid \in GsId
              /\ heap[n].gsqnext \in Maybe(Node) /\ heap[n].gsqprev \in Maybe(Node)
              /\ BucketOf(n) \in 0..GsMax-1
         /\ \A n \in Node : n # NULL
         /\ \A w \in Walk : w # NULL
<1>1. \A n \in DOMAIN heap :
         /\ n \in Node /\ heap[n] \in Cell
         /\ heap[n].charname \in Char /\ heap[n].gsid \in GsId
         /\ heap[n].gsqnext \in Maybe(Node) /\ heap[n].gsqprev \in Maybe(Node)
  BY DEF TypeOK, Cell
<1>2. \A n \in DOMAIN heap : BucketOf(n) \in 0..GsMax-1
  BY <1>1, Buckets DEF BucketOf
<1> QED
  BY <1>1, <1>2, TableAssumption

\* cl_delete_from_gsq_list takes a node out of its list: whatever pointed to
\* it points past it.
Spliced(n) ==
  /\ DOMAIN heap' = DOMAIN heap \ {n}
  /\ \A m \in DOMAIN heap \ {n} :
       /\ heap'[m].charname = heap[m].charname /\ heap'[m].gsid = heap[m].gsid
       /\ heap'[m].gsqnext = IF heap[m].gsqnext = n THEN heap[n].gsqnext ELSE heap[m].gsqnext
       /\ heap'[m].gsqprev = IF heap[m].gsqprev = n THEN heap[n].gsqprev ELSE heap[m].gsqprev
  /\ \A b \in 0..GsMax-1 : gsqtbl'[b] = IF gsqtbl[b] = n THEN heap[n].gsqnext ELSE gsqtbl[b]

LEMMA DeleteSplices ==
  ASSUME TypeOK, Lists, NEW n \in DOMAIN heap, cl_delete_from_gsq_list(n)
  PROVE  /\ Spliced(n)
         /\ heap' \in [DOMAIN heap \ {n} -> Cell] /\ gsqtbl' \in [0..GsMax-1 -> Maybe(Node)]
<1> DEFINE p == heap[n].gsqprev
           s == heap[n].gsqnext
           Cut(m) == [heap[m] EXCEPT !.gsqnext = IF m = p THEN s ELSE @,
                                     !.gsqprev = IF m = s THEN p ELSE @]
<1>1. /\ heap' = [m \in DOMAIN heap \ {n} |-> Cut(m)]
      /\ gsqtbl' = IF p = NULL THEN [gsqtbl EXCEPT ![BucketOf(n)] = s] ELSE gsqtbl
  BY DEF cl_delete_from_gsq_list, BucketOf
<1>2. p \in Maybe(Node) /\ s \in Maybe(Node) /\ n \in Node /\ BucketOf(n) \in 0..GsMax-1
  BY Cells
<1>3. \A m \in DOMAIN heap :
        /\ Cut(m) \in Cell
        /\ Cut(m).charname = heap[m].charname /\ Cut(m).gsid = heap[m].gsid
        /\ Cut(m).gsqnext = (IF m = p THEN s ELSE heap[m].gsqnext)
        /\ Cut(m).gsqprev = (IF m = s THEN p ELSE heap[m].gsqprev)
  BY <1>2, Cells DEF Cell
<1> HIDE DEF Cut
<1>4. \A m \in DOMAIN heap : (m = p <=> heap[m].gsqnext = n) /\ (m = s <=> heap[m].gsqprev = n)
  <2>1. \A m \in DOMAIN heap : m # NULL
    BY Cells
  <2> QED
    BY <2>1 DEF Lists
<1>5. \A b \in 0..GsMax-1 : gsqtbl[b] = n <=> p = NULL /\ b = BucketOf(n)
  BY <1>2, Cells DEF Lists
<1>6. gsqtbl \in [0..GsMax-1 -> Maybe(Node)]
  BY DEF TypeOK
<1>7. /\ gsqtbl' \in [0..GsMax-1 -> Maybe(Node)]
      /\ \A b \in 0..GsMax-1 : gsqtbl'[b] = IF gsqtbl[b] = n THEN s ELSE gsqtbl[b]
  BY <1>1, <1>2, <1>5, <1>6
<1>8. heap' \in [DOMAIN heap \ {n} -> Cell]
  BY <1>1, <1>3
<1>9. \A m \in DOMAIN heap \ {n} :
       /\ heap'[m].charname = heap[m].charname /\ heap'[m].gsid = heap[m].gsid
       /\ heap'[m].gsqnext = IF heap[m].gsqnext = n THEN s ELSE heap[m].gsqnext
       /\ heap'[m].gsqprev = IF heap[m].gsqprev = n THEN p ELSE heap[m].gsqprev
  BY <1>1, <1>3, <1>4
<1>10. DOMAIN heap' = DOMAIN heap \ {n}
  BY <1>1
<1> QED
  BY <1>7, <1>8, <1>9, <1>10 DEF Spliced

-----------------------------------------------------------------------------
(* A lock is removed                                                       *)

\* The lists stay linked without the node.
LEMMA SplicedLists ==
  ASSUME TypeOK, Lists, NEW n \in DOMAIN heap, Spliced(n)
  PROVE  Lists'
<1>0. \A m \in DOMAIN heap : m # NULL /\ BucketOf(m) \in 0..GsMax-1
  BY Cells
<1>1. /\ DOMAIN heap' = DOMAIN heap \ {n}
      /\ \A m \in DOMAIN heap \ {n} :
           /\ heap'[m].gsid = heap[m].gsid
           /\ heap'[m].gsqnext = IF heap[m].gsqnext = n THEN heap[n].gsqnext ELSE heap[m].gsqnext
           /\ heap'[m].gsqprev = IF heap[m].gsqprev = n THEN heap[n].gsqprev ELSE heap[m].gsqprev
      /\ \A b \in 0..GsMax-1 : gsqtbl'[b] = IF gsqtbl[b] = n THEN heap[n].gsqnext ELSE gsqtbl[b]
  BY DEF Spliced
<1>2. \A m \in DOMAIN heap \ {n} : BucketOf(m)' = BucketOf(m)
  BY <1>1 DEF BucketOf
<1>3. ASSUME NEW b \in 0..GsMax-1, gsqtbl'[b] # NULL
      PROVE  gsqtbl'[b] \in DOMAIN heap' /\ BucketOf(gsqtbl[b])' = b
  <2>1. CASE gsqtbl[b] = n
    <3>1. BucketOf(n) = b /\ heap[n].gsqprev = NULL
      BY <1>0, <2>1 DEF Lists
    <3>2. /\ heap[n].gsqnext \in DOMAIN heap /\ BucketOf(heap[n].gsqnext) = b /\ heap[n].gsqnext # n
      BY <1>0, <1>1, <1>3, <2>1, <3>1 DEF Lists
    <3>3. gsqtbl'[b] = heap[n].gsqnext
      BY <1>1, <2>1
    <3> QED
      BY <1>1, <3>2, <3>3 DEF BucketOf
  <2>2. CASE gsqtbl[b] # n
    <3>1. gsqtbl'[b] = gsqtbl[b]
      BY <1>1, <2>2
    <3>2. gsqtbl[b] \in DOMAIN heap \ {n} /\ BucketOf(gsqtbl[b]) = b
      BY <1>3, <2>2, <3>1 DEF Lists
    <3> QED
      BY <1>1, <3>1, <3>2 DEF BucketOf
  <2> QED
    BY <2>1, <2>2
<1>4. ASSUME NEW m \in DOMAIN heap \ {n}
      PROVE  heap'[m].gsqprev = NULL <=> gsqtbl'[BucketOf(m)] = m
  <2>0. BucketOf(m) \in 0..GsMax-1 /\ m # NULL /\ n # NULL
    BY <1>0
  <2>1. CASE heap[m].gsqprev = n
    <3>1. heap[n].gsqnext = m /\ BucketOf(n) = BucketOf(m) /\ gsqtbl[BucketOf(m)] # m
      BY <2>0, <2>1 DEF Lists
    <3>2. heap[n].gsqprev = NULL <=> gsqtbl[BucketOf(m)] = n
      BY <3>1 DEF Lists
    <3> QED
      BY <1>1, <2>0, <2>1, <3>1, <3>2
  <2>2. CASE heap[m].gsqprev # n
    <3>1. heap'[m].gsqprev = heap[m].gsqprev
      BY <1>1, <2>2
    <3>2. heap[n].gsqnext = m => FALSE
      BY <2>0, <2>2 DEF Lists
    <3>3. gsqtbl'[BucketOf(m)] = m <=> gsqtbl[BucketOf(m)] = m
      BY <1>1, <2>0, <3>2
    <3> QED
      BY <3>1, <3>3 DEF Lists
  <2> QED
    BY <2>1, <2>2
<1>5. ASSUME NEW m \in DOMAIN heap \ {n}, heap'[m].gsqnext # NULL
      PROVE  /\ heap'[m].gsqnext \in DOMAIN heap' /\ BucketOf(heap[m].gsqnext)' = BucketOf(m)
             /\ heap'[heap'[m].gsqnext].gsqprev = m
  <2>0. m # NULL /\ n # NULL
    BY <1>0
  <2>1. CASE heap[m].gsqnext = n
    <3>1. heap[n].gsqprev = m /\ heap'[m].gsqnext = heap[n].gsqnext /\ BucketOf(n) = BucketOf(m)
      BY <1>1, <2>0, <2>1 DEF Lists
    <3>2. PICK s : s = heap[n].gsqnext
      OBVIOUS
    <3>3. s \in DOMAIN heap /\ s # n /\ heap[s].gsqprev = n /\ BucketOf(s) = BucketOf(m)
      BY <1>5, <2>0, <3>1, <3>2 DEF Lists
    <3> QED
      BY <1>1, <3>1, <3>2, <3>3 DEF BucketOf
  <2>2. CASE heap[m].gsqnext # n
    <3>1. heap'[m].gsqnext = heap[m].gsqnext
      BY <1>1, <2>2
    <3>2. PICK s : s = heap[m].gsqnext
      OBVIOUS
    <3>3. s \in DOMAIN heap \ {n} /\ heap[s].gsqprev = m /\ BucketOf(s) = BucketOf(m)
      BY <1>5, <2>2, <3>1, <3>2 DEF Lists
    <3> QED
      BY <1>1, <3>1, <3>2, <3>3 DEF BucketOf
  <2> QED
    BY <2>1, <2>2
<1>6. ASSUME NEW m \in DOMAIN heap \ {n}, heap'[m].gsqprev # NULL
      PROVE  /\ heap'[m].gsqprev \in DOMAIN heap' /\ BucketOf(heap[m].gsqprev)' = BucketOf(m)
             /\ heap'[heap'[m].gsqprev].gsqnext = m
  <2>0. m # NULL /\ n # NULL
    BY <1>0
  <2>1. CASE heap[m].gsqprev = n
    <3>1. heap[n].gsqnext = m /\ heap'[m].gsqprev = heap[n].gsqprev /\ BucketOf(n) = BucketOf(m)
      BY <1>1, <2>0, <2>1 DEF Lists
    <3>2. PICK p : p = heap[n].gsqprev
      OBVIOUS
    <3>3. p \in DOMAIN heap /\ p # n /\ heap[p].gsqnext = n /\ BucketOf(p) = BucketOf(m)
      BY <1>6, <2>0, <3>1, <3>2 DEF Lists
    <3> QED
      BY <1>1, <3>1, <3>2, <3>3 DEF BucketOf
  <2>2. CASE heap[m].gsqprev # n
    <3>1. heap'[m].gsqprev = heap[m].gsqprev
      BY <1>1, <2>2
    <3>2. PICK p : p = heap[m].gsqprev
      OBVIOUS
    <3>3. p \in DOMAIN heap \ {n} /\ heap[p].gsqnext = m /\ BucketOf(p) = BucketOf(m)
      BY <1>6, <2>2, <3>1, <3>2 DEF Lists
    <3> QED
      BY <1>1, <3>1, <3>2, <3>3 DEF BucketOf
  <2> QED
    BY <2>1, <2>2
<1> QED
  BY <1>1, <1>2, <1>3, <1>4, <1>5, <1>6 DEF Lists

\* The ranks of the nodes that stay still order the lists.
LEMMA SplicedOrdered ==
  ASSUME TypeOK, Lists, NEW n \in DOMAIN heap, Spliced(n),
         NEW rank \in [Node -> Nat], NEW top \in Nat, Ordered(rank, top)
  PROVE  Ordered(rank, top)'
<1>0. \A m \in DOMAIN heap : m \in Node /\ rank[m] \in Nat /\ BucketOf(m) \in 0..GsMax-1
  BY Cells
<1>1. /\ DOMAIN heap' = DOMAIN heap \ {n}
      /\ \A m \in DOMAIN heap \ {n} :
           /\ heap'[m].gsid = heap[m].gsid
           /\ heap'[m].gsqnext = IF heap[m].gsqnext = n THEN heap[n].gsqnext ELSE heap[m].gsqnext
      /\ \A b \in 0..GsMax-1 : gsqtbl'[b] = IF gsqtbl[b] = n THEN heap[n].gsqnext ELSE gsqtbl[b]
  BY DEF Spliced
<1>2. \A m \in DOMAIN heap \ {n} : BucketOf(m)' = BucketOf(m)
  BY <1>1 DEF BucketOf
<1>3. \A m \in DOMAIN heap : heap[m].gsqnext # NULL =>
        heap[m].gsqnext \in DOMAIN heap /\ rank[heap[m].gsqnext] < rank[m] /\ rank[heap[m].gsqnext] \in Nat
  BY <1>0 DEF Lists, Ordered
<1>4. ASSUME NEW m \in DOMAIN heap \ {n}, BucketOf(m) = BucketOf(n), rank[m] <= rank[n]
      PROVE  heap[n].gsqnext # NULL /\ rank[m] <= rank[heap[n].gsqnext]
  <2>1. rank[m] # rank[n]
    BY <1>4 DEF Ordered
  <2>2. rank[m] < rank[n]
    BY <1>0, <1>4, <2>1
  <2> QED
    BY <1>4, <2>2 DEF Ordered
<1>5. ASSUME NEW m \in DOMAIN heap \ {n}
      PROVE  gsqtbl'[BucketOf(m)] # NULL /\ rank[m] <= rank[gsqtbl'[BucketOf(m)]]
  <2>1. gsqtbl[BucketOf(m)] # NULL /\ rank[m] <= rank[gsqtbl[BucketOf(m)]]
    BY DEF Ordered
  <2>2. CASE gsqtbl[BucketOf(m)] = n
    <3>1. BucketOf(n) = BucketOf(m)
      BY <1>0, <2>1, <2>2 DEF Lists
    <3> QED
      BY <1>0, <1>1, <1>4, <2>1, <2>2, <3>1
  <2>3. CASE gsqtbl[BucketOf(m)] # n
    BY <1>0, <1>1, <2>1, <2>3
  <2> QED
    BY <2>2, <2>3
<1>6. ASSUME NEW m \in DOMAIN heap \ {n}, heap'[m].gsqnext # NULL
      PROVE  rank[heap'[m].gsqnext] < rank[m]
  <2>1. CASE heap[m].gsqnext = n
    <3>1. heap[n].gsqnext # NULL /\ heap'[m].gsqnext = heap[n].gsqnext /\ n # NULL
      BY <1>1, <1>6, <2>1, Cells
    <3>2. rank[n] < rank[m] /\ rank[heap[n].gsqnext] < rank[n] /\ rank[heap[n].gsqnext] \in Nat
      BY <1>3, <2>1, <3>1
    <3> QED
      BY <1>0, <3>1, <3>2
  <2>2. CASE heap[m].gsqnext # n
    BY <1>1, <1>3, <1>6, <2>2
  <2> QED
    BY <2>1, <2>2
<1>7. ASSUME NEW m \in DOMAIN heap \ {n}, NEW k \in DOMAIN heap \ {n},
             BucketOf(m) = BucketOf(k), rank[m] < rank[k]
      PROVE  heap'[k].gsqnext # NULL /\ rank[m] <= rank[heap'[k].gsqnext]
  <2>1. heap[k].gsqnext # NULL /\ rank[m] <= rank[heap[k].gsqnext]
    BY <1>7 DEF Ordered
  <2>2. CASE heap[k].gsqnext = n
    <3>1. BucketOf(n) = BucketOf(k)
      BY <2>1, <2>2 DEF Lists
    <3> QED
      BY <1>1, <1>4, <1>7, <2>1, <2>2, <3>1
  <2>3. CASE heap[k].gsqnext # n
    BY <1>1, <2>1, <2>3
  <2> QED
    BY <2>2, <2>3
<1>8. /\ \A m \in DOMAIN heap \ {n} : rank[m] < top
      /\ \A m, k \in DOMAIN heap \ {n} : rank[m] = rank[k] => m = k
  BY DEF Ordered
<1> QED
  BY <1>1, <1>2, <1>5, <1>6, <1>7, <1>8 DEF Ordered

\* The chains without the node found on one of them.
LEMMA RemovedChains ==
  ASSUME TypeOK, Chains, NEW c \in Char, NEW i \in DOMAIN clitbl[Bucket(c)],
         heap[clitbl[Bucket(c)][i]].charname = c, Spliced(clitbl[Bucket(c)][i]),
         clitbl' = [clitbl EXCEPT ![Bucket(c)] = RemoveAt(@, i)]
  PROVE  Chains' /\ clitbl' \in [0..TblLen-1 -> Seq(Node)]
<1> DEFINE b == Bucket(c)
           s == clitbl[b]
           t == RemoveAt(s, i)
           n == s[i]
           k == Len(s)
           Old(j) == IF j < i THEN j ELSE j + 1
<1>0. b \in 0..TblLen-1 /\ clitbl \in [0..TblLen-1 -> Seq(Node)]
  BY Buckets DEF TypeOK
<1>1. s \in Seq(Node)
  BY <1>0
<1>2. /\ t \in Seq(Node) /\ DOMAIN s = 1..k /\ k \in Nat /\ DOMAIN t = 1..(k - 1)
      /\ \A j \in 1..(k - 1) : t[j] = IF j < i THEN s[j] ELSE s[j + 1]
  BY <1>1, RemoveAtFacts
<1>3. clitbl' = [clitbl EXCEPT ![b] = t]
  OBVIOUS
<1>4. heap[n].charname = c /\ Spliced(n) /\ i \in DOMAIN s
  OBVIOUS
<1>c. /\ \A d \in 0..TblLen-1 : \A j \in DOMAIN clitbl[d] :
           clitbl[d][j] \in DOMAIN heap /\ Bucket(heap[clitbl[d][j]].charname) = d
      /\ \A d \in 0..TblLen-1 : \A j, l \in DOMAIN clitbl[d] :
           heap[clitbl[d][j]].charname = heap[clitbl[d][l]].charname => j = l
      /\ \A m \in DOMAIN heap : OnChain(m)
  BY DEF Chains
<1>d. \A j \in DOMAIN s, l \in DOMAIN s : heap[s[j]].charname = heap[s[l]].charname => j = l
  BY <1>0, <1>c
<1>e. \A j \in DOMAIN s : s[j] \in DOMAIN heap /\ Bucket(heap[s[j]].charname) = b
  BY <1>0, <1>c
<1>f. n = s[i]
  OBVIOUS
<1>g. Bucket(c) = b /\ clitbl[b] = s
  OBVIOUS
<1> HIDE DEF b, s, t, n, k
<1>5. /\ clitbl' \in [0..TblLen-1 -> Seq(Node)] /\ clitbl'[b] = t
      /\ \A d \in 0..TblLen-1 : d # b => clitbl'[d] = clitbl[d]
  BY <1>0, <1>2, <1>3
<1>6. \A j \in DOMAIN t : Old(j) \in DOMAIN s /\ t[j] = s[Old(j)] /\ Old(j) # i
  BY <1>2, <1>4
<1>7. \A j, l \in DOMAIN t : Old(j) = Old(l) => j = l
  BY <1>2, <1>4
<1>8. \A l \in DOMAIN s : l # i => \E j \in DOMAIN t : l = Old(j)
  <2> SUFFICES ASSUME NEW l \in DOMAIN s, l # i PROVE \E j \in DOMAIN t : l = Old(j)
    OBVIOUS
  <2>1. CASE l < i
    <3>1. l \in DOMAIN t /\ l = Old(l)
      BY <1>2, <1>4, <2>1
    <3> QED
      BY <3>1
  <2>2. CASE i < l
    <3>1. l - 1 \in DOMAIN t /\ l = Old(l - 1)
      BY <1>2, <1>4, <2>2
    <3> QED
      BY <3>1
  <2> QED
    BY <1>2, <1>4, <2>1, <2>2
<1> HIDE DEF Old
<1>9. /\ DOMAIN heap' = DOMAIN heap \ {n}
      /\ \A m \in DOMAIN heap \ {n} : heap'[m].charname = heap[m].charname
  BY <1>4 DEF Spliced
<1>10. \A j \in DOMAIN s : j # i => s[j] # n
  BY <1>4, <1>d, <1>f
<1>11. n \in DOMAIN heap
  BY <1>4, <1>e, <1>f
<1>12. ASSUME NEW d \in 0..TblLen-1, NEW j \in DOMAIN clitbl'[d]
       PROVE  clitbl'[d][j] \in DOMAIN heap' /\ Bucket(heap'[clitbl'[d][j]].charname) = d
  <2>1. CASE d = b
    BY <1>5, <1>6, <1>9, <1>10, <1>e, <2>1
  <2>2. CASE d # b
    <3>1. clitbl[d][j] \in DOMAIN heap /\ Bucket(heap[clitbl[d][j]].charname) = d
      BY <1>5, <1>12, <1>c, <2>2
    <3>2. clitbl[d][j] # n
      BY <1>4, <1>g, <2>2, <3>1
    <3> QED
      BY <1>5, <1>9, <2>2, <3>1, <3>2
  <2> QED
    BY <2>1, <2>2
<1>13. ASSUME NEW d \in 0..TblLen-1, NEW j \in DOMAIN clitbl'[d], NEW l \in DOMAIN clitbl'[d],
              heap'[clitbl'[d][j]].charname = heap'[clitbl'[d][l]].charname
       PROVE  j = l
  <2>0. clitbl'[d][j] \in DOMAIN heap \ {n} /\ clitbl'[d][l] \in DOMAIN heap \ {n}
    BY <1>9, <1>12
  <2>1. heap[clitbl'[d][j]].charname = heap[clitbl'[d][l]].charname
    BY <1>9, <1>13, <2>0
  <2>2. CASE d = b
    <3>1. Old(j) = Old(l)
      BY <1>5, <1>6, <1>d, <2>1, <2>2
    <3> QED
      BY <1>5, <1>7, <2>2, <3>1
  <2>3. CASE d # b
    BY <1>5, <1>c, <2>1, <2>3
  <2> QED
    BY <2>2, <2>3
<1>14. ASSUME NEW m \in DOMAIN heap \ {n}
       PROVE  OnChain(m)'
  <2>0. heap'[m].charname = heap[m].charname /\ heap[m].charname \in Char
    BY <1>9, Cells
  <2>1. PICK d \in 0..TblLen-1 : d = Bucket(heap[m].charname)
    BY <2>0, Buckets
  <2>2. PICK j \in DOMAIN clitbl[d] : clitbl[d][j] = m
    BY <1>c, <2>1 DEF OnChain
  <2>3. \E l \in DOMAIN clitbl'[d] : clitbl'[d][l] = m
    <3>1. CASE d = b
      <4>1. j \in DOMAIN s /\ s[j] = m /\ j # i
        BY <1>f, <1>g, <2>2, <3>1
      <4>2. PICK l \in DOMAIN t : j = Old(l)
        BY <1>8, <4>1
      <4>3. t[l] = m
        BY <1>6, <4>1, <4>2
      <4> QED
        BY <1>5, <3>1, <4>3
    <3>2. CASE d # b
      BY <1>5, <2>2, <3>2
    <3> QED
      BY <3>1, <3>2
  <2>4. Bucket(heap'[m].charname) = d
    BY <2>0, <2>1
  <2> QED
    BY <2>3, <2>4 DEF OnChain, Bucket
<1>15. Chains'
  BY <1>9, <1>12, <1>13, <1>14 DEF Chains, Bucket
<1> QED
  BY <1>5, <1>15

\* A character is locked once.
LEMMA OneLock ==
  ASSUME TypeOK, Chains, NEW m \in DOMAIN heap, NEW n \in DOMAIN heap, heap[m].charname = heap[n].charname
  PROVE  m = n
<1>1. Bucket(heap[n].charname) \in 0..TblLen-1 /\ OnChain(m) /\ OnChain(n)
  BY Cells, Buckets DEF Chains
<1> QED
  BY <1>1 DEF Chains, OnChain

\* Types of the tables, without the walk.
TablesOK ==
  /\ DOMAIN heap \subseteq Node /\ heap \in [DOMAIN heap -> Cell]
  /\ clitbl \in [0..TblLen-1 -> Seq(Node)]
  /\ gsqtbl \in [0..GsMax-1 -> Maybe(Node)]

\* What cl_unlock_char does: one node is gone, or no node matched.
Released(c, g) ==
  \/ \E n \in DOMAIN heap :
       heap[n].charname = c /\ heap[n].gsid = g /\ Spliced(n)
  \/ /\ UNCHANGED <<heap, clitbl, gsqtbl>>
     /\ \A n \in DOMAIN heap : heap[n].charname = c => heap[n].gsid # g

LEMMA ReleaseFacts ==
  ASSUME TypeOK, Chains, Lists, NEW c \in Char, NEW g \in GsId, Release(c, g)
  PROVE  Released(c, g) /\ TablesOK' /\ Chains' /\ Lists'
<1>0. Bucket(c) \in 0..TblLen-1
  BY Buckets
<1>1. ASSUME NEW i \in FoundLock(c, g), cl_delete_from_gsq_list(clitbl[Bucket(c)][i]),
             clitbl' = [clitbl EXCEPT ![Bucket(c)] = RemoveAt(@, i)]
      PROVE  Released(c, g) /\ TablesOK' /\ Chains' /\ Lists'
  <2>1. PICK n : n = clitbl[Bucket(c)][i]
    OBVIOUS
  <2>2. i \in DOMAIN clitbl[Bucket(c)] /\ heap[n].charname = c /\ heap[n].gsid = g /\ n \in DOMAIN heap
    BY <1>0, <2>1 DEF FoundLock, Chains
  <2>3. Spliced(n) /\ heap' \in [DOMAIN heap \ {n} -> Cell] /\ gsqtbl' \in [0..GsMax-1 -> Maybe(Node)]
    BY <1>1, <2>1, <2>2, DeleteSplices
  <2>4. Lists'
    BY <2>2, <2>3, SplicedLists
  <2>5. Chains' /\ clitbl' \in [0..TblLen-1 -> Seq(Node)]
    BY <1>1, <2>1, <2>2, <2>3, RemovedChains
  <2>6. DOMAIN heap' = DOMAIN heap \ {n} /\ DOMAIN heap \subseteq Node
    BY <2>3 DEF Spliced, TypeOK
  <2> QED
    BY <2>2, <2>3, <2>4, <2>5, <2>6 DEF Released, TablesOK
<1>2. ASSUME FoundLock(c, g) = {}, UNCHANGED <<heap, clitbl, gsqtbl>>
      PROVE  Released(c, g) /\ TablesOK' /\ Chains' /\ Lists'
  <2>1. TablesOK' /\ Chains' /\ Lists'
    BY <1>2 DEF TypeOK, TablesOK, Chains, Lists, OnChain, BucketOf
  <2>2. \A n \in DOMAIN heap : heap[n].charname = c => heap[n].gsid # g
    BY <1>2 DEF Chains, OnChain, FoundLock
  <2> QED
    BY <1>2, <2>1, <2>2 DEF Released
<1> QED
  BY <1>1, <1>2 DEF Release

-----------------------------------------------------------------------------
(* A lock is added                                                         *)

\* cl_insert_to_gsq_list puts a new node before the head of a list.
Inserted(n, c, g) ==
  /\ DOMAIN heap' = DOMAIN heap \cup {n}
  /\ heap'[n].charname = c /\ heap'[n].gsid = g
  /\ heap'[n].gsqnext = gsqtbl[GsBucket(g)] /\ heap'[n].gsqprev = NULL
  /\ \A m \in DOMAIN heap :
       /\ heap'[m].charname = heap[m].charname /\ heap'[m].gsid = heap[m].gsid
       /\ heap'[m].gsqnext = heap[m].gsqnext
       /\ heap'[m].gsqprev = IF m = gsqtbl[GsBucket(g)] THEN n ELSE heap[m].gsqprev
  /\ \A b \in 0..GsMax-1 : gsqtbl'[b] = IF b = GsBucket(g) THEN n ELSE gsqtbl[b]

LEMMA InsertFacts ==
  ASSUME TypeOK, Lists, NEW c \in Char, NEW g \in GsId, NEW n \in Node \ DOMAIN heap,
         cl_insert_to_gsq_list(n, c, g)
  PROVE  /\ Inserted(n, c, g)
         /\ DOMAIN heap' \subseteq Node /\ heap' \in [DOMAIN heap' -> Cell]
         /\ gsqtbl' \in [0..GsMax-1 -> Maybe(Node)]
<1> DEFINE b == GsBucket(g)
           old == gsqtbl[b]
           new == [charname |-> c, gsid |-> g, gsqnext |-> old, gsqprev |-> NULL]
           In(m) == IF m = n THEN new
                    ELSE IF m = old THEN [heap[m] EXCEPT !.gsqprev = n] ELSE heap[m]
<1>0. b \in 0..GsMax-1 /\ gsqtbl \in [0..GsMax-1 -> Maybe(Node)] /\ DOMAIN heap \subseteq Node
  BY Buckets DEF TypeOK
<1>1. heap' = [m \in DOMAIN heap \cup {n} |-> In(m)] /\ gsqtbl' = [gsqtbl EXCEPT ![b] = n]
  BY DEF cl_insert_to_gsq_list
<1>2. old \in Maybe(Node)
  BY <1>0
<1>3. /\ In(n) \in Cell /\ In(n).charname = c /\ In(n).gsid = g /\ In(n).gsqnext = old /\ In(n).gsqprev = NULL
  BY <1>2 DEF Cell, Maybe
<1>4. \A m \in DOMAIN heap :
        /\ In(m) \in Cell /\ In(m).charname = heap[m].charname /\ In(m).gsid = heap[m].gsid
        /\ In(m).gsqnext = heap[m].gsqnext
        /\ In(m).gsqprev = (IF m = old THEN n ELSE heap[m].gsqprev)
  BY Cells DEF Cell, Maybe
<1> HIDE DEF In
<1>5. heap' \in [DOMAIN heap \cup {n} -> Cell] /\ DOMAIN heap' = DOMAIN heap \cup {n}
  BY <1>1, <1>3, <1>4
<1>6. /\ \A m \in DOMAIN heap \cup {n} : heap'[m] = In(m)
      /\ gsqtbl' \in [0..GsMax-1 -> Maybe(Node)]
      /\ \A d \in 0..GsMax-1 : gsqtbl'[d] = IF d = b THEN n ELSE gsqtbl[d]
  BY <1>0, <1>1 DEF Maybe
<1>7. Inserted(n, c, g)
  BY <1>3, <1>4, <1>5, <1>6 DEF Inserted
<1> QED
  BY <1>0, <1>5, <1>6, <1>7

\* The lists with the new node.
LEMMA InsertedLists ==
  ASSUME TypeOK, Lists, NEW c \in Char, NEW g \in GsId, NEW n \in Node \ DOMAIN heap, Inserted(n, c, g)
  PROVE  Lists'
<1>0. \A m \in DOMAIN heap : m # NULL /\ BucketOf(m) \in 0..GsMax-1 /\ m # n
  BY Cells
<1> DEFINE b == GsBucket(g)
           old == gsqtbl[b]
<1>1. /\ DOMAIN heap' = DOMAIN heap \cup {n}
      /\ heap'[n].gsid = g /\ heap'[n].gsqnext = old /\ heap'[n].gsqprev = NULL
      /\ \A m \in DOMAIN heap :
           /\ heap'[m].gsid = heap[m].gsid /\ heap'[m].gsqnext = heap[m].gsqnext
           /\ heap'[m].gsqprev = IF m = old THEN n ELSE heap[m].gsqprev
      /\ \A d \in 0..GsMax-1 : gsqtbl'[d] = IF d = b THEN n ELSE gsqtbl[d]
      /\ b \in 0..GsMax-1 /\ n # NULL
  BY Buckets, Cells DEF Inserted
<1>2. old # NULL => old \in DOMAIN heap /\ BucketOf(old) = b /\ heap[old].gsqprev = NULL
  BY <1>1 DEF Lists
<1>3. /\ BucketOf(n)' = b
      /\ \A m \in DOMAIN heap : BucketOf(m)' = BucketOf(m)
  BY <1>1 DEF BucketOf, GsBucket
<1> HIDE DEF b, old
<1>4. ASSUME NEW d \in 0..GsMax-1, gsqtbl'[d] # NULL
      PROVE  gsqtbl'[d] \in DOMAIN heap' /\ BucketOf(gsqtbl[d])' = d
  <2>1. CASE d = b
    BY <1>1, <1>3, <2>1 DEF BucketOf
  <2>2. CASE d # b
    BY <1>1, <1>4, <2>2 DEF BucketOf, Lists
  <2> QED
    BY <2>1, <2>2
<1>5. ASSUME NEW m \in DOMAIN heap
      PROVE  /\ heap'[m].gsqprev = NULL <=> gsqtbl'[BucketOf(m)] = m
             /\ heap'[m].gsqnext # NULL =>
                  /\ heap'[m].gsqnext \in DOMAIN heap' /\ BucketOf(heap[m].gsqnext)' = BucketOf(m)
                  /\ heap'[heap'[m].gsqnext].gsqprev = m
             /\ heap'[m].gsqprev # NULL =>
                  /\ heap'[m].gsqprev \in DOMAIN heap' /\ BucketOf(heap[m].gsqprev)' = BucketOf(m)
                  /\ heap'[heap'[m].gsqprev].gsqnext = m
  <2>1. heap'[m].gsqprev = NULL <=> gsqtbl'[BucketOf(m)] = m
    <3>1. CASE m = old
      BY <1>0, <1>1, <1>2, <3>1
    <3>2. CASE m # old
      <4>1. heap'[m].gsqprev = heap[m].gsqprev
        BY <1>1, <3>2
      <4>2. gsqtbl'[BucketOf(m)] = m <=> gsqtbl[BucketOf(m)] = m
        BY <1>0, <1>1, <3>2 DEF old
      <4> QED
        BY <4>1, <4>2 DEF Lists
    <3> QED
      BY <3>1, <3>2
  <2>2. ASSUME heap'[m].gsqnext # NULL
        PROVE  /\ heap'[m].gsqnext \in DOMAIN heap' /\ BucketOf(heap[m].gsqnext)' = BucketOf(m)
               /\ heap'[heap'[m].gsqnext].gsqprev = m
    <3>1. PICK s : s = heap[m].gsqnext
      OBVIOUS
    <3>2. s \in DOMAIN heap /\ heap[s].gsqprev = m /\ BucketOf(s) = BucketOf(m) /\ heap'[m].gsqnext = s
      BY <1>1, <2>2, <3>1 DEF Lists
    <3>3. s # old
      BY <1>0, <1>2, <3>2
    <3> QED
      BY <1>1, <3>2, <3>3 DEF BucketOf
  <2>3. ASSUME heap'[m].gsqprev # NULL
        PROVE  /\ heap'[m].gsqprev \in DOMAIN heap' /\ BucketOf(heap[m].gsqprev)' = BucketOf(m)
               /\ heap'[heap'[m].gsqprev].gsqnext = m
    <3>1. CASE m = old
      <4>1. heap'[m].gsqprev = n /\ BucketOf(m) = b
        BY <1>0, <1>1, <1>2, <3>1
      <4> QED
        BY <1>1, <1>3, <3>1, <4>1 DEF BucketOf
    <3>2. CASE m # old
      <4>1. PICK p : p = heap[m].gsqprev
        OBVIOUS
      <4>2. p \in DOMAIN heap /\ heap[p].gsqnext = m /\ BucketOf(p) = BucketOf(m) /\ heap'[m].gsqprev = p
        BY <1>1, <2>3, <3>2, <4>1 DEF Lists
      <4> QED
        BY <1>1, <4>2 DEF BucketOf
    <3> QED
      BY <3>1, <3>2
  <2> QED
    BY <2>1, <2>2, <2>3
<1>6. /\ heap'[n].gsqprev = NULL <=> gsqtbl'[b] = n
      /\ heap'[n].gsqnext # NULL =>
           /\ heap'[n].gsqnext \in DOMAIN heap' /\ BucketOf(heap[n].gsqnext)' = b
           /\ heap'[heap'[n].gsqnext].gsqprev = n
      /\ ~(heap'[n].gsqprev # NULL)
  BY <1>1, <1>2 DEF BucketOf
<1> QED
  BY <1>1, <1>3, <1>4, <1>5, <1>6 DEF Lists

\* The new node gets the highest rank.
LEMMA InsertedOrdered ==
  ASSUME TypeOK, Lists, NEW c \in Char, NEW g \in GsId, NEW n \in Node \ DOMAIN heap, Inserted(n, c, g),
         NEW rank \in [Node -> Nat], NEW top \in Nat, Ordered(rank, top),
         NEW new, new = [rank EXCEPT ![n] = top]
  PROVE  Ordered(new, top + 1)'
<1> DEFINE b == GsBucket(g)
           old == gsqtbl[b]
<1>0. /\ \A m \in DOMAIN heap : m \in Node /\ m # n /\ rank[m] \in Nat /\ BucketOf(m) \in 0..GsMax-1
      /\ b \in 0..GsMax-1 /\ n # NULL
  BY Cells, Buckets
<1>1. new[n] = top /\ \A m \in DOMAIN heap : new[m] = rank[m] /\ new[m] < top /\ new[m] \in Nat
  BY <1>0 DEF Ordered
<1>2. /\ DOMAIN heap' = DOMAIN heap \cup {n}
      /\ heap'[n].gsid = g /\ heap'[n].gsqnext = old
      /\ \A m \in DOMAIN heap : heap'[m].gsid = heap[m].gsid /\ heap'[m].gsqnext = heap[m].gsqnext
      /\ \A d \in 0..GsMax-1 : gsqtbl'[d] = IF d = b THEN n ELSE gsqtbl[d]
  BY DEF Inserted
<1>3. /\ BucketOf(n)' = b
      /\ \A m \in DOMAIN heap : BucketOf(m)' = BucketOf(m)
  BY <1>2 DEF BucketOf, GsBucket
<1>4. old # NULL => old \in DOMAIN heap
  BY <1>0 DEF Lists
<1>o. \A m \in DOMAIN heap : BucketOf(m) = b => old # NULL /\ rank[m] <= rank[old]
  BY DEF Ordered
<1>d. old = gsqtbl[b]
  OBVIOUS
<1> HIDE DEF b, old
<1>5. ASSUME NEW m \in DOMAIN heap' PROVE new[m] < top + 1
  BY <1>1, <1>2, <1>5
<1>6. ASSUME NEW m \in DOMAIN heap', NEW k \in DOMAIN heap', new[m] = new[k] PROVE m = k
  BY <1>1, <1>2, <1>6 DEF Ordered
<1>7. ASSUME NEW m \in DOMAIN heap'
      PROVE  gsqtbl'[BucketOf(m)'] # NULL /\ new[m] <= new[gsqtbl'[BucketOf(m)']]
  <2>1. CASE BucketOf(m)' = b
    BY <1>0, <1>1, <1>2, <2>1
  <2>2. CASE BucketOf(m)' # b
    <3>1. m \in DOMAIN heap /\ BucketOf(m)' = BucketOf(m)
      BY <1>2, <1>3, <2>2
    <3>2. gsqtbl'[BucketOf(m)'] = gsqtbl[BucketOf(m)]
      BY <1>0, <1>2, <2>2, <3>1
    <3>3. PICK h : h = gsqtbl[BucketOf(m)]
      OBVIOUS
    <3>4. h # NULL /\ rank[m] <= rank[h]
      BY <3>1, <3>3 DEF Ordered
    <3>5. h \in DOMAIN heap
      BY <1>0, <3>1, <3>3, <3>4 DEF Lists
    <3> QED
      BY <1>1, <3>1, <3>2, <3>3, <3>4, <3>5
  <2> QED
    BY <2>1, <2>2
<1>8. ASSUME NEW m \in DOMAIN heap', heap'[m].gsqnext # NULL PROVE new[heap'[m].gsqnext] < new[m]
  <2>1. CASE m = n
    BY <1>1, <1>2, <1>4, <1>8, <2>1
  <2>2. CASE m # n
    BY <1>1, <1>2, <1>8, <2>2 DEF Ordered, Lists
  <2> QED
    BY <2>1, <2>2
<1>9. ASSUME NEW m \in DOMAIN heap', NEW k \in DOMAIN heap', BucketOf(m)' = BucketOf(k)', new[m] < new[k]
      PROVE  heap'[k].gsqnext # NULL /\ new[m] <= new[heap'[k].gsqnext]
  <2>1. m \in DOMAIN heap
    BY <1>1, <1>2, <1>9
  <2>2. CASE k = n
    BY <1>1, <1>2, <1>3, <1>4, <1>9, <1>o, <2>1, <2>2
  <2>3. CASE k # n
    <3>1. k \in DOMAIN heap /\ BucketOf(m) = BucketOf(k) /\ rank[m] < rank[k]
      BY <1>1, <1>2, <1>3, <1>9, <2>1, <2>3
    <3>2. heap[k].gsqnext # NULL /\ rank[m] <= rank[heap[k].gsqnext] /\ heap[k].gsqnext \in DOMAIN heap
      BY <2>1, <3>1 DEF Ordered, Lists
    <3> QED
      BY <1>1, <1>2, <2>1, <3>1, <3>2
  <2> QED
    BY <2>2, <2>3
<1> QED
  BY <1>5, <1>6, <1>7, <1>8, <1>9 DEF Ordered

\* The chains with the new node at the end of one of them.
LEMMA AppendedChains ==
  ASSUME TypeOK, Chains, NEW c \in Char, NEW g \in GsId, NEW n \in Node \ DOMAIN heap, Inserted(n, c, g),
         Hits(c) = {}, clitbl' = [clitbl EXCEPT ![Bucket(c)] = Append(@, n)]
  PROVE  Chains' /\ clitbl' \in [0..TblLen-1 -> Seq(Node)]
<1> DEFINE b == Bucket(c)
           s == clitbl[b]
           t == Append(s, n)
           k == Len(s)
<1>0. b \in 0..TblLen-1 /\ clitbl \in [0..TblLen-1 -> Seq(Node)]
  BY Buckets DEF TypeOK
<1>1. s \in Seq(Node)
  BY <1>0
<1>2. /\ t \in Seq(Node) /\ k \in Nat /\ DOMAIN s = 1..k /\ DOMAIN t = 1..(k + 1)
      /\ \A i \in 1..k : t[i] = s[i]
      /\ t[k + 1] = n
  BY <1>1, AppendFacts
<1>3. clitbl' = [clitbl EXCEPT ![b] = t]
  OBVIOUS
<1>c. /\ \A d \in 0..TblLen-1 : \A j \in DOMAIN clitbl[d] :
           clitbl[d][j] \in DOMAIN heap /\ Bucket(heap[clitbl[d][j]].charname) = d
      /\ \A d \in 0..TblLen-1 : \A j, l \in DOMAIN clitbl[d] :
           heap[clitbl[d][j]].charname = heap[clitbl[d][l]].charname => j = l
      /\ \A m \in DOMAIN heap : OnChain(m)
  BY DEF Chains
<1>d. \A j \in DOMAIN s : heap[s[j]].charname # c
  BY DEF Hits, ToSet
<1>g. Bucket(c) = b /\ clitbl[b] = s
  OBVIOUS
<1> HIDE DEF b, s, t, k
<1>5. /\ clitbl' \in [0..TblLen-1 -> Seq(Node)] /\ clitbl'[b] = t
      /\ \A d \in 0..TblLen-1 : d # b => clitbl'[d] = clitbl[d]
  BY <1>0, <1>2, <1>3
<1>6. /\ DOMAIN heap' = DOMAIN heap \cup {n} /\ heap'[n].charname = c
      /\ \A m \in DOMAIN heap : heap'[m].charname = heap[m].charname
  BY DEF Inserted
<1>7. \A d \in 0..TblLen-1 : \A j \in DOMAIN clitbl'[d] :
        \/ j \in DOMAIN clitbl[d] /\ clitbl'[d][j] = clitbl[d][j] /\ clitbl[d][j] \in DOMAIN heap
        \/ d = b /\ j = k + 1 /\ clitbl'[d][j] = n
  BY <1>2, <1>5, <1>c, <1>g
<1>8. \A d \in 0..TblLen-1 : \A j \in DOMAIN clitbl[d] : j \in DOMAIN clitbl'[d] /\ clitbl'[d][j] = clitbl[d][j]
  BY <1>2, <1>5, <1>g
<1>9. ASSUME NEW d \in 0..TblLen-1, NEW j \in DOMAIN clitbl'[d]
      PROVE  clitbl'[d][j] \in DOMAIN heap' /\ Bucket(heap'[clitbl'[d][j]].charname) = d
  BY <1>6, <1>7, <1>c, <1>g
<1>10. ASSUME NEW d \in 0..TblLen-1, NEW j \in DOMAIN clitbl'[d], NEW l \in DOMAIN clitbl'[d],
              heap'[clitbl'[d][j]].charname = heap'[clitbl'[d][l]].charname
       PROVE  j = l
  BY <1>6, <1>7, <1>10, <1>c, <1>d, <1>g
<1>11. ASSUME NEW m \in DOMAIN heap' PROVE OnChain(m)'
  <2>1. CASE m = n
    <3>1. k + 1 \in DOMAIN clitbl'[b] /\ clitbl'[b][k + 1] = n
      BY <1>2, <1>5
    <3> QED
      BY <1>6, <1>g, <2>1, <3>1 DEF OnChain, Bucket
  <2>2. CASE m \in DOMAIN heap
    <3>1. PICK d \in 0..TblLen-1 : d = Bucket(heap[m].charname)
      BY <2>2, Buckets, Cells
    <3>2. PICK j \in DOMAIN clitbl[d] : clitbl[d][j] = m
      BY <1>c, <2>2, <3>1 DEF OnChain
    <3>3. j \in DOMAIN clitbl'[d] /\ clitbl'[d][j] = m
      BY <1>8, <3>2
    <3>4. Bucket(heap'[m].charname) = d
      BY <1>6, <2>2, <3>1
    <3> QED
      BY <3>3, <3>4 DEF OnChain, Bucket
  <2> QED
    BY <1>6, <2>1, <2>2
<1>12. Chains'
  BY <1>9, <1>10, <1>11 DEF Chains, Bucket
<1> QED
  BY <1>5, <1>12

-----------------------------------------------------------------------------
(* The invariant is kept                                                   *)

\* The empty table.
LEMMA InitInv == Init => Inv
<1> SUFFICES ASSUME Init PROVE Inv
  OBVIOUS
<1>1. DOMAIN heap = {}
  BY DEF Init
<1>2. clitbl \in [0..TblLen-1 -> Seq(Node)] /\ \A b \in 0..TblLen-1 : clitbl[b] = <<>>
  <2>1. <<>> \in Seq(Node)
    BY EmptySeq
  <2> QED
    BY <2>1 DEF Init
<1>3. TypeOK
  BY <1>1, <1>2 DEF Init, TypeOK, Maybe
<1>4. Chains
  <2>1. \A b \in 0..TblLen-1 : DOMAIN clitbl[b] = {}
    BY <1>2
  <2> QED
    BY <1>1, <2>1 DEF Chains
<1>5. Lists
  BY <1>1 DEF Init, Lists
<1>6. RankInv
  <2>1. PICK rank : rank = [n \in Node |-> 0]
    OBVIOUS
  <2>2. rank \in [Node -> Nat] /\ Ordered(rank, 0) /\ Ahead(rank)
    BY <1>1, <2>1 DEF Ordered, Ahead, Init, Idle
  <2> QED
    BY <2>2 DEF RankInv
<1> QED
  BY <1>3, <1>4, <1>5, <1>6 DEF Inv

\* The types from those of the tables and of the walk.
LEMMA Types ==
  ASSUME TablesOK', walk' \in Maybe(Walk)
  PROVE  TypeOK'
BY DEF TablesOK, TypeOK

\* A lock is taken.
LEMMA LockInv ==
  ASSUME Inv, NEW c \in Char, NEW g \in GsId, cl_lock_char(c, g)
  PROVE  Inv'
<1>0. TypeOK /\ Chains /\ Lists /\ RankInv
  BY DEF Inv
<1>1. PICK n \in Node \ DOMAIN heap :
        cl_insert_to_gsq_list(n, c, g) /\ clitbl' = [clitbl EXCEPT ![Bucket(c)] = Append(@, n)]
  BY DEF cl_lock_char
<1>2. Hits(c) = {} /\ Idle /\ walk' = walk
  BY DEF cl_lock_char, cl_query_charlock_status
<1>3. /\ Inserted(n, c, g)
      /\ DOMAIN heap' \subseteq Node /\ heap' \in [DOMAIN heap' -> Cell]
      /\ gsqtbl' \in [0..GsMax-1 -> Maybe(Node)]
  BY <1>0, <1>1, InsertFacts
<1>4. Chains' /\ clitbl' \in [0..TblLen-1 -> Seq(Node)]
  BY <1>0, <1>1, <1>2, <1>3, AppendedChains
<1>5. Lists'
  BY <1>0, <1>3, InsertedLists
<1>6. TypeOK'
  BY <1>0, <1>2, <1>3, <1>4 DEF TypeOK
<1>7. RankInv'
  <2>1. PICK rank \in [Node -> Nat], top \in Nat : Ordered(rank, top)
    BY <1>0 DEF RankInv
  <2>2. PICK new : new = [rank EXCEPT ![n] = top]
    OBVIOUS
  <2>3. Ordered(new, top + 1)'
    BY <1>0, <1>3, <2>1, <2>2, InsertedOrdered
  <2>4. new \in [Node -> Nat] /\ top + 1 \in Nat
    BY <2>2
  <2>5. Ahead(new)'
    BY <1>2 DEF Ahead, Idle
  <2> QED
    BY <2>3, <2>4, <2>5 DEF RankInv
<1> QED
  BY <1>4, <1>5, <1>6, <1>7 DEF Inv

\* A lock is given up.
LEMMA UnlockInv ==
  ASSUME Inv, NEW c \in Char, NEW g \in GsId, cl_unlock_char(c, g)
  PROVE  Inv'
<1>0. TypeOK /\ Chains /\ Lists /\ RankInv /\ Idle /\ walk' = walk
  BY DEF Inv, cl_unlock_char
<1>1. Released(c, g) /\ TablesOK' /\ Chains' /\ Lists'
  BY <1>0, ReleaseFacts DEF cl_unlock_char
<1>2. TypeOK'
  BY <1>0, <1>1, Types DEF TypeOK
<1>3. RankInv'
  <2>1. PICK rank \in [Node -> Nat], top \in Nat : Ordered(rank, top)
    BY <1>0 DEF RankInv
  <2>2. ASSUME NEW n \in DOMAIN heap, Spliced(n) PROVE Ordered(rank, top)'
    BY <1>0, <2>1, <2>2, SplicedOrdered
  <2>3. ASSUME UNCHANGED <<heap, clitbl, gsqtbl>> PROVE Ordered(rank, top)'
    BY <2>1, <2>3 DEF Ordered, BucketOf
  <2>4. Ordered(rank, top)'
    BY <1>1, <2>2, <2>3 DEF Released
  <2>5. Ahead(rank)'
    BY <1>0 DEF Ahead, Idle
  <2> QED
    BY <2>4, <2>5 DEF RankInv
<1> QED
  BY <1>1, <1>2, <1>3 DEF Inv

\* A walk starts at the head of a list, where all nodes are before it.
LEMMA StartInv ==
  ASSUME Inv, NEW g \in GsId, UnlockAllStarts(g)
  PROVE  Inv'
<1>0. TypeOK /\ Chains /\ Lists /\ RankInv
  BY DEF Inv
<1>1. UNCHANGED <<heap, clitbl, gsqtbl>> /\ walk' = [gsid |-> g, pcl |-> gsqtbl[GsBucket(g)]]
  BY DEF UnlockAllStarts
<1>2. GsBucket(g) \in 0..GsMax-1 /\ gsqtbl[GsBucket(g)] \in Maybe(Node)
  BY <1>0, Buckets DEF TypeOK
<1>3. Chains' /\ Lists' /\ TypeOK'
  BY <1>0, <1>1, <1>2 DEF TypeOK, Chains, Lists, OnChain, BucketOf, Walk, Maybe
<1>4. RankInv'
  <2>1. PICK rank \in [Node -> Nat], top \in Nat : Ordered(rank, top)
    BY <1>0 DEF RankInv
  <2>2. Ordered(rank, top)'
    BY <1>1, <2>1 DEF Ordered, BucketOf
  <2>3. walk'.gsid = g /\ walk'.pcl = gsqtbl[GsBucket(g)]
    BY <1>1
  <2>4. walk'.pcl # NULL => walk'.pcl \in DOMAIN heap /\ BucketOf(gsqtbl[GsBucket(g)]) = GsBucket(g)
    BY <1>0, <1>2, <2>3 DEF Lists
  <2>5. \A n \in DOMAIN heap : heap[n].gsid = g =>
          gsqtbl[GsBucket(g)] # NULL /\ rank[n] <= rank[gsqtbl[GsBucket(g)]]
    BY <2>1 DEF Ordered, BucketOf
  <2>6. Ahead(rank)'
    BY <1>1, <2>3, <2>4, <2>5 DEF Ahead, BucketOf
  <2> QED
    BY <2>2, <2>6 DEF RankInv
<1> QED
  BY <1>3, <1>4 DEF Inv

\* The node a walk stands on, while it stands on one.
LEMMA WalkAt ==
  ASSUME TypeOK, ~Idle
  PROVE  walk \in Walk /\ walk.gsid \in GsId /\ walk.pcl \in Maybe(Node)
BY DEF TypeOK, Idle, Maybe, Walk

\* A walk moves on: it frees the node it leaves if that is one of its server,
\* and the locks of the server are still all before it.
LEMMA StepInv ==
  ASSUME Inv, UnlockAllStep
  PROVE  Inv'
<1>0. TypeOK /\ Chains /\ Lists /\ RankInv
  BY DEF Inv
<1>1. /\ ~Idle /\ walk.pcl # NULL /\ walk' = [walk EXCEPT !.pcl = heap[walk.pcl].gsqnext]
      /\ Release(heap[walk.pcl].charname, walk.gsid)
  BY DEF UnlockAllStep
<1>2. PICK p : p = walk.pcl
  OBVIOUS
<1>3. PICK g : g = walk.gsid
  OBVIOUS
<1>4. PICK rank \in [Node -> Nat], top \in Nat : Ordered(rank, top) /\ Ahead(rank)
  BY <1>0 DEF RankInv
<1>5. /\ walk \in Walk /\ g \in GsId
      /\ p \in DOMAIN heap /\ BucketOf(p) = GsBucket(g)
      /\ \A n \in DOMAIN heap : heap[n].gsid = g => rank[n] <= rank[p]
  BY <1>0, <1>1, <1>2, <1>3, <1>4, WalkAt DEF Ahead
<1>6. /\ heap[p].charname \in Char /\ heap[p].gsqnext \in Maybe(Node)
      /\ \A n \in DOMAIN heap : n \in Node /\ rank[n] \in Nat
  BY <1>0, <1>5, Cells
<1>7. Released(heap[p].charname, g) /\ TablesOK' /\ Chains' /\ Lists'
  BY <1>0, <1>1, <1>2, <1>3, <1>5, <1>6, ReleaseFacts
<1>8. walk' \in Walk /\ walk'.gsid = g /\ walk'.pcl = heap[p].gsqnext
  BY <1>1, <1>2, <1>3, <1>5, <1>6 DEF Walk, Maybe
<1>9. TypeOK'
  BY <1>7, <1>8, Types DEF Maybe
<1>10. Spliced(p) \/ (UNCHANGED <<heap, clitbl, gsqtbl>> /\ heap[p].gsid # g)
  BY <1>0, <1>5, <1>7, OneLock DEF Released
<1>11. Ordered(rank, top)'
  <2>1. ASSUME Spliced(p) PROVE Ordered(rank, top)'
    BY <1>0, <1>4, <1>5, <2>1, SplicedOrdered
  <2>2. ASSUME UNCHANGED <<heap, clitbl, gsqtbl>> PROVE Ordered(rank, top)'
    BY <1>4, <2>2 DEF Ordered, BucketOf
  <2> QED
    BY <1>10, <2>1, <2>2
<1>12. PICK s : s = heap[p].gsqnext
  OBVIOUS
<1>13. /\ s # NULL => s \in DOMAIN heap /\ BucketOf(s) = GsBucket(g) /\ rank[s] < rank[p]
  BY <1>0, <1>4, <1>5, <1>12 DEF Lists, Ordered
<1>14. \A n \in DOMAIN heap : n # p /\ heap[n].gsid = g => s # NULL /\ rank[n] <= rank[s]
  <2>1. SUFFICES ASSUME NEW n \in DOMAIN heap, n # p, heap[n].gsid = g
                 PROVE  s # NULL /\ rank[n] <= rank[s]
    OBVIOUS
  <2>2. rank[n] # rank[p]
    BY <1>4, <1>5, <2>1 DEF Ordered
  <2>3. rank[n] < rank[p] /\ BucketOf(n) = BucketOf(p)
    BY <1>5, <1>6, <2>1, <2>2 DEF BucketOf
  <2> QED
    BY <1>4, <1>5, <1>12, <2>1, <2>3 DEF Ordered
<1>15. /\ \A n \in DOMAIN heap' : n \in DOMAIN heap /\ heap'[n].gsid = heap[n].gsid
       /\ \A n \in DOMAIN heap' : heap'[n].gsid = g => n # p
       /\ \A n \in DOMAIN heap : n # p => n \in DOMAIN heap'
  BY <1>10 DEF Spliced
<1>16. Ahead(rank)'
  <2>1. s # NULL => s \in DOMAIN heap' /\ BucketOf(s)' = GsBucket(g)
    <3>1. s # NULL => s # p
      BY <1>6, <1>13, <1>5
    <3> QED
      BY <1>13, <1>15, <3>1 DEF BucketOf
  <2>2. \A n \in DOMAIN heap' : heap'[n].gsid = g => s # NULL /\ rank[n] <= rank[s]
    BY <1>14, <1>15
  <2> QED
    BY <1>8, <1>12, <2>1, <2>2 DEF Ahead, BucketOf
<1> QED
  BY <1>7, <1>9, <1>11, <1>16 DEF Inv, RankInv

\* A walk ends.
LEMMA EndInv ==
  ASSUME Inv, UnlockAllEnds
  PROVE  Inv'
<1>1. UNCHANGED <<heap, clitbl, gsqtbl>> /\ walk' = NULL
  BY DEF UnlockAllEnds
<1>2. Chains' /\ Lists' /\ TypeOK'
  BY <1>1 DEF Inv, TypeOK, Chains, Lists, OnChain, BucketOf, Maybe
<1>3. PICK rank \in [Node -> Nat], top \in Nat : Ordered(rank, top)
  BY DEF Inv, RankInv
<1>4. Ordered(rank, top)' /\ Ahead(rank)'
  BY <1>1, <1>3 DEF Ordered, BucketOf, Ahead, Idle
<1> QED
  BY <1>2, <1>4 DEF Inv, RankInv

\* Every step keeps the invariant.
LEMMA NextInv == Inv /\ [Next]_vars => Inv'
<1> SUFFICES ASSUME Inv, [Next]_vars PROVE Inv'
  OBVIOUS
<1>1. ASSUME NEW c \in Char, NEW g \in GsId, cl_lock_char(c, g) PROVE Inv'
  BY <1>1, LockInv
<1>2. ASSUME NEW c \in Char, NEW g \in GsId, cl_unlock_char(c, g) PROVE Inv'
  BY <1>2, UnlockInv
<1>3. ASSUME NEW g \in GsId, UnlockAllStarts(g) PROVE Inv'
  BY <1>3, StartInv
<1>4. ASSUME UnlockAllStep PROVE Inv'
  BY <1>4, StepInv
<1>5. ASSUME UnlockAllEnds PROVE Inv'
  BY <1>5, EndInv
<1>6. ASSUME UNCHANGED vars PROVE Inv'
  <2>1. UNCHANGED <<heap, clitbl, gsqtbl, walk>>
    BY <1>6 DEF vars
  <2>2. Chains' /\ Lists' /\ TypeOK'
    BY <2>1 DEF Inv, TypeOK, Chains, Lists, OnChain, BucketOf
  <2>3. PICK rank \in [Node -> Nat], top \in Nat : Ordered(rank, top) /\ Ahead(rank)
    BY DEF Inv, RankInv
  <2>4. Ordered(rank, top)' /\ Ahead(rank)'
    BY <2>1, <2>3 DEF Ordered, BucketOf, Ahead, Idle
  <2> QED
    BY <2>2, <2>4 DEF Inv, RankInv
<1> QED
  BY <1>1, <1>2, <1>3, <1>4, <1>5, <1>6 DEF Next, cl_unlock_all_char_by_gsid

\* The invariant holds in every state the table can reach.
LEMMA Invariance == Spec => []Inv
<1>1. Init => Inv
  BY InitInv
<1>2. Inv /\ [Next]_vars => Inv'
  BY NextInv
<1> QED
  BY <1>1, <1>2, PTL DEF Spec

-----------------------------------------------------------------------------
(* Theorems                                                                *)

\* No chain, head, link or walk of charlock.cpp ever points to a freed node.
THEOREM DanglingFree == Spec => []NoDangling
<1>1. Inv => NoDangling
  <2> SUFFICES ASSUME Inv PROVE NoDangling
    OBVIOUS
  <2>1. \A b \in 0..TblLen-1 : ToSet(clitbl[b]) \subseteq DOMAIN heap
    BY DEF Inv, Chains, ToSet
  <2>2. \A b \in 0..GsMax-1 : gsqtbl[b] \in DOMAIN heap \cup {NULL}
    BY DEF Inv, Lists
  <2>3. \A n \in DOMAIN heap : {heap[n].gsqnext, heap[n].gsqprev} \subseteq DOMAIN heap \cup {NULL}
    BY DEF Inv, Lists
  <2>4. ~Idle => walk.pcl \in DOMAIN heap \cup {NULL}
    BY DEF Inv, RankInv, Ahead
  <2> QED
    BY <2>1, <2>2, <2>3, <2>4 DEF NoDangling
<1> QED
  BY <1>1, Invariance, PTL

\* The doubly linked lists of the game servers stay linked in both directions
\* under every order of cl_lock_char, cl_unlock_char and the walks.
THEOREM LinksCorrect == Spec => []GsqLinked
<1>1. Inv => GsqLinked
  BY DEF Inv, Lists, GsqLinked, BucketOf
<1> QED
  BY <1>1, Invariance, PTL

\* A walk that has ended has left no lock of its server.
THEOREM UnlockAllCorrect == Spec => UnlockAllComplete
<1>1. ASSUME Inv, [Next]_vars, ~Idle, walk' = NULL
      PROVE  \A n \in DOMAIN heap' : heap'[n].gsid # walk.gsid
  <2>1. ASSUME UnlockAllStep PROVE FALSE
    <3>1. TypeOK' /\ TypeOK
      BY <1>1, <2>1, StepInv DEF Inv
    <3>2. walk' = [walk EXCEPT !.pcl = heap[walk.pcl].gsqnext] /\ walk \in Walk
      BY <1>1, <2>1, <3>1, WalkAt DEF UnlockAllStep
    <3>3. walk.pcl \in DOMAIN heap
      BY <1>1, <2>1 DEF Inv, RankInv, Ahead, UnlockAllStep
    <3>4. heap[walk.pcl].gsqnext \in Maybe(Node)
      BY <3>1, <3>3, Cells
    <3>5. walk' \in Walk
      BY <3>2, <3>4 DEF Walk, Maybe
    <3> QED
      BY <1>1, <3>1, <3>5, Cells
  <2>2. ASSUME UnlockAllEnds PROVE \A n \in DOMAIN heap' : heap'[n].gsid # walk.gsid
    <3>1. heap' = heap /\ walk.pcl = NULL
      BY <2>2 DEF UnlockAllEnds
    <3> QED
      BY <1>1, <3>1 DEF Inv, RankInv, Ahead
  <2>3. UnlockAllStep \/ UnlockAllEnds
    BY <1>1 DEF Next, vars, Idle, cl_lock_char, cl_unlock_char, cl_unlock_all_char_by_gsid, UnlockAllStarts
  <2> QED
    BY <2>1, <2>2, <2>3
<1>2. Inv /\ [Next]_vars => [~Idle /\ walk' = NULL => \A n \in DOMAIN heap' : heap'[n].gsid # walk.gsid]_vars
  BY <1>1
<1> QED
  BY <1>2, Invariance, PTL DEF Spec, UnlockAllComplete

\* A walk for one server takes no lock from another one.
THEOREM OthersCorrect == Spec => OthersKept
<1>1. ASSUME Inv, [Next]_vars, ~Idle, NEW n \in DOMAIN heap, heap[n].gsid # walk.gsid
      PROVE  n \in DOMAIN heap' /\ heap'[n].charname = heap[n].charname
  <2>1. ASSUME UnlockAllStep PROVE n \in DOMAIN heap' /\ heap'[n].charname = heap[n].charname
    <3>1. TypeOK /\ Chains /\ Lists /\ walk.gsid \in GsId
      BY <1>1, WalkAt DEF Inv
    <3>2. walk.pcl \in DOMAIN heap
      BY <1>1, <2>1 DEF Inv, RankInv, Ahead, UnlockAllStep
    <3>3. heap[walk.pcl].charname \in Char
      BY <3>1, <3>2, Cells
    <3>4. Released(heap[walk.pcl].charname, walk.gsid)
      BY <2>1, <3>1, <3>3, ReleaseFacts DEF UnlockAllStep
    <3> QED
      BY <1>1, <3>4 DEF Released, Spliced
  <2>2. UnlockAllStep \/ heap' = heap
    BY <1>1 DEF Next, vars, Idle, cl_lock_char, cl_unlock_char, cl_unlock_all_char_by_gsid,
                UnlockAllStarts, UnlockAllEnds
  <2> QED
    BY <2>1, <2>2
<1>2. Inv /\ [Next]_vars =>
        [~Idle => \A n \in DOMAIN heap : heap[n].gsid # walk.gsid =>
            n \in DOMAIN heap' /\ heap'[n].charname = heap[n].charname]_vars
  BY <1>1
<1> QED
  BY <1>2, Invariance, PTL DEF Spec, OthersKept

-----------------------------------------------------------------------------
(* The table implements CharLock                                           *)

\* A search of the hash table finds exactly the nodes of a name.
LEMMA HitsFacts ==
  ASSUME TypeOK, Chains, NEW c \in Char
  PROVE  Hits(c) = {n \in DOMAIN heap : heap[n].charname = c}
<1>1. Bucket(c) \in 0..TblLen-1
  BY Buckets
<1>2. ASSUME NEW n \in Hits(c) PROVE n \in DOMAIN heap /\ heap[n].charname = c
  BY <1>1 DEF Chains, Hits, ToSet
<1>3. ASSUME NEW n \in DOMAIN heap, heap[n].charname = c PROVE n \in Hits(c)
  BY <1>3 DEF Chains, OnChain, Hits, ToSet
<1> QED
  BY <1>2, <1>3

\* The lock of a name is the server of its node, if it has one.
LocksFound ==
  /\ \A n \in DOMAIN heap : LockOf(heap[n].charname) = heap[n].gsid
  /\ \A c \in Char : (\A n \in DOMAIN heap : heap[n].charname # c) => LockOf(c) = 0

LEMMA LockFacts == TypeOK /\ Chains => LocksFound
<1> SUFFICES ASSUME TypeOK, Chains PROVE LocksFound
  OBVIOUS
<1>1. ASSUME NEW n \in DOMAIN heap PROVE LockOf(heap[n].charname) = heap[n].gsid
  <2>1. PICK c \in Char : c = heap[n].charname
    BY Cells
  <2>2. Hits(c) = {m \in DOMAIN heap : heap[m].charname = c}
    BY HitsFacts
  <2>3. Hits(c) = {n}
    BY <2>1, <2>2, OneLock
  <2> QED
    BY <2>1, <2>3 DEF LockOf
<1>2. ASSUME NEW c \in Char, \A n \in DOMAIN heap : heap[n].charname # c PROVE LockOf(c) = 0
  BY <1>2, HitsFacts DEF LockOf
<1> QED
  BY <1>1, <1>2 DEF LocksFound

\* The same of the next state.
LEMMA LockFactsNext == TypeOK' /\ Chains' => LocksFound'
BY LockFacts, PTL

\* Names that keep their nodes keep their locks.
LEMMA SameLock ==
  ASSUME TypeOK, Chains, TypeOK', Chains', NEW c \in Char,
         \A n \in DOMAIN heap : heap[n].charname = c =>
           n \in DOMAIN heap' /\ heap'[n].charname = c /\ heap'[n].gsid = heap[n].gsid,
         \A n \in DOMAIN heap' : heap'[n].charname = c => n \in DOMAIN heap /\ heap[n].charname = c
  PROVE  LockOf(c)' = LockOf(c)
<1>1. CASE \E n \in DOMAIN heap : heap[n].charname = c
  <2>1. PICK n \in DOMAIN heap : heap[n].charname = c
    BY <1>1
  <2>2. n \in DOMAIN heap' /\ heap'[n].charname = c /\ heap'[n].gsid = heap[n].gsid
    BY <2>1
  <2>3. LockOf(c) = heap[n].gsid
    BY <2>1, LockFacts DEF LocksFound
  <2>4. \A m \in DOMAIN heap' : LockOf(heap[m].charname)' = heap'[m].gsid
    BY LockFactsNext DEF LocksFound
  <2>5. LockOf(heap[n].charname)' = heap'[n].gsid
    BY <2>2, <2>4
  <2>6. LockOf(c)' = heap'[n].gsid
    BY <2>2, <2>5 DEF LockOf, Hits, Bucket
  <2> QED
    BY <2>2, <2>3, <2>6
<1>2. CASE ~\E n \in DOMAIN heap : heap[n].charname = c
  <2>1. LockOf(c) = 0
    BY <1>2, LockFacts DEF LocksFound
  <2>2. \A n \in DOMAIN heap' : heap'[n].charname # c
    BY <1>2
  <2>3. LockOf(c)' = 0
    BY <2>2, LockFactsNext DEF LocksFound
  <2> QED
    BY <2>1, <2>3
<1> QED
  BY <1>1, <1>2

\* A node that is freed leaves its name unlocked, and no other.
LEMMA FreedLock ==
  ASSUME TypeOK, Chains, TypeOK', Chains', NEW n \in DOMAIN heap, Spliced(n)
  PROVE  Table!Unlock(heap[n].charname, heap[n].gsid)
<1>1. PICK c \in Char : c = heap[n].charname
  BY Cells
<1>2. LockOf(c) = heap[n].gsid
  BY <1>1, LockFacts DEF LocksFound
<1>3. LockOf(c)' = 0
  <2>1. \A m \in DOMAIN heap' : heap'[m].charname # c
    BY <1>1, OneLock DEF Spliced
  <2> QED
    BY <2>1, LockFactsNext DEF LocksFound
<1>4. ASSUME NEW d \in Char, d # c PROVE LockOf(d)' = LockOf(d)
  <2>1. /\ \A m \in DOMAIN heap : heap[m].charname = d =>
             m \in DOMAIN heap' /\ heap'[m].charname = d /\ heap'[m].gsid = heap[m].gsid
        /\ \A m \in DOMAIN heap' : heap'[m].charname = d => m \in DOMAIN heap /\ heap[m].charname = d
    BY <1>1, <1>4 DEF Spliced
  <2> QED
    BY <2>1, SameLock
<1>5. [d \in Char |-> LockOf(d)'] = [[d \in Char |-> LockOf(d)] EXCEPT ![c] = 0]
  BY <1>3, <1>4
<1>6. Table!Unlock(c, heap[n].gsid)
  BY <1>2, <1>5 DEF Table!Unlock
<1> QED
  BY <1>1, <1>6

\* A new node locks its name, which was free.
LEMMA TakenLock ==
  ASSUME TypeOK, Chains, TypeOK', Chains', NEW c \in Char, NEW g \in GsId, NEW n \in Node \ DOMAIN heap,
         Inserted(n, c, g), Hits(c) = {}
  PROVE  Table!Lock(c, g)
<1>1. \A m \in DOMAIN heap : heap[m].charname # c
  BY HitsFacts
<1>2. LockOf(c) = 0
  BY <1>1, LockFacts DEF LocksFound
<1>3. LockOf(c)' = g
  <2>1. n \in DOMAIN heap' /\ heap'[n].charname = c /\ heap'[n].gsid = g
    BY DEF Inserted
  <2>2. \A m \in DOMAIN heap' : LockOf(heap[m].charname)' = heap'[m].gsid
    BY LockFactsNext DEF LocksFound
  <2>3. LockOf(heap[n].charname)' = g
    BY <2>1, <2>2
  <2> QED
    BY <2>1, <2>3 DEF LockOf, Hits, Bucket
<1>4. ASSUME NEW d \in Char, d # c PROVE LockOf(d)' = LockOf(d)
  <2>1. /\ \A m \in DOMAIN heap : heap[m].charname = d =>
             m \in DOMAIN heap' /\ heap'[m].charname = d /\ heap'[m].gsid = heap[m].gsid
        /\ \A m \in DOMAIN heap' : heap'[m].charname = d => m \in DOMAIN heap /\ heap[m].charname = d
    BY <1>4 DEF Inserted
  <2> QED
    BY <2>1, SameLock
<1>5. [d \in Char |-> LockOf(d)'] = [[d \in Char |-> LockOf(d)] EXCEPT ![c] = g]
  BY <1>3, <1>4
<1> QED
  BY <1>2, <1>5 DEF Table!Lock

\* The two lists of charlock.cpp implement the lock table of charlock.h: a
\* walk is a series of releases, one per node.
THEOREM TableImplements == Spec => ImplementsCharLock
<1>1. Init => Table!LockInit
  <2> SUFFICES ASSUME Init PROVE Table!LockInit
    OBVIOUS
  <2>1. TypeOK /\ Chains /\ DOMAIN heap = {}
    BY InitInv DEF Inv, Init
  <2>2. \A c \in Char : LockOf(c) = 0
    BY <2>1, LockFacts DEF LocksFound
  <2> QED
    BY <2>2 DEF Table!LockInit
<1>2. ASSUME Inv, [Next]_vars PROVE [Table!LockNext]_([c \in Char |-> LockOf(c)])
  <2>0. TypeOK /\ Chains /\ Lists /\ TypeOK' /\ Chains'
    BY <1>2, NextInv DEF Inv
  <2>1. ASSUME UNCHANGED <<heap, clitbl>> PROVE UNCHANGED [c \in Char |-> LockOf(c)]
    BY <2>1 DEF LockOf, Hits
  <2>2. ASSUME NEW c \in Char, NEW g \in GsId, Released(c, g)
        PROVE  [Table!LockNext]_([d \in Char |-> LockOf(d)])
    <3>1. ASSUME NEW n \in DOMAIN heap, heap[n].charname = c, heap[n].gsid = g, Spliced(n)
          PROVE  Table!LockNext
      BY <2>0, <3>1, FreedLock DEF Table!LockNext
    <3> QED
      BY <2>1, <2>2, <3>1 DEF Released
  <2>3. ASSUME NEW c \in Char, NEW g \in GsId, cl_lock_char(c, g) PROVE Table!LockNext
    <3>1. PICK n \in Node \ DOMAIN heap : cl_insert_to_gsq_list(n, c, g)
      BY <2>3 DEF cl_lock_char
    <3>2. Hits(c) = {} /\ Inserted(n, c, g)
      BY <2>0, <2>3, <3>1, InsertFacts DEF cl_lock_char, cl_query_charlock_status
    <3>3. Table!Lock(c, g)
      BY <2>0, <3>2, TakenLock
    <3> QED
      BY <3>3 DEF Table!LockNext
  <2>4. ASSUME NEW c \in Char, NEW g \in GsId, cl_unlock_char(c, g) PROVE Released(c, g)
    BY <2>0, <2>4, ReleaseFacts DEF cl_unlock_char
  <2>5. ASSUME UnlockAllStep PROVE \E c \in Char, g \in GsId : Released(c, g)
    <3>1. walk.gsid \in GsId /\ walk.pcl \in DOMAIN heap
      BY <1>2, <2>0, <2>5, WalkAt DEF Inv, RankInv, Ahead, UnlockAllStep
    <3>2. heap[walk.pcl].charname \in Char
      BY <2>0, <3>1, Cells
    <3>3. Released(heap[walk.pcl].charname, walk.gsid)
      BY <2>0, <2>5, <3>1, <3>2, ReleaseFacts DEF UnlockAllStep
    <3> QED
      BY <3>1, <3>2, <3>3
  <2>6. ASSUME \/ \E g \in GsId : UnlockAllStarts(g)
               \/ UnlockAllEnds
               \/ UNCHANGED vars
        PROVE  UNCHANGED <<heap, clitbl>>
    BY <2>6 DEF UnlockAllStarts, UnlockAllEnds, vars
  <2> QED
    BY <1>2, <2>1, <2>2, <2>3, <2>4, <2>5, <2>6 DEF Next, cl_unlock_all_char_by_gsid
<1> QED
  BY <1>1, <1>2, Invariance, PTL DEF Spec, ImplementsCharLock, Table!LockSpec

=============================================================================
