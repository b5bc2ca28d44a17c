--------------------------- MODULE BufCacheProofs ---------------------------
(* The invariants of BufCache, that it implements BlockStore, and the order *)
(* of replacement that BufLRU records, for every number of buffers, blocks  *)
(* and hash chains.                                                         *)
EXTENDS BufLRU, SequenceTheorems, TLAPS

-----------------------------------------------------------------------------
(* Lemmas on the lists: what linking and unlinking a buffer does to the set *)
(* of the buffers of a list.                                                *)

(* An empty list has no buffer.                                             *)
LEMMA EmptyList == ToSet(<< >>) = {} /\ IsInjective(<< >>)
  BY DEF ToSet, IsInjective

(* Appending a new buffer adds it to the buffers of the list.               *)
LEMMA AppendList ==
  ASSUME NEW s \in Seq(Buf), IsInjective(s), NEW b \in Buf, b \notin ToSet(s)
  PROVE  /\ Append(s, b) \in Seq(Buf)
         /\ IsInjective(Append(s, b))
         /\ ToSet(Append(s, b)) = ToSet(s) \cup {b}
         /\ FirstOf(Append(s, b)) = IF s = << >> THEN b ELSE FirstOf(s)
  <1> DEFINE t == Append(s, b)
  <1>1. /\ t \in Seq(Buf) /\ Len(t) = Len(s) + 1
        /\ \A i \in 1 .. Len(s) : t[i] = s[i]
        /\ t[Len(s) + 1] = b
        /\ t # << >>
    BY AppendProperties
  <1>2. DOMAIN t = 1 .. Len(s) + 1 /\ DOMAIN s = 1 .. Len(s) /\ Len(s) \in Nat
    BY <1>1, LenProperties
  <1>3. IsInjective(t)
    BY <1>1, <1>2 DEF IsInjective, ToSet
  <1>4. ToSet(t) = ToSet(s) \cup {b}
    BY <1>1, <1>2 DEF ToSet
  <1>5. FirstOf(t) = IF s = << >> THEN b ELSE FirstOf(s)
    BY <1>1, HeadTailAppend DEF FirstOf
  <1> QED BY <1>1, <1>3, <1>4, <1>5

(* Taking the head off a list.                                              *)
LEMMA TailList ==
  ASSUME NEW s \in Seq(Buf), IsInjective(s), s # << >>
  PROVE  /\ Head(s) \in ToSet(s)
         /\ Tail(s) \in Seq(Buf)
         /\ IsInjective(Tail(s))
         /\ ToSet(Tail(s)) = ToSet(s) \ {Head(s)}
  <1>1. /\ Tail(s) \in Seq(Buf) /\ Len(Tail(s)) = Len(s) - 1
        /\ \A i \in 1 .. Len(Tail(s)) : Tail(s)[i] = s[i + 1]
    BY HeadTailProperties
  <1>2. /\ DOMAIN s = 1 .. Len(s) /\ Len(s) \in Nat /\ Len(s) # 0
        /\ DOMAIN Tail(s) = 1 .. Len(s) - 1
    BY <1>1, LenProperties
  <1>3. Head(s) = s[1]
    BY <1>2
  <1>4. IsInjective(Tail(s))
    <2>1. \A i \in 1 .. Len(s) - 1 : i + 1 \in 1 .. Len(s)
      BY <1>2
    <2> QED BY <1>1, <1>2, <2>1 DEF IsInjective
  <1>5. ToSet(Tail(s)) = ToSet(s) \ {Head(s)}
    <2>1. ASSUME NEW c \in ToSet(Tail(s)) PROVE c \in ToSet(s) \ {Head(s)}
      <3>1. PICK i \in 1 .. Len(s) - 1 : c = s[i + 1]
        BY <1>1, <1>2 DEF ToSet
      <3>2. i + 1 \in 1 .. Len(s) /\ 1 \in 1 .. Len(s) /\ i + 1 # 1
        BY <1>2
      <3> QED BY <3>1, <3>2, <1>2, <1>3 DEF ToSet, IsInjective
    <2>2. ASSUME NEW c \in ToSet(s) \ {Head(s)} PROVE c \in ToSet(Tail(s))
      <3>1. PICK i \in 1 .. Len(s) : c = s[i] /\ i # 1
        BY <1>2, <1>3 DEF ToSet
      <3>2. i - 1 \in 1 .. Len(s) - 1 /\ Tail(s)[i - 1] = s[i]
        BY <1>1, <1>2, <3>1
      <3> QED BY <3>1, <3>2, <1>2 DEF ToSet
    <2> QED BY <2>1, <2>2
  <1>6. Head(s) \in ToSet(s)
    <2>1. 1 \in 1 .. Len(s)
      BY <1>2
    <2> QED BY <2>1, <1>2, <1>3 DEF ToSet
  <1> QED BY <1>1, <1>4, <1>5, <1>6

(* Unlinking the buffer at position p moves those behind it up by one.      *)
LEMMA UnlinkElements ==
  ASSUME NEW s \in Seq(Buf), NEW b \in ToSet(s)
  PROVE  LET p == Position(s, b)
             t == Unlink(s, b)
         IN  /\ p \in 1 .. Len(s) /\ s[p] = b
             /\ t \in Seq(Buf) /\ Len(t) = Len(s) - 1
             /\ \A i \in 1 .. Len(s) - 1 : t[i] = IF i < p THEN s[i] ELSE s[i + 1]
  <1> DEFINE n == Len(s)
             p == Position(s, b)
             u == SubSeq(s, 1, p - 1)
             v == SubSeq(s, p + 1, n)
             t == Unlink(s, b)
  <1>1. n \in Nat /\ DOMAIN s = 1 .. n /\ \A i \in 1 .. n : s[i] \in Buf
    BY LenProperties, ElementOfSeq
  <1>2. p \in 1 .. n /\ s[p] = b
    <2>1. \E i \in 1 .. n : s[i] = b
      BY <1>1 DEF ToSet
    <2> QED BY <2>1 DEF Position
  <1>3. /\ u \in Seq(Buf) /\ Len(u) = p - 1
        /\ \A i \in 1 .. p - 1 : u[i] = s[i]
    <2>1. \A i \in 1 .. p - 1 : s[i] \in Buf
      BY <1>1, <1>2
    <2>2. p - 1 \in Int /\ (IF 1 <= p - 1 THEN p - 1 - 1 + 1 ELSE 0) = p - 1
      BY <1>1, <1>2
    <2>3. \A i \in 1 .. p - 1 : i \in 1 .. (p - 1 - 1 + 1) /\ 1 + i - 1 = i
      BY <1>1, <1>2
    <2> HIDE DEF p
    <2> QED BY <2>1, <2>2, <2>3, SubSeqProperties
  <1>4. /\ v \in Seq(Buf) /\ Len(v) = n - p
        /\ \A i \in 1 .. n - p : v[i] = s[p + i]
    <2>1. \A i \in p + 1 .. n : s[i] \in Buf
      BY <1>1, <1>2
    <2>2. p + 1 \in Int /\ n \in Int
          /\ (IF p + 1 <= n THEN n - (p + 1) + 1 ELSE 0) = n - p
      BY <1>1, <1>2
    <2>3. \A i \in 1 .. n - p :
             i \in 1 .. (n - (p + 1) + 1) /\ (p + 1) + i - 1 = p + i
      BY <1>1, <1>2
    <2> HIDE DEF p
    <2> QED BY <2>1, <2>2, <2>3, SubSeqProperties
  <1>5. t = u \o v
    BY DEF Unlink, RemoveAt
  <1>6. /\ t \in Seq(Buf) /\ Len(t) = n - 1
        /\ \A i \in 1 .. n - 1 : t[i] = IF i < p THEN s[i] ELSE s[i + 1]
    <2>1. /\ t \in Seq(Buf) /\ Len(t) = Len(u) + Len(v)
          /\ \A i \in 1 .. Len(u) + Len(v) :
                t[i] = IF i <= Len(u) THEN u[i] ELSE v[i - Len(u)]
      BY <1>3, <1>4, <1>5, ConcatProperties
    <2>2. ASSUME NEW i \in 1 .. n - 1
          PROVE  t[i] = IF i < p THEN s[i] ELSE s[i + 1]
      <3> HIDE DEF p, u, v, t
      <3>1. CASE i < p
        <4>1. i \in 1 .. p - 1 /\ i \in 1 .. Len(u) + Len(v) /\ i <= Len(u)
          BY <1>1, <1>2, <1>3, <1>4, <3>1
        <4> QED BY <4>1, <2>1, <1>3, <3>1
      <3>2. CASE ~(i < p)
        <4>1. /\ i - (p - 1) \in 1 .. n - p /\ i \in 1 .. Len(u) + Len(v)
              /\ ~(i <= Len(u)) /\ p + (i - (p - 1)) = i + 1
          BY <1>1, <1>2, <1>3, <1>4, <3>2
        <4> QED BY <4>1, <2>1, <1>3, <1>4, <3>2
      <3> QED BY <3>1, <3>2
    <2> QED BY <2>1, <2>2, <1>1, <1>2, <1>3, <1>4
  <1> QED BY <1>2, <1>6

(* Unlinking a buffer takes it, and nothing else, out of the list.          *)
LEMMA UnlinkList ==
  ASSUME NEW s \in Seq(Buf), IsInjective(s), NEW b \in ToSet(s)
  PROVE  /\ Unlink(s, b) \in Seq(Buf)
         /\ IsInjective(Unlink(s, b))
         /\ ToSet(Unlink(s, b)) = ToSet(s) \ {b}
         /\ b = Head(s) => After(s, b) = FirstOf(Unlink(s, b))
  <1> DEFINE n == Len(s)
             p == Position(s, b)
             t == Unlink(s, b)
  <1>1. n \in Nat /\ DOMAIN s = 1 .. n /\ \A i \in 1 .. n : s[i] \in Buf
    BY LenProperties, ElementOfSeq
  <1>2. p \in 1 .. n /\ s[p] = b
    BY UnlinkElements
  <1>3. /\ t \in Seq(Buf) /\ Len(t) = n - 1
        /\ \A i \in 1 .. n - 1 : t[i] = IF i < p THEN s[i] ELSE s[i + 1]
    BY UnlinkElements
  <1>4. DOMAIN t = 1 .. n - 1
    BY <1>3, LenProperties
  <1> HIDE DEF p, t
  <1>5. IsInjective(t)
    <2> SUFFICES ASSUME NEW i \in 1 .. n - 1, NEW j \in 1 .. n - 1, t[i] = t[j]
                 PROVE  i = j
      BY <1>4 DEF IsInjective
    <2> DEFINE up(k) == IF k < p THEN k ELSE k + 1
    <2>1. up(i) \in 1 .. n /\ up(j) \in 1 .. n
      BY <1>1, <1>2
    <2>2. s[up(i)] = s[up(j)]
      BY <1>3
    <2>3. up(i) = up(j)
      <3> HIDE DEF up
      <3> QED BY <2>1, <2>2, <1>1 DEF IsInjective
    <2> QED BY <2>3, <1>1, <1>2
  <1>6. ToSet(t) = ToSet(s) \ {b}
    <2>1. ASSUME NEW c \in ToSet(t) PROVE c \in ToSet(s) \ {b}
      <3>1. PICK i \in 1 .. n - 1 : c = t[i]
        BY <1>4 DEF ToSet
      <3>2. PICK k \in 1 .. n : c = s[k] /\ k # p
        <4>1. CASE i < p
          BY <4>1, <3>1, <1>3, <1>1, <1>2
        <4>2. CASE ~(i < p)
          <5>1. i + 1 \in 1 .. n /\ i + 1 # p
            BY <4>2, <1>1, <1>2
          <5> QED BY <5>1, <4>2, <3>1, <1>3
        <4> QED BY <4>1, <4>2
      <3> QED BY <3>2, <1>1, <1>2 DEF ToSet, IsInjective
    <2>2. ASSUME NEW c \in ToSet(s) \ {b} PROVE c \in ToSet(t)
      <3>1. PICK k \in 1 .. n : c = s[k] /\ k # p
        BY <1>1, <1>2 DEF ToSet
      <3>2. CASE k < p
        <4>1. k \in 1 .. n - 1 /\ t[k] = c
          BY <3>1, <3>2, <1>1, <1>2, <1>3
        <4> QED BY <4>1, <1>4 DEF ToSet
      <3>3. CASE ~(k < p)
        <4>1. k - 1 \in 1 .. n - 1 /\ ~(k - 1 < p) /\ (k - 1) + 1 = k
          BY <3>1, <3>3, <1>1, <1>2
        <4>2. t[k - 1] = c
          BY <4>1, <3>1, <1>3
        <4> QED BY <4>1, <4>2, <1>4 DEF ToSet
      <3> QED BY <3>2, <3>3
    <2> QED BY <2>1, <2>2
  <1>7. ASSUME b = Head(s) PROVE After(s, b) = FirstOf(t)
    <2>1. p = 1
      <3>1. s[1] = s[p] /\ 1 \in 1 .. n
        BY <1>7, <1>1, <1>2
      <3> QED BY <3>1, <1>1, <1>2 DEF IsInjective
    <2>2. CASE n = 1
      <3>1. t = << >>
        BY <2>2, <1>3
      <3> QED BY <3>1, <2>1, <2>2 DEF After, FirstOf, p
    <2>3. CASE n # 1
      <3>1. 1 \in 1 .. n - 1 /\ t # << >>
        BY <2>3, <1>1, <1>2, <1>3
      <3>2. Head(t) = s[2]
        BY <3>1, <2>1, <1>3
      <3> QED BY <3>1, <3>2, <2>1, <2>3 DEF After, FirstOf, p
    <2> QED BY <2>2, <2>3
  <1> QED BY <1>3, <1>5, <1>6, <1>7 DEF t

-----------------------------------------------------------------------------
(* The structural invariant, as a predicate of lists ls, chains h, numbers  *)
(* bk and states st, so that it can be stated of the pool between BufDelete *)
(* and BufInsert as well as of a state.                                     *)
On(ls)   == ToSet(ls["clean"]) \cup ToSet(ls["dirty"]) \cup ToSet(ls["free"])
Used(ls) == ToSet(ls["clean"]) \cup ToSet(ls["dirty"])

PoolOK(ls, h, bk, st) ==
  /\ ls \in [ListName -> Seq(Buf)]
  /\ h \in [Index -> SUBSET Buf]
  /\ \A l \in ListName : IsInjective(ls[l])
  /\ \A l, m \in ListName : l # m => ToSet(ls[l]) \cap ToSet(ls[m]) = {}
  /\ \A i \in Index : h[i] = {b \in Used(ls) : bk[b] % HashSize = i}
  /\ \A l \in {"clean", "dirty"} : \A b \in ToSet(ls[l]) : st[b] = l
  /\ \A b \in Used(ls) : bk[b] \in Block
  /\ \A b, c \in Used(ls) : bk[b] = bk[c] => b = c

Fields ==
  /\ blkno \in [Buf -> Block \cup {INVALID}]
  /\ state \in [Buf -> {"clean", "dirty", "wrong"}]

(* The elements of a list of buffers are buffers.                           *)
LEMMA ToSetBuf ==
  ASSUME NEW s \in Seq(Buf) PROVE ToSet(s) \subseteq Buf
  BY LenProperties, ElementOfSeq DEF ToSet

(* A block number has a chain.                                              *)
LEMMA ChainOf ==
  ASSUME NEW n \in Block PROVE n % HashSize \in Index /\ n >= 0
  <1>1. n \in Nat /\ HashSize \in Nat \ {0}
    BY BlockAssumption, HashAssumption
  <1> QED BY <1>1 DEF Index

(* BufDelete of a cached buffer keeps the rest of the pool in order.        *)
LEMMA Deleting ==
  ASSUME PoolOK(list, hash, blkno, state), Fields, NEW b \in Used(list)
  PROVE  /\ PoolOK(ListWithout(b), HashWithout(b), blkno, state)
         /\ ListOf(b) = state[b] /\ b \in ToSet(list[state[b]])
         /\ state[b] \in {"clean", "dirty"}
         /\ \A l \in ListName : ToSet(ListWithout(b)[l]) = ToSet(list[l]) \ {b}
         /\ \A l \in ListName : l # state[b] => ListWithout(b)[l] = list[l]
         /\ b \notin On(ListWithout(b))
  <1> DEFINE l0 == state[b]
             ls == ListWithout(b)
             h  == HashWithout(b)
  <1>1. l0 \in {"clean", "dirty"} /\ ListOf(b) = l0 /\ b \in ToSet(list[l0])
    BY DEF PoolOK, Used, ListOf
  <1>2. l0 \in ListName /\ list[l0] \in Seq(Buf) /\ IsInjective(list[l0])
    BY <1>1 DEF ListName, PoolOK
  <1>3. /\ Unlink(list[l0], b) \in Seq(Buf)
        /\ IsInjective(Unlink(list[l0], b))
        /\ ToSet(Unlink(list[l0], b)) = ToSet(list[l0]) \ {b}
    BY <1>1, <1>2, UnlinkList
  <1>4. ls = [list EXCEPT ![l0] = Unlink(list[l0], b)]
    BY <1>1 DEF ListWithout
  <1>5. /\ ls \in [ListName -> Seq(Buf)]
        /\ \A l \in ListName : ls[l] = IF l = l0 THEN Unlink(list[l0], b)
                                                 ELSE list[l]
    BY <1>2, <1>3, <1>4 DEF PoolOK
  <1>6. \A l \in ListName : l # l0 => b \notin ToSet(list[l])
    BY <1>1, <1>2 DEF PoolOK
  <1>7. \A l \in ListName : ToSet(ls[l]) = ToSet(list[l]) \ {b}
    BY <1>3, <1>5, <1>6
  <1>8. Used(ls) = Used(list) \ {b} /\ b \notin On(ls)
    BY <1>7 DEF Used, On, ListName
  <1>9. /\ blkno[b] \in Block /\ blkno[b] % HashSize \in Index
    BY ChainOf DEF PoolOK
  <1>10. /\ h \in [Index -> SUBSET Buf]
         /\ \A i \in Index : h[i] = hash[i] \ {b}
    <2>1. h = [hash EXCEPT ![blkno[b] % HashSize] =
                  hash[blkno[b] % HashSize] \ {b}]
      BY DEF HashWithout
    <2>2. hash \in [Index -> SUBSET Buf]
      BY DEF PoolOK
    <2>3. \A i \in Index : i # blkno[b] % HashSize => b \notin hash[i]
      BY DEF PoolOK
    <2> QED BY <2>1, <2>2, <2>3, <1>9
  <1> HIDE DEF ls, h
  <1>11. \A i \in Index : h[i] = {c \in Used(ls) : blkno[c] % HashSize = i}
    BY <1>8, <1>10 DEF PoolOK
  <1>12. \A l \in ListName : IsInjective(ls[l])
    BY <1>3, <1>5 DEF PoolOK
  <1>13. PoolOK(ls, h, blkno, state)
    <2>1. \A l, m \in ListName : l # m => ToSet(ls[l]) \cap ToSet(ls[m]) = {}
      BY <1>7 DEF PoolOK
    <2>2. \A l \in {"clean", "dirty"} : \A c \in ToSet(ls[l]) : state[c] = l
      BY <1>7 DEF PoolOK, ListName
    <2> QED BY <1>5, <1>8, <1>10, <1>11, <1>12, <2>1, <2>2 DEF PoolOK
  <1> QED BY <1>1, <1>5, <1>7, <1>8, <1>13 DEF ls, h

(* BufInsert of a buffer that is on no list, for a block no other buffer    *)
(* has, puts it at the tail of its list; for a negative number it leaves it *)
(* on no list.                                                              *)
CanInsert(b, n, l, ls, h) ==
  /\ PoolOK(ls, h, blkno, state) /\ Fields
  /\ b \in Buf /\ b \notin On(ls)
  /\ n \in Block \cup {INVALID} /\ \A c \in Used(ls) : blkno[c] # n
  /\ l \in {"clean", "dirty"}

Inserted(b, n, l, ls) ==
  /\ PoolOK(list', hash', blkno', state') /\ Fields'
  /\ blkno' = [blkno EXCEPT ![b] = n]
  /\ n = INVALID => list' = ls
  /\ n # INVALID => list' = [ls EXCEPT ![l] = Append(ls[l], b)]
  /\ n # INVALID =>
       \A m \in ListName :
          ToSet(list'[m]) = IF m = l THEN ToSet(ls[m]) \cup {b}
                                     ELSE ToSet(ls[m])

LEMMA Inserting ==
  ASSUME NEW b, NEW n, NEW l, NEW ls, NEW h,
         CanInsert(b, n, l, ls, h), BufInsert(b, n, l, ls, h)
  PROVE  Inserted(b, n, l, ls)
  <1> USE DEF CanInsert
  <1>1. blkno' = [blkno EXCEPT ![b] = n]
    BY DEF BufInsert
  <1>2. /\ blkno' \in [Buf -> Block \cup {INVALID}]
        /\ blkno'[b] = n
        /\ \A c \in Used(ls) : c # b /\ blkno'[c] = blkno[c]
        /\ Used(ls) \subseteq Buf
    <2>1. Used(ls) \subseteq Buf /\ b \notin Used(ls)
      BY ToSetBuf DEF PoolOK, Used, On, ListName
    <2> QED BY <1>1, <2>1 DEF Fields
  <1>3. CASE n = INVALID
    <2>1. list' = ls /\ hash' = h /\ state' = state
      BY <1>3, ChainOf DEF BufInsert, INVALID
    <2> QED BY <1>1, <1>2, <1>3, <2>1 DEF PoolOK, Fields, Inserted
  <1>4. CASE n # INVALID
    <2>1. n \in Block /\ n % HashSize \in Index /\ ~(n < 0)
      BY <1>4, ChainOf, BlockAssumption
    <2>2. /\ list'  = [ls EXCEPT ![l] = Append(ls[l], b)]
          /\ hash'  = [h EXCEPT ![n % HashSize] = h[n % HashSize] \cup {b}]
          /\ state' = [state EXCEPT ![b] = l]
      BY <2>1 DEF BufInsert
    <2>3. /\ l \in ListName /\ ls[l] \in Seq(Buf) /\ IsInjective(ls[l])
          /\ b \notin ToSet(ls[l])
      BY DEF ListName, PoolOK, On
    <2>4. /\ Append(ls[l], b) \in Seq(Buf) /\ IsInjective(Append(ls[l], b))
          /\ ToSet(Append(ls[l], b)) = ToSet(ls[l]) \cup {b}
      BY <2>3, AppendList
    <2>5. /\ list' \in [ListName -> Seq(Buf)]
          /\ \A m \in ListName : list'[m] = IF m = l THEN Append(ls[l], b)
                                                      ELSE ls[m]
      BY <2>2, <2>3, <2>4 DEF PoolOK
    <2>6. \A m \in ListName : ToSet(list'[m]) = IF m = l
                                  THEN ToSet(ls[m]) \cup {b} ELSE ToSet(ls[m])
      BY <2>4, <2>5
    <2>7. Used(list') = Used(ls) \cup {b}
      BY <2>6 DEF Used, ListName
    <2>8. \A m \in ListName : IsInjective(list'[m])
      BY <2>4, <2>5 DEF PoolOK
    <2>9. \A m, k \in ListName : m # k =>
             ToSet(list'[m]) \cap ToSet(list'[k]) = {}
      <3>1. \A m \in ListName : b \notin ToSet(ls[m])
        BY DEF On, ListName
      <3> SUFFICES ASSUME NEW m \in ListName, NEW k \in ListName, m # k
                   PROVE  ToSet(list'[m]) \cap ToSet(list'[k]) = {}
        OBVIOUS
      <3>2. ToSet(ls[m]) \cap ToSet(ls[k]) = {}
        BY DEF PoolOK
      <3> QED BY <2>6, <3>1, <3>2
    <2>10. /\ hash' \in [Index -> SUBSET Buf]
           /\ \A i \in Index : hash'[i] = IF i = n % HashSize
                                           THEN h[i] \cup {b} ELSE h[i]
      BY <2>1, <2>2 DEF PoolOK
    <2>11. \A i \in Index :
              hash'[i] = {c \in Used(list') : blkno'[c] % HashSize = i}
      BY <2>7, <2>10, <1>2 DEF PoolOK
    <2>12. \A m \in {"clean", "dirty"} : \A c \in ToSet(list'[m]) :
              state'[c] = m
      <3>1. \A m \in {"clean", "dirty"} : \A c \in ToSet(ls[m]) :
               c \in Buf /\ c # b /\ state[c] = m
        BY <1>2 DEF PoolOK, Used
      <3> QED BY <3>1, <2>2, <2>6 DEF Fields, ListName
    <2>13. \A c \in Used(list') : blkno'[c] \in Block
      BY <2>1, <2>7, <1>2 DEF PoolOK
    <2>14. \A c, d \in Used(list') : blkno'[c] = blkno'[d] => c = d
      BY <2>7, <1>2 DEF PoolOK
    <2>15. Fields'
      BY <2>2, <1>2 DEF Fields
    <2> QED BY <1>1, <1>4, <2>2, <2>5, <2>6, <2>8, <2>9, <2>10, <2>11, <2>12,
               <2>13, <2>14, <2>15 DEF PoolOK, Inserted
  <1> QED BY <1>3, <1>4

-----------------------------------------------------------------------------
(* The inductive invariant: the structure of the pool, what a clean buffer  *)
(* holds, and where BufSync is.  BufSync relies on its pointer being the    *)
(* head of Dirty: only then does the link it read lead through the rest.    *)
WalkerAtHead == syncing => pWalker = FirstOf(list["dirty"])

(* The client's pointer is a cached buffer, or one that BufRead(-1) lost.   *)
HandleOK == pBuf # NULL => pBuf \in Used(list) \/ blkno[pBuf] = INVALID

IInv ==
  /\ TypeOK
  /\ PoolOK(list, hash, blkno, state)
  /\ CleanIsOnDisk
  /\ WalkerAtHead
  /\ HandleOK

(* The pool Init() builds has every buffer on Free.                         *)
LEMMA NewPoolLists ==
  /\ NewPool \in [ListName -> Seq(Buf)]
  /\ NewPool["clean"] = << >> /\ NewPool["dirty"] = << >>
  /\ NewPool["free"] = [i \in 1 .. NBuf |-> i]
  <1>1. [i \in 1 .. NBuf |-> i] \in Seq(Buf)
    BY NBufAssumption, IsASeq DEF Buf
  <1>2. << >> \in Seq(Buf)
    OBVIOUS
  <1> QED BY <1>1, <1>2 DEF NewPool, ListName

(* The invariant holds of a pool Init() has just built.                     *)
LEMMA InitIInv == Init => IInv
  <1> SUFFICES ASSUME Init PROVE IInv
    OBVIOUS
  <1> USE DEF Init
  <1>1. /\ NewPool \in [ListName -> Seq(Buf)]
        /\ NewPool["clean"] = << >> /\ NewPool["dirty"] = << >>
        /\ NewPool["free"] = [i \in 1 .. NBuf |-> i]
    BY NewPoolLists
  <1>2. TypeOK
    BY <1>1, DataAssumption DEF TypeOK
  <1>3. /\ ToSet(list["clean"]) = {} /\ ToSet(list["dirty"]) = {}
        /\ IsInjective(list["clean"]) /\ IsInjective(list["dirty"])
        /\ IsInjective(list["free"])
    BY <1>1, EmptyList DEF IsInjective
  <1>4. Used(list) = {}
    BY <1>3 DEF Used
  <1>5. PoolOK(list, hash, blkno, state)
    BY <1>1, <1>3, <1>4 DEF PoolOK, ListName
  <1> QED BY <1>2, <1>3, <1>5 DEF IInv, CleanIsOnDisk, WalkerAtHead, HandleOK

(* A buffer BufFind returns is cached, and holds the block asked for.       *)
LEMMA Finding ==
  ASSUME IInv, NEW n \in CallNo
  PROVE  /\ BufFind(n) = {b \in Used(list) : blkno[b] = n}
         /\ n \in Block \cup {INVALID}
  <1>1. n \in Block \cup {INVALID} /\ n \in Int
    BY CallAssumption, BlockAssumption DEF INVALID
  <1>2. n % HashSize \in Index
    BY <1>1, HashAssumption DEF Index
  <1> QED BY <1>1, <1>2 DEF IInv, PoolOK, BufFind

(* Moving a cached buffer to the tail of Clean or Dirty.                    *)
LEMMA Moving ==
  ASSUME IInv, NEW b \in Used(list), NEW l \in {"clean", "dirty"},
         BufInsert(b, blkno[b], l, ListWithout(b), HashWithout(b))
  PROVE  /\ PoolOK(list', hash', blkno', state') /\ Fields'
         /\ blkno' = blkno /\ blkno[b] \in Block /\ b \in Buf
         /\ \A m \in ListName :
               ToSet(list'[m]) = IF m = l THEN ToSet(list[m]) \cup {b}
                                          ELSE ToSet(list[m]) \ {b}
         /\ Used(list') = Used(list)
         /\ list' = [ListWithout(b) EXCEPT ![l] = Append(ListWithout(b)[l], b)]
  <1>1. PoolOK(list, hash, blkno, state) /\ Fields
    BY DEF IInv, TypeOK, Fields
  <1>2. /\ b \in Buf /\ blkno[b] \in Block /\ blkno[b] # INVALID
    <2>1. b \in Buf
      BY <1>1, ToSetBuf DEF PoolOK, Used, ListName
    <2> QED BY <1>1, <2>1, BlockAssumption DEF PoolOK, INVALID
  <1> DEFINE ls == ListWithout(b)
             h  == HashWithout(b)
             n  == blkno[b]
  <1>3. /\ PoolOK(ls, h, blkno, state) /\ b \notin On(ls)
        /\ \A m \in ListName : ToSet(ls[m]) = ToSet(list[m]) \ {b}
    BY <1>1, Deleting
  <1>4. CanInsert(b, n, l, ls, h)
    <2>1. \A c \in Used(ls) : c \in Used(list) /\ c # b
      BY <1>3 DEF Used, ListName
    <2>2. \A c \in Used(ls) : blkno[c] # n
      BY <1>1, <2>1 DEF PoolOK
    <2> QED BY <1>1, <1>2, <1>3, <2>2 DEF CanInsert
  <1>5. Inserted(b, n, l, ls)
    BY <1>4, Inserting
  <1>6. blkno' = blkno
    BY <1>1, <1>5 DEF Fields, Inserted
  <1>7. \A m \in ListName :
           ToSet(list'[m]) = IF m = l THEN ToSet(list[m]) \cup {b}
                                      ELSE ToSet(list[m]) \ {b}
    BY <1>2, <1>3, <1>5 DEF Inserted
  <1>8. Used(list') = Used(list)
    BY <1>7 DEF Used, ListName
  <1> QED BY <1>2, <1>5, <1>6, <1>7, <1>8 DEF Inserted

(* A hit only moves the buffer along its own list.                          *)
LEMMA HitInv ==
  ASSUME IInv, NEW n \in CallNo, BufReadHit(n) PROVE IInv'
  <1>1. PICK b \in BufFind(n) :
          /\ ~syncing
          /\ BufInsert(b, n, state[b], ListWithout(b), HashWithout(b))
          /\ pBuf' = b
          /\ UNCHANGED <<disk, mem, syncing, pWalker>>
    BY DEF BufReadHit
  <1>2. b \in Used(list) /\ blkno[b] = n
    BY Finding
  <1>3. state[b] \in {"clean", "dirty"} /\ b \in ToSet(list[state[b]])
    BY <1>2 DEF IInv, PoolOK, Used
  <1>4. /\ PoolOK(list', hash', blkno', state') /\ Fields' /\ blkno' = blkno
        /\ b \in Buf /\ Used(list') = Used(list)
        /\ \A m \in ListName :
               ToSet(list'[m]) = IF m = state[b] THEN ToSet(list[m]) \cup {b}
                                                 ELSE ToSet(list[m]) \ {b}
    BY <1>1, <1>2, <1>3, Moving
  <1>5. CleanIsOnDisk'
    BY <1>1, <1>3, <1>4 DEF IInv, CleanIsOnDisk, ListName
  <1>6. TypeOK'
    BY <1>1, <1>4 DEF IInv, TypeOK, PoolOK, Fields
  <1> QED BY <1>1, <1>2, <1>4, <1>5, <1>6 DEF IInv, WalkerAtHead, HandleOK

(* A miss, once BufGetNewBuffer has taken b and has left ls and h.          *)
LEMMA FillInv ==
  ASSUME IInv, NEW n \in CallNo, NEW b \in Buf, NEW ls, NEW h,
         PoolOK(ls, h, blkno, state), b \notin On(ls),
         Used(ls) \subseteq Used(list),
         disk' \in [Block -> Data],
         \A c \in ToSet(ls["clean"]) : mem[c] = disk'[blkno[c]],
         Fill(b, n, ls, h)
  PROVE  IInv'
  <1>1. n \in Block \cup {INVALID} /\ \A c \in Used(ls) : blkno[c] # n
    BY Finding DEF Fill
  <1>2. PICK d \in DevReadBlock(n) : mem' = [mem EXCEPT ![b] = d]
    BY DEF Fill
  <1>3. BufInsert(b, n, "clean", ls, h) /\ pBuf' = b /\ ~syncing
        /\ UNCHANGED <<syncing, pWalker>>
    BY DEF Fill
  <1>4. Fields
    BY DEF IInv, TypeOK, Fields
  <1>5. /\ PoolOK(list', hash', blkno', state') /\ Fields'
        /\ blkno' = [blkno EXCEPT ![b] = n]
        /\ n = INVALID => list' = ls
        /\ n # INVALID =>
             \A m \in ListName :
                ToSet(list'[m]) = IF m = "clean" THEN ToSet(ls[m]) \cup {b}
                                                 ELSE ToSet(ls[m])
    <2>1. CanInsert(b, n, "clean", ls, h)
      BY <1>1, <1>4 DEF CanInsert
    <2>2. Inserted(b, n, "clean", ls)
      BY <1>3, <2>1, Inserting
    <2> QED BY <2>2 DEF Inserted
  <1>6. blkno'[b] = n /\ \A c \in Buf : c # b => blkno'[c] = blkno[c]
    BY <1>4, <1>5 DEF Fields
  <1>7. d \in Data /\ mem' \in [Buf -> Data]
    BY <1>2 DEF DevReadBlock, IInv, TypeOK
  <1>8. TypeOK'
    BY <1>3, <1>5, <1>7 DEF IInv, TypeOK, PoolOK, Fields
  <1>9. CleanIsOnDisk'
    <2> SUFFICES ASSUME NEW c \in ToSet(list'["clean"])
                 PROVE  mem'[c] = disk'[blkno'[c]]
      BY DEF CleanIsOnDisk
    <2>1. ToSet(ls["clean"]) \subseteq Buf /\ b \notin ToSet(ls["clean"])
      BY ToSetBuf DEF PoolOK, On, ListName
    <2>2. CASE c \in ToSet(ls["clean"])
      <3>1. c \in Buf /\ c # b
        BY <2>1, <2>2
      <3>2. mem'[c] = mem[c] /\ blkno'[c] = blkno[c]
        BY <1>2, <1>6, <3>1 DEF IInv, TypeOK
      <3> QED BY <2>2, <3>2
    <2>3. CASE c \notin ToSet(ls["clean"])
      <3>1. n # INVALID /\ c = b
        BY <2>3, <1>5 DEF ListName
      <3>2. d = disk'[n]
        BY <3>1, <1>1, <1>2 DEF DevReadBlock
      <3>3. mem'[b] = d
        BY <1>2 DEF IInv, TypeOK
      <3> QED BY <3>1, <3>2, <3>3, <1>6
    <2> QED BY <2>2, <2>3
  <1>10. HandleOK'
    BY <1>3, <1>5, <1>6 DEF HandleOK, Used, ListName
  <1> QED BY <1>3, <1>5, <1>8, <1>9, <1>10 DEF IInv, WalkerAtHead

(* What BufGetNewBuffer leaves behind: the head of Free taken off it ...    *)
LEMMA TakingFree ==
  ASSUME IInv, list["free"] # << >>
  PROVE  LET b  == Head(list["free"])
             ls == [list EXCEPT !["free"] = Tail(list["free"])]
         IN  /\ b \in Buf /\ b \notin On(ls)
             /\ PoolOK(ls, hash, blkno, state)
             /\ Used(ls) = Used(list) /\ ls["clean"] = list["clean"]
             /\ On(list) = On(ls) \cup {b}
  <1> DEFINE b  == Head(list["free"])
             ls == [list EXCEPT !["free"] = Tail(list["free"])]
  <1>1. /\ PoolOK(list, hash, blkno, state)
        /\ list["free"] \in Seq(Buf) /\ IsInjective(list["free"])
    BY DEF IInv, PoolOK, ListName
  <1>2. /\ b \in ToSet(list["free"])
        /\ Tail(list["free"]) \in Seq(Buf) /\ IsInjective(Tail(list["free"]))
        /\ ToSet(Tail(list["free"])) = ToSet(list["free"]) \ {b}
    BY <1>1, TailList
  <1>3. /\ ls \in [ListName -> Seq(Buf)]
        /\ ls["free"] = Tail(list["free"])
        /\ ls["clean"] = list["clean"] /\ ls["dirty"] = list["dirty"]
    BY <1>1, <1>2 DEF PoolOK, ListName
  <1>4. b \in Buf
    BY <1>1, <1>2, ToSetBuf
  <1>5. Used(ls) = Used(list) /\ b \notin On(ls) /\ On(list) = On(ls) \cup {b}
    BY <1>1, <1>2, <1>3 DEF PoolOK, Used, On, ListName
  <1>6. PoolOK(ls, hash, blkno, state)
    BY <1>1, <1>2, <1>3, <1>5 DEF PoolOK, ListName
  <1> QED BY <1>3, <1>4, <1>5, <1>6

(* ... or the head of Clean or Dirty taken out of list and hash table.      *)
LEMMA TakingCached ==
  ASSUME IInv, NEW l \in {"clean", "dirty"}, list[l] # << >>
  PROVE  LET b  == Head(list[l])
             ls == ListWithout(b)
         IN  /\ b \in Buf /\ b \in Used(list) /\ b \in ToSet(list[l])
             /\ blkno[b] \in Block
             /\ b \notin On(ls) /\ PoolOK(ls, HashWithout(b), blkno, state)
             /\ Used(ls) = Used(list) \ {b}
             /\ ToSet(ls["clean"]) = ToSet(list["clean"]) \ {b}
             /\ On(list) = On(ls) \cup {b}
  <1> DEFINE b  == Head(list[l])
             ls == ListWithout(b)
  <1>1. /\ PoolOK(list, hash, blkno, state) /\ Fields
        /\ list[l] \in Seq(Buf) /\ IsInjective(list[l])
    BY DEF IInv, TypeOK, Fields, PoolOK, ListName
  <1>2. b \in ToSet(list[l]) /\ b \in Used(list) /\ b \in Buf
    BY <1>1, TailList, ToSetBuf DEF Used
  <1>3. blkno[b] \in Block
    BY <1>1, <1>2 DEF PoolOK
  <1> HIDE DEF b
  <1>4. /\ PoolOK(ls, HashWithout(b), blkno, state) /\ b \notin On(ls)
        /\ \A m \in ListName : ToSet(ls[m]) = ToSet(list[m]) \ {b}
    BY <1>1, <1>2, Deleting
  <1> HIDE DEF ls
  <1>5. /\ Used(ls) = Used(list) \ {b}
        /\ ToSet(ls["clean"]) = ToSet(list["clean"]) \ {b}
        /\ On(list) = On(ls) \cup {b}
    BY <1>2, <1>4 DEF Used, On, ListName
  <1> QED BY <1>2, <1>3, <1>4, <1>5 DEF b, ls

(* A miss served from Free, from Clean, and from Dirty.                     *)
LEMMA ReadFreeInv ==
  ASSUME IInv, NEW n \in CallNo, BufReadFree(n) PROVE IInv'
  <1> DEFINE b  == Head(list["free"])
             ls == [list EXCEPT !["free"] = Tail(list["free"])]
  <1>1. list["free"] # << >> /\ disk' = disk /\ Fill(b, n, ls, hash)
    BY DEF BufReadFree
  <1>2. /\ b \in Buf /\ b \notin On(ls) /\ PoolOK(ls, hash, blkno, state)
        /\ Used(ls) = Used(list) /\ ls["clean"] = list["clean"]
    BY <1>1, TakingFree
  <1>3. /\ disk' \in [Block -> Data]
        /\ \A c \in ToSet(ls["clean"]) : mem[c] = disk'[blkno[c]]
    BY <1>1, <1>2 DEF IInv, TypeOK, CleanIsOnDisk
  <1> HIDE DEF b, ls
  <1> QED BY <1>1, <1>2, <1>3, FillInv

(* Dropping a clean buffer is safe because the disk holds what it held.     *)
LEMMA ReadCleanInv ==
  ASSUME IInv, NEW n \in CallNo, BufReadClean(n) PROVE IInv'
  <1> DEFINE b  == Head(list["clean"])
             ls == ListWithout(b)
             h  == HashWithout(b)
  <1>1. list["clean"] # << >> /\ disk' = disk /\ Fill(b, n, ls, h)
    BY DEF BufReadClean
  <1>2. /\ b \in Buf /\ b \notin On(ls) /\ PoolOK(ls, h, blkno, state)
        /\ Used(ls) = Used(list) \ {b}
        /\ ToSet(ls["clean"]) = ToSet(list["clean"]) \ {b}
    BY <1>1, TakingCached
  <1> HIDE DEF b, ls, h
  <1>3. /\ disk' \in [Block -> Data]
        /\ \A c \in ToSet(ls["clean"]) : mem[c] = disk'[blkno[c]]
    BY <1>1, <1>2 DEF IInv, TypeOK, CleanIsOnDisk
  <1> QED BY <1>1, <1>2, <1>3, FillInv

(* A dirty victim is written back, with no clean buffer to fall out of step. *)
LEMMA ReadDirtyInv ==
  ASSUME IInv, NEW n \in CallNo, BufReadDirty(n) PROVE IInv'
  <1> DEFINE b  == Head(list["dirty"])
             ls == ListWithout(b)
             h  == HashWithout(b)
  <1>1. /\ list["clean"] = << >> /\ list["dirty"] # << >>
        /\ disk' = [disk EXCEPT ![blkno[b]] = mem[b]]
        /\ Fill(b, n, ls, h)
    BY DEF BufReadDirty, DevWriteBlock
  <1>2. /\ b \in Buf /\ b \notin On(ls) /\ PoolOK(ls, h, blkno, state)
        /\ Used(ls) = Used(list) \ {b} /\ blkno[b] \in Block
        /\ ToSet(ls["clean"]) = ToSet(list["clean"]) \ {b}
    BY <1>1, TakingCached
  <1> HIDE DEF b, ls, h
  <1>3. disk' \in [Block -> Data]
    BY <1>1, <1>2 DEF IInv, TypeOK
  <1>4. ToSet(ls["clean"]) = {}
    BY <1>1, <1>2, EmptyList
  <1> QED BY <1>1, <1>2, <1>3, <1>4, FillInv

(* Writing a cached buffer: its block may differ from the disk, but it is   *)
(* on Dirty now.                                                            *)
LEMMA StoreInv ==
  ASSUME IInv, NEW d \in Data, ~syncing, pBuf \in Used(list),
         mem' = [mem EXCEPT ![pBuf] = d],
         BufInsert(pBuf, blkno[pBuf], "dirty",
                   ListWithout(pBuf), HashWithout(pBuf)),
         UNCHANGED <<disk, pBuf, syncing, pWalker>>
  PROVE  IInv'
  <1>1. /\ PoolOK(list', hash', blkno', state') /\ Fields'
        /\ blkno' = blkno /\ pBuf \in Buf
        /\ \A m \in ListName :
              ToSet(list'[m]) = IF m = "dirty" THEN ToSet(list[m]) \cup {pBuf}
                                               ELSE ToSet(list[m]) \ {pBuf}
        /\ Used(list') = Used(list)
    BY Moving
  <1>2. CleanIsOnDisk'
    <2> SUFFICES ASSUME NEW c \in ToSet(list'["clean"])
                 PROVE  mem'[c] = disk'[blkno'[c]]
      BY DEF CleanIsOnDisk
    <2>1. c \in ToSet(list["clean"]) /\ c # pBuf
      BY <1>1 DEF ListName
    <2>2. mem'[c] = mem[c]
      <3>1. c \in Buf
        BY <2>1, ToSetBuf DEF IInv, PoolOK, ListName
      <3> QED BY <2>1, <3>1 DEF IInv, TypeOK
    <2> QED BY <1>1, <2>1, <2>2 DEF IInv, CleanIsOnDisk
  <1>3. TypeOK'
    BY <1>1 DEF IInv, TypeOK, PoolOK, Fields
  <1> QED BY <1>1, <1>2, <1>3 DEF IInv, WalkerAtHead, HandleOK

(* A buffer BufDelete accepts is cached, and a client's pointer that it     *)
(* does not accept is one BufRead(-1) lost.                                 *)
LEMMA DeletableIsCached ==
  ASSUME IInv, NEW b \in Buf
  PROVE  Deletable(b) <=> b \in Used(list)
  <1>1. ASSUME Deletable(b) PROVE b \in Used(list)
    BY <1>1 DEF Deletable, ListOf, Used
  <1>2. ASSUME b \in Used(list) PROVE Deletable(b)
    BY <1>2 DEF Deletable, ListOf, Used, IInv, PoolOK
  <1> QED BY <1>1, <1>2

(* BufWrite works on cached buffers only: it fails on any other.            *)
LEMMA WriteInv ==
  ASSUME IInv, NEW d \in Data, BufWrite(d) PROVE IInv'
  <1>1. pBuf \in Buf
    BY DEF BufWrite, IInv, TypeOK
  <1>2. pBuf \in Used(list)
    BY <1>1, DeletableIsCached DEF BufWrite
  <1> QED BY <1>2, StoreInv DEF BufWrite

(* An in-place write puts a cached buffer on Dirty; a lost one stays lost.  *)
LEMMA InPlaceInv ==
  ASSUME IInv, NEW d \in Data, WriteInPlace(d) PROVE IInv'
  <1>1. pBuf \in Buf /\ pBuf # NULL /\ ~syncing
        /\ mem' = [mem EXCEPT ![pBuf] = d]
        /\ UNCHANGED <<disk, pBuf, syncing, pWalker>>
    BY DEF WriteInPlace, IInv, TypeOK
  <1>2. CASE Deletable(pBuf)
    <2>1. pBuf \in Used(list)
      BY <1>1, <1>2, DeletableIsCached
    <2>2. BufInsert(pBuf, blkno[pBuf], "dirty",
                    ListWithout(pBuf), HashWithout(pBuf))
      BY <1>2 DEF WriteInPlace
    <2> QED BY <1>1, <2>1, <2>2, StoreInv
  <1>3. CASE ~Deletable(pBuf)
    <2>1. pBuf \notin Used(list) /\ blkno[pBuf] = INVALID
      BY <1>1, <1>3, DeletableIsCached DEF IInv, HandleOK
    <2>2. BufInsert(pBuf, INVALID, "dirty", list, hash)
      BY <1>3, <2>1 DEF WriteInPlace
    <2>3. list' = list /\ hash' = hash /\ state' = state
      BY <2>2 DEF BufInsert, INVALID
    <2>4. blkno' = blkno
      BY <1>1, <2>1, <2>2 DEF BufInsert, IInv, TypeOK
    <2>5. \A c \in ToSet(list["clean"]) : mem'[c] = mem[c]
      <3>1. \A c \in ToSet(list["clean"]) : c \in Buf /\ c # pBuf
        BY <2>1, ToSetBuf DEF IInv, PoolOK, ListName, Used
      <3> QED BY <1>1, <3>1 DEF IInv, TypeOK
    <2>6. mem' \in [Buf -> Data]
      BY <1>1 DEF IInv, TypeOK
    <2> QED BY <1>1, <2>3, <2>4, <2>5, <2>6
            DEF IInv, TypeOK, CleanIsOnDisk, WalkerAtHead, HandleOK
  <1> QED BY <1>2, <1>3

(* BufSync starts at the head of Dirty.                                     *)
LEMMA SyncInv ==
  ASSUME IInv, BufSync PROVE IInv'
  <1>1. FirstOf(list["dirty"]) \in Buf \cup {NULL}
    BY HeadTailProperties DEF FirstOf, IInv, TypeOK, ListName
  <1> QED BY <1>1 DEF BufSync, IInv, TypeOK, CleanIsOnDisk, WalkerAtHead, HandleOK

(* BufSync writes the head of Dirty, so what it appends to Clean is on the  *)
(* disk; and the link it read before is the new head of Dirty.              *)
LEMMA SyncOneInv ==
  ASSUME IInv, BufSyncOne PROVE IInv'
  <1> DEFINE b == pWalker
             s == list["dirty"]
  <1>1. /\ syncing /\ b # NULL
        /\ disk' = [disk EXCEPT ![blkno[b]] = mem[b]]
        /\ BufInsert(b, blkno[b], "clean", ListWithout(b), HashWithout(b))
        /\ pWalker' = After(s, b)
        /\ UNCHANGED <<mem, pBuf, syncing>>
    BY DEF BufSyncOne, DevWriteBlock
  <1>2. s \in Seq(Buf) /\ IsInjective(s) /\ b = FirstOf(s)
    BY <1>1 DEF IInv, PoolOK, WalkerAtHead, ListName
  <1>3. s # << >> /\ b = Head(s) /\ b \in ToSet(s)
    BY <1>1, <1>2, TailList DEF FirstOf
  <1>4. b \in Used(list) /\ b \in Buf
    BY <1>2, <1>3, ToSetBuf DEF Used
  <1>5. /\ PoolOK(list', hash', blkno', state') /\ Fields'
        /\ blkno' = blkno /\ blkno[b] \in Block
        /\ \A m \in ListName :
              ToSet(list'[m]) = IF m = "clean" THEN ToSet(list[m]) \cup {b}
                                               ELSE ToSet(list[m]) \ {b}
        /\ Used(list') = Used(list)
        /\ list' = [ListWithout(b) EXCEPT !["clean"] =
                       Append(ListWithout(b)["clean"], b)]
    BY <1>1, <1>4, Moving
  <1>6. state[b] = "dirty" /\ ListWithout(b) = [list EXCEPT !["dirty"] = Unlink(s, b)]
    BY <1>3 DEF IInv, PoolOK, ListWithout, ListOf
  <1>7. list'["dirty"] = Unlink(s, b)
    BY <1>5, <1>6 DEF IInv, PoolOK, ListName
  <1>8. WalkerAtHead'
    BY <1>1, <1>2, <1>3, <1>7, UnlinkList DEF WalkerAtHead
  <1>9. CleanIsOnDisk'
    <2> SUFFICES ASSUME NEW c \in ToSet(list'["clean"])
                 PROVE  mem[c] = disk'[blkno[c]]
      BY <1>1, <1>5 DEF CleanIsOnDisk
    <2>1. CASE c = b
      BY <2>1, <1>1, <1>5 DEF IInv, TypeOK
    <2>2. CASE c # b
      <3>1. c \in ToSet(list["clean"]) /\ c \in Used(list)
        BY <2>2, <1>5 DEF ListName, Used
      <3>2. blkno[c] # blkno[b]
        BY <2>2, <3>1, <1>4 DEF IInv, PoolOK
      <3>3. mem[c] = disk[blkno[c]] /\ blkno[c] \in Block
        BY <3>1 DEF IInv, CleanIsOnDisk, PoolOK
      <3> QED BY <3>2, <3>3, <1>1 DEF IInv, TypeOK
    <2> QED BY <2>1, <2>2
  <1>10. pWalker' \in Buf \cup {NULL}
    <2>1. Unlink(s, b) \in Seq(Buf) /\ pWalker' = FirstOf(Unlink(s, b))
      BY <1>1, <1>2, <1>3, UnlinkList
    <2> QED BY <2>1, HeadTailProperties DEF FirstOf
  <1>11. TypeOK'
    BY <1>1, <1>4, <1>5, <1>10 DEF IInv, TypeOK, PoolOK, Fields
  <1> QED BY <1>1, <1>5, <1>8, <1>9, <1>11 DEF IInv, HandleOK

(* The return of BufSync changes nothing the invariant speaks of.           *)
LEMMA SyncReturnInv ==
  ASSUME IInv, BufSyncReturn PROVE IInv'
  BY DEF BufSyncReturn, IInv, TypeOK, CleanIsOnDisk, WalkerAtHead, HandleOK

(* A crash leaves a new pool, which satisfies the invariant as Init does.   *)
LEMMA CrashInv ==
  ASSUME IInv, Crash PROVE IInv'
  <1> USE DEF Crash
  <1>1. /\ NewPool \in [ListName -> Seq(Buf)]
        /\ NewPool["clean"] = << >> /\ NewPool["dirty"] = << >>
        /\ NewPool["free"] = [i \in 1 .. NBuf |-> i]
    BY NewPoolLists
  <1>2. TypeOK'
    BY <1>1, DataAssumption DEF TypeOK, IInv
  <1>3. /\ ToSet(list'["clean"]) = {} /\ ToSet(list'["dirty"]) = {}
        /\ IsInjective(list'["clean"]) /\ IsInjective(list'["dirty"])
        /\ IsInjective(list'["free"])
    BY <1>1, EmptyList DEF IsInjective
  <1>4. Used(list') = {}
    BY <1>3 DEF Used
  <1>5. PoolOK(list', hash', blkno', state')
    BY <1>1, <1>3, <1>4 DEF PoolOK, ListName
  <1> QED BY <1>2, <1>3, <1>5 DEF IInv, CleanIsOnDisk, WalkerAtHead, HandleOK

(* The invariant is inductive: one step for each operation.                 *)
LEMMA NextIInv == IInv /\ [Next]_vars => IInv'
  <1> SUFFICES ASSUME IInv, [Next]_vars PROVE IInv'
    OBVIOUS
  <1>1. ASSUME NEW n \in CallNo, BufReadHit(n) PROVE IInv'
    BY <1>1, HitInv
  <1>2. ASSUME NEW n \in CallNo, BufReadFree(n) PROVE IInv'
    BY <1>2, ReadFreeInv
  <1>3. ASSUME NEW n \in CallNo, BufReadClean(n) PROVE IInv'
    BY <1>3, ReadCleanInv
  <1>4. ASSUME NEW n \in CallNo, BufReadDirty(n) PROVE IInv'
    BY <1>4, ReadDirtyInv
  <1>5. ASSUME NEW d \in Data, BufWrite(d) PROVE IInv'
    BY <1>5, WriteInv
  <1>6. ASSUME NEW d \in Data, WriteInPlace(d) PROVE IInv'
    BY <1>6, InPlaceInv
  <1>7. CASE BufSync
    BY <1>7, SyncInv
  <1>8. CASE BufSyncOne
    BY <1>8, SyncOneInv
  <1>9. CASE BufSyncReturn
    BY <1>9, SyncReturnInv
  <1>10. CASE Crash
    BY <1>10, CrashInv
  <1>11. CASE UNCHANGED vars
    BY <1>11 DEF vars, IInv, TypeOK, CleanIsOnDisk, WalkerAtHead, HandleOK
  <1> QED BY <1>1, <1>2, <1>3, <1>4, <1>5, <1>6, <1>7, <1>8, <1>9, <1>10, <1>11
          DEF Next

(* It holds of every reachable state.                                       *)
LEMMA SpecIInv == Spec => []IInv
  BY InitIInv, NextIInv, PTL DEF Spec

-----------------------------------------------------------------------------
(* The variables keep their types.                                          *)
THEOREM TypeCorrect == Spec => []TypeOK
  <1>1. IInv => TypeOK
    BY DEF IInv
  <1> QED BY <1>1, SpecIInv, PTL

(* No buffer is ever linked twice, on one list or on two.                   *)
THEOREM ListsStayDisjoint == Spec => []ListsDisjoint
  <1>1. IInv => ListsDisjoint
    BY DEF IInv, PoolOK, ListsDisjoint
  <1> QED BY <1>1, SpecIInv, PTL

(* The hash table always indexes exactly the buffers of Clean and Dirty.    *)
THEOREM HashStaysInStep == Spec => []HashAgrees
  <1>1. IInv => HashAgrees
    BY DEF IInv, PoolOK, HashAgrees, Used, Cached
  <1> QED BY <1>1, SpecIInv, PTL

(* A block is never in two buffers.                                         *)
THEOREM NoBlockCachedTwice == Spec => []OneBufferPerBlock
  <1>1. IInv => OneBufferPerBlock
    BY DEF IInv, PoolOK, OneBufferPerBlock, Used, Cached
  <1> QED BY <1>1, SpecIInv, PTL

(* A clean buffer always holds what the disk holds.                         *)
THEOREM CleanCanBeDropped == Spec => []CleanIsOnDisk
  <1>1. IInv => CleanIsOnDisk
    BY DEF IInv
  <1> QED BY <1>1, SpecIInv, PTL

-----------------------------------------------------------------------------
(* The refinement.  Content, in terms of the buffers that are cached.       *)
Holds(c) == /\ c \in [Block -> Data]
            /\ \A b \in Used(list) : c[blkno[b]] = mem[b]
            /\ \A n \in Block :
                  (\A b \in Used(list) : blkno[b] # n) => c[n] = disk[n]

(* Content is the function that agrees with the buffers and, elsewhere,     *)
(* with the disk.                                                           *)
LEMMA ContentHolds == IInv => Holds(Content)
  <1> SUFFICES ASSUME IInv PROVE Holds(Content)
    OBVIOUS
  <1>1. Cached = Used(list)
    BY DEF Cached, Used
  <1>2. /\ \A b \in Used(list) : blkno[b] \in Block /\ b \in Buf
        /\ \A b, c \in Used(list) : blkno[b] = blkno[c] => b = c
    BY ToSetBuf DEF IInv, PoolOK, Used, ListName
  <1>3. \A b \in Used(list) : BufferOf(blkno[b]) = b /\ IsCached(blkno[b])
    BY <1>1, <1>2 DEF BufferOf, IsCached
  <1>4. \A n \in Block : IsCached(n) => BufferOf(n) \in Used(list)
    BY <1>1 DEF BufferOf, IsCached
  <1>5. Content \in [Block -> Data]
    <2>1. \A n \in Block : IsCached(n) => mem[BufferOf(n)] \in Data
      BY <1>2, <1>4 DEF IInv, TypeOK
    <2>2. \A n \in Block : disk[n] \in Data
      BY DEF IInv, TypeOK
    <2> QED BY <2>1, <2>2 DEF Content
  <1>6. \A b \in Used(list) : Content[blkno[b]] = mem[b]
    BY <1>2, <1>3 DEF Content
  <1>7. ASSUME NEW n \in Block, \A b \in Used(list) : blkno[b] # n
        PROVE  Content[n] = disk[n]
    BY <1>1, <1>7 DEF Content, IsCached
  <1> QED BY <1>5, <1>6, <1>7 DEF Holds

(* The same after a step.                                                   *)
LEMMA ContentHoldsNext == IInv' => Holds(Content)'
  BY ContentHolds, PTL

(* Two functions that hold what the cache holds are one.                    *)
LEMMA ContentUnique ==
  ASSUME NEW c \in [Block -> Data], NEW e \in [Block -> Data],
         \A n \in Block : c[n] = e[n]
  PROVE  c = e
  OBVIOUS

(* A hit is a fetch that writes nothing back.                               *)
LEMMA HitRefines ==
  ASSUME IInv, IInv', NEW n \in CallNo, BufReadHit(n)
  PROVE  Abstract!Fetch(n)
  <1>1. PICK b \in BufFind(n) :
          /\ ~syncing
          /\ BufInsert(b, n, state[b], ListWithout(b), HashWithout(b))
          /\ pBuf' = b
          /\ UNCHANGED <<disk, mem, syncing, pWalker>>
    BY DEF BufReadHit
  <1>2. b \in Used(list) /\ blkno[b] = n
    BY Finding
  <1>3. state[b] \in {"clean", "dirty"}
    BY <1>2 DEF IInv, PoolOK, Used
  <1>4. blkno' = blkno /\ Used(list') = Used(list)
    BY <1>1, <1>2, <1>3, Moving
  <1>5. Content' = Content
    <2>1. Holds(Content) /\ Holds(Content)'
      BY ContentHolds, ContentHoldsNext
    <2>2. \A m \in Block : Content'[m] = Content[m]
      BY <1>1, <1>4, <2>1 DEF Holds
    <2> QED BY <2>1, <2>2, ContentUnique DEF Holds
  <1>6. Cur' = n
    BY <1>1, <1>2, <1>4 DEF Cur, Cached, Used
  <1> QED BY <1>1, <1>5, <1>6 DEF Abstract!Fetch, Abstract!WriteBackOne

(* A miss changes no content: the block that loses its buffer is on the     *)
(* disk by then, and the one that gets it is read from there.               *)
LEMMA FillKeepsContent ==
  ASSUME IInv, IInv', NEW n \in CallNo, NEW b \in Buf, NEW ls, NEW h,
         PoolOK(ls, h, blkno, state), b \notin On(ls),
         Used(ls) \subseteq Used(list),
         \A m \in Block :
            (\A c \in Used(ls) : blkno[c] # m) => disk'[m] = Content[m],
         Fill(b, n, ls, h)
  PROVE  Content' = Content /\ Cur' = n /\ ~syncing /\ syncing' = syncing
  <1>1. n \in Block \cup {INVALID} /\ \A c \in Used(ls) : blkno[c] # n
    BY Finding DEF Fill
  <1>2. PICK d \in DevReadBlock(n) : mem' = [mem EXCEPT ![b] = d]
    BY DEF Fill
  <1>3. BufInsert(b, n, "clean", ls, h) /\ pBuf' = b /\ ~syncing
        /\ syncing' = syncing
    BY DEF Fill
  <1>4. Fields
    BY DEF IInv, TypeOK, Fields
  <1>5. /\ blkno' = [blkno EXCEPT ![b] = n]
        /\ n = INVALID => Used(list') = Used(ls)
        /\ n # INVALID => Used(list') = Used(ls) \cup {b}
    <2>1. CanInsert(b, n, "clean", ls, h)
      BY <1>1, <1>4 DEF CanInsert
    <2>2. Inserted(b, n, "clean", ls)
      BY <1>3, <2>1, Inserting
    <2> QED BY <2>2 DEF Inserted, Used, ListName
  <1>6. blkno'[b] = n /\ \A c \in Buf : c # b => blkno'[c] = blkno[c]
    BY <1>4, <1>5 DEF Fields
  <1>7. \A c \in Used(ls) : /\ c \in Buf /\ c # b
                            /\ blkno'[c] = blkno[c] /\ mem'[c] = mem[c]
    <2>1. \A c \in Used(ls) : c \in Buf /\ c # b
      BY ToSetBuf DEF PoolOK, Used, On, ListName
    <2> QED BY <2>1, <1>2, <1>6 DEF IInv, TypeOK
  <1>8. Holds(Content) /\ Holds(Content)'
    BY ContentHolds, ContentHoldsNext
  <1>9. ASSUME NEW m \in Block PROVE Content'[m] = Content[m]
    <2>1. CASE \E c \in Used(ls) : blkno[c] = m
      <3>1. PICK c \in Used(ls) : blkno[c] = m
        BY <2>1
      <3>2. c \in Used(list) /\ c \in Used(list') /\ blkno'[c] = m
        BY <1>1, <1>5, <1>7, <3>1
      <3> QED BY <1>7, <1>8, <3>1, <3>2 DEF Holds
    <2>2. CASE \A c \in Used(ls) : blkno[c] # m
      <3>1. CASE m = n
        <4>1. b \in Used(list') /\ n # INVALID
          BY <3>1, <1>5, BlockAssumption DEF INVALID
        <4>2. mem'[b] = d /\ d = disk'[n]
          BY <3>1, <1>2 DEF IInv, TypeOK, DevReadBlock
        <4> QED BY <2>2, <3>1, <4>1, <4>2, <1>6, <1>8 DEF Holds
      <3>2. CASE m # n
        <4>1. \A c \in Used(list') : blkno'[c] # m
          BY <2>2, <3>2, <1>1, <1>5, <1>6, <1>7
        <4> QED BY <2>2, <4>1, <1>8 DEF Holds
      <3> QED BY <3>1, <3>2
    <2> QED BY <2>1, <2>2
  <1>10. Content' = Content
    BY <1>8, <1>9, ContentUnique DEF Holds
  <1>11. Cur' = n
    <2>1. CASE n = INVALID
      <3>1. b \notin Used(list')
        BY <2>1, <1>5 DEF Used, On
      <3> QED BY <2>1, <3>1, <1>3 DEF Cur, Cached, Used
    <2>2. CASE n # INVALID
      BY <2>2, <1>3, <1>5, <1>6 DEF Cur, Cached, Used
    <2> QED BY <2>1, <2>2
  <1> QED BY <1>3, <1>10, <1>11

(* A miss served from Free is a fetch.                                      *)
LEMMA ReadFreeRefines ==
  ASSUME IInv, IInv', NEW n \in CallNo, BufReadFree(n)
  PROVE  Abstract!Fetch(n)
  <1> DEFINE b  == Head(list["free"])
             ls == [list EXCEPT !["free"] = Tail(list["free"])]
  <1>1. list["free"] # << >> /\ disk' = disk /\ Fill(b, n, ls, hash)
    BY DEF BufReadFree
  <1>2. b \in Buf /\ PoolOK(ls, hash, blkno, state) /\ b \notin On(ls)
        /\ Used(ls) = Used(list)
    BY <1>1, TakingFree
  <1>3. \A m \in Block :
           (\A c \in Used(ls) : blkno[c] # m) => disk'[m] = Content[m]
    BY <1>1, <1>2, ContentHolds DEF Holds
  <1> HIDE DEF b, ls
  <1>4. Content' = Content /\ Cur' = n /\ ~syncing /\ syncing' = syncing
    BY <1>1, <1>2, <1>3, FillKeepsContent
  <1> QED BY <1>1, <1>4 DEF Abstract!Fetch, Abstract!WriteBackOne

(* A miss that drops a clean buffer is one too.                             *)
LEMMA ReadCleanRefines ==
  ASSUME IInv, IInv', NEW n \in CallNo, BufReadClean(n)
  PROVE  Abstract!Fetch(n)
  <1> DEFINE b  == Head(list["clean"])
             ls == ListWithout(b)
             h  == HashWithout(b)
  <1>1. list["clean"] # << >> /\ disk' = disk /\ Fill(b, n, ls, h)
    BY DEF BufReadClean
  <1>2. /\ b \in Buf /\ PoolOK(ls, h, blkno, state) /\ b \notin On(ls)
        /\ b \in ToSet(list["clean"]) /\ Used(ls) = Used(list) \ {b}
    BY <1>1, TakingCached
  <1> HIDE DEF b, ls, h
  <1>3. ASSUME NEW m \in Block, \A c \in Used(ls) : blkno[c] # m
        PROVE  disk'[m] = Content[m]
    <2>1. CASE m = blkno[b]
      BY <2>1, <1>1, <1>2, ContentHolds DEF Holds, Used, IInv, CleanIsOnDisk
    <2>2. CASE m # blkno[b]
      BY <2>2, <1>1, <1>2, <1>3, ContentHolds DEF Holds
    <2> QED BY <2>1, <2>2
  <1>4. Content' = Content /\ Cur' = n /\ ~syncing /\ syncing' = syncing
    BY <1>1, <1>2, <1>3, FillKeepsContent
  <1> QED BY <1>1, <1>4 DEF Abstract!Fetch, Abstract!WriteBackOne

(* A miss that evicts a dirty buffer is a fetch that makes it durable.      *)
LEMMA ReadDirtyRefines ==
  ASSUME IInv, IInv', NEW n \in CallNo, BufReadDirty(n)
  PROVE  Abstract!Fetch(n)
  <1> DEFINE b  == Head(list["dirty"])
             ls == ListWithout(b)
             h  == HashWithout(b)
  <1>1. /\ list["dirty"] # << >>
        /\ disk' = [disk EXCEPT ![blkno[b]] = mem[b]]
        /\ Fill(b, n, ls, h)
    BY DEF BufReadDirty, DevWriteBlock
  <1>2. /\ b \in Buf /\ PoolOK(ls, h, blkno, state) /\ b \notin On(ls)
        /\ b \in Used(list) /\ Used(ls) = Used(list) \ {b}
        /\ blkno[b] \in Block
    BY <1>1, TakingCached
  <1> HIDE DEF b, ls, h
  <1>3. disk' = [disk EXCEPT ![blkno[b]] = Content[blkno[b]]]
    BY <1>1, <1>2, ContentHolds DEF Holds
  <1>4. ASSUME NEW m \in Block, \A c \in Used(ls) : blkno[c] # m
        PROVE  disk'[m] = Content[m]
    <2>1. CASE m = blkno[b]
      BY <2>1, <1>3 DEF IInv, TypeOK
    <2>2. CASE m # blkno[b]
      <3>1. disk'[m] = disk[m]
        BY <2>2, <1>3 DEF IInv, TypeOK
      <3> QED BY <2>2, <3>1, <1>2, <1>4, ContentHolds DEF Holds
    <2> QED BY <2>1, <2>2
  <1>5. Content' = Content /\ Cur' = n /\ ~syncing /\ syncing' = syncing
    BY <1>1, <1>2, <1>4, FillKeepsContent
  <1> QED BY <1>2, <1>3, <1>5 DEF Abstract!Fetch, Abstract!WriteBackOne

(* BufWrite, or an in-place write of a cached buffer, is a store.           *)
LEMMA StoreRefines ==
  ASSUME IInv, IInv', NEW d \in Data, ~syncing, pBuf \in Used(list),
         mem' = [mem EXCEPT ![pBuf] = d],
         BufInsert(pBuf, blkno[pBuf], "dirty",
                   ListWithout(pBuf), HashWithout(pBuf)),
         UNCHANGED <<disk, pBuf, syncing, pWalker>>
  PROVE  Abstract!Store(d)
  <1>1. /\ blkno' = blkno /\ blkno[pBuf] \in Block
        /\ pBuf \in Buf /\ Used(list') = Used(list)
    BY Moving
  <1>2. Cur = blkno[pBuf] /\ Cur' = Cur
    BY <1>1 DEF Cur, Cached, Used
  <1>3. Holds(Content) /\ Holds(Content)'
    BY ContentHolds, ContentHoldsNext
  <1> DEFINE e == [Content EXCEPT ![Cur] = d]
  <1>4. e \in [Block -> Data]
    BY <1>3 DEF Holds
  <1>5. ASSUME NEW m \in Block PROVE Content'[m] = e[m]
    <2>1. CASE m = blkno[pBuf]
      <3>1. e[m] = d /\ mem'[pBuf] = d
        BY <2>1, <1>1, <1>2, <1>3 DEF Holds, IInv, TypeOK
      <3> QED BY <2>1, <3>1, <1>1, <1>3 DEF Holds
    <2>2. CASE m # blkno[pBuf]
      <3>1. e[m] = Content[m]
        BY <2>2, <1>2, <1>3 DEF Holds
      <3>2. CASE \E c \in Used(list) : blkno[c] = m
        <4>1. PICK c \in Used(list) : blkno[c] = m
          BY <3>2
        <4>2. c # pBuf /\ mem'[c] = mem[c]
          <5>1. c \in Buf
            BY <4>1, ToSetBuf DEF Used, IInv, PoolOK, ListName
          <5> QED BY <4>1, <5>1, <2>2 DEF IInv, TypeOK
        <4> QED BY <3>1, <4>1, <4>2, <1>1, <1>3 DEF Holds
      <3>3. CASE \A c \in Used(list) : blkno[c] # m
        BY <3>1, <3>3, <1>1, <1>3 DEF Holds
      <3> QED BY <3>2, <3>3
    <2> QED BY <2>1, <2>2
  <1>6. Content' = e
    <2> HIDE DEF e
    <2> QED BY <1>3, <1>4, <1>5, ContentUnique DEF Holds
  <1> QED BY <1>1, <1>2, <1>6 DEF Abstract!Store

(* BufWrite fails on a buffer that is on no list.                           *)
LEMMA WriteRefines ==
  ASSUME IInv, IInv', NEW d \in Data, BufWrite(d) PROVE Abstract!Store(d)
  <1>1. pBuf \in Used(list)
    BY DeletableIsCached DEF BufWrite, IInv, TypeOK
  <1> QED BY <1>1, StoreRefines DEF BufWrite

(* What is written into a lost buffer reaches no block: a stutter.          *)
LEMMA InPlaceRefines ==
  ASSUME IInv, IInv', NEW d \in Data, WriteInPlace(d)
  PROVE  Abstract!Store(d) \/ UNCHANGED Abstract!vars
  <1>1. pBuf \in Buf /\ ~syncing
        /\ mem' = [mem EXCEPT ![pBuf] = d]
        /\ UNCHANGED <<disk, pBuf, syncing, pWalker>>
    BY DEF WriteInPlace, IInv, TypeOK
  <1>2. CASE Deletable(pBuf)
    <2>1. pBuf \in Used(list)
      BY <1>1, <1>2, DeletableIsCached
    <2>2. BufInsert(pBuf, blkno[pBuf], "dirty",
                    ListWithout(pBuf), HashWithout(pBuf))
      BY <1>2 DEF WriteInPlace
    <2> QED BY <1>1, <2>1, <2>2, StoreRefines
  <1>3. CASE ~Deletable(pBuf)
    <2>1. pBuf \notin Used(list) /\ blkno[pBuf] = INVALID
      BY <1>1, <1>3, DeletableIsCached DEF IInv, HandleOK, WriteInPlace
    <2>2. BufInsert(pBuf, INVALID, "dirty", list, hash)
      BY <1>3, <2>1 DEF WriteInPlace
    <2>3. list' = list /\ blkno' = blkno
      BY <1>1, <2>1, <2>2 DEF BufInsert, INVALID, IInv, TypeOK
    <2>4. \A c \in Used(list) : mem'[c] = mem[c]
      <3>1. \A c \in Used(list) : c \in Buf /\ c # pBuf
        BY <2>1, ToSetBuf DEF IInv, PoolOK, ListName, Used
      <3> QED BY <1>1, <3>1 DEF IInv, TypeOK
    <2>5. Holds(Content) /\ Holds(Content)'
      BY ContentHolds, ContentHoldsNext
    <2>6. \A m \in Block : Content'[m] = Content[m]
      BY <1>1, <2>3, <2>4, <2>5 DEF Holds
    <2>7. Content' = Content
      BY <2>5, <2>6, ContentUnique DEF Holds
    <2>8. Cur' = Cur
      BY <1>1, <2>3 DEF Cur, Cached
    <2> QED BY <1>1, <2>7, <2>8 DEF Abstract!vars
  <1> QED BY <1>2, <1>3

(* A step that changes no buffer, list or block changes no content.         *)
LEMMA SameContent ==
  ASSUME UNCHANGED <<disk, blkno, mem, list, pBuf>>
  PROVE  Content' = Content /\ Cur' = Cur
  BY DEF Content, Cur, IsCached, BufferOf, Cached

(* BufSync begins.                                                          *)
LEMMA SyncRefines ==
  ASSUME BufSync PROVE Abstract!BeginSync
  BY SameContent DEF BufSync, Abstract!BeginSync

(* One turn of its loop makes one block durable.                            *)
LEMMA SyncOneRefines ==
  ASSUME IInv, IInv', BufSyncOne PROVE Abstract!SyncOne
  <1> DEFINE b == pWalker
  <1>1. /\ syncing /\ b # NULL
        /\ disk' = [disk EXCEPT ![blkno[b]] = mem[b]]
        /\ BufInsert(b, blkno[b], "clean", ListWithout(b), HashWithout(b))
        /\ UNCHANGED <<mem, pBuf, syncing>>
    BY DEF BufSyncOne, DevWriteBlock
  <1>2. b \in Used(list)
    <2>1. b = FirstOf(list["dirty"]) /\ list["dirty"] # << >>
      BY <1>1 DEF IInv, WalkerAtHead, FirstOf
    <2>2. list["dirty"] \in Seq(Buf) /\ IsInjective(list["dirty"])
      BY DEF IInv, PoolOK, ListName
    <2> QED BY <2>1, <2>2, TailList DEF FirstOf, Used
  <1>3. blkno' = blkno /\ blkno[b] \in Block /\ Used(list') = Used(list)
    BY <1>1, <1>2, Moving
  <1>4. Holds(Content) /\ Holds(Content)'
    BY ContentHolds, ContentHoldsNext
  <1>5. disk' = [disk EXCEPT ![blkno[b]] = Content[blkno[b]]]
    BY <1>1, <1>2, <1>4 DEF Holds
  <1>6. \A m \in Block : Content'[m] = Content[m]
    <2>1. ASSUME NEW m \in Block, \A c \in Used(list) : blkno[c] # m
          PROVE  disk'[m] = disk[m]
      BY <2>1, <1>2, <1>5 DEF IInv, TypeOK
    <2> QED BY <2>1, <1>1, <1>3, <1>4 DEF Holds
  <1>7. Content' = Content
    BY <1>4, <1>6, ContentUnique DEF Holds
  <1>8. Cur' = Cur
    BY <1>1, <1>3 DEF Cur, Cached, Used
  <1> QED BY <1>1, <1>3, <1>5, <1>7, <1>8 DEF Abstract!SyncOne

(* When BufSync returns, Dirty is empty and every clean buffer is on the    *)
(* disk: a crash would lose nothing.                                        *)
LEMMA SyncReturnRefines ==
  ASSUME IInv, BufSyncReturn PROVE Abstract!EndSync
  <1>1. list["dirty"] = << >>
    <2>1. FirstOf(list["dirty"]) = NULL /\ list["dirty"] \in Seq(Buf)
      BY DEF BufSyncReturn, IInv, WalkerAtHead, PoolOK, ListName
    <2>2. list["dirty"] # << >> => Head(list["dirty"]) \in Buf
      BY <2>1, HeadTailProperties
    <2> QED BY <2>1, <2>2 DEF FirstOf, Buf, NULL
  <1>2. Used(list) = ToSet(list["clean"])
    BY <1>1, EmptyList DEF Used
  <1>3. \A n \in Block : Content[n] = disk[n]
    <2>1. Holds(Content)
      BY ContentHolds
    <2> QED BY <2>1, <1>2 DEF Holds, IInv, CleanIsOnDisk
  <1>4. disk = Content
    <2>1. Content \in [Block -> Data] /\ disk \in [Block -> Data]
      BY ContentHolds DEF Holds, IInv, TypeOK
    <2> QED BY <2>1, <1>3, ContentUnique
  <1> QED BY <1>4, SameContent DEF BufSyncReturn, Abstract!EndSync

(* With an empty cache the program reads the disk.                          *)
LEMMA EmptyCache ==
  ASSUME disk \in [Block -> Data],
         list["clean"] = << >>, list["dirty"] = << >>
  PROVE  Content = disk /\ (pBuf = NULL => Cur = INVALID)
  <1>1. Cached = {}
    BY EmptyList DEF Cached
  <1> QED BY <1>1 DEF Content, IsCached, Cur

(* The same after a step.                                                   *)
LEMMA EmptyCacheNext ==
  ASSUME disk' \in [Block -> Data],
         list'["clean"] = << >>, list'["dirty"] = << >>
  PROVE  Content' = disk' /\ (pBuf' = NULL => Cur' = INVALID)
  <1>1. Cached' = {}
    BY EmptyList DEF Cached
  <1> QED BY <1>1 DEF Content, IsCached, Cur

(* A crash leaves what the disk holds.                                      *)
LEMMA CrashRefines ==
  ASSUME IInv, Crash PROVE Abstract!Crash
  <1>1. /\ disk' = disk /\ disk \in [Block -> Data]
        /\ list'["clean"] = << >> /\ list'["dirty"] = << >>
        /\ pBuf' = NULL /\ syncing' = FALSE
    BY NewPoolLists DEF Crash, IInv, TypeOK
  <1> QED BY <1>1, EmptyCacheNext DEF Abstract!Crash

(* A pool Init() has built is an empty cache.                               *)
LEMMA InitRefines == Init => Abstract!Init
  <1> SUFFICES ASSUME Init PROVE Abstract!Init
    OBVIOUS
  <1>1. /\ disk \in [Block -> Data]
        /\ list["clean"] = << >> /\ list["dirty"] = << >>
        /\ pBuf = NULL /\ syncing = FALSE
    BY NewPoolLists DEF Init
  <1> QED BY <1>1, EmptyCache DEF Abstract!Init

(* Every operation of the cache is one of the store, or a stutter.          *)
LEMMA NextRefines ==
  ASSUME IInv, IInv', [Next]_vars PROVE [Abstract!Next]_(Abstract!vars)
  <1>1. ASSUME NEW n \in CallNo,
               \/ BufReadHit(n) \/ BufReadFree(n)
               \/ BufReadClean(n) \/ BufReadDirty(n)
        PROVE  Abstract!Next
    <2>1. Abstract!Fetch(n)
      BY <1>1, HitRefines, ReadFreeRefines, ReadCleanRefines, ReadDirtyRefines
    <2>2. n \in Block \cup {INVALID}
      BY CallAssumption
    <2> QED BY <2>1, <2>2 DEF Abstract!Next
  <1>2. ASSUME NEW d \in Data, BufWrite(d) PROVE Abstract!Next
    BY <1>2, WriteRefines DEF Abstract!Next
  <1>3. ASSUME NEW d \in Data, WriteInPlace(d)
        PROVE  Abstract!Next \/ UNCHANGED Abstract!vars
    BY <1>3, InPlaceRefines DEF Abstract!Next
  <1>4. CASE BufSync
    BY <1>4, SyncRefines DEF Abstract!Next
  <1>5. CASE BufSyncOne
    BY <1>5, SyncOneRefines DEF Abstract!Next
  <1>6. CASE BufSyncReturn
    BY <1>6, SyncReturnRefines DEF Abstract!Next
  <1>7. CASE Crash
    BY <1>7, CrashRefines DEF Abstract!Next
  <1>8. CASE UNCHANGED vars
    BY <1>8, SameContent DEF vars, Abstract!vars
  <1> QED BY <1>1, <1>2, <1>3, <1>4, <1>5, <1>6, <1>7, <1>8 DEF Next

(* The cache implements the store of BlockStore: what is read back is what  *)
(* was written last, the disk only ever gets values its blocks had, and     *)
(* BufSync returns with everything durable.                                 *)
THEOREM Refinement == Spec => ImplementsBlockStore
  <1>1. Init => Abstract!Init
    BY InitRefines
  <1>2. IInv /\ IInv' /\ [Next]_vars => [Abstract!Next]_(Abstract!vars)
    BY NextRefines
  <1> QED BY <1>1, <1>2, SpecIInv, PTL DEF Spec, ImplementsBlockStore, Abstract!Spec

-----------------------------------------------------------------------------
(* No step but a BufRead(-1) takes a buffer off the lists.                  *)
LostStep == pBuf' # NULL /\ blkno'[pBuf'] = INVALID /\ INVALID \in CallNo

(* A miss puts the buffer it took back on a list, unless it was for -1.     *)
LEMMA FillKeepsBuffers ==
  ASSUME IInv, NEW n \in CallNo, NEW b \in Buf, NEW ls, NEW h,
         PoolOK(ls, h, blkno, state), b \notin On(ls),
         Used(ls) \subseteq Used(list), On(list) = On(ls) \cup {b},
         Fill(b, n, ls, h)
  PROVE  On(list) \subseteq On(list') \/ LostStep
  <1>1. n \in Block \cup {INVALID} /\ \A c \in Used(ls) : blkno[c] # n
    BY Finding DEF Fill
  <1>2. BufInsert(b, n, "clean", ls, h) /\ pBuf' = b
    BY DEF Fill
  <1>3. Fields
    BY DEF IInv, TypeOK, Fields
  <1>4. Inserted(b, n, "clean", ls)
    <2>1. CanInsert(b, n, "clean", ls, h)
      BY <1>1, <1>3 DEF CanInsert
    <2> QED BY <1>2, <2>1, Inserting
  <1>5. CASE n = INVALID
    <2>1. blkno'[b] = INVALID /\ b # NULL
      BY <1>3, <1>4, <1>5 DEF Inserted, Fields, Buf, NULL
    <2> QED BY <2>1, <1>2, <1>5 DEF LostStep
  <1>6. CASE n # INVALID
    BY <1>4, <1>6 DEF Inserted, On, ListName
  <1> QED BY <1>5, <1>6

(* Moving a buffer between Clean and Dirty loses none.                      *)
LEMMA MovingKeepsBuffers ==
  ASSUME IInv, NEW b \in Used(list), NEW l \in {"clean", "dirty"},
         BufInsert(b, blkno[b], l, ListWithout(b), HashWithout(b))
  PROVE  On(list) \subseteq On(list')
  <1>1. /\ Used(list') = Used(list)
        /\ \A m \in ListName :
               ToSet(list'[m]) = IF m = l THEN ToSet(list[m]) \cup {b}
                                          ELSE ToSet(list[m]) \ {b}
    BY Moving
  <1>2. b \notin ToSet(list["free"])
    BY DEF IInv, PoolOK, Used, ListName
  <1>3. ToSet(list'["free"]) = ToSet(list["free"])
    BY <1>1, <1>2 DEF ListName
  <1> QED BY <1>1, <1>3 DEF On, Used

(* One case for each operation that changes a list.                         *)
LEMMA NextKeepsBuffers ==
  ASSUME IInv, IInv', [Next]_vars
  PROVE  On(list) \subseteq On(list') \/ LostStep
  <1>1. ASSUME NEW n \in CallNo, BufReadHit(n) PROVE On(list) \subseteq On(list')
    <2>1. PICK b \in BufFind(n) :
             BufInsert(b, n, state[b], ListWithout(b), HashWithout(b))
      BY <1>1 DEF BufReadHit
    <2>2. b \in Used(list) /\ blkno[b] = n /\ state[b] \in {"clean", "dirty"}
      BY Finding DEF IInv, PoolOK, Used
    <2> QED BY <2>1, <2>2, MovingKeepsBuffers
  <1>2. ASSUME NEW n \in CallNo, BufReadFree(n)
        PROVE  On(list) \subseteq On(list') \/ LostStep
    BY <1>2, TakingFree, FillKeepsBuffers DEF BufReadFree
  <1>3. ASSUME NEW n \in CallNo, BufReadClean(n)
        PROVE  On(list) \subseteq On(list') \/ LostStep
    <2> DEFINE b == Head(list["clean"])
    <2>1. list["clean"] # << >> /\ Fill(b, n, ListWithout(b), HashWithout(b))
      BY <1>3 DEF BufReadClean
    <2>2. /\ b \in Buf /\ b \notin On(ListWithout(b))
          /\ PoolOK(ListWithout(b), HashWithout(b), blkno, state)
          /\ Used(ListWithout(b)) = Used(list) \ {b}
          /\ On(list) = On(ListWithout(b)) \cup {b}
      BY <2>1, TakingCached
    <2> HIDE DEF b
    <2> QED BY <2>1, <2>2, FillKeepsBuffers
  <1>4. ASSUME NEW n \in CallNo, BufReadDirty(n)
        PROVE  On(list) \subseteq On(list') \/ LostStep
    <2> DEFINE b == Head(list["dirty"])
    <2>1. list["dirty"] # << >> /\ Fill(b, n, ListWithout(b), HashWithout(b))
      BY <1>4 DEF BufReadDirty, DevWriteBlock
    <2>2. /\ b \in Buf /\ b \notin On(ListWithout(b))
          /\ PoolOK(ListWithout(b), HashWithout(b), blkno, state)
          /\ Used(ListWithout(b)) = Used(list) \ {b}
          /\ On(list) = On(ListWithout(b)) \cup {b}
      BY <2>1, TakingCached
    <2> HIDE DEF b
    <2> QED BY <2>1, <2>2, FillKeepsBuffers
  <1>5. ASSUME NEW d \in Data, BufWrite(d) \/ WriteInPlace(d)
        PROVE  On(list) \subseteq On(list')
    <2>1. pBuf \in Buf
      BY <1>5 DEF BufWrite, WriteInPlace, IInv, TypeOK
    <2>2. CASE Deletable(pBuf)
      <3>1. pBuf \in Used(list)
        BY <2>1, <2>2, DeletableIsCached
      <3>2. BufInsert(pBuf, blkno[pBuf], "dirty",
                      ListWithout(pBuf), HashWithout(pBuf))
        BY <1>5, <2>2 DEF BufWrite, WriteInPlace
      <3> QED BY <3>1, <3>2, MovingKeepsBuffers
    <2>3. CASE ~Deletable(pBuf)
      <3>1. pBuf # NULL /\ BufInsert(pBuf, blkno[pBuf], "dirty", list, hash)
        BY <1>5, <2>3 DEF BufWrite, WriteInPlace
      <3>2. blkno[pBuf] = INVALID
        BY <2>1, <2>3, <3>1, DeletableIsCached DEF IInv, HandleOK
      <3>3. list' = list
        BY <3>1, <3>2 DEF BufInsert, INVALID
      <3> QED BY <3>3
    <2> QED BY <2>2, <2>3
  <1>6. CASE BufSync \/ BufSyncReturn
    BY <1>6 DEF BufSync, BufSyncReturn
  <1>7. CASE BufSyncOne
    <2>1. pWalker \in Used(list)
      <3>1. pWalker = FirstOf(list["dirty"]) /\ list["dirty"] # << >>
        BY <1>7 DEF BufSyncOne, IInv, WalkerAtHead, FirstOf
      <3>2. list["dirty"] \in Seq(Buf) /\ IsInjective(list["dirty"])
        BY DEF IInv, PoolOK, ListName
      <3> QED BY <3>1, <3>2, TailList DEF FirstOf, Used
    <2> QED BY <2>1, <1>7, MovingKeepsBuffers DEF BufSyncOne, DevWriteBlock
  <1>8. CASE Crash
    <2>1. list'["free"] = [i \in 1 .. NBuf |-> i]
      BY <1>8, NewPoolLists DEF Crash
    <2>2. ToSet(list'["free"]) = Buf
      BY <2>1 DEF ToSet, Buf
    <2>3. On(list) \subseteq Buf
      BY ToSetBuf DEF On, IInv, PoolOK, ListName
    <2> QED BY <2>2, <2>3 DEF On
  <1>9. CASE UNCHANGED vars
    BY <1>9 DEF vars
  <1> QED BY <1>1, <1>2, <1>3, <1>4, <1>5, <1>6, <1>7, <1>8, <1>9 DEF Next

(* The lists lose a buffer only to a BufRead(-1).                           *)
THEOREM OnlyInvalidReadLoses == Spec => LostOnlyByInvalidRead
  <1>1. ASSUME IInv, IInv', [Next]_vars
        PROVE  [\/ OnList \subseteq OnList'
                \/ pBuf' # NULL /\ blkno'[pBuf'] = INVALID]_vars
    <2>1. OnList = On(list) /\ OnList' = On(list')
      BY DEF OnList, Cached, On
    <2> QED BY <1>1, <2>1, NextKeepsBuffers DEF LostStep
  <1> QED BY <1>1, SpecIInv, PTL DEF Spec, LostOnlyByInvalidRead

(* With clients that never ask for block -1, no buffer is ever lost, and so *)
(* BufGetNewBuffer always finds one.                                        *)
THEOREM PoolStaysWhole ==
  ASSUME INVALID \notin CallNo
  PROVE  Spec => [](PoolWhole /\ SomeBufferLeft)
  <1>1. OnList = On(list) /\ (IInv => OnList \subseteq Buf)
    BY ToSetBuf DEF OnList, Cached, On, IInv, PoolOK, ListName
  <1>2. (IInv => OnList \subseteq Buf)'
    BY <1>1, PTL
  <1>3. Init => PoolWhole
    <2> SUFFICES ASSUME Init PROVE Buf \subseteq OnList /\ OnList \subseteq Buf
      BY DEF PoolWhole
    <2>1. list["free"] = [i \in 1 .. NBuf |-> i]
      BY NewPoolLists DEF Init
    <2>2. ToSet(list["free"]) = Buf
      BY <2>1 DEF ToSet, Buf
    <2> QED BY <2>2, <1>1, InitIInv DEF OnList
  <1>4. ASSUME IInv, IInv', [Next]_vars, PoolWhole PROVE PoolWhole'
    <2>1. OnList \subseteq OnList'
      <3>1. On(list) \subseteq On(list')
        BY <1>4, NextKeepsBuffers DEF LostStep
      <3> QED BY <3>1, <1>1 DEF OnList, Cached, On
    <2> QED BY <2>1, <1>2, <1>4 DEF PoolWhole
  <1>5. PoolWhole => SomeBufferLeft
    <2>1. 1 \in Buf
      BY NBufAssumption DEF Buf
    <2> QED BY <2>1 DEF PoolWhole, SomeBufferLeft
  <1> QED BY <1>3, <1>4, <1>5, SpecIInv, PTL DEF Spec

-----------------------------------------------------------------------------
(* Order of replacement.  A list s is in the order of a relation "m is used   *)
(* before n" of block numbers, given as for since in BufLRU.                  *)
Ordered(s, bk, sn) ==
  \A i, j \in 1 .. Len(s) : i < j => bk[s[j]] \in sn[bk[s[i]]]

(* Unlinking a buffer leaves the order of the others.                         *)
LEMMA UnlinkOrder ==
  ASSUME NEW s \in Seq(Buf), NEW b \in ToSet(s), NEW bk, NEW sn, Ordered(s, bk, sn)
  PROVE  Unlink(s, b) \in Seq(Buf) /\ Ordered(Unlink(s, b), bk, sn)
  <1> DEFINE p == Position(s, b)
             t == Unlink(s, b)
             up(k) == IF k < p THEN k ELSE k + 1
  <1>1. /\ p \in 1 .. Len(s) /\ t \in Seq(Buf) /\ Len(t) = Len(s) - 1 /\ Len(s) \in Nat
        /\ \A i \in 1 .. Len(s) - 1 : t[i] = IF i < p THEN s[i] ELSE s[i + 1]
    BY UnlinkElements, LenProperties
  <1> HIDE DEF p, t
  <1> SUFFICES ASSUME NEW i \in 1 .. Len(s) - 1, NEW j \in 1 .. Len(s) - 1, i < j
               PROVE  bk[t[j]] \in sn[bk[t[i]]]
    BY <1>1 DEF Ordered, t
  <1>2. /\ up(i) \in 1 .. Len(s) /\ up(j) \in 1 .. Len(s) /\ up(i) < up(j)
        /\ t[i] = s[up(i)] /\ t[j] = s[up(j)]
    BY <1>1
  <1> QED BY <1>2 DEF Ordered

(* A use of block n leaves a list of other blocks in order, and n comes last. *)
LEMMA UseKeepsOrder ==
  ASSUME NEW n, Use(n), NEW t \in Seq(Buf), Ordered(t, blkno, since), NEW b \in Buf, NEW u,
         u = t \/ (u = Append(t, b) /\ blkno'[b] = n),
         \A c \in ToSet(t) : blkno'[c] = blkno[c] /\ blkno[c] # n,
         ToSet(u) \subseteq Used(list')
  PROVE  Ordered(u, blkno', since')
  <1>1. \A c, d \in Used(list') :
          /\ blkno'[c] # n
          /\ blkno'[d] = n \/ blkno'[d] \in since[blkno'[c]]
          => blkno'[d] \in since'[blkno'[c]]
    <2>1. \A c \in Used(list') : blkno'[c] \in CachedNo'
      BY DEF CachedNo, Cached, Used
    <2> QED BY <2>1 DEF Use
  <1>2. /\ Len(t) \in Nat /\ DOMAIN t = 1 .. Len(t)
        /\ \A i \in 1 .. Len(t) : t[i] \in ToSet(t)
    BY LenProperties DEF ToSet
  <1>3. /\ u \in Seq(Buf) /\ (u = t \/ Len(u) = Len(t) + 1)
        /\ \A i \in 1 .. Len(t) : u[i] = t[i]
        /\ u # t => u[Len(t) + 1] = b /\ blkno'[b] = n
    BY AppendProperties
  <1>4. \A i \in 1 .. Len(u) : u[i] \in Used(list')
    BY <1>3, LenProperties DEF ToSet
  <1> SUFFICES ASSUME NEW i \in 1 .. Len(u), NEW j \in 1 .. Len(u), i < j
               PROVE  blkno'[u[j]] \in since'[blkno'[u[i]]]
    BY DEF Ordered
  <1>5. i \in 1 .. Len(t) /\ u[i] = t[i] /\ blkno'[u[i]] = blkno[t[i]] /\ blkno'[u[i]] # n
    BY <1>2, <1>3
  <1>6. CASE j \in 1 .. Len(t)
    <2>1. blkno'[u[j]] = blkno[t[j]] /\ blkno[t[j]] \in since[blkno[t[i]]]
      BY <1>2, <1>3, <1>6 DEF Ordered
    <2> QED BY <1>1, <1>4, <1>5, <2>1
  <1>7. CASE j \notin 1 .. Len(t)
    <2>1. u[j] = b /\ blkno'[b] = n
      BY <1>2, <1>3, <1>7
    <2> QED BY <1>1, <1>4, <1>5, <2>1
  <1> QED BY <1>6, <1>7

(* BufDelete leaves the order of a list.                                      *)
LEMMA DeletingKeepsOrder ==
  ASSUME IInv, NEW b \in Used(list), NEW m \in {"clean", "dirty"},
         Ordered(list[m], blkno, since)
  PROVE  LET t == ListWithout(b)[m]
         IN  /\ t \in Seq(Buf) /\ Ordered(t, blkno, since)
             /\ \A c \in ToSet(t) : c \in Used(list) /\ c # b /\ blkno[c] # blkno[b]
  <1>1. /\ list \in [ListName -> Seq(Buf)] /\ IsInjective(list[m])
        /\ PoolOK(list, hash, blkno, state) /\ Fields
    BY DEF IInv, PoolOK, TypeOK, Fields, ListName
  <1>2. /\ ListOf(b) = state[b] /\ b \in ToSet(list[state[b]])
        /\ \A l \in ListName : ToSet(ListWithout(b)[l]) = ToSet(list[l]) \ {b}
        /\ \A l \in ListName : l # state[b] => ListWithout(b)[l] = list[l]
    BY <1>1, Deleting
  <1>3. \A c \in ToSet(ListWithout(b)[m]) : c \in Used(list) /\ c # b /\ blkno[c] # blkno[b]
    BY <1>1, <1>2 DEF PoolOK, Used, ListName
  <1>4. CASE m # state[b]
    BY <1>1, <1>2, <1>3, <1>4 DEF ListName
  <1>5. CASE m = state[b]
    <2>1. ListWithout(b)[m] = Unlink(list[m], b)
      BY <1>1, <1>2, <1>5 DEF ListWithout, ListName
    <2>2. list[m] \in Seq(Buf) /\ b \in ToSet(list[m])
      BY <1>1, <1>2, <1>5 DEF ListName
    <2> QED BY <1>3, <2>1, <2>2, UnlinkOrder
  <1> QED BY <1>4, <1>5

(* A hit and a write: the buffer goes to the tail of a list.                  *)
LEMMA MovingOrders ==
  ASSUME IInv, NEW b \in Used(list), NEW l \in {"clean", "dirty"},
         BufInsert(b, blkno[b], l, ListWithout(b), HashWithout(b)), Use(blkno[b]),
         NEW m \in {"clean", "dirty"}, Ordered(list[m], blkno, since)
  PROVE  Ordered(list'[m], blkno', since')
  <1> DEFINE t == ListWithout(b)[m]
  <1>1. /\ blkno' = blkno /\ b \in Buf
        /\ list' = [ListWithout(b) EXCEPT ![l] = Append(ListWithout(b)[l], b)]
    BY Moving
  <1>2. list \in [ListName -> Seq(Buf)]
    BY DEF IInv, TypeOK
  <1>3. list'[m] = t \/ list'[m] = Append(t, b)
    BY <1>1, <1>2 DEF ListWithout, ListName
  <1>4. /\ t \in Seq(Buf) /\ Ordered(t, blkno, since)
        /\ \A c \in ToSet(t) : blkno[c] # blkno[b]
    BY DeletingKeepsOrder
  <1>5. ToSet(list'[m]) \subseteq Used(list')
    BY DEF Used
  <1> HIDE DEF t
  <1> QED BY <1>1, <1>3, <1>4, <1>5, UseKeepsOrder

(* A miss: the buffer taken goes to the tail of Clean, or to no list.         *)
LEMMA FillOrders ==
  ASSUME IInv, NEW n \in CallNo, NEW b \in Buf, NEW ls, NEW h,
         PoolOK(ls, h, blkno, state), b \notin On(ls), Used(ls) \subseteq Used(list),
         Fill(b, n, ls, h), Use(n),
         NEW m \in {"clean", "dirty"}, Ordered(ls[m], blkno, since)
  PROVE  Ordered(list'[m], blkno', since')
  <1>1. n \in Block \cup {INVALID} /\ \A c \in Used(ls) : blkno[c] # n
    BY Finding DEF Fill
  <1>2. BufInsert(b, n, "clean", ls, h) /\ Fields
    BY DEF Fill, IInv, TypeOK, Fields
  <1>3. Inserted(b, n, "clean", ls)
    <2>1. CanInsert(b, n, "clean", ls, h)
      BY <1>1, <1>2 DEF CanInsert
    <2> QED BY <1>2, <2>1, Inserting
  <1>4. ls \in [ListName -> Seq(Buf)] /\ ls[m] \in Seq(Buf)
    BY DEF PoolOK, ListName
  <1>5. list'[m] = ls[m] \/ list'[m] = Append(ls[m], b)
    BY <1>3, <1>4 DEF Inserted, ListName
  <1>6. \A c \in ToSet(ls[m]) : c \in Buf /\ c # b /\ c \in Used(ls)
    BY <1>4, ToSetBuf DEF On, Used
  <1>7. blkno'[b] = n /\ \A c \in ToSet(ls[m]) : blkno'[c] = blkno[c] /\ blkno[c] # n
    BY <1>1, <1>2, <1>3, <1>6 DEF Inserted, Fields
  <1>8. ToSet(list'[m]) \subseteq Used(list')
    BY DEF Used
  <1> QED BY <1>4, <1>5, <1>7, <1>8, UseKeepsOrder

(* What holds of the two lists in every state.                                *)
LruInv == /\ Ordered(list["dirty"], blkno, since)
          /\ ~synced => Ordered(list["clean"], blkno, since)

(* An empty list is in any order.                                             *)
LEMMA EmptyOrder == \A bk, sn : Ordered(<< >>, bk, sn)
  BY DEF Ordered

(* Every step keeps the lists in order.                                       *)
LEMMA NextLruInv == IInv /\ LruInv /\ [LruNext]_lruVars => LruInv'
  <1> SUFFICES ASSUME IInv, LruInv, [LruNext]_lruVars PROVE LruInv'
    OBVIOUS
  <1>1. ASSUME synced' = synced,
               \A m \in {"clean", "dirty"} :
                 Ordered(list[m], blkno, since) => Ordered(list'[m], blkno', since')
        PROVE  LruInv'
    BY <1>1 DEF LruInv
  <1>2. ASSUME NEW n \in CallNo, BufReadHit(n), Use(n), synced' = synced PROVE LruInv'
    <2>1. PICK b \in BufFind(n) :
             BufInsert(b, n, state[b], ListWithout(b), HashWithout(b))
      BY <1>2 DEF BufReadHit
    <2>2. b \in Used(list) /\ blkno[b] = n /\ state[b] \in {"clean", "dirty"}
      BY Finding DEF IInv, PoolOK, Used
    <2>3. ASSUME NEW m \in {"clean", "dirty"}, Ordered(list[m], blkno, since)
          PROVE  Ordered(list'[m], blkno', since')
      BY <1>2, <2>1, <2>2, <2>3, MovingOrders
    <2> QED BY <1>1, <1>2, <2>3
  <1>3. ASSUME NEW n \in CallNo, BufReadFree(n), Use(n), synced' = synced PROVE LruInv'
    <2> DEFINE b  == Head(list["free"])
               ls == [list EXCEPT !["free"] = Tail(list["free"])]
    <2>1. list["free"] # << >> /\ Fill(b, n, ls, hash)
      BY <1>3 DEF BufReadFree
    <2>2. /\ b \in Buf /\ b \notin On(ls) /\ PoolOK(ls, hash, blkno, state)
          /\ Used(ls) = Used(list)
      BY <2>1, TakingFree
    <2>3. \A m \in {"clean", "dirty"} : ls[m] = list[m]
      BY DEF IInv, TypeOK, ListName
    <2> HIDE DEF b, ls
    <2>4. ASSUME NEW m \in {"clean", "dirty"}, Ordered(list[m], blkno, since)
          PROVE  Ordered(list'[m], blkno', since')
      <3>1. Ordered(ls[m], blkno, since)
        BY <2>3, <2>4
      <3> QED BY <1>3, <2>1, <2>2, <3>1, FillOrders
    <2> QED BY <1>1, <1>3, <2>4
  <1>4. ASSUME NEW n \in CallNo, BufReadClean(n) \/ BufReadDirty(n), Use(n),
               synced' = synced
        PROVE  LruInv'
    <2>1. PICK l \in {"clean", "dirty"} :
            /\ list[l] # << >>
            /\ Fill(Head(list[l]), n, ListWithout(Head(list[l])), HashWithout(Head(list[l])))
      BY <1>4 DEF BufReadClean, BufReadDirty
    <2> DEFINE b == Head(list[l])
    <2>2. /\ b \in Buf /\ b \in Used(list) /\ b \notin On(ListWithout(b))
          /\ PoolOK(ListWithout(b), HashWithout(b), blkno, state)
          /\ Used(ListWithout(b)) = Used(list) \ {b}
      BY <2>1, TakingCached
    <2>3. Fill(b, n, ListWithout(b), HashWithout(b))
      BY <2>1
    <2> HIDE DEF b
    <2>4. ASSUME NEW m \in {"clean", "dirty"}, Ordered(list[m], blkno, since)
          PROVE  Ordered(list'[m], blkno', since')
      <3>1. Ordered(ListWithout(b)[m], blkno, since)
        BY <2>2, <2>4, DeletingKeepsOrder
      <3> QED BY <1>4, <2>2, <2>3, <3>1, FillOrders
    <2> QED BY <1>1, <1>4, <2>4
  <1>5. ASSUME NEW d \in Data, BufWrite(d) \/ WriteInPlace(d), Use(blkno[pBuf]),
               synced' = synced
        PROVE  LruInv'
    <2>1. pBuf \in Buf /\ pBuf # NULL
      BY <1>5 DEF BufWrite, WriteInPlace, IInv, TypeOK
    <2>2. CASE Deletable(pBuf)
      <3>1. pBuf \in Used(list)
        BY <2>1, <2>2, DeletableIsCached
      <3>2. BufInsert(pBuf, blkno[pBuf], "dirty", ListWithout(pBuf), HashWithout(pBuf))
        BY <1>5, <2>2 DEF BufWrite, WriteInPlace
      <3>3. ASSUME NEW m \in {"clean", "dirty"}, Ordered(list[m], blkno, since)
            PROVE  Ordered(list'[m], blkno', since')
        BY <1>5, <3>1, <3>2, <3>3, MovingOrders
      <3> QED BY <1>1, <1>5, <3>3
    <2>3. CASE ~Deletable(pBuf)
      <3>1. BufInsert(pBuf, blkno[pBuf], "dirty", list, hash)
        BY <1>5, <2>3 DEF BufWrite, WriteInPlace
      <3>2. blkno[pBuf] = INVALID
        BY <2>1, <2>3, DeletableIsCached DEF IInv, HandleOK
      <3>3. list' = list /\ blkno' = blkno
        BY <2>1, <3>1, <3>2 DEF BufInsert, INVALID, IInv, TypeOK
      <3>4. ASSUME NEW m \in {"clean", "dirty"}, Ordered(list[m], blkno, since)
            PROVE  Ordered(list'[m], blkno', since')
        <4>1. list[m] \in Seq(Buf) /\ ToSet(list'[m]) \subseteq Used(list')
          BY DEF IInv, TypeOK, ListName, Used
        <4>2. \A c \in ToSet(list[m]) : blkno[c] # INVALID
          BY BlockAssumption DEF IInv, PoolOK, Used, INVALID
        <4> QED BY <1>5, <2>1, <3>2, <3>3, <3>4, <4>1, <4>2, UseKeepsOrder
      <3> QED BY <1>1, <1>5, <3>4
    <2> QED BY <2>2, <2>3
  <1>6. CASE (BufSync \/ BufSyncReturn) /\ UNCHANGED <<since, synced>>
    BY <1>1, <1>6 DEF BufSync, BufSyncReturn
  <1>7. CASE BufSyncOne /\ synced' = TRUE /\ UNCHANGED since
    <2> DEFINE b == pWalker
    <2>1. b = FirstOf(list["dirty"]) /\ list["dirty"] # << >>
      BY <1>7 DEF BufSyncOne, IInv, WalkerAtHead, FirstOf
    <2>2. list["dirty"] \in Seq(Buf) /\ IsInjective(list["dirty"]) /\ list \in [ListName -> Seq(Buf)]
      BY DEF IInv, PoolOK, ListName
    <2>3. b \in ToSet(list["dirty"]) /\ b \in Used(list)
      BY <2>1, <2>2, TailList DEF FirstOf, Used
    <2>4. BufInsert(b, blkno[b], "clean", ListWithout(b), HashWithout(b))
      BY <1>7 DEF BufSyncOne
    <2>5. blkno' = blkno /\ list' = [ListWithout(b) EXCEPT !["clean"] = Append(ListWithout(b)["clean"], b)]
      BY <2>3, <2>4, Moving
    <2>6. list'["dirty"] = ListWithout(b)["dirty"]
      BY <2>2, <2>5 DEF ListWithout, ListName
    <2>7. Ordered(list'["dirty"], blkno, since)
      BY <2>3, <2>6, DeletingKeepsOrder DEF LruInv
    <2> QED BY <1>7, <2>5, <2>7 DEF LruInv
  <1>8. CASE Crash
    <2>1. list'["clean"] = << >> /\ list'["dirty"] = << >>
      BY <1>8, NewPoolLists DEF Crash
    <2> QED BY <2>1, EmptyOrder DEF LruInv
  <1>9. CASE UNCHANGED lruVars
    BY <1>1, <1>9 DEF lruVars, vars
  <1> QED BY <1>2, <1>3, <1>4, <1>5, <1>6, <1>7, <1>8, <1>9 DEF LruNext

(* BufLRU only adds its record to the cache.                                  *)
LEMMA LruStep == [LruNext]_lruVars => [Next]_vars
  BY DEF LruNext, Next, lruVars

(* Both invariants hold of every reachable state.                             *)
LEMMA LruSpecInv == LruSpec => [](IInv /\ LruInv)
  <1>1. LruInit => IInv /\ LruInv
    <2> SUFFICES ASSUME LruInit PROVE IInv /\ LruInv
      OBVIOUS
    <2>1. list["clean"] = << >> /\ list["dirty"] = << >>
      BY NewPoolLists DEF LruInit, Init
    <2> QED BY <2>1, InitIInv, EmptyOrder DEF LruInit, LruInv
  <1> QED BY <1>1, NextIInv, NextLruInv, LruStep, PTL DEF LruSpec

(* Both lists stay in the order of last use: Dirty always, Clean until a      *)
(* BufSync has merged Dirty into it (BufInsert, buf.c).                       *)
THEOREM ListsStayInOrder == LruSpec => []ListsInLruOrder
  <1>1. LruInv => ListsInLruOrder
    BY DEF LruInv, ListsInLruOrder, InLruOrder, Ordered, UsedBefore
  <1> QED BY <1>1, LruSpecInv, PTL

(* The head of an ordered list is the oldest of it.                           *)
LEMMA HeadIsOldest ==
  ASSUME IInv, NEW l \in {"clean", "dirty"}, list[l] # << >>,
         Ordered(list[l], blkno, since)
  PROVE  OldestOf(l, blkno[Head(list[l])])
  <1>1. list[l] \in Seq(Buf) /\ Len(list[l]) \in Nat /\ Head(list[l]) = list[l][1]
    BY LenProperties DEF IInv, TypeOK, ListName
  <1> SUFFICES ASSUME NEW b \in ToSet(list[l]), blkno[b] # blkno[list[l][1]]
               PROVE  blkno[b] \in since[blkno[list[l][1]]]
    BY <1>1 DEF OldestOf, UsedBefore
  <1>2. PICK i \in 1 .. Len(list[l]) : b = list[l][i]
    BY <1>1, LenProperties DEF ToSet
  <1>3. 1 \in 1 .. Len(list[l]) /\ 1 < i
    BY <1>1, <1>2
  <1> QED BY <1>2, <1>3 DEF Ordered

(* BufGetNewBuffer takes a buffer b of list l, and the block it held is the   *)
(* only one that may leave the cache.                                         *)
LEMMA FillEvicts ==
  ASSUME IInv, NEW n \in CallNo, NEW b \in Buf, NEW ls, NEW h,
         PoolOK(ls, h, blkno, state), b \notin On(ls), Used(list) \subseteq Used(ls) \cup {b},
         Used(ls) \subseteq Used(list), Fill(b, n, ls, h)
  PROVE  CachedNo \ CachedNo' \subseteq {blkno[c] : c \in Used(list) \cap {b}}
  <1>1. n \in Block \cup {INVALID} /\ \A c \in Used(ls) : blkno[c] # n
    BY Finding DEF Fill
  <1>2. BufInsert(b, n, "clean", ls, h) /\ Fields
    BY DEF Fill, IInv, TypeOK, Fields
  <1>3. Inserted(b, n, "clean", ls)
    <2>1. CanInsert(b, n, "clean", ls, h)
      BY <1>1, <1>2 DEF CanInsert
    <2> QED BY <1>2, <2>1, Inserting
  <1>4. Used(ls) \subseteq Used(list')
    BY <1>3 DEF Inserted, Used, ListName
  <1>5. \A c \in Used(ls) : c \in Buf /\ c # b /\ blkno'[c] = blkno[c]
    <2>1. \A c \in Used(ls) : c \in Buf /\ c # b
      BY ToSetBuf DEF PoolOK, ListName, Used, On
    <2> QED BY <1>2, <1>3, <2>1 DEF Inserted, Fields
  <1>6. /\ CachedNo = {blkno[c] : c \in Used(list)}
        /\ CachedNo' = {blkno'[c] : c \in Used(list')}
    BY DEF CachedNo, Cached, Used
  <1> QED BY <1>4, <1>5, <1>6

(* No block leaves the cache when no buffer leaves the lists and no number    *)
(* changes.                                                                   *)
LEMMA NoneEvicted ==
  ASSUME Used(list) \subseteq Used(list'), blkno' = blkno PROVE Evicted = {}
  BY DEF Evicted, CachedNo, Cached, Used

(* What EvictsOldestOfList says of a step.                                    *)
EvictsOldest ==
  \A n \in Evicted :
     IF state[BufferOf(n)] = "dirty"
     THEN list["clean"] = << >> /\ OldestOf("dirty", n)
     ELSE synced \/ OldestOf("clean", n)

(* A miss that takes the head of list l.                                      *)
LEMMA TakesOldest ==
  ASSUME IInv, LruInv, NEW n \in CallNo, NEW l \in {"clean", "dirty"}, list[l] # << >>,
         l = "dirty" => list["clean"] = << >>,
         Fill(Head(list[l]), n, ListWithout(Head(list[l])), HashWithout(Head(list[l])))
  PROVE  EvictsOldest
  <1> DEFINE b == Head(list[l])
  <1>1. /\ b \in Buf /\ b \in Used(list) /\ b \notin On(ListWithout(b)) /\ b \in ToSet(list[l])
        /\ PoolOK(ListWithout(b), HashWithout(b), blkno, state)
        /\ Used(ListWithout(b)) = Used(list) \ {b}
    BY TakingCached
  <1>2. Fill(b, n, ListWithout(b), HashWithout(b))
    OBVIOUS
  <1>3. ~(l = "clean" /\ synced) => OldestOf(l, blkno[b])
    BY HeadIsOldest DEF LruInv
  <1>4. state[b] = l
    BY <1>1 DEF IInv, PoolOK
  <1>5. BufferOf(blkno[b]) = b
    <2>1. \A c \in Cached : blkno[c] = blkno[b] => c = b
      BY <1>1 DEF IInv, PoolOK, Cached, Used
    <2>2. b \in Cached
      BY <1>1 DEF Cached, Used
    <2> QED BY <2>1, <2>2 DEF BufferOf
  <1> HIDE DEF b
  <1>6. CachedNo \ CachedNo' \subseteq {blkno[c] : c \in Used(list) \cap {b}}
    BY <1>1, <1>2, FillEvicts
  <1>7. \A m \in Evicted : m = blkno[b]
    BY <1>6 DEF Evicted
  <1> QED BY <1>3, <1>4, <1>5, <1>7 DEF EvictsOldest

(* One case for each operation.                                               *)
LEMMA NextEvictsOldest == IInv /\ LruInv /\ [LruNext]_lruVars => EvictsOldest
  <1> SUFFICES ASSUME IInv, LruInv, [LruNext]_lruVars PROVE EvictsOldest
    OBVIOUS
  <1>1. Evicted = {} => EvictsOldest
    BY DEF EvictsOldest
  <1>2. ASSUME NEW n \in CallNo, BufReadHit(n) PROVE EvictsOldest
    <2>1. PICK b \in BufFind(n) :
             BufInsert(b, n, state[b], ListWithout(b), HashWithout(b))
      BY <1>2 DEF BufReadHit
    <2>2. b \in Used(list) /\ blkno[b] = n /\ state[b] \in {"clean", "dirty"}
      BY Finding DEF IInv, PoolOK, Used
    <2>3. blkno' = blkno /\ Used(list') = Used(list)
      BY <2>1, <2>2, Moving
    <2> QED BY <1>1, <2>3, NoneEvicted
  <1>3. ASSUME NEW n \in CallNo, BufReadFree(n) PROVE EvictsOldest
    <2> DEFINE b  == Head(list["free"])
               ls == [list EXCEPT !["free"] = Tail(list["free"])]
    <2>1. list["free"] # << >> /\ Fill(b, n, ls, hash)
      BY <1>3 DEF BufReadFree
    <2>2. /\ b \in Buf /\ b \notin On(ls) /\ PoolOK(ls, hash, blkno, state)
          /\ Used(ls) = Used(list)
      BY <2>1, TakingFree
    <2>3. b \notin Used(list)
      BY <2>2 DEF Used, On
    <2> HIDE DEF b, ls
    <2>4. CachedNo \ CachedNo' \subseteq {blkno[c] : c \in Used(list) \cap {b}}
      BY <2>1, <2>2, FillEvicts
    <2> QED BY <1>1, <2>3, <2>4 DEF Evicted
  <1>4. ASSUME NEW n \in CallNo, BufReadClean(n) \/ BufReadDirty(n) PROVE EvictsOldest
    <2>1. PICK l \in {"clean", "dirty"} :
            /\ list[l] # << >> /\ (l = "dirty" => list["clean"] = << >>)
            /\ Fill(Head(list[l]), n, ListWithout(Head(list[l])), HashWithout(Head(list[l])))
      BY <1>4 DEF BufReadClean, BufReadDirty
    <2> QED BY <1>4, <2>1, TakesOldest
  <1>5. ASSUME NEW d \in Data, BufWrite(d) \/ WriteInPlace(d) PROVE EvictsOldest
    <2>1. pBuf \in Buf /\ pBuf # NULL
      BY <1>5 DEF BufWrite, WriteInPlace, IInv, TypeOK
    <2>2. CASE Deletable(pBuf)
      <3>1. pBuf \in Used(list)
        BY <2>1, <2>2, DeletableIsCached
      <3>2. BufInsert(pBuf, blkno[pBuf], "dirty", ListWithout(pBuf), HashWithout(pBuf))
        BY <1>5, <2>2 DEF BufWrite, WriteInPlace
      <3>3. blkno' = blkno /\ Used(list') = Used(list)
        BY <3>1, <3>2, Moving
      <3> QED BY <1>1, <3>3, NoneEvicted
    <2>3. CASE ~Deletable(pBuf)
      <3>1. BufInsert(pBuf, blkno[pBuf], "dirty", list, hash)
        BY <1>5, <2>3 DEF BufWrite, WriteInPlace
      <3>2. blkno[pBuf] = INVALID
        BY <2>1, <2>3, DeletableIsCached DEF IInv, HandleOK
      <3>3. list' = list /\ blkno' = blkno
        BY <2>1, <3>1, <3>2 DEF BufInsert, INVALID, IInv, TypeOK
      <3> QED BY <1>1, <3>3, NoneEvicted
    <2> QED BY <2>2, <2>3
  <1>6. CASE BufSync \/ BufSyncReturn \/ UNCHANGED vars
    BY <1>1, <1>6, NoneEvicted DEF BufSync, BufSyncReturn, vars
  <1>7. CASE BufSyncOne
    <2>1. pWalker = FirstOf(list["dirty"]) /\ list["dirty"] # << >>
      BY <1>7 DEF BufSyncOne, IInv, WalkerAtHead, FirstOf
    <2>2. list["dirty"] \in Seq(Buf) /\ IsInjective(list["dirty"])
      BY DEF IInv, PoolOK, ListName
    <2>3. pWalker \in Used(list)
      BY <2>1, <2>2, TailList DEF FirstOf, Used
    <2>4. blkno' = blkno /\ Used(list') = Used(list)
      BY <1>7, <2>3, Moving DEF BufSyncOne
    <2> QED BY <1>1, <2>4, NoneEvicted
  <1>8. CASE Crash
    BY <1>1, <1>8 DEF Crash, Evicted
  <1> QED BY <1>2, <1>3, <1>4, <1>5, <1>6, <1>7, <1>8 DEF LruNext, lruVars

(* A block that is dropped is the least recently used one of its list, and a  *)
(* dirty one is dropped only when no buffer is clean (BufGetNewBuffer).       *)
THEOREM OldestIsEvicted == LruSpec => EvictsOldestOfList
  <1>1. IInv /\ LruInv /\ [LruNext]_lruVars =>
          [\A n \in Evicted :
             IF state[BufferOf(n)] = "dirty"
             THEN list["clean"] = << >> /\ OldestOf("dirty", n)
             ELSE synced \/ OldestOf("clean", n)]_lruVars
    BY NextEvictsOldest DEF EvictsOldest
  <1> QED BY <1>1, LruSpecInv, PTL DEF LruSpec, EvictsOldestOfList
=============================================================================
