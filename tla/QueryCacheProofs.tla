-------------------------- MODULE QueryCacheProofs --------------------------
(***************************************************************************)
(* Proofs about the query result cache, for any number of requests, any    *)
(* statements, any capacity and any TTL.                                   *)
(***************************************************************************)
EXTENDS QueryCache, SequenceTheorems, TLAPS

----------------------------------------------------------------------------
(* What the list operations of container/list do to a sequence of entries. *)

\* Removing an element closes the gap and keeps the order of the others.
LEMMA RemoveAtIs ==
    ASSUME NEW S, NEW s \in Seq(S), NEW i \in DOMAIN s
    PROVE  /\ RemoveAt(s, i) \in Seq(S)
           /\ Len(RemoveAt(s, i)) = Len(s) - 1
           /\ \A j \in 1..(Len(s) - 1) : RemoveAt(s, i)[j] = IF j < i THEN s[j] ELSE s[j + 1]
<1> DEFINE before == SubSeq(s, 1, i - 1)
           after == SubSeq(s, i + 1, Len(s))
<1>1. /\ Len(s) \in Nat
      /\ i \in 1..Len(s)
      /\ \A j \in 1..Len(s) : s[j] \in S
  BY LenProperties, ElementOfSeq
<1>2. /\ before \in Seq(S)
      /\ Len(before) = i - 1
      /\ \A j \in 1..(i - 1) : before[j] = s[j]
  <2>1. \A j \in 1..(i - 1) : s[j] \in S
    BY <1>1
  <2>2. /\ before \in Seq(S)
        /\ Len(before) = IF 1 <= i - 1 THEN (i - 1) - 1 + 1 ELSE 0
        /\ \A j \in 1..((i - 1) - 1 + 1) : before[j] = s[1 + j - 1]
    BY <1>1, <2>1, SubSeqProperties
  <2> QED
    BY <1>1, <2>2
<1>3. /\ after \in Seq(S)
      /\ Len(after) = Len(s) - i
      /\ \A j \in 1..(Len(s) - i) : after[j] = s[i + j]
  <2>1. \A j \in (i + 1)..Len(s) : s[j] \in S
    BY <1>1
  <2>2. /\ after \in Seq(S)
        /\ Len(after) = IF i + 1 <= Len(s) THEN Len(s) - (i + 1) + 1 ELSE 0
        /\ \A j \in 1..(Len(s) - (i + 1) + 1) : after[j] = s[(i + 1) + j - 1]
    BY <1>1, <2>1, SubSeqProperties
  <2> QED
    BY <1>1, <2>2
<1>4. /\ before \o after \in Seq(S)
      /\ Len(before \o after) = Len(before) + Len(after)
      /\ \A j \in 1..(Len(before) + Len(after)) :
            (before \o after)[j] = IF j <= Len(before) THEN before[j] ELSE after[j - Len(before)]
  BY <1>2, <1>3, ConcatProperties
<1> HIDE DEF before, after
<1>5. \A j \in 1..(Len(s) - 1) : (before \o after)[j] = IF j < i THEN s[j] ELSE s[j + 1]
  <2> SUFFICES ASSUME NEW j \in 1..(Len(s) - 1)
               PROVE  (before \o after)[j] = IF j < i THEN s[j] ELSE s[j + 1]
    OBVIOUS
  <2>1. j \in 1..(Len(before) + Len(after))
    BY <1>1, <1>2, <1>3
  <2>2. (before \o after)[j] = IF j <= i - 1 THEN before[j] ELSE after[j - (i - 1)]
    BY <2>1, <1>2, <1>4
  <2>3. CASE j < i
    BY <2>2, <2>3, <1>1, <1>2
  <2>4. CASE ~(j < i)
    <3>1. /\ j - (i - 1) \in 1..(Len(s) - i)
          /\ i + (j - (i - 1)) = j + 1
      BY <2>4, <1>1
    <3>2. after[j - (i - 1)] = s[j + 1]
      BY <3>1, <1>3
    <3> QED
      BY <2>2, <2>4, <3>2, <1>1
  <2> QED
    BY <2>3, <2>4
<1>6. Len(before \o after) = Len(s) - 1
  BY <1>1, <1>2, <1>3, <1>4
<1>7. RemoveAt(s, i) = before \o after
  BY DEF RemoveAt, before, after
<1> QED
  BY <1>4, <1>5, <1>6, <1>7

\* Pushing to the front shifts every element by one.
LEMMA ConsIs ==
    ASSUME NEW S, NEW s \in Seq(S), NEW e \in S
    PROVE  /\ Cons(e, s) \in Seq(S)
           /\ Len(Cons(e, s)) = Len(s) + 1
           /\ Cons(e, s)[1] = e
           /\ \A j \in 2..(Len(s) + 1) : Cons(e, s)[j] = s[j - 1]
<1>1. /\ <<e>> \in Seq(S)
      /\ Len(<<e>>) = 1
      /\ <<e>>[1] = e
  OBVIOUS
<1>2. /\ <<e>> \o s \in Seq(S)
      /\ Len(<<e>> \o s) = 1 + Len(s)
      /\ \A j \in 1..(1 + Len(s)) : (<<e>> \o s)[j] = IF j <= 1 THEN <<e>>[j] ELSE s[j - 1]
  BY <1>1, ConcatProperties
<1>3. Len(s) \in Nat
  BY LenProperties
<1> QED
  BY <1>1, <1>2, <1>3 DEF Cons

\* Removing the back leaves a prefix.
LEMMA FrontIs ==
    ASSUME NEW S, NEW s \in Seq(S), Len(s) > 0
    PROVE  /\ Front(s) \in Seq(S)
           /\ Len(Front(s)) = Len(s) - 1
           /\ \A j \in 1..(Len(s) - 1) : Front(s)[j] = s[j]
           /\ Last(s) = s[Len(s)]
<1>1. Len(s) \in Nat \ {0}
  BY LenProperties
<1> DEFINE n == Len(s) - 1
           prefix == SubSeq(s, 1, n)
<1>2. n \in Nat /\ \A j \in 1..n : s[j] \in S
  BY <1>1, ElementOfSeq
<1>3. n \in Int
  BY <1>2
<1> HIDE DEF n
<1>4. /\ prefix \in Seq(S)
      /\ Len(prefix) = IF 1 <= n THEN n - 1 + 1 ELSE 0
      /\ \A j \in 1..(n - 1 + 1) : prefix[j] = s[1 + j - 1]
  BY <1>2, <1>3, SubSeqProperties
<1> HIDE DEF prefix
<1>5. Len(prefix) = n
  BY <1>2, <1>4
<1>6. \A j \in 1..n : prefix[j] = s[j]
  BY <1>2, <1>4
<1>7. Front(s) = prefix
  BY DEF Front, prefix, n
<1> QED
  BY <1>4, <1>5, <1>6, <1>7 DEF Last, n

----------------------------------------------------------------------------
(* The same operations on a list with one element per key. *)

\* list.Remove takes exactly the element's key off the list.
LEMMA RemoveOne ==
    ASSUME NEW s \in Seq(Entries), OnePerKey(s), NEW i \in DOMAIN s
    PROVE  /\ RemoveAt(s, i) \in Seq(Entries)
           /\ OnePerKey(RemoveAt(s, i))
           /\ Keys(RemoveAt(s, i)) = Keys(s) \ {s[i].key}
           /\ Len(RemoveAt(s, i)) = Len(s) - 1
           /\ \A j \in DOMAIN RemoveAt(s, i) : \E m \in DOMAIN s : RemoveAt(s, i)[j] = s[m]
<1> DEFINE r == RemoveAt(s, i)
           old(j) == IF j < i THEN j ELSE j + 1
<1>1. /\ Len(s) \in Nat
      /\ DOMAIN s = 1..Len(s)
      /\ i \in 1..Len(s)
  BY LenProperties
<1>2. /\ r \in Seq(Entries)
      /\ Len(r) = Len(s) - 1
      /\ \A j \in 1..(Len(s) - 1) : r[j] = IF j < i THEN s[j] ELSE s[j + 1]
  BY RemoveAtIs
<1>3. DOMAIN r = 1..(Len(s) - 1)
  BY <1>2, LenProperties
<1> HIDE DEF r
<1>4. \A j \in DOMAIN r : old(j) \in DOMAIN s \ {i} /\ r[j] = s[old(j)]
  BY <1>1, <1>2, <1>3
<1>5. \A j, m \in DOMAIN r : old(j) = old(m) => j = m
  BY <1>1, <1>3
<1>6. \A m \in DOMAIN s \ {i} : \E j \in DOMAIN r : old(j) = m
  <2> SUFFICES ASSUME NEW m \in DOMAIN s \ {i}
               PROVE  \E j \in DOMAIN r : old(j) = m
    OBVIOUS
  <2>1. CASE m < i
    BY <2>1, <1>1, <1>3
  <2>2. CASE ~(m < i)
    <3>1. m - 1 \in DOMAIN r /\ old(m - 1) = m
      BY <2>2, <1>1, <1>3
    <3> QED
      BY <3>1
  <2> QED
    BY <2>1, <2>2
<1> HIDE DEF old
<1>7. OnePerKey(r)
  BY <1>4, <1>5 DEF OnePerKey
<1>8. Keys(r) = Keys(s) \ {s[i].key}
  <2>1. \A k \in Keys(r) : k \in Keys(s) \ {s[i].key}
    BY <1>4 DEF Keys, OnePerKey
  <2>2. \A k \in Keys(s) \ {s[i].key} : k \in Keys(r)
    BY <1>4, <1>6 DEF Keys
  <2> QED
    BY <2>1, <2>2
<1>9. \A j \in DOMAIN r : \E m \in DOMAIN s : r[j] = s[m]
  BY <1>4
<1> QED
  BY <1>2, <1>7, <1>8, <1>9 DEF r

\* list.PushFront of an element whose key is not listed.
LEMMA PushNew ==
    ASSUME NEW s \in Seq(Entries), OnePerKey(s), NEW e \in Entries, e.key \notin Keys(s)
    PROVE  /\ Cons(e, s) \in Seq(Entries)
           /\ OnePerKey(Cons(e, s))
           /\ Keys(Cons(e, s)) = Keys(s) \cup {e.key}
           /\ Len(Cons(e, s)) = Len(s) + 1
           /\ \A j \in DOMAIN Cons(e, s) :
                 Cons(e, s)[j] = e \/ \E m \in DOMAIN s : Cons(e, s)[j] = s[m]
<1> DEFINE r == Cons(e, s)
<1>1. /\ Len(s) \in Nat
      /\ DOMAIN s = 1..Len(s)
  BY LenProperties
<1>2. /\ r \in Seq(Entries)
      /\ Len(r) = Len(s) + 1
      /\ r[1] = e
      /\ \A j \in 2..(Len(s) + 1) : r[j] = s[j - 1]
  BY ConsIs
<1>3. DOMAIN r = 1..(Len(s) + 1)
  BY <1>2, LenProperties
<1> HIDE DEF r
<1>4. \A j \in DOMAIN r : j # 1 => j - 1 \in DOMAIN s /\ r[j] = s[j - 1]
  BY <1>1, <1>2, <1>3
<1>5. \A m \in DOMAIN s : m + 1 \in DOMAIN r /\ r[m + 1] = s[m]
  <2> SUFFICES ASSUME NEW m \in DOMAIN s
               PROVE  m + 1 \in DOMAIN r /\ r[m + 1] = s[m]
    OBVIOUS
  <2>1. m + 1 \in 2..(Len(s) + 1) /\ (m + 1) - 1 = m
    BY <1>1
  <2> QED
    BY <2>1, <1>2, <1>3
<1>6. OnePerKey(r)
  <2> SUFFICES ASSUME NEW i \in DOMAIN r, NEW j \in DOMAIN r, r[i].key = r[j].key
               PROVE  i = j
    BY DEF OnePerKey
  <2>1. CASE i = 1
    BY <2>1, <1>2, <1>4 DEF Keys
  <2>2. CASE j = 1
    BY <2>2, <1>2, <1>4 DEF Keys
  <2>3. CASE i # 1 /\ j # 1
    <3>1. i - 1 = j - 1
      BY <2>3, <1>4 DEF OnePerKey
    <3> QED
      BY <3>1, <1>1, <1>3
  <2> QED
    BY <2>1, <2>2, <2>3
<1>7. Keys(r) = Keys(s) \cup {e.key}
  <2>1. \A k \in Keys(r) : k \in Keys(s) \cup {e.key}
    BY <1>2, <1>4 DEF Keys
  <2>2. \A k \in Keys(s) : k \in Keys(r)
    BY <1>5 DEF Keys
  <2>3. 1 \in DOMAIN r
    BY <1>1, <1>3
  <2>4. e.key \in Keys(r)
    BY <2>3, <1>2 DEF Keys
  <2> QED
    BY <2>1, <2>2, <2>4
<1>8. \A j \in DOMAIN r : r[j] = e \/ \E m \in DOMAIN s : r[j] = s[m]
  BY <1>2, <1>4
<1> QED
  BY <1>2, <1>6, <1>7, <1>8 DEF r

\* list.Remove(list.Back()) takes exactly the last key off the list.
LEMMA DropBack ==
    ASSUME NEW s \in Seq(Entries), OnePerKey(s), Len(s) > 0
    PROVE  /\ Front(s) \in Seq(Entries)
           /\ OnePerKey(Front(s))
           /\ Keys(Front(s)) = Keys(s) \ {Last(s).key}
           /\ Len(Front(s)) = Len(s) - 1
           /\ \A j \in DOMAIN Front(s) : \E m \in DOMAIN s : Front(s)[j] = s[m]
<1> DEFINE r == Front(s)
<1>1. /\ Len(s) \in Nat
      /\ DOMAIN s = 1..Len(s)
      /\ Len(s) \in DOMAIN s
  BY LenProperties
<1>2. /\ r \in Seq(Entries)
      /\ Len(r) = Len(s) - 1
      /\ \A j \in 1..(Len(s) - 1) : r[j] = s[j]
      /\ Last(s) = s[Len(s)]
  BY FrontIs
<1>3. DOMAIN r = 1..(Len(s) - 1)
  BY <1>2, LenProperties
<1> HIDE DEF r
<1>4. \A j \in DOMAIN r : j \in DOMAIN s \ {Len(s)} /\ r[j] = s[j]
  BY <1>1, <1>2, <1>3
<1>5. \A m \in DOMAIN s \ {Len(s)} : m \in DOMAIN r
  BY <1>1, <1>3
<1>6. OnePerKey(r)
  BY <1>4 DEF OnePerKey
<1>7. Keys(r) = Keys(s) \ {s[Len(s)].key}
  <2>1. \A k \in Keys(r) : k \in Keys(s) \ {s[Len(s)].key}
    BY <1>1, <1>4 DEF Keys, OnePerKey
  <2>2. \A k \in Keys(s) \ {s[Len(s)].key} : k \in Keys(r)
    BY <1>4, <1>5 DEF Keys
  <2> QED
    BY <2>1, <2>2
<1> QED
  BY <1>2, <1>4, <1>6, <1>7 DEF r

\* Changing the bookkeeping of entries changes neither keys nor order.
LEMMA Rewrite ==
    ASSUME NEW s \in Seq(Entries), NEW t, DOMAIN t = DOMAIN s,
           t \in [DOMAIN s -> Entries],
           \A i \in DOMAIN s : t[i].key = s[i].key
    PROVE  /\ t \in Seq(Entries)
           /\ Len(t) = Len(s)
           /\ Keys(t) = Keys(s)
           /\ OnePerKey(s) => OnePerKey(t)
<1>1. /\ Len(s) \in Nat
      /\ DOMAIN s = 1..Len(s)
  BY LenProperties
<1>2. t \in Seq(Entries) /\ Len(t) = Len(s)
  BY <1>1
<1> QED
  BY <1>2 DEF Keys, OnePerKey

----------------------------------------------------------------------------
(* The critical sections of cacheStore. *)

\* byKey[k] points to an element for k.
LEMMA PosIs ==
    ASSUME ListMapAgree, NEW k \in byKey
    PROVE  Pos(k) \in DOMAIN ll /\ ll[Pos(k)].key = k
<1>1. \E i \in DOMAIN ll : ll[i].key = k
  BY DEF ListMapAgree, Keys
<1> QED
  BY <1>1 DEF Pos

\* Without its element a key is gone from the list, and nothing else is.
LEMMA UnlinkedIs ==
    ASSUME ll \in Seq(Entries), ListMapAgree, NEW k
    PROVE  /\ Unlinked(k) \in Seq(Entries)
           /\ OnePerKey(Unlinked(k))
           /\ Keys(Unlinked(k)) = byKey \ {k}
           /\ Len(Unlinked(k)) \in Nat
           /\ Len(Unlinked(k)) =< CacheMaxEntries
           /\ k \in byKey => Len(Unlinked(k)) = Len(ll) - 1
           /\ \A j \in DOMAIN Unlinked(k) : \E m \in DOMAIN ll : Unlinked(k)[j] = ll[m]
<1>1. /\ OnePerKey(ll)
      /\ byKey = Keys(ll)
      /\ Len(ll) =< CacheMaxEntries
      /\ Len(ll) \in Nat
      /\ CacheMaxEntries \in Nat
  BY LenProperties, CapacityAssumption DEF ListMapAgree
<1>2. CASE k \in byKey
  <2>1. Pos(k) \in DOMAIN ll /\ ll[Pos(k)].key = k
    BY <1>2, PosIs
  <2>2. /\ RemoveAt(ll, Pos(k)) \in Seq(Entries)
        /\ OnePerKey(RemoveAt(ll, Pos(k)))
        /\ Keys(RemoveAt(ll, Pos(k))) = Keys(ll) \ {ll[Pos(k)].key}
        /\ Len(RemoveAt(ll, Pos(k))) = Len(ll) - 1
        /\ \A j \in DOMAIN RemoveAt(ll, Pos(k)) : \E m \in DOMAIN ll : RemoveAt(ll, Pos(k))[j] = ll[m]
    BY <1>1, <2>1, RemoveOne
  <2>3. Unlinked(k) = RemoveAt(ll, Pos(k))
    BY <1>2 DEF Unlinked
  <2>4. Len(Unlinked(k)) \in Nat
    BY <2>2, <2>3, LenProperties
  <2>5. Len(Unlinked(k)) = Len(ll) - 1
    BY <2>2, <2>3
  <2>6. Len(Unlinked(k)) =< CacheMaxEntries
    BY <1>1, <2>5
  <2> QED
    BY <1>1, <2>1, <2>2, <2>3, <2>4, <2>5, <2>6
<1>3. CASE k \notin byKey
  <2>1. Unlinked(k) = ll
    BY <1>3 DEF Unlinked
  <2> QED
    BY <1>1, <1>3, <2>1
<1> QED
  BY <1>2, <1>3

\* Get, hit: the same entries in another order.
LEMMA GetHitIs ==
    ASSUME ll \in Seq(Entries), ListMapAgree, NEW k \in byKey, GetHit(k)
    PROVE  /\ ll' \in Seq(Entries)
           /\ byKey' = byKey
           /\ ListMapAgree'
           /\ \A j \in DOMAIN ll' : \E m \in DOMAIN ll : ll'[j] = ll[m]
<1>1. /\ Unlinked(k) \in Seq(Entries)
      /\ OnePerKey(Unlinked(k))
      /\ Keys(Unlinked(k)) = byKey \ {k}
      /\ Len(Unlinked(k)) = Len(ll) - 1
      /\ \A j \in DOMAIN Unlinked(k) : \E m \in DOMAIN ll : Unlinked(k)[j] = ll[m]
  BY UnlinkedIs
<1>2. Pos(k) \in DOMAIN ll /\ ll[Pos(k)].key = k
  BY PosIs
<1>3. ll[Pos(k)] \in Entries
  BY <1>2, ElementOfSeq, LenProperties
<1> DEFINE moved == Cons(ll[Pos(k)], Unlinked(k))
<1>4. /\ moved \in Seq(Entries)
      /\ OnePerKey(moved)
      /\ Keys(moved) = Keys(Unlinked(k)) \cup {k}
      /\ Len(moved) = Len(Unlinked(k)) + 1
      /\ \A j \in DOMAIN moved :
            moved[j] = ll[Pos(k)] \/ \E m \in DOMAIN Unlinked(k) : moved[j] = Unlinked(k)[m]
  BY <1>1, <1>2, <1>3, PushNew
<1>5. ll' = moved /\ byKey' = byKey
  BY DEF GetHit
<1> HIDE DEF moved
<1>6. Len(moved) = Len(ll)
  BY <1>1, <1>4, LenProperties
<1>7. Keys(moved) = byKey
  BY <1>1, <1>4
<1>8. \A j \in DOMAIN moved : \E m \in DOMAIN ll : moved[j] = ll[m]
  BY <1>1, <1>2, <1>4
<1> QED
  BY <1>4, <1>5, <1>6, <1>7, <1>8 DEF ListMapAgree

\* Get, miss.
LEMMA GetMissIs ==
    ASSUME ll \in Seq(Entries), ListMapAgree, NEW k, GetMiss(k)
    PROVE  /\ ll' \in Seq(Entries)
           /\ byKey' \subseteq byKey
           /\ ListMapAgree'
           /\ \A j \in DOMAIN ll' : \E m \in DOMAIN ll : ll'[j] = ll[m]
  BY UnlinkedIs DEF GetMiss, ListMapAgree

\* Set: the new entry and entries that were there, within the capacity.
LEMMA SetIs ==
    ASSUME ll \in Seq(Entries), byKey \subseteq Stmts, ListMapAgree,
           NEW k \in Stmts, NEW rows \in 0..MaxWrites, NEW marks \in SUBSET Causes,
           Set(k, rows, marks)
    PROVE  /\ ll' \in Seq(Entries)
           /\ byKey' \subseteq Stmts
           /\ ListMapAgree'
           /\ \A j \in DOMAIN ll' : \/ ll'[j].rows = rows /\ ll'[j].marks = marks
                                    \/ \E m \in DOMAIN ll : ll'[j] = ll[m]
<1>1. CASE k \in Oversized
  BY <1>1 DEF Set, ListMapAgree, Keys, OnePerKey
<1>2. CASE k \notin Oversized
  <2> DEFINE e == [key |-> k, rows |-> rows, age |-> 0, marks |-> marks]
             pushed == Cons(e, Unlinked(k))
  <2>1. /\ Unlinked(k) \in Seq(Entries)
        /\ OnePerKey(Unlinked(k))
        /\ Keys(Unlinked(k)) = byKey \ {k}
        /\ Len(Unlinked(k)) \in Nat
        /\ Len(Unlinked(k)) =< CacheMaxEntries
        /\ \A j \in DOMAIN Unlinked(k) : \E m \in DOMAIN ll : Unlinked(k)[j] = ll[m]
    BY UnlinkedIs
  <2>2. e \in Entries /\ e.key = k /\ e.rows = rows /\ e.marks = marks
    BY TtlAssumption DEF Entries
  <2> HIDE DEF e
  <2>3. /\ pushed \in Seq(Entries)
        /\ OnePerKey(pushed)
        /\ Keys(pushed) = Keys(Unlinked(k)) \cup {e.key}
        /\ Len(pushed) = Len(Unlinked(k)) + 1
        /\ \A j \in DOMAIN pushed :
              pushed[j] = e \/ \E m \in DOMAIN Unlinked(k) : pushed[j] = Unlinked(k)[m]
    BY <2>1, <2>2, PushNew
  <2>4. IF Len(pushed) > CacheMaxEntries
        THEN /\ ll' = Front(pushed)
             /\ byKey' = (byKey \cup {k}) \ {Last(pushed).key}
        ELSE /\ ll' = pushed
             /\ byKey' = byKey \cup {k}
    BY <1>2 DEF Set, e
  <2> HIDE DEF pushed
  <2>5. Keys(pushed) = byKey \cup {k}
    BY <2>1, <2>2, <2>3
  <2>6. \A j \in DOMAIN pushed : \/ pushed[j].rows = rows /\ pushed[j].marks = marks
                                 \/ \E m \in DOMAIN ll : pushed[j] = ll[m]
    BY <2>1, <2>2, <2>3
  <2>7. CacheMaxEntries \in Nat \ {0}
    BY CapacityAssumption
  <2>8. CASE Len(pushed) > CacheMaxEntries
    <3>1. /\ Front(pushed) \in Seq(Entries)
          /\ OnePerKey(Front(pushed))
          /\ Keys(Front(pushed)) = Keys(pushed) \ {Last(pushed).key}
          /\ Len(Front(pushed)) = Len(pushed) - 1
          /\ \A j \in DOMAIN Front(pushed) : \E m \in DOMAIN pushed : Front(pushed)[j] = pushed[m]
      <4>1. Len(pushed) > 0
        BY <2>1, <2>3
      <4> QED
        BY <4>1, <2>3, DropBack
    <3>2. ll' = Front(pushed) /\ byKey' = Keys(Front(pushed))
      BY <2>4, <2>5, <2>8, <3>1
    <3>3. Len(ll') =< CacheMaxEntries
      BY <2>1, <2>3, <2>7, <3>1, <3>2
    <3>4. \A j \in DOMAIN ll' : \/ ll'[j].rows = rows /\ ll'[j].marks = marks
                                \/ \E m \in DOMAIN ll : ll'[j] = ll[m]
      BY <2>6, <3>1, <3>2
    <3>5. byKey' \subseteq Stmts
      BY <2>5, <3>1, <3>2
    <3> QED
      BY <3>1, <3>2, <3>3, <3>4, <3>5 DEF ListMapAgree
  <2>9. CASE ~(Len(pushed) > CacheMaxEntries)
    <3>1. ll' = pushed /\ byKey' = Keys(pushed)
      BY <2>4, <2>5, <2>9
    <3>2. Len(ll') =< CacheMaxEntries
      BY <2>1, <2>3, <2>7, <2>9, <3>1
    <3>3. byKey' \subseteq Stmts
      BY <2>5, <3>1
    <3> QED
      BY <2>3, <2>6, <3>1, <3>2, <3>3 DEF ListMapAgree
  <2> QED
    BY <2>8, <2>9
<1> QED
  BY <1>1, <1>2

----------------------------------------------------------------------------
(* The inductive invariant.  StaleHasCause speaks of entries; rows that a   *)
(* request is about to store need the same, or the store would break it.   *)

CallsHaveCause ==
    InvalidationDue \/ \A c \in Clients :
        pc[c] = "fill" /\ call[c].rows < db => call[c].marks # {}

CacheInv ==
    /\ TypeOK
    /\ ListMapAgree
    /\ StaleHasCause
    /\ CallsHaveCause

\* The request record a client starts from and returns to.
LEMMA NoCallType == NoCall \in Calls
<1>1. \E s \in Selects : TRUE
  BY StatementsAssumption
<1>2. (CHOOSE s \in Selects : TRUE) \in Stmts
  BY <1>1 DEF Stmts
<1> QED
  BY <1>2, MaxWritesAssumption DEF NoCall, Calls

\* Initially the cache is empty and nobody is at work.
LEMMA CacheInit == Init => CacheInv
<1> SUFFICES ASSUME Init PROVE CacheInv
  OBVIOUS
<1>2. TypeOK
  BY NoCallType, MaxWritesAssumption DEF Init, TypeOK
<1>3. ListMapAgree
  BY CapacityAssumption DEF Init, ListMapAgree, Keys, OnePerKey
<1>4. StaleHasCause /\ CallsHaveCause
  BY DEF Init, StaleHasCause, CallsHaveCause
<1> QED
  BY <1>2, <1>3, <1>4 DEF CacheInv

\* Recording a cause changes nothing but the marks.
LEMMA BlameIs ==
    ASSUME ll \in Seq(Entries), NEW cause \in Causes
    PROVE  /\ Blame(cause, ll) \in Seq(Entries)
           /\ Len(Blame(cause, ll)) = Len(ll)
           /\ Keys(Blame(cause, ll)) = Keys(ll)
           /\ OnePerKey(ll) => OnePerKey(Blame(cause, ll))
           /\ \A i \in DOMAIN Blame(cause, ll) : Blame(cause, ll)[i].marks # {}
<1> DEFINE t == Blame(cause, ll)
<1>1. \A i \in DOMAIN ll : ll[i] \in Entries
  BY ElementOfSeq, LenProperties
<1>2. /\ DOMAIN t = DOMAIN ll
      /\ \A i \in DOMAIN ll : t[i] = [ll[i] EXCEPT !.marks = @ \cup {cause}]
  BY DEF Blame
<1>3. \A i \in DOMAIN ll : t[i] \in Entries /\ t[i].key = ll[i].key /\ t[i].marks # {}
  <2> SUFFICES ASSUME NEW i \in DOMAIN ll
               PROVE  t[i] \in Entries /\ t[i].key = ll[i].key /\ t[i].marks # {}
    OBVIOUS
  <2> DEFINE e == ll[i]
             m == e.marks \cup {cause}
  <2>1. e \in Entries /\ t[i] = [e EXCEPT !.marks = m]
    BY <1>1, <1>2
  <2>2. m \in SUBSET Causes /\ m # {}
    BY <2>1 DEF Entries
  <2> HIDE DEF e, m
  <2>3. [e EXCEPT !.marks = m] \in Entries
    BY <2>1, <2>2 DEF Entries
  <2>4. [e EXCEPT !.marks = m].key = e.key /\ [e EXCEPT !.marks = m].marks = m
    BY <2>1 DEF Entries
  <2> QED
    BY <2>1, <2>2, <2>3, <2>4 DEF e
<1>4. t \in [DOMAIN ll -> Entries]
  BY <1>3 DEF Blame
<1> HIDE DEF t
<1>5. /\ t \in Seq(Entries)
      /\ Len(t) = Len(ll)
      /\ Keys(t) = Keys(ll)
      /\ OnePerKey(ll) => OnePerKey(t)
  BY <1>2, <1>3, <1>4, Rewrite
<1> QED
  BY <1>2, <1>3, <1>5 DEF t

\* The same for rows that requests hold.
LEMMA BlameCallsIs ==
    ASSUME call \in [Clients -> Calls], NEW cause \in Causes
    PROVE  /\ BlameCalls(cause) \in [Clients -> Calls]
           /\ \A c \in Clients : pc[c] = "fill" => BlameCalls(cause)[c].marks # {}
  BY DEF BlameCalls, Calls

\* A mutation that bypasses invalidation leaves the cache well formed and
\* blames every entry.
LEMMA BypassIs ==
    ASSUME TypeOK, ListMapAgree, Bypass
    PROVE  /\ db' \in 0..MaxWrites
           /\ db' = db + 1
           /\ ll' \in Seq(Entries)
           /\ byKey' \subseteq Stmts
           /\ ListMapAgree'
           /\ \A i \in DOMAIN ll' : ll'[i].marks # {}
<1>1. "bypass" \in Causes
  BY DEF Causes
<1>2. ll' = Blame("bypass", ll) /\ byKey' = byKey /\ db' = db + 1 /\ db < MaxWrites
  BY DEF Bypass
<1>3. ll \in Seq(Entries) /\ byKey \subseteq Stmts /\ db \in 0..MaxWrites
  BY DEF TypeOK
<1>4. /\ ll' \in Seq(Entries)
      /\ Len(ll') = Len(ll)
      /\ Keys(ll') = Keys(ll)
      /\ OnePerKey(ll) => OnePerKey(ll')
      /\ \A i \in DOMAIN ll' : ll'[i].marks # {}
  BY <1>1, <1>2, <1>3, BlameIs
<1>5. db' \in 0..MaxWrites
  BY <1>2, <1>3, MaxWritesAssumption
<1> QED
  BY <1>2, <1>3, <1>4, <1>5 DEF ListMapAgree

\* Every step keeps the invariant.
LEMMA CacheStep == CacheInv /\ [Next]_vars => CacheInv'
<1> SUFFICES ASSUME CacheInv, [Next]_vars
             PROVE  CacheInv'
  OBVIOUS
<1> USE NoCallType
<1>t. /\ TypeOK /\ ListMapAgree
      /\ db \in 0..MaxWrites
      /\ ll \in Seq(Entries)
      /\ byKey \subseteq Stmts
      /\ pc \in [Clients -> {"idle", "exec", "inval", "fill"}]
      /\ call \in [Clients -> Calls]
      /\ served \in [Clients -> 0..MaxWrites]
  BY DEF CacheInv, TypeOK
<1>u. \A i \in DOMAIN ll : ll[i] \in Entries
  BY <1>t, ElementOfSeq, LenProperties
<1>1. ASSUME NEW c \in Clients, NEW s \in Stmts, PagedHit(c, s)
      PROVE  CacheInv'
  <2>1. s \in byKey
    BY <1>1 DEF PagedHit, Live
  <2>2. /\ ll' \in Seq(Entries)
        /\ byKey' = byKey
        /\ ListMapAgree'
        /\ \A j \in DOMAIN ll' : \E m \in DOMAIN ll : ll'[j] = ll[m]
    BY <1>1, <1>t, <2>1, GetHitIs DEF PagedHit
  <2>3. ll[Pos(s)].rows \in 0..MaxWrites
    BY <1>t, <1>u, <2>1, PosIs DEF Entries
  <2>4. TypeOK'
    BY <1>1, <1>t, <2>2, <2>3 DEF PagedHit, TypeOK
  <2>5. StaleHasCause' /\ CallsHaveCause'
    BY <1>1, <2>2 DEF PagedHit, CacheInv, StaleHasCause, CallsHaveCause, InvalidationDue
  <2> QED
    BY <2>2, <2>4, <2>5 DEF CacheInv
<1>2. ASSUME NEW c \in Clients, NEW s \in Stmts, PagedMiss(c, s)
      PROVE  CacheInv'
  <2>1. /\ ll' \in Seq(Entries)
        /\ byKey' \subseteq byKey
        /\ ListMapAgree'
        /\ \A j \in DOMAIN ll' : \E m \in DOMAIN ll : ll'[j] = ll[m]
    BY <1>2, <1>t, GetMissIs DEF PagedMiss
  <2>2. call' \in [Clients -> Calls]
    BY <1>2, <1>t DEF PagedMiss, Enter, Calls
  <2>3. TypeOK'
    BY <1>2, <1>t, <2>1, <2>2 DEF PagedMiss, Enter, TypeOK
  <2>4. StaleHasCause' /\ CallsHaveCause'
    BY <1>2, <1>t, <2>1
    DEF PagedMiss, Enter, CacheInv, StaleHasCause, CallsHaveCause, InvalidationDue
  <2> QED
    BY <2>1, <2>3, <2>4 DEF CacheInv
<1>3. ASSUME NEW c \in Clients, NEW s \in Stmts, Unpaged(c, s)
      PROVE  CacheInv'
  <2>1. call' \in [Clients -> Calls]
    BY <1>3, <1>t DEF Unpaged, Enter, Calls
  <2>2. TypeOK' /\ ListMapAgree'
    BY <1>3, <1>t, <2>1 DEF Unpaged, Enter, TypeOK, ListMapAgree, OnePerKey, Keys
  <2>3. StaleHasCause' /\ CallsHaveCause'
    BY <1>3, <1>t
    DEF Unpaged, Enter, CacheInv, StaleHasCause, CallsHaveCause, InvalidationDue
  <2> QED
    BY <2>2, <2>3 DEF CacheInv
<1>4. ASSUME NEW c \in Clients, ExecRead(c)
      PROVE  CacheInv'
  <2>1. /\ pc' = [pc EXCEPT ![c] = IF call[c].paged THEN "fill" ELSE "idle"]
        /\ call' = [call EXCEPT ![c] = IF call[c].paged THEN [@ EXCEPT !.rows = db] ELSE NoCall]
        /\ served' = [served EXCEPT ![c] = db]
        /\ UNCHANGED <<db, ll, byKey>>
    BY <1>4 DEF ExecRead, Return
  <2>2. TypeOK' /\ ListMapAgree'
    <3>1. [call[c] EXCEPT !.rows = db] \in Calls
      BY <1>t DEF Calls
    <3>2. call' \in [Clients -> Calls]
      BY <1>t, <2>1, <3>1
    <3> QED
      BY <1>t, <2>1, <3>2 DEF TypeOK, ListMapAgree, OnePerKey, Keys
  <2>3. InvalidationDue' <=> InvalidationDue
    BY <1>4, <1>t DEF ExecRead, Return, InvalidationDue
  <2>4. ~(call'[c].rows < db') \/ pc'[c] = "idle"
    BY <1>4, <1>t DEF ExecRead, Return, Calls
  <2>5. StaleHasCause' /\ CallsHaveCause'
    BY <1>4, <1>t, <2>3, <2>4
    DEF ExecRead, Return, CacheInv, StaleHasCause, CallsHaveCause
  <2> QED
    BY <2>2, <2>5 DEF CacheInv
<1>5. ASSUME NEW c \in Clients, ExecWrite(c)
      PROVE  CacheInv'
  <2>1. TypeOK' /\ ListMapAgree'
    BY <1>5, <1>t, MaxWritesAssumption DEF ExecWrite, TypeOK, ListMapAgree, OnePerKey, Keys
  <2>2. InvalidationDue'
    BY <1>5, <1>t DEF ExecWrite, InvalidationDue
  <2> QED
    BY <2>1, <2>2 DEF CacheInv, StaleHasCause, CallsHaveCause
<1>6. ASSUME NEW c \in Clients, ExecCte(c)
      PROVE  CacheInv'
  <2>1. Bypass /\ "bypass" \in Causes
    BY <1>6 DEF ExecCte, Causes
  <2>2. /\ db' \in 0..MaxWrites
        /\ db' = db + 1
        /\ ll' \in Seq(Entries)
        /\ byKey' \subseteq Stmts
        /\ ListMapAgree'
        /\ \A i \in DOMAIN ll' : ll'[i].marks # {}
    BY <1>t, <2>1, BypassIs
  <2>3. /\ BlameCalls("bypass") \in [Clients -> Calls]
        /\ \A d \in Clients : pc[d] = "fill" => BlameCalls("bypass")[d].marks # {}
    BY <1>t, <2>1, BlameCallsIs
  <2> DEFINE stores == call[c].paged /\ HasColumns(call[c].stmt)
  <2>4. /\ served' = [served EXCEPT ![c] = db + 1]
        /\ pc' = [pc EXCEPT ![c] = IF stores THEN "fill" ELSE "idle"]
        /\ stores => call' = [BlameCalls("bypass") EXCEPT ![c].rows = db + 1]
        /\ ~stores => call' = [BlameCalls("bypass") EXCEPT ![c] = NoCall]
    BY <1>6 DEF ExecCte
  <2> HIDE DEF stores
  <2>5. call' \in [Clients -> Calls]
    BY <2>2, <2>3, <2>4 DEF Calls
  <2>6. TypeOK'
    BY <1>t, <2>2, <2>4, <2>5 DEF TypeOK
  <2>7. \A d \in Clients : pc'[d] = "fill" /\ call'[d].rows < db' => call'[d].marks # {}
    BY <1>t, <2>2, <2>3, <2>4 DEF Calls
  <2> QED
    BY <2>2, <2>6, <2>7 DEF CacheInv, StaleHasCause, CallsHaveCause
<1>7. ASSUME NEW c \in Clients, ExecFail(c)
      PROVE  CacheInv'
  <2>1. TypeOK' /\ ListMapAgree'
    BY <1>7, <1>t DEF ExecFail, Return, TypeOK, ListMapAgree, OnePerKey, Keys
  <2>2. InvalidationDue' <=> InvalidationDue
    BY <1>7, <1>t DEF ExecFail, Return, InvalidationDue
  <2>3. StaleHasCause' /\ CallsHaveCause'
    BY <1>7, <1>t, <2>2 DEF ExecFail, Return, CacheInv, StaleHasCause, CallsHaveCause
  <2> QED
    BY <2>1, <2>3 DEF CacheInv
<1>8. ASSUME NEW c \in Clients, ExecPartial(c)
      PROVE  CacheInv'
  <2>1. Bypass /\ "bypass" \in Causes
    BY <1>8 DEF ExecPartial, Causes
  <2>2. /\ db' \in 0..MaxWrites
        /\ db' = db + 1
        /\ ll' \in Seq(Entries)
        /\ byKey' \subseteq Stmts
        /\ ListMapAgree'
        /\ \A i \in DOMAIN ll' : ll'[i].marks # {}
    BY <1>t, <2>1, BypassIs
  <2>3. /\ BlameCalls("bypass") \in [Clients -> Calls]
        /\ \A d \in Clients : pc[d] = "fill" => BlameCalls("bypass")[d].marks # {}
    BY <1>t, <2>1, BlameCallsIs
  <2>4. /\ pc' = [pc EXCEPT ![c] = "idle"]
        /\ call' = [BlameCalls("bypass") EXCEPT ![c] = NoCall]
        /\ served' = served
    BY <1>8 DEF ExecPartial
  <2>5. TypeOK'
    BY <1>t, <2>2, <2>3, <2>4 DEF TypeOK
  <2>6. \A d \in Clients : pc'[d] = "fill" => call'[d].marks # {}
    BY <1>t, <2>3, <2>4
  <2> QED
    BY <2>2, <2>5, <2>6 DEF CacheInv, StaleHasCause, CallsHaveCause
<1>9. ASSUME NEW c \in Clients, InvalidateCache(c)
      PROVE  CacheInv'
  <2>1. "race" \in Causes
    BY DEF Causes
  <2>2. /\ BlameCalls("race") \in [Clients -> Calls]
        /\ \A d \in Clients : pc[d] = "fill" => BlameCalls("race")[d].marks # {}
    BY <1>t, <2>1, BlameCallsIs
  <2>3. /\ ll' = <<>>
        /\ byKey' = {}
        /\ pc' = [pc EXCEPT ![c] = "idle"]
        /\ call' = [BlameCalls("race") EXCEPT ![c] = NoCall]
        /\ UNCHANGED <<db, served>>
    BY <1>9 DEF InvalidateCache
  <2>4. TypeOK'
    BY <1>t, <2>2, <2>3 DEF TypeOK
  <2>5. ListMapAgree'
    BY <2>3, CapacityAssumption DEF ListMapAgree, OnePerKey, Keys
  <2>6. StaleHasCause'
    BY <2>3 DEF StaleHasCause
  <2>7. \A d \in Clients : pc'[d] = "fill" => call'[d].marks # {}
    BY <1>t, <2>2, <2>3
  <2> QED
    BY <2>4, <2>5, <2>6, <2>7 DEF CacheInv, CallsHaveCause
<1>10. ASSUME NEW c \in Clients, Fill(c)
       PROVE  CacheInv'
  <2>1. /\ call[c].stmt \in Stmts
        /\ call[c].rows \in 0..MaxWrites
        /\ call[c].marks \in SUBSET Causes
    BY <1>t DEF Calls
  <2>2. Set(call[c].stmt, call[c].rows, call[c].marks)
    BY <1>10 DEF Fill
  <2>3. /\ ll' \in Seq(Entries)
        /\ byKey' \subseteq Stmts
        /\ ListMapAgree'
        /\ \A j \in DOMAIN ll' : \/ ll'[j].rows = call[c].rows /\ ll'[j].marks = call[c].marks
                                 \/ \E m \in DOMAIN ll : ll'[j] = ll[m]
    BY <1>t, <2>1, <2>2, SetIs
  <2>4. /\ pc[c] = "fill"
        /\ pc' = [pc EXCEPT ![c] = "idle"]
        /\ call' = [call EXCEPT ![c] = NoCall]
        /\ UNCHANGED <<db, served>>
    BY <1>10 DEF Fill, Return
  <2>5. TypeOK'
    BY <1>t, <2>3, <2>4 DEF TypeOK
  <2>6. InvalidationDue' <=> InvalidationDue
    BY <1>t, <2>4 DEF InvalidationDue
  <2>7. StaleHasCause' /\ CallsHaveCause'
    BY <1>t, <2>3, <2>4, <2>6 DEF CacheInv, StaleHasCause, CallsHaveCause
  <2> QED
    BY <2>3, <2>5, <2>7 DEF CacheInv
<1>11. CASE DirectWrite
  <2>1. Bypass /\ "bypass" \in Causes
    BY <1>11 DEF DirectWrite, Causes
  <2>2. /\ db' \in 0..MaxWrites
        /\ db' = db + 1
        /\ ll' \in Seq(Entries)
        /\ byKey' \subseteq Stmts
        /\ ListMapAgree'
        /\ \A i \in DOMAIN ll' : ll'[i].marks # {}
    BY <1>t, <2>1, BypassIs
  <2>3. /\ BlameCalls("bypass") \in [Clients -> Calls]
        /\ \A d \in Clients : pc[d] = "fill" => BlameCalls("bypass")[d].marks # {}
    BY <1>t, <2>1, BlameCallsIs
  <2>4. call' = BlameCalls("bypass") /\ UNCHANGED <<pc, served>>
    BY <1>11 DEF DirectWrite
  <2> QED
    BY <1>t, <2>2, <2>3, <2>4 DEF CacheInv, TypeOK, StaleHasCause, CallsHaveCause
<1>12. CASE Tick
  <2>1. ll' = [i \in DOMAIN ll |-> [ll[i] EXCEPT !.age = IF @ > TTL THEN @ ELSE @ + 1]]
    BY <1>12 DEF Tick
  <2>2. \A i \in DOMAIN ll : /\ ll'[i] \in Entries
                             /\ ll'[i].key = ll[i].key
                             /\ ll'[i].rows = ll[i].rows
                             /\ ll'[i].marks = ll[i].marks
    BY <1>u, <2>1, TtlAssumption DEF Entries
  <2>3. DOMAIN ll' = DOMAIN ll /\ ll' \in [DOMAIN ll -> Entries]
    BY <2>1, <2>2
  <2>4. /\ ll' \in Seq(Entries)
        /\ Len(ll') = Len(ll)
        /\ Keys(ll') = Keys(ll)
        /\ OnePerKey(ll) => OnePerKey(ll')
    BY <1>t, <2>2, <2>3, Rewrite
  <2>5. UNCHANGED <<db, byKey, pc, call, served>>
    BY <1>12 DEF Tick
  <2>6. TypeOK' /\ ListMapAgree'
    BY <1>t, <2>4, <2>5 DEF TypeOK, ListMapAgree
  <2>7. StaleHasCause' /\ CallsHaveCause'
    BY <2>2, <2>3, <2>5 DEF CacheInv, StaleHasCause, CallsHaveCause, InvalidationDue
  <2> QED
    BY <2>6, <2>7 DEF CacheInv
<1>13. CASE UNCHANGED vars
  BY <1>13 DEF vars, CacheInv, TypeOK, ListMapAgree, Keys, OnePerKey, StaleHasCause,
               CallsHaveCause, InvalidationDue
<1> QED
  BY <1>1, <1>2, <1>3, <1>4, <1>5, <1>6, <1>7, <1>8, <1>9, <1>10, <1>11, <1>12, <1>13
  DEF Next, Begin, Continue

\* The invariant holds throughout.
LEMMA CacheInvariance == Spec => []CacheInv
  BY CacheInit, CacheStep, PTL DEF Spec

\* Every variable keeps its type.
THEOREM CacheTypes == Spec => []TypeOK
<1>1. CacheInv => TypeOK
  BY DEF CacheInv
<1> QED
  BY <1>1, CacheInvariance, PTL

\* cacheStore's list and map describe the same entries, one per key, within
\* the capacity, whatever requests interleave.
THEOREM CacheWellFormed == Spec => []ListMapAgree
<1>1. CacheInv => ListMapAgree
  BY DEF CacheInv
<1> QED
  BY <1>1, CacheInvariance, PTL

\* Staleness has the two causes of StaleHasCause and no other.
THEOREM StalenessExplained == Spec => []StaleHasCause
<1>1. CacheInv => StaleHasCause
  BY DEF CacheInv
<1> QED
  BY <1>1, CacheInvariance, PTL

----------------------------------------------------------------------------
(* One request at a time, every write through QueryCtx and none of them a   *)
(* WITH statement or a script: then the cache is invisible.                 *)

Serial(c) ==
    /\ Clients = {c}
    /\ CteDmls = {}
    /\ CteReturnings = {}
    /\ Scripts = {}
    /\ DirectWrites = FALSE

\* Unless the invalidation is next, what is cached or about to be is current.
Current(c) ==
    \/ pc[c] = "inval"
    \/ /\ \A i \in DOMAIN ll : ll[i].rows = db
       /\ pc[c] = "fill" => call[c].rows = db

SerialInv(c) == CacheInv /\ Current(c)

\* A serial step keeps the cache current and answers from current contents.
LEMMA SerialStep ==
    ASSUME NEW c, Serial(c), SerialInv(c), [Next]_vars
    PROVE  Current(c)' /\ [Direct!Next]_<<db, served>>
<1>t. /\ TypeOK /\ ListMapAgree
      /\ ll \in Seq(Entries)
      /\ byKey \subseteq Stmts
      /\ pc \in [Clients -> {"idle", "exec", "inval", "fill"}]
      /\ call \in [Clients -> Calls]
      /\ served \in [Clients -> 0..MaxWrites]
      /\ c \in Clients
      /\ Clients = {c}
      /\ Current(c)
  BY DEF SerialInv, CacheInv, TypeOK, Serial
<1>n. \/ \E s \in Stmts : PagedHit(c, s) \/ PagedMiss(c, s) \/ Unpaged(c, s)
      \/ ExecRead(c)
      \/ ExecWrite(c)
      \/ ExecCte(c)
      \/ ExecFail(c)
      \/ ExecPartial(c)
      \/ InvalidateCache(c)
      \/ Fill(c)
      \/ DirectWrite
      \/ Tick
      \/ UNCHANGED vars
  BY <1>t DEF Next, Begin, Continue
<1>1. ASSUME NEW s \in Stmts, PagedHit(c, s)
      PROVE  Current(c)' /\ [Direct!Next]_<<db, served>>
  <2>1. s \in byKey /\ pc[c] = "idle"
    BY <1>1 DEF PagedHit, Live
  <2>2. \A j \in DOMAIN ll' : \E m \in DOMAIN ll : ll'[j] = ll[m]
    BY <1>1, <1>t, <2>1, GetHitIs DEF PagedHit
  <2>3. ll[Pos(s)].rows = db
    BY <1>t, <2>1, PosIs DEF Current
  <2>4. /\ served' = [served EXCEPT ![c] = ll[Pos(s)].rows]
        /\ UNCHANGED <<db, pc, call>>
    BY <1>1 DEF PagedHit
  <2>5. Direct!Answer(c)
    BY <2>3, <2>4 DEF Direct!Answer
  <2> QED
    BY <1>t, <2>1, <2>2, <2>4, <2>5 DEF Current, Direct!Next
<1>2. ASSUME NEW s \in Stmts, PagedMiss(c, s)
      PROVE  Current(c)' /\ [Direct!Next]_<<db, served>>
  <2>1. \A j \in DOMAIN ll' : \E m \in DOMAIN ll : ll'[j] = ll[m]
    BY <1>2, <1>t, GetMissIs DEF PagedMiss
  <2> QED
    BY <1>2, <1>t, <2>1 DEF PagedMiss, Enter, Current
<1>3. ASSUME NEW s \in Stmts, Unpaged(c, s)
      PROVE  Current(c)' /\ [Direct!Next]_<<db, served>>
  BY <1>3, <1>t DEF Unpaged, Enter, Current
<1>4. CASE ExecRead(c)
  <2>1. /\ pc[c] = "exec"
        /\ served' = [served EXCEPT ![c] = db]
        /\ call[c].paged => call' = [call EXCEPT ![c] = [@ EXCEPT !.rows = db]]
        /\ ~call[c].paged => pc' = [pc EXCEPT ![c] = "idle"]
        /\ UNCHANGED <<db, ll, byKey>>
    BY <1>4 DEF ExecRead, Return
  <2>2. Direct!Answer(c)
    BY <2>1 DEF Direct!Answer
  <2>3. [call[c] EXCEPT !.rows = db].rows = db
    BY <1>t DEF Calls
  <2>4. Current(c)'
    BY <1>t, <2>1, <2>3 DEF Current
  <2> QED
    BY <1>t, <2>2, <2>4 DEF Direct!Next
<1>5. CASE ExecWrite(c)
  BY <1>5, <1>t DEF ExecWrite, Current, Direct!Next, Direct!Write
<1>6. CASE ExecCte(c)
  <2>1. call[c].stmt \in Stmts
    BY <1>t DEF Calls
  <2>2. call[c].stmt \notin Dmls /\ call[c].stmt \notin Selects
    BY <1>6 DEF ExecCte, isReadQuery, Mutates
  <2> QED
    BY <2>1, <2>2 DEF Serial, Stmts
<1>7. CASE ExecFail(c)
  BY <1>7, <1>t DEF ExecFail, Return, Current
<1>8. CASE ExecPartial(c)
  BY <1>8 DEF ExecPartial, Serial
<1>9. CASE InvalidateCache(c)
  BY <1>9, <1>t DEF InvalidateCache, Current
<1>10. CASE Fill(c)
  <2>1. /\ call[c].stmt \in Stmts
        /\ call[c].rows \in 0..MaxWrites
        /\ call[c].marks \in SUBSET Causes
    BY <1>t DEF Calls
  <2>2. \A j \in DOMAIN ll' : \/ ll'[j].rows = call[c].rows /\ ll'[j].marks = call[c].marks
                              \/ \E m \in DOMAIN ll : ll'[j] = ll[m]
    BY <1>10, <1>t, <2>1, SetIs DEF Fill
  <2>3. /\ pc[c] = "fill"
        /\ pc' = [pc EXCEPT ![c] = "idle"]
        /\ UNCHANGED <<db, served>>
    BY <1>10 DEF Fill, Return
  <2> QED
    BY <1>t, <2>2, <2>3 DEF Current
<1>11. CASE DirectWrite
  BY <1>11 DEF DirectWrite, Serial
<1>12. CASE Tick
  <2>1. /\ ll' = [i \in DOMAIN ll |-> [ll[i] EXCEPT !.age = IF @ > TTL THEN @ ELSE @ + 1]]
        /\ UNCHANGED <<db, byKey, pc, call, served>>
    BY <1>12 DEF Tick
  <2>2. \A i \in DOMAIN ll : ll[i] \in Entries
    BY <1>t, ElementOfSeq, LenProperties
  <2>3. \A i \in DOMAIN ll' : i \in DOMAIN ll /\ ll'[i].rows = ll[i].rows
    BY <2>1, <2>2 DEF Entries
  <2> QED
    BY <1>t, <2>1, <2>3 DEF Current
<1>13. CASE UNCHANGED vars
  BY <1>13, <1>t DEF vars, Current
<1> QED
  BY <1>n, <1>1, <1>2, <1>3, <1>4, <1>5, <1>6, <1>7, <1>8, <1>9, <1>10, <1>11, <1>12, <1>13

\* A serial client is always answered with the contents of the database at
\* the moment of the answer, as by a service without a cache.
THEOREM SerialAnswersAreCurrent ==
    ASSUME NEW c, Serial(c)
    PROVE  Spec => AnswersAreCurrent
<1>0. c \in Clients
  BY DEF Serial
<1>1. Init => Direct!Init /\ SerialInv(c)
  BY <1>0, CacheInit DEF Init, Direct!Init, SerialInv, Current
<1>2. SerialInv(c) /\ [Next]_vars => SerialInv(c)' /\ [Direct!Next]_<<db, served>>
  BY SerialStep, CacheStep DEF SerialInv
<1> QED
  BY <1>1, <1>2, PTL DEF Spec, AnswersAreCurrent, Direct!Spec

\* Between its requests the cache of a serial client holds nothing stale.
THEOREM SerialCoherence ==
    ASSUME NEW c, Serial(c)
    PROVE  Spec => []CoherentWhenQuiet
<1>0. c \in Clients
  BY DEF Serial
<1>1. Init => SerialInv(c)
  BY <1>0, CacheInit DEF Init, SerialInv, Current
<1>2. SerialInv(c) /\ [Next]_vars => SerialInv(c)'
  BY SerialStep, CacheStep DEF SerialInv
<1>3. SerialInv(c) => CoherentWhenQuiet
  BY DEF SerialInv, Current, CoherentWhenQuiet, Serial
<1> QED
  BY <1>1, <1>2, <1>3, PTL DEF Spec

=============================================================================
