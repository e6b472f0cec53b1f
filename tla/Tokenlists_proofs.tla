--------------------------- MODULE Tokenlists_proofs ---------------------------
(***************************************************************************)
(* Safety of the token lists of a page: the two sequences of entries stay  *)
(* consistent under every insertion, removal and stale index.              *)
(***************************************************************************)
EXTENDS Tokenlists, SequenceTheorems, WellFoundedInduction, TLAPS

Bundled == {"default", "builtin", "local"}
Entries == [id : Sources \cup Bundled, on : BOOLEAN, failed : BOOLEAN]
Saves   == Seq([id : Sources, on : BOOLEAN])
States  == UNION {[D -> BOOLEAN] : D \in SUBSET (Sources \cup {"default"})}

(* The entries hp of a page, with ls and us for _lists and _userLists. *)
Shaped(hp, ls, us) ==
    hp \in Seq(Entries) /\ ls \in Seq(1..Len(hp)) /\ us \in Seq(1..Len(hp))

OwnOf(hp, ls) == {i \in Range(ls) : hp[i].id \in Sources}

(* Nothing but the user's lists is before the default list. *)
DefaultFirst(hp, ls) ==
    \A j, k \in DOMAIN ls : j < k /\ hp[ls[k]].id = "default" => hp[ls[j]].id \in Sources

StayOn(hp, ls) ==
    (\E i \in Range(ls) : hp[i].id = "default") =>
        \A i \in Range(ls) : hp[i].id \in {"builtin", "local"} => hp[i].on

Consistent(hp, ls, us) ==
    /\ IsInjective(ls) /\ IsInjective(us) /\ Range(us) = OwnOf(hp, ls)
    /\ DefaultFirst(hp, ls) /\ StayOn(hp, ls)

Page == Shaped(heap, lists, userLists) /\ Consistent(heap, lists, userLists)

(* Only lists of the user fail; none has before they are restored. *)
Failures ==
    /\ \A o \in 1..Len(heap) : heap[o].failed => ready /\ heap[o].id \in Sources
    /\ retrying \in Seq([index : Nat, entry : 1..Len(heap)])
    /\ \A k \in DOMAIN retrying : ready /\ heap[retrying[k].entry].id \in Sources

Storage ==
    /\ stored \in [metas : Saves, states : States, tokens : SUBSET Tokens]
    /\ read \in [metas : Saves, states : States]
    /\ adding \in Seq(Urls) /\ deleting \in Nat /\ ready \in BOOLEAN

(* While loading, tokens in use are those of this page's own saves, or none. *)
TokensKept ==
    /\ localTokens = {} \/ localTokens = stored.tokens
    /\ ready => localTokens = stored.tokens

IInv == Page /\ Failures /\ Storage /\ TokensKept

(* A set of positions has a first one, and a bounded one a last one. *)
LEMMA Least ==
    ASSUME NEW T \in SUBSET Nat, T # {}
    PROVE  \E m \in T : \A k \in T : m <= k
  <1>1. PICK m \in T : \A k \in T : <<k, m>> \notin OpToRel(<, Nat)
    BY NatLessThanWellFounded, WFMin
  <1>2. \A k \in T : ~ (k < m)
    BY <1>1 DEF OpToRel
  <1> QED
    BY <1>2

(* What Max chooses: the last of a bounded set of positions. *)
LEMMA Greatest ==
    ASSUME NEW n \in Nat, NEW T \in SUBSET (1..n), T # {}
    PROVE  \E m \in T : \A k \in T : k <= m
  <1>0. \A k \in T : n - k \in Nat
    OBVIOUS
  <1>1. {n - k : k \in T} \in SUBSET Nat /\ {n - k : k \in T} # {}
    BY <1>0
  <1>2. \E u \in {n - k : k \in T} : \A v \in {n - k : k \in T} : u <= v
    BY <1>1, Least
  <1>3. \E m \in T : \A v \in {n - k : k \in T} : n - m <= v
    BY <1>2
  <1>4. \E m \in T : \A k \in T : n - m <= n - k
    BY <1>3
  <1>5. \A k \in T : k \in Int
    OBVIOUS
  <1> QED
    BY <1>4, <1>5

(* The elements of a sequence, by position. *)
LEMMA Elements ==
    ASSUME NEW S, NEW s \in Seq(S)
    PROVE  Len(s) \in Nat /\ DOMAIN s = 1..Len(s) /\ \A k \in 1..Len(s) : s[k] \in S
  OBVIOUS

(* The parts that RemoveAt and InsertAt are joined from. *)
LEMMA Before ==
    ASSUME NEW S, NEW s \in Seq(S), NEW p \in Nat, p <= Len(s)
    PROVE  /\ SubSeq(s, 1, p) \in Seq(S) /\ Len(SubSeq(s, 1, p)) = p
           /\ \A k \in 1..p : SubSeq(s, 1, p)[k] = s[k]
  <1>1. Len(s) \in Nat /\ \A k \in 1..Len(s) : s[k] \in S
    BY LenProperties
  <1> QED
    BY <1>1

(* The part from a position on. *)
LEMMA After ==
    ASSUME NEW S, NEW s \in Seq(S), NEW i \in Nat, NEW n \in Nat, i >= 1, n = Len(s), i <= n + 1
    PROVE  /\ SubSeq(s, i, n) \in Seq(S) /\ Len(SubSeq(s, i, n)) = n + 1 - i
           /\ \A k \in 1..(n + 1 - i) : SubSeq(s, i, n)[k] = s[i + k - 1]
  <1>1. Len(s) \in Nat /\ \A k \in 1..Len(s) : s[k] \in S
    BY LenProperties
  <1> QED
    BY <1>1

(* Two parts joined: which element is where. *)
LEMMA Joined ==
    ASSUME NEW S, NEW a \in Seq(S), NEW b \in Seq(S)
    PROVE  /\ a \o b \in Seq(S) /\ Len(a \o b) = Len(a) + Len(b)
           /\ \A k \in 1..Len(a) : (a \o b)[k] = a[k]
           /\ \A k \in (Len(a) + 1)..(Len(a) + Len(b)) : (a \o b)[k] = b[k - Len(a)]
   OBVIOUS

(* RemoveAt, position by position. *)
LEMMA Removed ==
    ASSUME NEW S, NEW s \in Seq(S), NEW i \in 1..Len(s)
    PROVE  /\ RemoveAt(s, i) \in Seq(S) /\ Len(RemoveAt(s, i)) = Len(s) - 1
           /\ \A k \in 1..(i - 1) : RemoveAt(s, i)[k] = s[k]
           /\ \A k \in i..(Len(s) - 1) : RemoveAt(s, i)[k] = s[k + 1]
  <1> DEFINE a == SubSeq(s, 1, i - 1)
             b == SubSeq(s, i + 1, Len(s))
  <1>0. Len(s) \in Nat
    OBVIOUS
  <1>1. a \in Seq(S) /\ Len(a) = i - 1 /\ \A k \in 1..(i - 1) : a[k] = s[k]
    <2>1. i - 1 \in Nat /\ i - 1 <= Len(s)
      BY <1>0
    <2> QED
      BY <2>1, Before
  <1>2. b \in Seq(S) /\ Len(b) = Len(s) - i /\ \A k \in 1..(Len(s) - i) : b[k] = s[i + k]
    <2>1. i + 1 \in Nat /\ i + 1 >= 1 /\ i + 1 <= Len(s) + 1
      BY <1>0
    <2>2. /\ b \in Seq(S) /\ Len(b) = Len(s) + 1 - (i + 1)
          /\ \A k \in 1..(Len(s) + 1 - (i + 1)) : b[k] = s[(i + 1) + k - 1]
      BY <1>0, <2>1, After
    <2> HIDE DEF b
    <2>3. Len(s) + 1 - (i + 1) = Len(s) - i
      BY <1>0
    <2>4. \A k \in 1..(Len(s) - i) : (i + 1) + k - 1 = i + k
      BY <1>0
    <2> QED
      BY <2>2, <2>3, <2>4
  <1>3. RemoveAt(s, i) = a \o b
    BY DEF RemoveAt
  <1> HIDE DEF a, b
  <1>4. /\ a \o b \in Seq(S) /\ Len(a \o b) = Len(a) + Len(b)
        /\ \A k \in 1..Len(a) : (a \o b)[k] = a[k]
        /\ \A k \in (Len(a) + 1)..(Len(a) + Len(b)) : (a \o b)[k] = b[k - Len(a)]
    BY <1>1, <1>2, Joined
  <1>5. ASSUME NEW k \in i..(Len(s) - 1) PROVE (a \o b)[k] = s[k + 1]
    <2>1. k - (i - 1) \in 1..(Len(s) - i) /\ i + (k - (i - 1)) = k + 1 /\ k \in (Len(a) + 1)..(Len(a) + Len(b))
      BY <1>0, <1>1, <1>2
    <2>2. (a \o b)[k] = b[k - (i - 1)]
      BY <1>1, <1>4, <2>1
    <2>3. b[k - (i - 1)] = s[i + (k - (i - 1))]
      BY <1>2, <2>1
    <2> QED
      BY <2>1, <2>2, <2>3
  <1>6. \A k \in 1..(i - 1) : (a \o b)[k] = s[k]
      BY <1>1, <1>4
  <1>7. Len(a \o b) = Len(s) - 1
      BY <1>0, <1>1, <1>2, <1>4
  <1> QED
    BY <1>3, <1>4, <1>5, <1>6, <1>7

(* InsertAt before the last element, position by position. *)
LEMMA Inserted ==
    ASSUME NEW S, NEW s \in Seq(S), s # <<>>, NEW o \in S
    PROVE  /\ InsertAt(s, Len(s), o) \in Seq(S)
           /\ Len(InsertAt(s, Len(s), o)) = Len(s) + 1
           /\ \A k \in 1..(Len(s) - 1) : InsertAt(s, Len(s), o)[k] = s[k]
           /\ InsertAt(s, Len(s), o)[Len(s)] = o
           /\ InsertAt(s, Len(s), o)[Len(s) + 1] = s[Len(s)]
  <1> DEFINE a == SubSeq(s, 1, Len(s) - 1)
             b == SubSeq(s, Len(s), Len(s))
  <1>0. Len(s) \in Nat /\ Len(s) >= 1
    BY EmptySeq
  <1>1. a \in Seq(S) /\ Len(a) = Len(s) - 1 /\ \A k \in 1..(Len(s) - 1) : a[k] = s[k]
    <2>1. Len(s) - 1 \in Nat /\ Len(s) - 1 <= Len(s)
      BY <1>0
    <2> QED
      BY <2>1, Before
  <1>2. b \in Seq(S) /\ Len(b) = 1 /\ b[1] = s[Len(s)]
    BY <1>0
  <1>3. InsertAt(s, Len(s), o) = (a \o <<o>>) \o b
    BY DEF InsertAt
  <1> HIDE DEF a, b
  <1>4. PICK c : c = a \o <<o>>
    OBVIOUS
  <1>5. InsertAt(s, Len(s), o) = c \o b
    BY <1>3, <1>4
  <1>6. /\ c \in Seq(S) /\ Len(c) = Len(s) /\ c[Len(s)] = o
        /\ \A k \in 1..(Len(s) - 1) : c[k] = s[k]
    BY <1>0, <1>1, <1>4
  <1>7. /\ c \o b \in Seq(S) /\ Len(c \o b) = Len(s) + 1 /\ (c \o b)[Len(s) + 1] = b[1]
        /\ \A k \in 1..Len(s) : (c \o b)[k] = c[k]
    <2>1. /\ c \o b \in Seq(S) /\ Len(c \o b) = Len(c) + Len(b)
          /\ \A k \in 1..Len(c) : (c \o b)[k] = c[k]
          /\ \A k \in (Len(c) + 1)..(Len(c) + Len(b)) : (c \o b)[k] = b[k - Len(c)]
      <3>1. c \in Seq(S) /\ b \in Seq(S)
        BY <1>2, <1>6
      <3> QED
        BY <3>1, Joined
    <2>2. Len(s) + 1 \in (Len(c) + 1)..(Len(c) + Len(b)) /\ Len(s) + 1 - Len(c) = 1
      BY <1>0, <1>2, <1>6
    <2>3. (c \o b)[Len(s) + 1] = b[1]
      BY <2>1, <2>2
    <2> QED
      BY <1>2, <1>6, <2>1, <2>3
  <1> QED
    BY <1>0, <1>2, <1>5, <1>6, <1>7

(* A removal keeps the order, the rest of the range and that nothing is twice. *)
LEMMA RemovedRange ==
    ASSUME NEW S, NEW s \in Seq(S), IsInjective(s), NEW i \in 1..Len(s), NEW t, t = RemoveAt(s, i)
    PROVE  /\ t \in Seq(S) /\ IsInjective(t) /\ Range(t) = Range(s) \ {s[i]}
           /\ \A j, k \in DOMAIN t : j < k =>
                 \E a, b \in DOMAIN s : a < b /\ t[j] = s[a] /\ t[k] = s[b]
  <1> DEFINE was(k) == IF k < i THEN k ELSE k + 1
  <1>1. Len(s) \in Nat /\ DOMAIN s = 1..Len(s)
    OBVIOUS
  <1>2. /\ t \in Seq(S) /\ Len(t) = Len(s) - 1
        /\ \A k \in 1..(i - 1) : t[k] = s[k]
        /\ \A k \in i..(Len(s) - 1) : t[k] = s[k + 1]
    BY Removed
  <1>3. DOMAIN t = 1..(Len(s) - 1)
    BY <1>2
  <1>4. \A k \in DOMAIN t : was(k) \in DOMAIN s \ {i} /\ t[k] = s[was(k)]
    <2> TAKE k \in DOMAIN t
    <2>1. CASE k < i
      <3>1. k \in 1..(i - 1)
        BY <1>3, <2>1
      <3> QED
        BY <1>1, <1>2, <2>1, <3>1
    <2>2. CASE k >= i
      <3>1. k \in i..(Len(s) - 1) /\ ~ (k < i) /\ k + 1 \in 1..Len(s)
        BY <1>1, <1>3, <2>2
      <3> QED
        BY <1>1, <1>2, <2>2, <3>1
    <2>3. k < i \/ k >= i
      BY <1>3
    <2> QED
      BY <2>1, <2>2, <2>3
  <1>5. \A j, k \in DOMAIN t : j < k => was(j) < was(k)
    BY <1>1, <1>3
  <1>6. \A m \in DOMAIN s \ {i} : \E k \in DOMAIN t : was(k) = m
    <2> TAKE m \in DOMAIN s \ {i}
    <2>1. CASE m < i
      <3>1. m \in DOMAIN t
        BY <1>1, <1>3, <2>1
      <3> QED
        BY <2>1, <3>1
    <2>2. CASE m > i
      <3>1. m - 1 \in DOMAIN t /\ ~ (m - 1 < i) /\ (m - 1) + 1 = m
        BY <1>1, <1>3, <2>2
      <3> QED
        BY <3>1
    <2>3. m < i \/ m > i
      BY <1>1
    <2> QED
      BY <2>1, <2>2, <2>3
  <1> HIDE DEF was
  <1>7. \A j, k \in DOMAIN t : j = k \/ j < k \/ k < j
    BY <1>3
  <1>8. \A m \in DOMAIN s : ~ (m < m)
    BY <1>1
  <1>9. IsInjective(t)
    <2> SUFFICES ASSUME NEW j \in DOMAIN t, NEW k \in DOMAIN t, t[j] = t[k] PROVE j = k
      BY DEF IsInjective
    <2>1. was(j) = was(k)
      BY <1>4 DEF IsInjective
    <2> QED
      BY <1>4, <1>5, <1>7, <1>8, <2>1
  <1>10. Range(t) = Range(s) \ {s[i]}
    <2>1. ASSUME NEW v \in Range(t) PROVE v \in Range(s) \ {s[i]}
      BY <1>1, <1>4 DEF Range, IsInjective
    <2>2. ASSUME NEW v \in Range(s) \ {s[i]} PROVE v \in Range(t)
      <3>1. PICK m \in DOMAIN s \ {i} : v = s[m]
        BY DEF Range
      <3> QED
        BY <1>4, <1>6, <3>1 DEF Range
    <2> QED
      BY <2>1, <2>2
  <1> QED
    BY <1>2, <1>4, <1>5, <1>9, <1>10

(* So does the removal of an element by value. *)
LEMMA FirstRemoved ==
    ASSUME NEW S, NEW s \in Seq(S), IsInjective(s), NEW e, NEW t, t = RemoveFirst(s, e)
    PROVE  t \in Seq(S) /\ IsInjective(t) /\ Range(t) = Range(s) \ {e}
  <1>1. Len(s) \in Nat /\ DOMAIN s = 1..Len(s)
    OBVIOUS
  <1>2. CASE \E i \in 1..Len(s) : s[i] = e
    <2> DEFINE At == {i \in 1..Len(s) : s[i] = e}
    <2>1. At \in SUBSET Nat /\ At # {}
      BY <1>2
    <2>2. SelectInSeq(s, LAMBDA v : v = e) = Min(At)
      BY <2>1 DEF SelectInSeq
    <2> HIDE DEF At
    <2>3. Min(At) \in At
      BY <2>1, Least DEF Min
    <2>4. PICK i \in 1..Len(s) : i = Min(At) /\ s[i] = e
      BY <2>3 DEF At
    <2>5. t = RemoveAt(s, i)
      BY <1>2, <2>2, <2>4 DEF RemoveFirst
    <2> QED
      BY <2>4, <2>5, RemovedRange
  <1>3. CASE ~ \E i \in 1..Len(s) : s[i] = e
    <2>1. t = s
      BY <1>3 DEF RemoveFirst
    <2>2. e \notin Range(s)
      BY <1>1, <1>3 DEF Range
    <2> QED
      BY <2>1, <2>2
  <1> QED
    BY <1>2, <1>3

(* So does an insertion, which adds the element to the range. *)
LEMMA PlacedRange ==
    ASSUME NEW S, NEW s \in Seq(S), IsInjective(s), NEW o \in S, o \notin Range(s),
           NEW t, t = Placed(o, s)
    PROVE  /\ t \in Seq(S) /\ IsInjective(t) /\ Range(t) = Range(s) \cup {o}
           /\ \A j, k \in DOMAIN t : j < k /\ t[j] # o /\ t[k] # o =>
                 \E a, b \in DOMAIN s : a < b /\ t[j] = s[a] /\ t[k] = s[b]
  <1>1. CASE s = <<>>
    <2>1. t = <<o>> /\ Range(s) = {}
      BY <1>1 DEF Placed, Range
    <2>2. t \in Seq(S) /\ DOMAIN t = {1} /\ t[1] = o
      BY <2>1
    <2> QED
      BY <2>1, <2>2 DEF IsInjective, Range
  <1>2. CASE s # <<>>
    <2>0. PICK n \in Nat : n = Len(s)
      OBVIOUS
    <2> DEFINE was(k) == IF k < n THEN k ELSE n
    <2>1. n \in Nat /\ n >= 1 /\ DOMAIN s = 1..n
      BY <1>2, <2>0, EmptySeq
    <2>2. /\ t \in Seq(S) /\ Len(t) = n + 1 /\ t[n] = o /\ t[n + 1] = s[n]
          /\ \A k \in 1..(n - 1) : t[k] = s[k]
      <3>1. t = InsertAt(s, Len(s), o)
        BY <1>2 DEF Placed
      <3>2. /\ InsertAt(s, Len(s), o) \in Seq(S)
            /\ Len(InsertAt(s, Len(s), o)) = Len(s) + 1
            /\ \A k \in 1..(Len(s) - 1) : InsertAt(s, Len(s), o)[k] = s[k]
            /\ InsertAt(s, Len(s), o)[Len(s)] = o
            /\ InsertAt(s, Len(s), o)[Len(s) + 1] = s[Len(s)]
        BY <1>2, Inserted
      <3> QED
        BY <2>0, <3>1, <3>2
    <2>3. DOMAIN t = 1..(n + 1)
      BY <2>2
    <2>4. \A k \in DOMAIN t : k = n \/ (was(k) \in DOMAIN s /\ t[k] = s[was(k)])
      <3> TAKE k \in DOMAIN t
      <3>1. k \in 1..(n - 1) \/ k = n \/ k = n + 1
        BY <2>1, <2>3
      <3> QED
        BY <2>1, <2>2, <3>1
    <2>5. \A j, k \in DOMAIN t : j < k /\ j # n /\ k # n => was(j) < was(k)
      BY <2>1, <2>3
    <2>6. \A m \in DOMAIN s : \E k \in DOMAIN t : k # n /\ was(k) = m
      <3> TAKE m \in DOMAIN s
      <3>1. CASE m = n
        <4>1. n + 1 \in DOMAIN t /\ n + 1 # n /\ was(n + 1) = m
          BY <2>1, <2>3, <3>1
        <4> QED
          BY <4>1
      <3>2. CASE m # n
        <4>1. m \in DOMAIN t /\ was(m) = m
          BY <2>1, <2>3, <3>2
        <4> QED
          BY <3>2, <4>1
      <3> QED
        BY <3>1, <3>2
    <2> HIDE DEF was
    <2>7. \A j, k \in DOMAIN t : j = k \/ j < k \/ k < j
      BY <2>1, <2>3
    <2>8. \A m \in DOMAIN s : ~ (m < m)
      BY <2>1
    <2>9. n \in DOMAIN t
      BY <2>1, <2>3
    <2>10. \A k \in DOMAIN t : t[k] = o => k = n
      BY <2>4 DEF Range
    <2>11. IsInjective(t)
      <3> SUFFICES ASSUME NEW j \in DOMAIN t, NEW k \in DOMAIN t, t[j] = t[k] PROVE j = k
        BY DEF IsInjective
      <3>1. CASE j = n \/ k = n
        BY <2>2, <2>10, <3>1
      <3>2. CASE j # n /\ k # n
        <4>1. was(j) = was(k)
          BY <2>4, <3>2 DEF IsInjective
        <4> QED
          BY <2>4, <2>5, <2>7, <2>8, <3>2, <4>1
      <3> QED
        BY <3>1, <3>2
    <2>12. Range(t) = Range(s) \cup {o}
      <3>1. ASSUME NEW v \in Range(t) PROVE v \in Range(s) \cup {o}
        BY <2>2, <2>4 DEF Range
      <3>2. ASSUME NEW v \in Range(s) PROVE v \in Range(t)
        BY <2>4, <2>6 DEF Range
      <3>3. o \in Range(t)
        BY <2>2, <2>9 DEF Range
      <3> QED
        BY <3>1, <3>2, <3>3
    <2>13. ASSUME NEW j \in DOMAIN t, NEW k \in DOMAIN t, j < k, t[j] # o, t[k] # o
           PROVE  \E a, b \in DOMAIN s : a < b /\ t[j] = s[a] /\ t[k] = s[b]
      <3>1. j # n /\ k # n
        BY <2>2, <2>13
      <3> QED
        BY <2>4, <2>5, <2>13, <3>1
    <2> QED
      BY <2>2, <2>11, <2>12, <2>13
  <1> QED
    BY <1>1, <1>2

(* And so does Append. *)
LEMMA AppendedRange ==
    ASSUME NEW S, NEW s \in Seq(S), IsInjective(s), NEW o \in S, o \notin Range(s)
    PROVE  /\ Append(s, o) \in Seq(S) /\ IsInjective(Append(s, o))
           /\ Range(Append(s, o)) = Range(s) \cup {o}
  <1> DEFINE t == Append(s, o)
  <1>1. /\ t \in Seq(S) /\ Len(s) \in Nat /\ DOMAIN s = 1..Len(s)
        /\ DOMAIN t = 1..(Len(s) + 1) /\ t[Len(s) + 1] = o
        /\ \A k \in 1..Len(s) : t[k] = s[k]
    OBVIOUS
  <1> HIDE DEF t
  <1>2. \A k \in DOMAIN t : k \in DOMAIN s \/ k = Len(s) + 1
    BY <1>1
  <1>3. \A k \in DOMAIN s : k \in DOMAIN t /\ t[k] = s[k] /\ t[k] # o
    BY <1>1 DEF Range
  <1>4. Len(s) + 1 \in DOMAIN t
    BY <1>1
  <1>5. IsInjective(t)
    BY <1>1, <1>2, <1>3 DEF IsInjective
  <1>6. Range(t) = Range(s) \cup {o}
    BY <1>1, <1>2, <1>3, <1>4 DEF Range
  <1> QED
    BY <1>1, <1>5, <1>6 DEF t

(* A sequence over a set is one over a larger set. *)
LEMMA Wider ==
    ASSUME NEW A, NEW B, A \subseteq B, NEW s \in Seq(A)
    PROVE  s \in Seq(B)
  OBVIOUS

(* Bundled lists share the key that no list of a user has. *)
LEMMA Keys ==
    ASSUME NEW e \in Entries
    PROVE  /\ Key(e) \in Sources \cup {"default"} /\ e.id \notin {"default", "builtin", "local"} => e.id \in Sources
           /\ e.id \in {"default", "builtin", "local"} => Key(e) = "default" /\ e.id \notin Sources
  BY SourceAssumption DEF Key, Entries, Bundled

(* A removal at any index, valid or not, is made in both lists. *)
LEMMA RemovedFromBoth ==
    ASSUME Page, NEW i, NEW ls, ls = Without(i), NEW us, us = UsersWithout(i)
    PROVE  Shaped(heap, ls, us) /\ Consistent(heap, ls, us)
  <1>1. CASE i \notin DOMAIN lists
    BY <1>1 DEF Page, Without, UsersWithout
  <1>2. CASE i \in DOMAIN lists
    <2>1. /\ lists \in Seq(1..Len(heap)) /\ userLists \in Seq(1..Len(heap))
          /\ IsInjective(lists) /\ IsInjective(userLists) /\ i \in 1..Len(lists)
      BY <1>2 DEF Page, Shaped, Consistent
    <2>2. /\ ls \in Seq(1..Len(heap)) /\ IsInjective(ls) /\ Range(ls) = Range(lists) \ {lists[i]}
          /\ \A j, k \in DOMAIN ls : j < k =>
                \E a, b \in DOMAIN lists : a < b /\ ls[j] = lists[a] /\ ls[k] = lists[b]
      <3>1. ls = RemoveAt(lists, i)
        BY <1>2 DEF Without
      <3> QED
        BY <2>1, <3>1, RemovedRange
    <2>3. us \in Seq(1..Len(heap)) /\ IsInjective(us) /\ Range(us) = Range(userLists) \ {lists[i]}
      <3>1. us = RemoveFirst(userLists, lists[i])
        BY <1>2 DEF UsersWithout
      <3> QED
        BY <2>1, <3>1, FirstRemoved
    <2>4. Range(us) = OwnOf(heap, ls)
      BY <2>2, <2>3 DEF Page, Consistent, OwnOf
    <2>5. DefaultFirst(heap, ls)
      BY <2>2 DEF Page, Consistent, DefaultFirst
    <2>6. StayOn(heap, ls)
      BY <2>2 DEF Page, Consistent, StayOn
    <2> QED
      BY <2>2, <2>3, <2>4, <2>5, <2>6 DEF Page, Shaped, Consistent
  <1> QED
    BY <1>1, <1>2

(* An insertion puts a list of the user among both, nowhere before the      *)
(* default list to stay.                                                    *)
LEMMA AddedToBoth ==
    ASSUME NEW e \in Entries, e.id \in Sources, NEW ls, NEW us,
           Shaped(heap, ls, us), Consistent(heap, ls, us), AddTo(e, ls, us)
    PROVE  /\ Page' /\ Len(heap') = Len(heap) + 1 /\ heap'[Len(heap) + 1] = e
           /\ \A o \in 1..Len(heap) : heap'[o] = heap[o]
  <1>1. PICK n \in Nat : n = Len(heap)
    BY DEF Shaped
  <1>2. /\ heap' \in Seq(Entries) /\ Len(heap') = n + 1 /\ heap'[n + 1] = e
        /\ \A o \in 1..n : heap'[o] = heap[o]
    BY <1>1 DEF AddTo, Shaped
  <1>3. 1..n \subseteq 1..(n + 1) /\ n + 1 \in 1..(n + 1) /\ n + 1 \notin 1..n
    OBVIOUS
  <1>4. ls \in Seq(1..n) /\ us \in Seq(1..n) /\ Range(ls) \subseteq 1..n /\ Range(us) \subseteq 1..n
    BY <1>1 DEF Shaped, Range
  <1>5. ls \in Seq(1..(n + 1)) /\ us \in Seq(1..(n + 1))
    BY <1>3, <1>4, Wider
  <1>6. n + 1 \notin Range(ls) /\ n + 1 \notin Range(us)
    BY <1>3, <1>4
  <1>7. lists' = Placed(n + 1, ls) /\ userLists' = Append(us, n + 1)
    BY <1>2 DEF AddTo
  <1>8. /\ lists' \in Seq(1..(n + 1)) /\ IsInjective(lists') /\ Range(lists') = Range(ls) \cup {n + 1}
        /\ \A j, k \in DOMAIN lists' : j < k /\ lists'[j] # n + 1 /\ lists'[k] # n + 1 =>
              \E a, b \in DOMAIN ls : a < b /\ lists'[j] = ls[a] /\ lists'[k] = ls[b]
    BY <1>3, <1>5, <1>6, <1>7, PlacedRange DEF Consistent
  <1>9. /\ userLists' \in Seq(1..(n + 1)) /\ IsInjective(userLists')
        /\ Range(userLists') = Range(us) \cup {n + 1}
    <2>1. us \in Seq(1..(n + 1)) /\ IsInjective(us) /\ n + 1 \notin Range(us)
      BY <1>5, <1>6 DEF Consistent
    <2>2. n + 1 \in 1..(n + 1)
      OBVIOUS
    <2>3. /\ Append(us, n + 1) \in Seq(1..(n + 1)) /\ IsInjective(Append(us, n + 1))
          /\ Range(Append(us, n + 1)) = Range(us) \cup {n + 1}
      BY <2>1, <2>2, AppendedRange
    <2> QED
      BY <1>7, <2>3
  <1>10. Range(userLists') = OwnOf(heap', lists')
    BY <1>2, <1>4, <1>8, <1>9 DEF Consistent, OwnOf
  <1>11. DefaultFirst(heap', lists')
    <2> SUFFICES ASSUME NEW j \in DOMAIN lists', NEW k \in DOMAIN lists', j < k,
                        heap'[lists'[k]].id = "default"
                 PROVE  heap'[lists'[j]].id \in Sources
      BY DEF DefaultFirst
    <2>1. lists'[k] # n + 1
      BY <1>2, SourceAssumption
    <2>2. CASE lists'[j] = n + 1
      BY <1>2, <2>2
    <2>3. CASE lists'[j] # n + 1
      <3>1. PICK a \in DOMAIN ls, b \in DOMAIN ls : a < b /\ lists'[j] = ls[a] /\ lists'[k] = ls[b]
        BY <1>8, <2>1, <2>3
      <3>2. ls[a] \in 1..n /\ ls[b] \in 1..n
        BY <1>4
      <3> QED
        BY <1>2, <3>1, <3>2 DEF Consistent, DefaultFirst
    <2> QED
      BY <2>2, <2>3
  <1>12. StayOn(heap', lists')
    <2>1. \A i \in Range(lists') : i = n + 1 \/ (i \in Range(ls) /\ heap'[i] = heap[i])
      BY <1>2, <1>4, <1>8
    <2>2. heap'[n + 1].id \notin {"default", "builtin", "local"}
      BY <1>2, SourceAssumption
    <2> QED
      BY <2>1, <2>2 DEF Consistent, StayOn
  <1> QED
    BY <1>1, <1>2, <1>8, <1>9, <1>10, <1>11, <1>12 DEF Page, Shaped, Consistent

(* What saveUserLists writes is the state of lists of the user. *)
LEMMA SavedLists ==
    ASSUME Storage, Page', SaveUserLists
    PROVE  /\ stored' \in [metas : Saves, states : States, tokens : SUBSET Tokens]
           /\ stored'.tokens = stored.tokens
  <1>1. Metas' \in Saves
    <2>1. userLists' \in Seq(1..Len(heap')) /\ heap' \in Seq(Entries)
      BY DEF Page, Shaped
    <2>2. \A k \in 1..Len(userLists') :
            heap'[userLists'[k]] \in Entries /\ heap'[userLists'[k]].id \in Sources
      BY <2>1 DEF Page, Consistent, OwnOf, Range
    <2>3. Len(userLists') \in Nat /\ DOMAIN userLists' = 1..Len(userLists')
      BY <2>1
    <2>4. \A k \in 1..Len(userLists') :
            [id |-> heap'[userLists'[k]].id, on |-> heap'[userLists'[k]].on] \in [id : Sources, on : BOOLEAN]
      BY <2>2 DEF Entries
    <2> QED
      BY <2>3, <2>4 DEF Metas, Saves
  <1> QED
    BY <1>1 DEF Storage, SaveUserLists

(* What saveTokenlistStates writes is a state for every key that is shown. *)
LEMMA SavedStates ==
    ASSUME Storage, Page', lists' = lists, stored' = [stored EXCEPT !.states = StatesOf(heap')]
    PROVE  /\ stored' \in [metas : Saves, states : States, tokens : SUBSET Tokens]
           /\ stored'.tokens = stored.tokens
  <1>1. /\ heap' \in Seq(Entries) /\ lists \in Seq(1..Len(heap'))
        /\ Len(lists) \in Nat /\ DOMAIN lists = 1..Len(lists)
    BY DEF Page, Shaped
  <1>2. \A i \in Range(lists) : heap'[i] \in Entries
    BY <1>1 DEF Range
  <1> DEFINE D == {Key(heap'[i]) : i \in Range(lists)}
             at(key) == SelectLastInSeq(lists, LAMBDA i : Key(heap'[i]) = key)
  <1>3. D \in SUBSET (Sources \cup {"default"})
    <2>1. \A i \in Range(lists) : Key(heap'[i]) \in Sources \cup {"default"}
      BY <1>2 DEF Key
    <2> QED
      BY <2>1
  <1>4. ASSUME NEW key \in D PROVE heap'[lists[at(key)]].on \in BOOLEAN
    <2> DEFINE T == {k \in 1..Len(lists) : Key(heap'[lists[k]]) = key}
    <2>1. T \in SUBSET (1..Len(lists)) /\ T # {}
      BY <1>1, <1>4 DEF Range
    <2>2. at(key) = Max(T)
      BY <2>1 DEF SelectLastInSeq
    <2> HIDE DEF T, at
    <2>3. \E m \in T : \A k \in T : m >= k
      <3>1. PICK m \in T : \A k \in T : k <= m
        BY <1>1, <2>1, Greatest
      <3>2. \A k \in T : m >= k
        BY <2>1, <3>1
      <3> QED
        BY <3>2
    <2>4. Max(T) \in T
      BY <2>3 DEF Max
    <2>5. heap'[lists[at(key)]] \in Entries
      BY <1>1, <1>2, <2>1, <2>2, <2>4 DEF Range
    <2> QED
      BY <2>5 DEF Entries
  <1>5. StatesOf(heap') = [key \in D |-> heap'[lists[at(key)]].on]
    BY DEF StatesOf
  <1> HIDE DEF D, at
  <1>6. StatesOf(heap') \in States
    BY <1>3, <1>4, <1>5 DEF States
  <1> QED
    BY <1>6 DEF Storage

(* A switch works on the first entry with its key, which is not one of the *)
(* bundled lists that are always on while the default list is shown.       *)
LEMMA ToggledPage ==
    ASSUME Page, NEW i \in DOMAIN lists, Toggle(i)
    PROVE  /\ Page' /\ Len(heap') = Len(heap)
           /\ \A o \in 1..Len(heap) : heap'[o].id = heap[o].id /\ heap'[o].failed = heap[o].failed
  <1> DEFINE hit == {lists[j] : j \in Toggled(i)}
  <1>1. /\ heap \in Seq(Entries) /\ Len(heap) \in Nat /\ DOMAIN heap = 1..Len(heap)
        /\ lists \in Seq(1..Len(heap)) /\ Len(lists) \in Nat /\ DOMAIN lists = 1..Len(lists)
        /\ \A k \in DOMAIN lists : lists[k] \in 1..Len(heap) /\ heap[lists[k]] \in Entries
    BY DEF Page, Shaped
  <1>2. heap' = [o \in 1..Len(heap) |->
                    IF o \in hit THEN [heap[o] EXCEPT !.on = ~@] ELSE heap[o]]
    BY <1>1 DEF Toggle
  <1>3. \A o \in 1..Len(heap) :
          /\ heap'[o] \in Entries
          /\ heap'[o].id = heap[o].id /\ heap'[o].failed = heap[o].failed
          /\ o \notin hit => heap'[o].on = heap[o].on
    <2> TAKE o \in 1..Len(heap)
    <2> HIDE DEF hit
    <2>1. heap[o] \in Entries
      BY <1>1
    <2>2. CASE o \in hit
      <3>1. heap'[o] = [heap[o] EXCEPT !.on = ~@]
        BY <1>2, <2>2
      <3> QED
        BY <2>1, <2>2, <3>1 DEF Entries
    <2>3. CASE o \notin hit
      <3>1. heap'[o] = heap[o]
        BY <1>2, <2>3
      <3> QED
        BY <2>1, <3>1
    <2> QED
      BY <2>2, <2>3
  <1>4. heap' \in Seq(Entries) /\ Len(heap') = Len(heap)
    BY <1>1, <1>2, <1>3
  <1>5. lists' = lists /\ userLists' = userLists
    BY DEF Toggle
  <1>6. Range(lists) \subseteq 1..Len(heap)
    BY <1>1 DEF Range
  <1>7. Range(userLists') = OwnOf(heap', lists')
    BY <1>3, <1>5, <1>6 DEF Page, Consistent, OwnOf
  <1>8. DefaultFirst(heap', lists')
    BY <1>1, <1>3, <1>5 DEF Page, Consistent, DefaultFirst
  <1>9. PICK m : Toggled(i) = {m} /\ m \in SameKey(i) /\ \A k \in SameKey(i) : m <= k
    <2>1. SameKey(i) \in SUBSET Nat /\ SameKey(i) # {}
      BY <1>1 DEF SameKey
    <2>2. \E m \in SameKey(i) : \A k \in SameKey(i) : m <= k
      BY <2>1, Least
    <2> QED
      BY <2>2 DEF Toggled
  <1>10. hit = {lists[m]} /\ m \in DOMAIN lists /\ Key(heap[lists[m]]) = Key(heap[lists[i]])
    BY <1>9 DEF SameKey
  <1> HIDE DEF hit
  <1>11. StayOn(heap', lists')
    <2> SUFFICES ASSUME NEW d \in DOMAIN lists, heap[lists[d]].id = "default",
                        NEW x \in DOMAIN lists, heap[lists[x]].id \in {"builtin", "local"}
                 PROVE  heap'[lists[x]].on
      <3>1. \A o \in Range(lists) : \E j \in DOMAIN lists : o = lists[j]
        BY DEF Range
      <3>2. \A o \in Range(lists) : heap'[o].id = heap[o].id
        BY <1>3, <1>6
      <3> QED
        BY <1>5, <3>1, <3>2 DEF StayOn
    <2>1. heap[lists[x]].on
      BY DEF Page, Consistent, StayOn, Range
    <2>2. ASSUME lists[x] \in hit PROVE FALSE
      <3>1. x = m
        BY <1>10, <2>2 DEF Page, Consistent, IsInjective
      <3>2. Key(heap[lists[m]]) = "default" /\ Key(heap[lists[d]]) = "default"
        BY <1>1, <3>1, Keys
      <3>3. d \in SameKey(i)
        BY <1>10, <3>2 DEF SameKey
      <3>4. x < d
        <4>1. x <= d /\ x # d
          BY <1>9, <3>1, <3>3
        <4> QED
          BY <1>1, <4>1
      <3>5. heap[lists[x]].id \in Sources
        BY <3>4 DEF Page, Consistent, DefaultFirst
      <3> QED
        BY <3>5, SourceAssumption
    <2> QED
      BY <1>1, <1>3, <2>1, <2>2
  <1> QED
    BY <1>3, <1>4, <1>5, <1>7, <1>8, <1>11 DEF Page, Shaped, Consistent

(* Restoring the saved lists between the bundled ones. *)
LEMMA LoadedPage ==
    ASSUME IInv, NEW failing \in SUBSET DOMAIN read.metas, FinishLoad(failing)
    PROVE  /\ Page' /\ Failures'
           /\ \A k \in DOMAIN read.metas : heap'[k + 2].id = read.metas[k].id
  <1>1. PICK n \in Nat : n = Len(read.metas)
    BY DEF IInv, Storage, Saves
  <1>2. /\ read.metas \in Saves /\ DOMAIN read.metas = 1..n
        /\ \A k \in 1..n : read.metas[k].id \in Sources /\ read.metas[k].on \in BOOLEAN
    <2>1. read.metas \in Seq([id : Sources, on : BOOLEAN])
      BY DEF IInv, Storage, Saves
    <2>2. DOMAIN read.metas = 1..n /\ \A k \in 1..n : read.metas[k] \in [id : Sources, on : BOOLEAN]
      BY <1>1, <2>1, Elements
    <2> QED
      BY <2>1, <2>2 DEF Saves
  <1>3. \A key : Saved(key, TRUE) \in BOOLEAN
    <2>1. PICK D \in SUBSET (Sources \cup {"default"}) : read.states \in [D -> BOOLEAN]
      BY DEF IInv, Storage, States
    <2> QED
      BY <2>1 DEF Saved
  <1>4. \A k \in 1..n : Saved(read.metas[k].id, read.metas[k].on) \in BOOLEAN
    <2>1. PICK D \in SUBSET (Sources \cup {"default"}) : read.states \in [D -> BOOLEAN]
      BY DEF IInv, Storage, States
    <2> QED
      BY <1>2, <2>1 DEF Saved
  <1> DEFINE head == <<Entry("default", Saved("default", TRUE), FALSE), Entry("builtin", TRUE, FALSE)>>
             tail == <<Entry("local", TRUE, FALSE)>>
  <1>5. /\ head \in Seq(Entries) /\ Len(head) = 2 /\ head[1].id = "default" /\ ~head[1].failed
        /\ head[2].id = "builtin" /\ head[2].on /\ ~head[2].failed
    <2>1. /\ Entry("default", Saved("default", TRUE), FALSE) \in Entries
          /\ Entry("builtin", TRUE, FALSE) \in Entries
      BY <1>3 DEF Entry, Entries, Bundled
    <2> QED
      BY <2>1 DEF Entry
  <1>6. tail \in Seq(Entries) /\ Len(tail) = 1 /\ tail[1].id = "local" /\ tail[1].on /\ ~tail[1].failed
    BY DEF Entry, Entries, Bundled
  <1>7. /\ Restored(failing) \in Seq(Entries) /\ Len(Restored(failing)) = n
        /\ \A k \in 1..n : Restored(failing)[k].id = read.metas[k].id
        /\ \A k \in 1..n : Restored(failing)[k].id \in Sources
    <2>1. /\ Restored(failing) = [k \in 1..n |-> Restored(failing)[k]]
          /\ \A k \in 1..n : /\ Restored(failing)[k] \in Entries
                             /\ Restored(failing)[k].id = read.metas[k].id
                             /\ Restored(failing)[k].id \in Sources
      BY <1>2, <1>4 DEF Restored, Entry, Entries
    <2> QED
      BY <2>1
  <1>8. heap' = (head \o Restored(failing)) \o tail
    BY DEF FinishLoad
  <1> HIDE DEF head, tail
  <1>9. PICK mid : mid = head \o Restored(failing)
    OBVIOUS
  <1>10. /\ mid \in Seq(Entries) /\ Len(mid) = 2 + n
         /\ \A k \in 1..2 : mid[k] = head[k]
         /\ \A k \in 3..(n + 2) : mid[k] = Restored(failing)[k - 2]
    <2>1. /\ mid \in Seq(Entries) /\ Len(mid) = Len(head) + Len(Restored(failing))
          /\ \A k \in 1..Len(head) : mid[k] = head[k]
          /\ \A k \in (Len(head) + 1)..(Len(head) + Len(Restored(failing))) :
                mid[k] = Restored(failing)[k - Len(head)]
      <3>1. head \in Seq(Entries) /\ Restored(failing) \in Seq(Entries)
        BY <1>5, <1>7
      <3> QED
        BY <1>9, <3>1, Joined
    <2> QED
      BY <1>5, <1>7, <2>1
  <1>11. /\ heap' \in Seq(Entries) /\ Len(heap') = n + 3
         /\ \A k \in 1..(n + 2) : heap'[k] = mid[k]
         /\ heap'[n + 3] = tail[1]
    <2>1. /\ heap' \in Seq(Entries) /\ Len(heap') = Len(mid) + Len(tail)
          /\ \A k \in 1..Len(mid) : heap'[k] = mid[k]
          /\ \A k \in (Len(mid) + 1)..(Len(mid) + Len(tail)) : heap'[k] = tail[k - Len(mid)]
      <3>1. mid \in Seq(Entries) /\ tail \in Seq(Entries) /\ heap' = mid \o tail
        BY <1>6, <1>8, <1>9, <1>10
      <3> QED
        BY <3>1, Joined
    <2>2. n + 3 \in (Len(mid) + 1)..(Len(mid) + Len(tail)) /\ n + 3 - Len(mid) = 1
      BY <1>6, <1>10
    <2>3. heap'[n + 3] = tail[1]
      BY <2>1, <2>2
    <2>4. Len(mid) = n + 2 /\ Len(mid) + Len(tail) = n + 3
      BY <1>6, <1>10
    <2> QED
      BY <2>1, <2>3, <2>4
  <1>12. /\ heap'[1].id = "default" /\ ~heap'[1].failed
         /\ heap'[2].id = "builtin" /\ heap'[2].on /\ ~heap'[2].failed
         /\ heap'[n + 3].id = "local" /\ heap'[n + 3].on /\ ~heap'[n + 3].failed
         /\ \A k \in 3..(n + 2) : heap'[k].id \in Sources
    <2>1. 1 \in 1..(n + 2) /\ 2 \in 1..(n + 2) /\ 1 \in 1..2 /\ 2 \in 1..2
      OBVIOUS
    <2>2. \A k \in 3..(n + 2) : k \in 1..(n + 2) /\ k - 2 \in 1..n
      OBVIOUS
    <2> QED
      BY <1>5, <1>6, <1>7, <1>10, <1>11, <2>1, <2>2
  <1>13. \A k \in 1..(n + 3) : k = 1 \/ k = 2 \/ k = n + 3 \/ k \in 3..(n + 2)
    OBVIOUS
  <1>14. /\ lists' = [k \in 1..(n + 3) |-> k] /\ userLists' = [k \in 1..n |-> k + 2]
         /\ ready' = TRUE /\ retrying' = retrying /\ ~ready
    BY <1>2, <1>11 DEF FinishLoad
  <1>15. lists' \in Seq(1..(n + 3)) /\ userLists' \in Seq(1..(n + 3))
    <2>1. \A k \in 1..n : k + 2 \in 1..(n + 3)
      OBVIOUS
    <2> QED
      BY <1>14, <2>1
  <1>16. IsInjective(lists') /\ IsInjective(userLists')
    BY <1>14 DEF IsInjective
  <1>17. Range(lists') = 1..(n + 3) /\ Range(userLists') = 3..(n + 2)
    <2>1. Range(lists') = 1..(n + 3)
      BY <1>14 DEF Range
    <2>2. \A v \in 3..(n + 2) : v - 2 \in 1..n /\ (v - 2) + 2 = v
      OBVIOUS
    <2>3. \A k \in 1..n : k + 2 \in 3..(n + 2)
      OBVIOUS
    <2> QED
      BY <1>14, <2>1, <2>2, <2>3 DEF Range
  <1>18. Range(userLists') = OwnOf(heap', lists')
    <2>1. \A k \in 1..(n + 3) : heap'[k].id \in Sources <=> k \in 3..(n + 2)
      BY <1>12, <1>13, SourceAssumption
    <2>2. \A k \in 3..(n + 2) : k \in 1..(n + 3)
      OBVIOUS
    <2> QED
      BY <1>17, <2>1, <2>2 DEF OwnOf
  <1>19. DefaultFirst(heap', lists')
    <2>1. \A k \in 1..(n + 3) : heap'[k].id = "default" => k = 1
      BY <1>12, <1>13, SourceAssumption
    <2> QED
      BY <1>14, <2>1 DEF DefaultFirst
  <1>20. StayOn(heap', lists')
    <2>1. \A k \in 1..(n + 3) : heap'[k].id \in {"builtin", "local"} => heap'[k].on
      BY <1>12, <1>13, SourceAssumption
    <2> QED
      BY <1>17, <2>1 DEF StayOn
  <1>21. Page'
    BY <1>11, <1>15, <1>16, <1>18, <1>19, <1>20 DEF Page, Shaped, Consistent
  <1>22. Failures'
    <2>1. \A o \in 1..(n + 3) : heap'[o].failed => heap'[o].id \in Sources
      BY <1>12, <1>13
    <2>2. /\ retrying \in Seq([index : Nat, entry : 1..Len(heap)]) /\ DOMAIN retrying = {}
      BY <1>14 DEF IInv, Failures
    <2>3. retrying = <<>>
      BY <2>2, EmptySeq
    <2>4. retrying' \in Seq([index : Nat, entry : 1..(n + 3)]) /\ DOMAIN retrying' = {}
      BY <1>14, <2>2, <2>3
    <2> QED
      BY <1>11, <1>14, <2>1, <2>4 DEF Failures
  <1>23. ASSUME NEW k \in 1..n PROVE heap'[k + 2].id = read.metas[k].id
    <2>1. k + 2 \in 3..(n + 2) /\ k + 2 \in 1..(n + 2) /\ (k + 2) - 2 = k
      OBVIOUS
    <2> QED
      BY <1>7, <1>10, <1>11, <2>1
  <1> QED
    BY <1>2, <1>21, <1>22, <1>23

(* What is in flight after an answer was in flight before. *)
LEMMA RemovedElements ==
    ASSUME NEW S, NEW s \in Seq(S), NEW i \in 1..Len(s), NEW t, t = RemoveAt(s, i)
    PROVE  t \in Seq(S) /\ \A k \in DOMAIN t : \E m \in DOMAIN s : t[k] = s[m]
  <1>1. Len(s) \in Nat /\ DOMAIN s = 1..Len(s)
    BY Elements
  <1>2. /\ t \in Seq(S) /\ Len(t) = Len(s) - 1
        /\ \A k \in 1..(i - 1) : t[k] = s[k]
        /\ \A k \in i..(Len(s) - 1) : t[k] = s[k + 1]
    BY Removed
  <1>3. \A k \in DOMAIN t : k \in 1..(i - 1) \/ k \in i..(Len(s) - 1)
    BY <1>1, <1>2
  <1>4. \A k \in 1..(i - 1) : k \in DOMAIN s
    BY <1>1
  <1>5. \A k \in i..(Len(s) - 1) : k + 1 \in DOMAIN s
    BY <1>1
  <1> QED
    BY <1>2, <1>3, <1>4, <1>5

(* New entries have not failed, and the others keep what they are. *)
LEMMA FailuresKept ==
    ASSUME Page, Page', Failures, ready' = ready, Len(heap) <= Len(heap'),
           \A o \in 1..Len(heap) : heap'[o].id = heap[o].id /\ heap'[o].failed = heap[o].failed,
           \A o \in 1..Len(heap') : o > Len(heap) => ~heap'[o].failed,
           retrying' \in Seq([index : Nat, entry : 1..Len(heap)]),
           \A k \in DOMAIN retrying' : ready /\ heap[retrying'[k].entry].id \in Sources
    PROVE  Failures'
  <1>1. Len(heap) \in Nat /\ Len(heap') \in Nat
    BY DEF Page, Shaped
  <1>2. 1..Len(heap) \subseteq 1..Len(heap')
    BY <1>1
  <1>3. retrying' \in Seq([index : Nat, entry : 1..Len(heap')])
    <2>1. [index : Nat, entry : 1..Len(heap)] \subseteq [index : Nat, entry : 1..Len(heap')]
      BY <1>2
    <2> QED
      BY <2>1, Wider
  <1>4. \A k \in DOMAIN retrying' : ready' /\ heap'[retrying'[k].entry].id \in Sources
    <2>1. \A k \in DOMAIN retrying' : retrying'[k].entry \in 1..Len(heap)
      <3>1. /\ DOMAIN retrying' = 1..Len(retrying')
            /\ \A k \in 1..Len(retrying') : retrying'[k] \in [index : Nat, entry : 1..Len(heap)]
        BY Elements
      <3> QED
        BY <3>1
    <2> QED
      BY <2>1
  <1>5. ASSUME NEW o \in 1..Len(heap'), heap'[o].failed PROVE ready' /\ heap'[o].id \in Sources
    <2>1. o \in 1..Len(heap)
      BY <1>1, <1>5
    <2> QED
      BY <1>5, <2>1 DEF Failures
  <1> QED
    BY <1>3, <1>4, <1>5 DEF Failures

(* Adding a list and removing any, as the handlers do. *)
LEMMA Added ==
    ASSUME IInv, NEW e \in Entries, e.id \in Sources, ~e.failed, NEW ls, NEW us,
           Shaped(heap, ls, us), Consistent(heap, ls, us), AddTo(e, ls, us),
           ready' = ready, UNCHANGED localTokens,
           retrying' \in Seq([index : Nat, entry : 1..Len(heap)]),
           \A k \in DOMAIN retrying' : ready /\ heap[retrying'[k].entry].id \in Sources
    PROVE  /\ Page' /\ Failures' /\ TokensKept'
           /\ stored' \in [metas : Saves, states : States, tokens : SUBSET Tokens]
  <1>1. /\ Page' /\ Len(heap') = Len(heap) + 1 /\ heap'[Len(heap) + 1] = e
        /\ \A o \in 1..Len(heap) : heap'[o] = heap[o]
    BY AddedToBoth DEF IInv
  <1>2. Len(heap) \in Nat
    BY DEF IInv, Page, Shaped
  <1>3. \A o \in 1..Len(heap') : o > Len(heap) => ~heap'[o].failed
    <2>1. \A o \in 1..Len(heap') : o > Len(heap) => o = Len(heap) + 1
      BY <1>1, <1>2
    <2> QED
      BY <1>1, <2>1
  <1>4. Failures'
    BY <1>1, <1>2, <1>3, FailuresKept DEF IInv
  <1>5. SaveUserLists
    BY DEF AddTo
  <1>6. /\ stored' \in [metas : Saves, states : States, tokens : SUBSET Tokens]
        /\ stored'.tokens = stored.tokens
    BY <1>1, <1>5, SavedLists DEF IInv
  <1> QED
    BY <1>1, <1>4, <1>6 DEF IInv, TokensKept

(* An empty page. *)
LEMMA Initially == Init => IInv
  <1> SUFFICES ASSUME Init PROVE IInv
    OBVIOUS
  <1>1. \A S : <<>> \in Seq(S)
    OBVIOUS
  <1>2. Len(<<>>) = 0 /\ DOMAIN <<>> = {}
    OBVIOUS
  <1>3. \A k : k \notin 1..0
    OBVIOUS
  <1>4. <<>> \in States
    <2>1. <<>> \in [{} -> BOOLEAN]
      BY <1>2
    <2> QED
      BY <2>1 DEF States
  <1>5. Page
    BY <1>1, <1>2 DEF Init, Page, Shaped, Consistent, IsInjective, Range, OwnOf, DefaultFirst, StayOn
  <1>6. Failures
    BY <1>1, <1>2, <1>3 DEF Init, Failures
  <1>7. Storage
    BY <1>1, <1>4 DEF Init, Storage, Saves
  <1>8. TokensKept
    BY DEF Init, TokensKept
  <1> QED
    BY <1>5, <1>6, <1>7, <1>8 DEF IInv

(* Every handler preserves the invariant. *)
LEMMA Inductive == IInv /\ [Next]_vars => IInv'
  <1> SUFFICES ASSUME IInv, [Next]_vars PROVE IInv'
    OBVIOUS
  <1>0. /\ Page /\ Failures /\ Storage /\ TokensKept
        /\ heap \in Seq(Entries) /\ Len(heap) \in Nat
        /\ lists \in Seq(1..Len(heap)) /\ DOMAIN lists = 1..Len(lists) /\ Len(lists) \in Nat
        /\ \A i \in DOMAIN lists : lists[i] \in 1..Len(heap)
    BY DEF IInv, Page, Shaped
  <1>1. ASSUME NEW failing \in SUBSET DOMAIN read.metas, FinishLoad(failing) PROVE IInv'
    <2>1. Page' /\ Failures'
      BY <1>1, LoadedPage
    <2>2. <<>> \in Saves /\ <<>> \in States
      <3>1. <<>> \in [{} -> BOOLEAN]
        OBVIOUS
      <3>2. <<>> \in States
        BY <3>1 DEF States
      <3>3. <<>> \in Saves
        BY DEF Saves
      <3> QED
        BY <3>2, <3>3
    <2>3. Storage'
      BY <1>0, <1>1, <2>2 DEF FinishLoad, Storage
    <2>4. TokensKept'
      BY <1>0, <1>1 DEF FinishLoad, TokensKept, TokensFound
    <2> QED
      BY <2>1, <2>3, <2>4 DEF IInv
  <1>2. ASSUME Reload PROVE IInv'
    <2>1. \A S : <<>> \in Seq(S)
      OBVIOUS
    <2>2. Len(<<>>) = 0 /\ DOMAIN <<>> = {}
      OBVIOUS
    <2>3. \A k : k \notin 1..0
      OBVIOUS
    <2>4. Page'
      BY <1>2, <2>1, <2>2 DEF Reload, Page, Shaped, Consistent, IsInjective, Range, OwnOf, DefaultFirst, StayOn
    <2>5. Failures'
      BY <1>2, <2>1, <2>2, <2>3 DEF Reload, Failures
    <2>6. Storage'
      BY <1>0, <1>2, <2>1 DEF Reload, Storage
    <2>7. TokensKept'
      BY <1>2 DEF Reload, TokensKept
    <2> QED
      BY <2>4, <2>5, <2>6, <2>7 DEF IInv
  <1>3. ASSUME NEW i \in DOMAIN lists, Toggle(i) PROVE IInv'
    <2>1. /\ Page' /\ Len(heap') = Len(heap)
          /\ \A o \in 1..Len(heap) : heap'[o].id = heap[o].id /\ heap'[o].failed = heap[o].failed
      BY <1>0, <1>3, ToggledPage
    <2>2. retrying' = retrying /\ ready' = ready /\ lists' = lists /\ localTokens' = localTokens
          /\ stored' = [stored EXCEPT !.states = StatesOf(heap')] /\ UNCHANGED <<read, adding, deleting>>
      BY <1>3 DEF Toggle
    <2>3. \A o \in 1..Len(heap') : ~ (o > Len(heap))
      BY <1>0, <2>1
    <2>4. Failures'
      BY <1>0, <2>1, <2>2, <2>3, FailuresKept DEF Failures
    <2>5. /\ stored' \in [metas : Saves, states : States, tokens : SUBSET Tokens]
          /\ stored'.tokens = stored.tokens
      BY <1>0, <2>1, <2>2, SavedStates
    <2>6. Storage' /\ TokensKept'
      BY <1>0, <2>2, <2>5 DEF Storage, TokensKept
    <2> QED
      BY <2>1, <2>4, <2>6 DEF IInv
  <1>4. ASSUME NEW i \in DOMAIN lists, ConfirmDelete(i) PROVE IInv'
    <2>1. deleting' \in Nat
      BY <1>0, <1>4 DEF ConfirmDelete
    <2> QED
      BY <1>0, <1>4, <2>1 DEF ConfirmDelete, IInv, Page, Failures, Storage, TokensKept
  <1>5. ASSUME NEW i \in DOMAIN lists, Retry(i) PROVE IInv'
    <2> DEFINE r == [index |-> i, entry |-> lists[i]]
    <2>1. r \in [index : Nat, entry : 1..Len(heap)] /\ ready /\ heap[r.entry].id \in Sources
      BY <1>0, <1>5 DEF Retry, Failures
    <2>2. /\ retrying \in Seq([index : Nat, entry : 1..Len(heap)])
          /\ \A k \in DOMAIN retrying : ready /\ heap[retrying[k].entry].id \in Sources
      BY <1>0 DEF Failures
    <2>3. retrying' = Append(retrying, r)
      BY <1>5 DEF Retry
    <2> HIDE DEF r
    <2>4. /\ retrying' \in Seq([index : Nat, entry : 1..Len(heap)])
          /\ \A k \in DOMAIN retrying' : retrying'[k] = r \/ (k \in DOMAIN retrying /\ retrying'[k] = retrying[k])
      BY <2>1, <2>2, <2>3
    <2>5. Failures'
      BY <1>0, <1>5, <2>1, <2>2, <2>4 DEF Retry, Failures
    <2> QED
      BY <1>0, <1>5, <2>5 DEF Retry, IInv, Page, Storage, TokensKept
  <1>6. ASSUME NEW u \in Urls, AddByUrl(u) PROVE IInv'
    <2>1. adding' \in Seq(Urls)
      BY <1>0, <1>6 DEF AddByUrl, Storage
    <2> QED
      BY <1>0, <1>6, <2>1 DEF AddByUrl, IInv, Page, Failures, Storage, TokensKept
  <1>7. ASSUME NEW k \in DOMAIN adding, Answered(k) PROVE IInv'
    <2>1. adding' \in Seq(Urls) /\ adding[k] \in Urls
      <3>1. adding \in Seq(Urls)
        BY <1>0 DEF Storage
      <3>2. k \in 1..Len(adding) /\ adding[k] \in Urls
        BY <1>7, <3>1
      <3>3. adding' = RemoveAt(adding, k)
        BY <1>7 DEF Answered
      <3> QED
        BY <3>1, <3>2, <3>3, RemovedElements
    <2>2. UNCHANGED <<localTokens, ready, read, retrying, deleting>>
      BY <1>7 DEF Answered
    <2>3. CASE AddTo(Entry(adding[k], TRUE, FALSE), lists, userLists)
      <3>1. /\ Entry(adding[k], TRUE, FALSE) \in Entries /\ Entry(adding[k], TRUE, FALSE).id \in Sources
            /\ ~Entry(adding[k], TRUE, FALSE).failed
        BY <2>1 DEF Entry, Entries, Sources
      <3>2. Shaped(heap, lists, userLists) /\ Consistent(heap, lists, userLists)
        BY <1>0 DEF Page
      <3>3. /\ retrying' \in Seq([index : Nat, entry : 1..Len(heap)])
            /\ \A j \in DOMAIN retrying' : ready /\ heap[retrying'[j].entry].id \in Sources
        BY <1>0, <2>2 DEF Failures
      <3>4. /\ Page' /\ Failures' /\ TokensKept'
            /\ stored' \in [metas : Saves, states : States, tokens : SUBSET Tokens]
        BY <2>2, <2>3, <3>1, <3>2, <3>3, Added
      <3> QED
        BY <1>0, <2>1, <2>2, <3>4 DEF IInv, Storage
    <2>4. CASE UNCHANGED <<heap, lists, userLists, stored>>
      BY <1>0, <2>1, <2>2, <2>4 DEF IInv, Page, Failures, Storage, TokensKept
    <2> QED
      BY <1>7, <2>3, <2>4 DEF Answered
  <1>8. ASSUME NEW f \in Files, Import(f) PROVE IInv'
    <2>1. /\ Entry(f, TRUE, FALSE) \in Entries /\ Entry(f, TRUE, FALSE).id \in Sources
          /\ ~Entry(f, TRUE, FALSE).failed
      BY DEF Entry, Entries, Sources
    <2>2. Shaped(heap, lists, userLists) /\ Consistent(heap, lists, userLists)
      BY <1>0 DEF Page
    <2>3. /\ UNCHANGED <<localTokens, ready, read, adding, retrying, deleting>>
          /\ AddTo(Entry(f, TRUE, FALSE), lists, userLists)
      BY <1>8 DEF Import
    <2>4. /\ retrying' \in Seq([index : Nat, entry : 1..Len(heap)])
          /\ \A j \in DOMAIN retrying' : ready /\ heap[retrying'[j].entry].id \in Sources
      BY <1>0, <2>3 DEF Failures
    <2>5. /\ Page' /\ Failures' /\ TokensKept'
          /\ stored' \in [metas : Saves, states : States, tokens : SUBSET Tokens]
      BY <2>1, <2>2, <2>3, <2>4, Added
    <2> QED
      BY <1>0, <2>3, <2>5 DEF IInv, Storage
  <1>9. ASSUME EndDelete PROVE IInv'
    <2>1. UNCHANGED <<heap, localTokens, ready, read, adding, retrying>> /\ deleting' = 0
      BY <1>9 DEF EndDelete
    <2>2. CASE lists' = Without(deleting) /\ userLists' = UsersWithout(deleting) /\ SaveUserLists
      <3>1. Shaped(heap, lists', userLists') /\ Consistent(heap, lists', userLists')
        BY <1>0, <2>2, RemovedFromBoth
      <3>2. Page'
        BY <2>1, <3>1 DEF Page
      <3>3. /\ stored' \in [metas : Saves, states : States, tokens : SUBSET Tokens]
            /\ stored'.tokens = stored.tokens
        BY <1>0, <2>2, <3>2, SavedLists
      <3> QED
        BY <1>0, <2>1, <3>2, <3>3 DEF IInv, Failures, Storage, TokensKept
    <2>3. CASE UNCHANGED <<lists, userLists, stored>>
      BY <1>0, <2>1, <2>3 DEF IInv, Page, Failures, Storage, TokensKept
    <2> QED
      BY <1>9, <2>2, <2>3 DEF EndDelete
  <1>10. ASSUME NEW k \in DOMAIN retrying, Retried(k) PROVE IInv'
    <2>1. retrying' = RemoveAt(retrying, k) /\ UNCHANGED <<localTokens, ready, read, adding, deleting>>
      BY <1>10 DEF Retried
    <2>2. /\ retrying \in Seq([index : Nat, entry : 1..Len(heap)])
          /\ \A j \in DOMAIN retrying : ready /\ heap[retrying[j].entry].id \in Sources
      BY <1>0 DEF Failures
    <2>3. /\ retrying' \in Seq([index : Nat, entry : 1..Len(heap)])
          /\ \A j \in DOMAIN retrying' : \E m \in DOMAIN retrying : retrying'[j] = retrying[m]
      <3>1. k \in 1..Len(retrying)
        BY <1>10, <2>2
      <3> QED
        BY <2>1, <2>2, <3>1, RemovedElements
    <2>4. \A j \in DOMAIN retrying' : ready /\ heap[retrying'[j].entry].id \in Sources
      BY <2>2, <2>3
    <2>5. retrying[k] \in [index : Nat, entry : 1..Len(heap)]
      <3>1. /\ DOMAIN retrying = 1..Len(retrying)
            /\ \A j \in 1..Len(retrying) : retrying[j] \in [index : Nat, entry : 1..Len(heap)]
        BY <2>2, Elements
      <3> QED
        BY <1>10, <3>1
    <2> DEFINE e  == [heap[retrying[k].entry] EXCEPT !.failed = FALSE]
               ls == Without(retrying[k].index)
               us == UsersWithout(retrying[k].index)
    <2>6. CASE AddTo(e, ls, us)
      <3>1. e \in Entries /\ e.id \in Sources /\ ~e.failed
        <4>1. heap[retrying[k].entry] \in Entries /\ heap[retrying[k].entry].id \in Sources
          BY <1>0, <1>10, <2>2, <2>5
        <4> QED
          BY <4>1 DEF Entries
      <3>2. Shaped(heap, ls, us) /\ Consistent(heap, ls, us)
        BY <1>0, RemovedFromBoth
      <3> HIDE DEF e, ls, us
      <3>3. /\ Page' /\ Failures' /\ TokensKept'
            /\ stored' \in [metas : Saves, states : States, tokens : SUBSET Tokens]
        BY <2>1, <2>3, <2>4, <2>6, <3>1, <3>2, Added
      <3> QED
        BY <1>0, <2>1, <3>3 DEF IInv, Storage
    <2>7. CASE UNCHANGED <<heap, lists, userLists, stored>>
      <3>1. Failures'
        BY <1>0, <2>1, <2>3, <2>4, <2>7 DEF Failures
      <3> QED
        BY <1>0, <2>1, <2>7, <3>1 DEF IInv, Page, Storage, TokensKept
    <2> QED
      BY <1>10, <2>6, <2>7 DEF Retried
  <1>11. ASSUME NEW t \in Tokens, AddLocalToken(t) PROVE IInv'
    <2>1. /\ localTokens' = localTokens \cup {t}
          /\ stored' = [stored EXCEPT !.tokens = localTokens \cup {t}]
          /\ UNCHANGED <<heap, lists, userLists, ready, read, adding, retrying, deleting>>
      BY <1>11 DEF AddLocalToken, SavedTokens
    <2>2. localTokens \cup {t} \in SUBSET Tokens
      BY <1>0 DEF TokensKept, Storage
    <2>3. Storage'
      BY <1>0, <2>1, <2>2 DEF Storage
    <2>4. TokensKept'
      BY <1>0, <2>1 DEF Storage, TokensKept
    <2> QED
      BY <1>0, <2>1, <2>3, <2>4 DEF IInv, Page, Failures
  <1>12. CASE UNCHANGED vars
    BY <1>0, <1>12 DEF vars, page, IInv, Page, Failures, Storage, TokensKept
  <1> QED
    BY <1>1, <1>2, <1>3, <1>4, <1>5, <1>6, <1>7, <1>8, <1>9, <1>10, <1>11, <1>12 DEF Next

(* The invariant of the page and its storage. *)
LEMMA Invariant == Spec => []IInv
  BY Initially, Inductive, PTL DEF Spec

(* A page that was left alone while it loads has read what is stored.       *)
LeftAlone == ~ready /\ heap = <<>> => stored.metas = read.metas

(* Handlers that write leave an entry on the page, or it is loaded.         *)
LEMMA LeftAloneStep == IInv /\ LeftAlone /\ [Next]_vars => LeftAlone'
  <1> SUFFICES ASSUME IInv, LeftAlone, [Next]_vars, ~ready', heap' = <<>>
               PROVE  stored'.metas = read'.metas
    BY DEF LeftAlone
  <1>0. /\ Len(heap) \in Nat /\ DOMAIN lists = 1..Len(lists) /\ Len(lists) \in Nat
        /\ \A i \in DOMAIN lists : lists[i] \in 1..Len(heap)
        /\ heap \in Seq(Entries)
        /\ stored \in [metas : Saves, states : States, tokens : SUBSET Tokens]
    BY DEF IInv, Page, Shaped, Storage
  <1>1. CASE Reload
    BY <1>1 DEF Reload
  <1>2. ASSUME NEW e, NEW ls, NEW us PROVE ~AddTo(e, ls, us)
    <2>1. Len(Append(heap, e)) = Len(heap) + 1 /\ Len(<<>>) = 0
      OBVIOUS
    <2>2. Append(heap, e) # <<>>
      BY <1>0, <2>1
    <2> QED
      BY <2>2 DEF AddTo
  <1>3. CASE UNCHANGED <<heap, ready, read>> /\ stored'.metas = stored.metas
    BY <1>3 DEF LeftAlone
  <1>4. ASSUME NEW i \in DOMAIN lists, Toggle(i) PROVE FALSE
    <2>1. DOMAIN heap' = DOMAIN heap
      BY <1>4 DEF Toggle
    <2>2. DOMAIN heap' = {}
      OBVIOUS
    <2>3. lists[i] \in 1..Len(heap) /\ DOMAIN heap = 1..Len(heap)
      BY <1>0
    <2> QED
      BY <2>1, <2>2, <2>3
  <1>5. CASE EndDelete
    <2>1. heap = <<>> /\ UNCHANGED <<heap, ready, read>>
      BY <1>5 DEF EndDelete
    <2>2. Len(heap) = 0
      BY <2>1
    <2>3. DOMAIN lists = {}
      BY <1>0, <2>2
    <2> QED
      BY <1>3, <1>5, <2>1, <2>3 DEF EndDelete
  <1>6. ASSUME NEW t \in Tokens, AddLocalToken(t) PROVE stored'.metas = read'.metas
    BY <1>0, <1>3, <1>6 DEF AddLocalToken
  <1>7. ASSUME NEW k, Answered(k) \/ Retried(k) \/ Import(k)
        PROVE  stored'.metas = read'.metas
    BY <1>2, <1>3, <1>7 DEF Answered, Retried, Import
  <1>8. CASE \/ \E i \in DOMAIN lists : ConfirmDelete(i) \/ Retry(i)
             \/ \E u \in Urls : AddByUrl(u)
             \/ UNCHANGED vars
    BY <1>3, <1>8 DEF ConfirmDelete, Retry, AddByUrl, vars, page
  <1>9. ASSUME NEW failing, FinishLoad(failing) PROVE FALSE
    BY <1>9 DEF FinishLoad
  <1> QED
    BY <1>1, <1>4, <1>5, <1>6, <1>7, <1>8, <1>9 DEF Next

(* What saveUserLists writes are the lists shown after the change. *)
LEMMA SavesWhatIsShown ==
    ASSUME Page', Storage, SaveUserLists PROVE SavedIds' = ShownIds'
  <1>1. stored'.metas = Metas'
    BY DEF SaveUserLists, Storage
  <1>2. DOMAIN Metas' = DOMAIN userLists' /\ \A k \in DOMAIN userLists' : Metas'[k].id = heap'[userLists'[k]].id
    BY DEF Metas
  <1>3. SavedIds' = {heap'[i].id : i \in Range(userLists')}
    BY <1>1, <1>2 DEF SavedIds, Range
  <1>4. Range(userLists') = {i \in Range(lists') : heap'[i].id \in Sources}
    BY DEF Page, Consistent, OwnOf
  <1> QED
    BY <1>3, <1>4 DEF ShownIds

(* What initTokenlists shows are the lists it has read. *)
LEMMA LoadsWhatIsSaved ==
    ASSUME IInv, stored.metas = read.metas,
           NEW failing \in SUBSET DOMAIN read.metas, FinishLoad(failing)
    PROVE  SavedIds' = ShownIds'
  <1>1. /\ Page'
        /\ \A k \in DOMAIN read.metas : heap'[k + 2].id = read.metas[k].id
    BY LoadedPage
  <1>2. userLists' = [k \in DOMAIN read.metas |-> k + 2] /\ stored'.metas = read.metas
    BY DEF FinishLoad
  <1>3. SavedIds' = {heap'[k + 2].id : k \in DOMAIN read.metas}
    BY <1>1, <1>2 DEF SavedIds
  <1>4. Range(userLists') = {k + 2 : k \in DOMAIN read.metas}
    BY <1>2 DEF Range
  <1>5. Range(userLists') = {i \in Range(lists') : heap'[i].id \in Sources}
    BY <1>1 DEF Page, Consistent, OwnOf
  <1> QED
    BY <1>3, <1>4, <1>5 DEF ShownIds

-----------------------------------------------------------------------------
(* As long as the default list is on the page the built-in pair tokens and  *)
(* the local tokens are on, whichever switch is used and whatever else a    *)
(* retry or a deletion by a stale index has removed (toggleList, addList,   *)
(* removeList): the default list stays before them.  Nothing is said of a   *)
(* page from which such a deletion has removed the default list itself.     *)
THEOREM LocalListsOn == Spec => []LocalListsStayOn
  <1>1. IInv => LocalListsStayOn
    BY DEF IInv, Page, Consistent, StayOn, LocalListsStayOn, Present
  <1> QED
    BY <1>1, Invariant, PTL

(* _lists and _userLists agree in memory (addList, removeList,              *)
(* initTokenlists): no entry is shown twice, none of the user's is in one   *)
(* of the two only.                                                         *)
THEOREM UserListsShown == Spec => []UserListsAreShown
  <1>1. IInv => UserListsAreShown
    BY DEF IInv, Page, Consistent, OwnOf, UserListsAreShown
  <1> QED
    BY <1>1, Invariant, PTL

(* The lists of the user in localStorage are those that are shown after     *)
(* every write, every change of a loaded page, and a load during which the  *)
(* user changed nothing (saveUserLists, initTokenlists).                    *)
THEOREM ChangesSaved == Spec => SavedAsShown
  <1> DEFINE Agrees ==
        \/ stored'.metas # stored.metas
        \/ ready' /\ lists' # lists /\ (ready \/ heap = <<>>)
        => SavedIds' = ShownIds'
  <1>1. Init => LeftAlone
    BY DEF Init, LeftAlone
  <1>2. ASSUME IInv, IInv', LeftAlone, [Next]_vars PROVE Agrees
    <2>0. Page' /\ Storage
      BY <1>2 DEF IInv
    <2>1. CASE SaveUserLists
      BY <2>0, <2>1, SavesWhatIsShown
    <2>2. CASE stored'.metas = stored.metas /\ (lists' = lists \/ ~ready')
      BY <2>2
    <2>3. ASSUME NEW failing \in SUBSET DOMAIN read.metas, FinishLoad(failing) PROVE Agrees
      <3>1. stored' = stored /\ ~ready
        BY <2>3 DEF FinishLoad
      <3>2. CASE heap = <<>>
        BY <1>2, <2>3, <3>1, <3>2, LoadsWhatIsSaved DEF LeftAlone
      <3> QED
        BY <3>1, <3>2
    <2>4. CASE Reload
      BY <2>2, <2>4 DEF Reload
    <2>5. ASSUME NEW k, Answered(k) \/ Retried(k) \/ Import(k) PROVE Agrees
      BY <2>1, <2>2, <2>5 DEF Answered, Retried, Import, AddTo
    <2>6. CASE EndDelete
      BY <2>1, <2>2, <2>6 DEF EndDelete
    <2>7. CASE \/ \E i \in DOMAIN lists : Toggle(i) \/ ConfirmDelete(i) \/ Retry(i)
               \/ \E u \in Urls : AddByUrl(u)
               \/ \E t \in Tokens : AddLocalToken(t)
               \/ UNCHANGED vars
      <3>1. stored'.metas = stored.metas /\ lists' = lists
        BY <2>0, <2>7 DEF Toggle, ConfirmDelete, Retry, AddByUrl, AddLocalToken, vars, page, Storage
      <3> QED
        BY <2>2, <3>1
    <2> QED
      BY <1>2, <2>3, <2>4, <2>5, <2>6, <2>7 DEF Next
  <1> HIDE DEF Agrees
  <1>3. IInv /\ IInv' /\ LeftAlone /\ [Next]_vars => [Agrees]_vars
    BY <1>2
  <1>4. Spec => []LeftAlone
    BY <1>1, LeftAloneStep, Invariant, PTL DEF Spec
  <1>5. Spec => [][Agrees]_vars
    BY <1>3, <1>4, Invariant, PTL DEF Spec
  <1> QED
    BY <1>5 DEF SavedAsShown, Agrees

(* Local tokens in use are the stored ones once initTokenlists has returned *)
(* (addLocalToken, initTokenlists): those saved during its await survive.   *)
THEOREM LocalTokensStored == Spec => []LocalTokensSaved
  <1>1. IInv => LocalTokensSaved
    BY DEF IInv, TokensKept, LocalTokensSaved
  <1> QED
    BY <1>1, Invariant, PTL
=============================================================================
