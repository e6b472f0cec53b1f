--------------------------- MODULE PriceQuery_proofs ---------------------------
(***************************************************************************)
(* A request to the price endpoints, for whatever queries and bounds there *)
(* are: it ends with the status of its cause, which times are let through  *)
(* is known, and the tokens, amounts and prices of a batch stay together   *)
(* from the query string to the response and the cache.                    *)
(***************************************************************************)
EXTENDS PriceQuery, FiniteSetTheorems, SequenceTheorems, TLAPS

(* The status that must be told for an exception. *)
Tells(e, code) ==
    /\ e = "timeout" => code = 504
    /\ e \in {"connection", "os"} => code = 502
    /\ e = "overloaded" => code = 503

(* Every handler tells a timeout, a broken connection and overload apart,   *)
(* those of a block what can occur there.                                   *)
LEMMA HandlersTell ==
    ASSUME NEW e \in Errors
    PROVE  /\ Tells(e, PriceStatus(e)) /\ Tells(e, BatchStatus(e)) /\ Tells(e, BucketStatus(e))
           /\ e # "overloaded" => \A b \in BOOLEAN : Tells(e, ResolveStatus(e, b))
  BY DEF Errors, Classes, PriceStatus, BatchStatus, BucketStatus, ResolveStatus,
         IsTimeout, IsConnection, IsOverload, Tells

(* An exception leaves its status. *)
LEMMA EndWithTells ==
    ASSUME NEW e, NEW code, EndWith(e, code), Tells(e, code)
    PROVE  StatusTellsCause'
  BY DEF EndWith, StatusTellsCause, Tells

(* Every step tells the status of its cause. *)
LEMMA NextTells == StatusTellsCause /\ [Next]_vars => StatusTellsCause'
  <1> SUFFICES ASSUME StatusTellsCause, [Next]_vars PROVE StatusTellsCause'
    OBVIOUS
  <1>1. CASE UNCHANGED ending
    BY <1>1 DEF ending, StatusTellsCause
  <1>2. CASE Resolve
    <2>1. ASSUME NEW e \in Errors \ {"overloaded", "invalid"},
                 EndWith(e, ResolveStatus(e, Timestamp # None))
          PROVE  StatusTellsCause'
      BY <2>1, HandlersTell, EndWithTells
    <2> QED
      BY <1>1, <1>2, <2>1 DEF Resolve
  <1>3. CASE Attempt
    <2>1. ASSUME NEW e \in Errors, EndWith(e, PriceStatus(e)) PROVE StatusTellsCause'
      BY <2>1, HandlersTell, EndWithTells
    <2> QED
      BY <1>1, <1>3, <2>1 DEF Attempt
  <1>4. CASE Classify
    <2>1. ASSUME NEW e \in Errors, EndWith(e, BucketStatus(e)) PROVE StatusTellsCause'
      BY <2>1, HandlersTell, EndWithTells
    <2> QED
      BY <1>1, <1>4, <2>1 DEF Classify
  <1>5. CASE Refuse
    <2>1. "overloaded" \in Errors
      BY DEF Errors, Classes
    <2> QED
      BY <1>5, <2>1, HandlersTell, EndWithTells DEF Refuse
  <1>6. ASSUME NEW c \in Calls, FailCall(c) PROVE StatusTellsCause'
    <2>1. ASSUME NEW e \in Errors, EndWith(e, BatchStatus(e)) PROVE StatusTellsCause'
      BY <2>1, HandlersTell, EndWithTells
    <2> QED
      BY <1>1, <1>6, <2>1 DEF FailCall
  <1>7. CASE CancelLookup \/ Cancelled
    BY <1>7 DEF CancelLookup, Cancelled, StatusTellsCause
  <1>8. CASE \/ Parse \/ Prepare \/ Ask \/ Lookup \/ Fill \/ UNCHANGED vars
             \/ \E c \in Calls : EndCall(c) \/ StopCall(c)
    BY <1>1, <1>8 DEF Parse, Prepare, Ask, Lookup, Fill, EndCall, StopCall, vars
  <1> QED
    BY <1>2, <1>3, <1>4, <1>5, <1>6, <1>7, <1>8 DEF Next

(* The status of an error response is that of its cause.                    *)
THEOREM StatusFits == Spec => []StatusTellsCause
  <1>1. Init => StatusTellsCause
    BY DEF Init, StatusTellsCause
  <1> QED
    BY <1>1, NextTells, PTL DEF Spec

-----------------------------------------------------------------------------
(* params.py:105-112 of parse_timestamp, "Validates: Not negative, Not     *)
(* zero, Not in the future".  A date has whole seconds.                    *)
ValidTime(t) == t.kind \in {"number", "iso"} /\ t.tenths \div 10 \in 1..Latest

(* What the parser lets through or fails on: less than one, NaN, infinity. *)
Slips(t) == t.kind \in {"nan", "inf"} \/ (t.kind = "number" /\ t.tenths \in 1..9)

(***************************************************************************)
(* "Returns ParseError for invalid values" (params.py:112) is true but for *)
(* these texts, whatever the clock says: a fraction of a second becomes    *)
(* zero (params.py:137-140), NaN and infinity raise in int().              *)
(***************************************************************************)
THEOREM InvalidTimesRejectedButFor ==
    ASSUME NEW t \in Texts, t \notin Missing, t.kind = "iso" => t.tenths % 10 = 0
    PROVE  /\ Slips(t) => ParseTimestamp(t) \in {Value(0), Raises} /\ ~ValidTime(t)
           /\ ~Slips(t) => (ParseTimestamp(t) = Error <=> ~ValidTime(t))
  <1>1. Latest \in Nat /\ t.kind \in {"absent", "empty", "garbage", "nan", "inf", "number", "iso"}
        /\ t.tenths \in Int
    BY BoundsAssumption DEF Texts
  <1>2. CASE t.kind \in {"nan", "inf"}
    <2>1. ParseUnix(t) = Raises
      BY <1>2 DEF ParseUnix
    <2>2. t.kind \in {"number", "nan", "inf"} => ParseTimestamp(t) = ParseUnix(t)
      BY DEF ParseTimestamp
    <2>3. t.kind \in {"number", "nan", "inf"}
      BY <1>2
    <2> QED
      BY <1>2, <2>1, <2>2, <2>3 DEF Slips, ValidTime
  <1>3. CASE t.kind = "number"
    <2>1. ParseTimestamp(t) = IF t.tenths <= 0 \/ t.tenths \div 10 > Latest THEN Error
                              ELSE Value(t.tenths \div 10)
      BY <1>3 DEF ParseTimestamp, ParseUnix
    <2>2. \A n : Value(n) # Error
      BY DEF Value, Error
    <2>3. CASE t.tenths \in 1..9
      <3>1. t.tenths \div 10 = 0 /\ t.tenths > 0
        BY <2>3
      <3>2. ParseTimestamp(t) = Value(0) /\ ~ValidTime(t)
        BY <1>1, <2>1, <3>1 DEF ValidTime
      <3> QED
        BY <1>3, <2>3, <3>2 DEF Slips
    <2>4. CASE t.tenths \notin 1..9
      <3>1. t.tenths \div 10 \in 1..Latest <=> ~(t.tenths <= 0 \/ t.tenths \div 10 > Latest)
        BY <1>1, <2>4
      <3> QED
        BY <1>3, <2>1, <2>2, <2>4, <3>1 DEF Slips, ValidTime
    <2> QED
      BY <2>3, <2>4
  <1>4. CASE t.kind \in {"absent", "empty", "garbage", "iso"}
    <2>1. ParseTimestamp(t) = ParseIso(t)
      BY <1>4 DEF ParseTimestamp
    <2>2. ParseIso(t) = IF t.kind # "iso" \/ t.tenths > 10 * Latest \/ t.tenths \div 10 <= 0
                        THEN Error ELSE Value(t.tenths \div 10)
      BY DEF ParseIso
    <2>3. \A n : Value(n) # Error
      BY DEF Value, Error
    <2>4. t.kind = "iso" => (t.tenths > 10 * Latest <=> t.tenths \div 10 > Latest)
      BY <1>1
    <2>5. t.tenths \div 10 \in Int
      BY <1>1
    <2>6. t.kind = "iso" => (t.tenths \div 10 \in 1..Latest <=> ~(t.tenths > 10 * Latest \/ t.tenths \div 10 <= 0))
      BY <1>1, <2>4, <2>5
    <2> QED
      BY <1>4, <2>1, <2>2, <2>3, <2>6 DEF Slips, ValidTime
  <1> QED
    BY <1>1, <1>2, <1>3, <1>4

-----------------------------------------------------------------------------
(* Positions are numbered by how many stand before them. *)
Rank(P, i) == Cardinality({j \in P : j < i})

LEMMA Interval ==
    ASSUME NEW a \in {0, 1}, NEW n \in Nat
    PROVE  IsFiniteSet(a..(a + n - 1)) /\ Cardinality(a..(a + n - 1)) = n
  <1>1. ASSUME NEW l \in Int, l = a + n - 1
        PROVE  IsFiniteSet(a..l) /\ Cardinality(a..l) = n
    BY <1>1, FS_Interval
  <1> QED
    BY <1>1

(* A rank is less than there are positions, and grows with the position. *)
LEMMA RankGrows ==
    ASSUME NEW n \in Nat, NEW P \in SUBSET (1..n), NEW m \in Nat, m = Cardinality(P), NEW i \in P
    PROVE  Rank(P, i) \in 0..(m - 1) /\ \A k \in P : i < k => Rank(P, i) < Rank(P, k)
  <1> DEFINE before(k) == {j \in P : j < k}
  <1>1. IsFiniteSet(1..n)
    BY FS_Interval
  <1>2. IsFiniteSet(P)
    BY <1>1, FS_Subset
  <1>3. ASSUME NEW k
        PROVE  /\ before(k) \in SUBSET P /\ IsFiniteSet(before(k))
               /\ Cardinality(before(k)) \in Nat
    <2>1. before(k) \in SUBSET P
      OBVIOUS
    <2> HIDE DEF before
    <2> QED
      BY <1>2, <2>1, FS_Subset, FS_CardinalityType
  <1>4. Cardinality(before(i)) <= m - 1
    <2>1. before(i) \in SUBSET (P \ {i})
      OBVIOUS
    <2>2. IsFiniteSet(P \ {i}) /\ Cardinality(P \ {i}) = m - 1
      BY <1>2, FS_RemoveElement
    <2> HIDE DEF before
    <2> QED
      BY <2>1, <2>2, FS_Subset
  <1>5. ASSUME NEW k \in P, i < k PROVE Cardinality(before(i)) < Cardinality(before(k))
    <2>1. before(i) \cup {i} \in SUBSET before(k) /\ i \notin before(i)
      <3>1. i \in Int /\ k \in Int /\ \A j \in P : j \in Int
        OBVIOUS
      <3>2. (\A j \in P : j < i => j < k) /\ ~ (i < i)
        BY <1>5, <3>1
      <3>3. \A j \in before(i) \cup {i} : j \in before(k)
        BY <1>5, <3>2
      <3>4. i \notin before(i)
        BY <3>2
      <3> QED
        BY <3>3, <3>4
    <2> HIDE DEF before
    <2>2. Cardinality(before(i) \cup {i}) = Cardinality(before(i)) + 1
      BY <1>3, <2>1, FS_AddElement
    <2>3. Cardinality(before(i) \cup {i}) <= Cardinality(before(k))
      BY <1>3, <2>1, FS_Subset
    <2> QED
      BY <1>3, <2>2, <2>3
  <1>6. \A k : Rank(P, k) = Cardinality(before(k))
    BY DEF Rank
  <1> HIDE DEF before
  <1> QED
    BY <1>3, <1>4, <1>5, <1>6

(* Every rank is taken: ranks are as many as positions, and all different. *)
LEMMA RanksTaken ==
    ASSUME NEW n \in Nat, NEW P \in SUBSET (1..n), NEW m \in Nat, m = Cardinality(P)
    PROVE  /\ m <= n /\ (m = 0 <=> P = {}) /\ (m = n => P = 1..n)
           /\ \A r \in 0..(m - 1) : \E i \in P : Rank(P, i) = r
  <1>1. IsFiniteSet(1..n) /\ Cardinality(1..n) = n
    <2>1. IsFiniteSet(1..(1 + n - 1)) /\ Cardinality(1..(1 + n - 1)) = n
      BY Interval
    <2> QED
      BY <2>1
  <1>2. IsFiniteSet(P) /\ m <= n /\ (m = n => P = 1..n)
    BY <1>1, FS_Subset
  <1>3. m = 0 <=> P = {}
    BY <1>2, FS_EmptySet
  <1> DEFINE ranks == [i \in P |-> Rank(P, i)]
  <1>4. IsFiniteSet(0..(m - 1)) /\ Cardinality(0..(m - 1)) = m
    <2>1. IsFiniteSet(0..(0 + m - 1)) /\ Cardinality(0..(0 + m - 1)) = m
      BY Interval
    <2> QED
      BY <2>1
  <1>5. ranks \in [P -> 0..(m - 1)]
    BY RankGrows
  <1>6. \A i \in P : i \in Int /\ Rank(P, i) \in Int
    BY RankGrows
  <1>7. \A i, k \in P : ranks[i] = ranks[k] => i = k
    <2> SUFFICES ASSUME NEW i \in P, NEW k \in P, ranks[i] = ranks[k] PROVE i = k
      OBVIOUS
    <2>1. i < k => Rank(P, i) < Rank(P, k)
      BY RankGrows
    <2>2. k < i => Rank(P, k) < Rank(P, i)
      BY RankGrows
    <2> QED
      BY <1>6, <2>1, <2>2
  <1> HIDE DEF ranks
  <1>8. ranks \in Injection(P, 0..(m - 1))
    BY <1>5, <1>7 DEF Injection, IsInjective
  <1>9. ranks \in Surjection(P, 0..(m - 1))
    BY <1>2, <1>4, <1>8, FS_Injection
  <1>10. \A r \in 0..(m - 1) : \E i \in P : Rank(P, i) = r
    BY <1>9 DEF Surjection, ranks
  <1> QED
    BY <1>2, <1>3, <1>10

(* IndicesOf counts a set of positions upwards. *)
LEMMA Counted ==
    ASSUME NEW n \in Nat, NEW P \in SUBSET (1..n), NEW m \in Nat, m = Cardinality(P),
           NEW f, f = IndicesOf(P)
    PROVE  /\ f \in Seq(P) /\ Len(f) = m /\ DOMAIN f = 1..m
           /\ \A p, q \in 1..m : p < q => f[p] < f[q]
           /\ \A i \in P : Place(f, i) \in 1..m /\ f[Place(f, i)] = i
           /\ f = <<>> <=> P = {}
  <1>1. /\ m = 0 <=> P = {}
        /\ \A r \in 0..(m - 1) : \E i \in P : Rank(P, i) = r
    BY RanksTaken
  <1>2. \A i \in P : i \in Int /\ Rank(P, i) \in 0..(m - 1)
    <2>1. \A i \in P : Rank(P, i) \in 0..(m - 1)
      BY RankGrows
    <2> QED
      BY <2>1
  <1>3. \A i, k \in P : i < k => Rank(P, i) < Rank(P, k)
    BY RankGrows
  <1>4. f = [k \in 1..m |-> CHOOSE i \in P : Rank(P, i) = k - 1]
    BY DEF IndicesOf, Rank
  <1>5. ASSUME NEW k \in 1..m PROVE f[k] \in P /\ Rank(P, f[k]) = k - 1
    <2>1. k - 1 \in 0..(m - 1)
      OBVIOUS
    <2>2. \E i \in P : Rank(P, i) = k - 1
      BY <1>1, <2>1
    <2> QED
      BY <1>4, <2>2
  <1>6. f \in Seq(P) /\ Len(f) = m /\ DOMAIN f = 1..m
    <2>1. f \in [1..m -> P]
      BY <1>4, <1>5
    <2> QED
      BY <2>1
  <1>7. ASSUME NEW i \in P, NEW k \in P, Rank(P, i) = Rank(P, k) PROVE i = k
    <2>1. ~ (i < k) /\ ~ (k < i)
      BY <1>2, <1>3, <1>7
    <2> QED
      BY <1>2, <2>1
  <1>8. ASSUME NEW p \in 1..m, NEW q \in 1..m, p < q PROVE f[p] < f[q]
    <2>1. PICK i \in P : i = f[p] /\ Rank(P, i) = p - 1
      BY <1>5
    <2>2. PICK k \in P : k = f[q] /\ Rank(P, k) = q - 1
      BY <1>5
    <2>3. ~ (k < i)
      BY <1>3, <1>8, <2>1, <2>2
    <2>4. i # k
      BY <1>8, <2>1, <2>2
    <2> QED
      BY <1>2, <2>1, <2>2, <2>3, <2>4
  <1>9. ASSUME NEW i \in P PROVE Place(f, i) \in 1..m /\ f[Place(f, i)] = i
    <2>1. PICK k \in 1..m : k - 1 = Rank(P, i)
      <3>1. Rank(P, i) + 1 \in 1..m /\ (Rank(P, i) + 1) - 1 = Rank(P, i)
        BY <1>2
      <3> QED
        BY <3>1
    <2>2. f[k] = i
      BY <1>5, <1>7, <2>1
    <2> QED
      BY <1>6, <2>2 DEF Place
  <1>10. f = <<>> <=> P = {}
    <2>1. f = <<>> <=> m = 0
      BY <1>6, EmptySeq
    <2> QED
      BY <1>1, <2>1
  <1> QED
    BY <1>6, <1>8, <1>9, <1>10

(* All positions are counted as they are. *)
LEMMA AllCounted ==
    ASSUME NEW n \in Nat
    PROVE  IndicesOf(1..n) = [k \in 1..n |-> k]
  <1>1. Cardinality(1..n) = n
    <2>1. Cardinality(1..(1 + n - 1)) = n
      BY Interval
    <2> QED
      BY <2>1
  <1>2. ASSUME NEW i \in 1..n PROVE Rank(1..n, i) = i - 1
    <2>1. {j \in 1..n : j < i} = 1..(i - 1)
      OBVIOUS
    <2>2. PICK m \in Nat : m = i - 1
      OBVIOUS
    <2>3. Cardinality(1..(1 + m - 1)) = m
      BY Interval
    <2>4. 1 + m - 1 = i - 1
      BY <2>2
    <2> QED
      BY <2>1, <2>2, <2>3, <2>4 DEF Rank
  <1>3. IndicesOf(1..n) = [k \in 1..n |-> CHOOSE i \in 1..n : Rank(1..n, i) = k - 1]
    BY <1>1 DEF IndicesOf, Rank
  <1>4. ASSUME NEW k \in 1..n PROVE (CHOOSE i \in 1..n : Rank(1..n, i) = k - 1) = k
    <2>1. \A i \in 1..n : Rank(1..n, i) = k - 1 => i = k
      BY <1>2
    <2> QED
      BY <1>2, <2>1
  <1> QED
    BY <1>3, <1>4

(* The same as Counted, without the number. *)
LEMMA CountedAgain ==
    ASSUME NEW n \in Nat, NEW P \in SUBSET (1..n), NEW f, f = IndicesOf(P)
    PROVE  /\ f \in Seq(P) /\ \A p, q \in DOMAIN f : p < q => f[p] < f[q]
           /\ \A i \in P : Place(f, i) \in DOMAIN f /\ f[Place(f, i)] = i
           /\ f = <<>> <=> P = {}
  <1>1. IsFiniteSet(P)
    <2>1. IsFiniteSet(1..(1 + n - 1))
      BY Interval
    <2>2. IsFiniteSet(1..n)
      BY <2>1
    <2> QED
      BY <2>2, FS_Subset
  <1>2. PICK m \in Nat : m = Cardinality(P)
    BY <1>1, FS_CardinalityType
  <1>3. f \in Seq(P) /\ Len(f) = m /\ DOMAIN f = 1..m
    BY <1>2, Counted
  <1>4. \A p, q \in 1..m : p < q => f[p] < f[q]
    BY <1>2, Counted
  <1>5. \A i \in P : Place(f, i) \in 1..m /\ f[Place(f, i)] = i
    BY <1>2, Counted
  <1>6. f = <<>> <=> P = {}
    BY <1>2, Counted
  <1> QED
    BY <1>3, <1>4, <1>5, <1>6

(* A sequence of elements of one set is one of elements of a larger set.  *)
LEMMA Wider ==
    ASSUME NEW A, NEW B, NEW s \in Seq(A), \A a \in A : a \in B
    PROVE  s \in Seq(B)
  <1>1. s \in [1..Len(s) -> B] /\ Len(s) \in Nat
    OBVIOUS
  <1> QED
    BY <1>1

(* The positions of a sequence are its indices. *)
LEMMA Numbered ==
    ASSUME NEW A, NEW s \in Seq(A)
    PROVE  /\ \E m \in Nat : m = Len(s) /\ DOMAIN s = 1..m
           /\ \A i \in DOMAIN s : s[i] \in A
  OBVIOUS

(* What is at some positions of a sequence. *)
LEMMA Picked ==
    ASSUME NEW S, NEW s \in Seq(S), NEW f \in Seq(DOMAIN s), NEW t, t = At(s, f)
    PROVE  /\ t \in Seq(S) /\ Len(t) = Len(f) /\ DOMAIN t = DOMAIN f
           /\ \A k \in DOMAIN f : t[k] = s[f[k]]
  <1>1. DOMAIN f = 1..Len(f) /\ Len(f) \in Nat /\ \A k \in 1..Len(f) : f[k] \in DOMAIN s
    OBVIOUS
  <1>2. \A i \in DOMAIN s : s[i] \in S
    OBVIOUS
  <1>3. t = [k \in 1..Len(f) |-> s[f[k]]]
    BY <1>1 DEF At
  <1>4. t \in [1..Len(f) -> S]
    BY <1>1, <1>2, <1>3
  <1> QED
    BY <1>1, <1>3, <1>4

(* Dropping the empty segments leaves a list without any as it is, and      *)
(* makes every other shorter.                                               *)
LEMMA Dropped ==
    ASSUME NEW s \in Seq(STRING)
    PROVE  /\ NonEmpty(s) \in Seq(STRING)
           /\ (\A i \in DOMAIN s : s[i] # "") => NonEmpty(s) = s
           /\ Len(NonEmpty(s)) = Len(s) => \A i \in DOMAIN s : s[i] # ""
  <1>1. PICK n \in Nat : n = Len(s) /\ DOMAIN s = 1..n
    OBVIOUS
  <1>2. PICK P \in SUBSET (1..n) : P = {i \in DOMAIN s : s[i] # ""}
    BY <1>1
  <1>3. PICK f : f = IndicesOf(P)
    OBVIOUS
  <1>4. NonEmpty(s) = At(s, f)
    BY <1>2, <1>3 DEF NonEmpty
  <1>5. PICK m \in Nat : m = Cardinality(P)
    <2>1. IsFiniteSet(1..(1 + n - 1))
      BY Interval
    <2>2. IsFiniteSet(1..n)
      BY <2>1
    <2>3. IsFiniteSet(P)
      BY <2>2, FS_Subset
    <2> QED
      BY <2>3, FS_CardinalityType
  <1>6. f \in Seq(P) /\ Len(f) = m
    BY <1>3, <1>5, Counted
  <1>7. f \in Seq(DOMAIN s)
    <2>1. \A i \in P : i \in DOMAIN s
      BY <1>1
    <2> QED
      BY <1>6, <2>1, Wider
  <1>8. NonEmpty(s) \in Seq(STRING) /\ Len(NonEmpty(s)) = m
    BY <1>4, <1>6, <1>7, Picked
  <1>9. m = n => P = 1..n
    BY <1>5, RanksTaken
  <1>10. ASSUME \A i \in DOMAIN s : s[i] # "" PROVE NonEmpty(s) = s
    <2>1. P = 1..n
      BY <1>1, <1>2, <1>10
    <2>2. f = [k \in 1..n |-> k]
      BY <1>3, <2>1, AllCounted
    <2>3. At(s, f) = [k \in 1..n |-> s[k]]
      BY <2>2 DEF At
    <2> QED
      BY <1>1, <1>4, <2>3
  <1> QED
    BY <1>1, <1>2, <1>8, <1>9, <1>10

(***************************************************************************)
(* _lookup_batch_prices adapts the amounts to calls with all or none of    *)
(* them, and the answers are as if one call could take some: each comes    *)
(* back to the token and the amount it is for.                             *)
(***************************************************************************)
LEMMA Adapted ==
    ASSUME NEW n \in Nat, NEW ts, DOMAIN ts = 1..n,
           NEW as, as = <<>> \/ DOMAIN as = 1..n,
           NEW r, r = LookupBatchPrices(ts, as)
    PROVE  r = GetPrices(ts, as)
  <1>1. PICK m \in Nat : DOMAIN as = 1..m /\ (as # <<>> => m = n) /\ (as = <<>> => m = 0)
    <2>1. CASE as = <<>>
      <3>1. DOMAIN as = 1..0
        BY <2>1
      <3> QED
        BY <2>1, <3>1
    <2>2. CASE as # <<>>
      BY <2>2
    <2> QED
      BY <2>1, <2>2
  <1>2. DOMAIN ts = 1..n
    OBVIOUS
  <1>3. PICK A \in SUBSET (1..m) : A = {j \in DOMAIN as : as[j] = None}
    BY <1>1
  <1>4. PICK B \in SUBSET (1..m) : B = {j \in DOMAIN as : as[j] # None}
    BY <1>1
  <1>5. PICK spot : spot = IndicesOf(A)
    OBVIOUS
  <1>6. PICK rest : rest = IndicesOf(B)
    OBVIOUS
  <1>7. /\ spot \in Seq(A) /\ rest \in Seq(B)
        /\ \A i \in A : Place(spot, i) \in DOMAIN spot /\ spot[Place(spot, i)] = i
        /\ \A i \in B : Place(rest, i) \in DOMAIN rest /\ rest[Place(rest, i)] = i
        /\ rest = <<>> <=> B = {}
        /\ spot = <<>> <=> A = {}
    <2>1. /\ spot \in Seq(A) /\ (spot = <<>> <=> A = {})
          /\ \A i \in A : Place(spot, i) \in DOMAIN spot /\ spot[Place(spot, i)] = i
      BY <1>5, CountedAgain
    <2>2. /\ rest \in Seq(B) /\ (rest = <<>> <=> B = {})
          /\ \A i \in B : Place(rest, i) \in DOMAIN rest /\ rest[Place(rest, i)] = i
      BY <1>6, CountedAgain
    <2> QED
      BY <2>1, <2>2
  <1>8. r = IF rest = <<>> THEN GetPrices(ts, <<>>)
            ELSE IF spot = <<>> THEN GetPrices(ts, as)
            ELSE [j \in DOMAIN ts |->
                    IF as[j] = None THEN GetPrices(At(ts, spot), <<>>)[Place(spot, j)]
                    ELSE GetPrices(At(ts, rest), At(as, rest))[Place(rest, j)]]
    BY <1>3, <1>4, <1>5, <1>6 DEF LookupBatchPrices
  <1>9. CASE rest = <<>>
    <2>1. \A j \in 1..n : as # <<>> => as[j] = None
      BY <1>1, <1>4, <1>7, <1>9
    <2> QED
      BY <1>2, <1>8, <1>9, <2>1 DEF GetPrices
  <1>10. CASE rest # <<>> /\ spot = <<>>
    BY <1>2, <1>8, <1>10 DEF GetPrices
  <1>11. CASE rest # <<>> /\ spot # <<>>
    <2>1. as # <<>> /\ m = n
      <3>1. B # {}
        BY <1>7, <1>11
      <3>2. PICK j : j \in B
        BY <3>1
      <3>3. m # 0
        BY <3>2
      <3> QED
        BY <1>1, <3>3
    <2>2. r = [j \in 1..n |-> r[j]]
      BY <1>2, <1>8, <1>11
    <2>3. ASSUME NEW j \in 1..n, as[j] = None PROVE r[j] = <<ts[j], None>>
      <3>1. j \in A
        BY <1>1, <1>3, <2>1, <2>3
      <3>2. PICK p \in DOMAIN spot : p = Place(spot, j) /\ spot[p] = j
        BY <1>7, <3>1
      <3>3. GetPrices(At(ts, spot), <<>>)[p] = <<ts[j], None>>
        BY <3>2 DEF GetPrices, At
      <3> QED
        BY <1>2, <1>8, <1>11, <2>3, <3>2, <3>3
    <2>4. ASSUME NEW j \in 1..n, as[j] # None PROVE r[j] = <<ts[j], as[j]>>
      <3>1. j \in B
        BY <1>1, <1>4, <2>1, <2>4
      <3>2. PICK p \in DOMAIN rest : p = Place(rest, j) /\ rest[p] = j
        BY <1>7, <3>1
      <3>3. DOMAIN At(as, rest) # {}
        BY <3>2 DEF At
      <3>4. At(as, rest) # <<>>
        <4>1. DOMAIN <<>> = {}
          OBVIOUS
        <4> QED
          BY <3>3, <4>1
      <3>5. GetPrices(At(ts, rest), At(as, rest))[p] = <<ts[j], as[j]>>
        BY <3>2, <3>4 DEF GetPrices, At
      <3> QED
        BY <1>2, <1>8, <1>11, <2>4, <3>2, <3>5
    <2>5. \A j \in 1..n : r[j] = <<ts[j], as[j]>>
      BY <2>3, <2>4
    <2>6. GetPrices(ts, as) = [j \in 1..n |-> <<ts[j], as[j]>>]
      BY <1>2, <2>1 DEF GetPrices
    <2> QED
      BY <2>2, <2>5, <2>6
  <1> QED
    BY <1>9, <1>10, <1>11

-----------------------------------------------------------------------------
(* A parsed block is within the chain's numbering.                         *)
LEMMA BlockBounded ==
    ASSUME NEW t \in Texts
    PROVE  ParseBlock(t) = None \/ ParseBlock(t) = Error
           \/ (ParseBlock(t).is = "value" /\ ParseBlock(t).value \in 1..MaxBlock)
  <1>1. PICK n \in Int : n = t.tenths
    BY DEF Texts
  <1>2. PICK b \in Int : b = n \div 10
    OBVIOUS
  <1>3. BlockInRange(b) => b \in 1..MaxBlock
    BY BoundsAssumption DEF BlockInRange
  <1>4. ParseBlock(t) = None \/ ParseBlock(t) = Error
        \/ (BlockInRange(b) /\ ParseBlock(t) = Value(b))
    BY <1>1, <1>2 DEF ParseBlock
  <1> QED
    BY <1>3, <1>4 DEF Value

(* A parsed time is not ahead of the clock and its tolerance.              *)
LEMMA TimeBounded ==
    ASSUME NEW t \in Texts
    PROVE  ParseTimestamp(t) \in {None, Error, Raises}
           \/ (ParseTimestamp(t).is = "value" /\ ParseTimestamp(t).value \in 0..Latest)
  <1>1. PICK n \in Int : n = t.tenths
    BY DEF Texts
  <1>2. PICK s \in Int : s = n \div 10
    OBVIOUS
  <1>3. Latest \in Nat
    BY BoundsAssumption
  <1>4. ParseUnix(t) \in {Error, Raises} \/ (ParseUnix(t) = Value(s) /\ s \in 0..Latest)
    <2>1. \/ ParseUnix(t) \in {Error, Raises}
          \/ (ParseUnix(t) = Value(s) /\ ~(n <= 0) /\ ~(s > Latest))
      BY <1>1, <1>2 DEF ParseUnix
    <2>2. ~(n <= 0) /\ ~(s > Latest) => s \in 0..Latest
      BY <1>2, <1>3
    <2> QED
      BY <2>1, <2>2
  <1>5. ParseIso(t) = Error \/ (ParseIso(t) = Value(s) /\ s \in 0..Latest)
    <2>1. ParseIso(t) = Error \/ (ParseIso(t) = Value(s) /\ ~(n > 10 * Latest) /\ ~(s <= 0))
      BY <1>1, <1>2 DEF ParseIso
    <2>2. ~(n > 10 * Latest) /\ ~(s <= 0) => s \in 0..Latest
      BY <1>2, <1>3
    <2> QED
      BY <2>1, <2>2
  <1>6. ParseTimestamp(t) \in {None, ParseUnix(t), ParseIso(t)}
    BY DEF ParseTimestamp
  <1> QED
    BY <1>4, <1>5, <1>6 DEF Value

(* What is known of the parameters of an accepted query.                   *)
LEMMA Accepted ==
    ASSUME NEW q \in Queries, Outcome(q) = "accepted"
    PROVE  /\ ParseBlock(q.block) # Error
           /\ ParseTimestamp(q.timestamp) \notin {Error, Raises}
           /\ None \in {ParseTimestamp(q.timestamp), ParseBlock(q.block)}
           /\ q.route = "batch" => CountsMatch(q)
  <1>1. RouteOk(q) /\ NotBoth(q) /\ ParseTimestamp(q.timestamp) \notin {Error, Raises}
    BY DEF Outcome
  <1>2. q.route \in {"price", "batch", "bucket"}
    BY QueriesAssumption
  <1>3. q.route = "bucket" => ParseBlock(q.block) # Error
    BY QueriesAssumption DEF ParseBlock, Text, None, Error
  <1>4. q.route # "bucket" => ParseBlock(q.block) # Error
    BY <1>1, <1>2 DEF RouteOk, PriceOk, BatchOk
  <1>5. q.route = "batch" => CountsMatch(q)
    BY <1>1 DEF RouteOk, BatchOk
  <1> QED
    BY <1>1, <1>3, <1>4, <1>5 DEF NotBoth

(* The lists of an accepted batch: as many amounts as tokens, if any.      *)
LEMMA ListsOfBatch ==
    ASSUME query \in Queries, query.route = "batch", Outcome(query) = "accepted"
    PROVE  /\ query.tokens \in Seq(STRING) /\ Tokens \in Seq(STRING)
           /\ query.amounts # <<>> =>
                 /\ query.amounts \in Seq(Texts)
                 /\ Amounts \in Seq({Amounts[j] : j \in DOMAIN Amounts})
                 /\ DOMAIN Amounts = DOMAIN query.amounts /\ DOMAIN Amounts = DOMAIN Tokens
                 /\ Len(query.amounts) = Len(Tokens)
  <1>1. query.tokens \in Seq(STRING) /\ query.amounts \in Seq(Texts)
    BY QueriesAssumption
  <1>2. Tokens \in Seq(STRING)
    BY <1>1, Dropped DEF Tokens
  <1>3. Amounts \in Seq({Amounts[j] : j \in DOMAIN Amounts}) /\ Len(Amounts) = Len(query.amounts)
        /\ DOMAIN Amounts = DOMAIN query.amounts
    <2>1. PICK m \in Nat : m = Len(query.amounts) /\ DOMAIN query.amounts = 1..m
      BY <1>1, Numbered
    <2>2. DOMAIN Amounts = 1..m
      BY <2>1 DEF Amounts, ParseAmounts
    <2>3. PICK a : a = Amounts /\ a = [j \in 1..m |-> a[j]]
      BY <2>1 DEF Amounts, ParseAmounts
    <2>4. a \in [1..m -> {a[j] : j \in DOMAIN a}]
      BY <2>2, <2>3
    <2> QED
      BY <2>1, <2>2, <2>3, <2>4
  <1>4. query.amounts # <<>> => Len(Amounts) = Len(Tokens)
    BY Accepted DEF CountsMatch, Amounts, Tokens
  <1>5. DOMAIN Tokens = 1..Len(Tokens) /\ DOMAIN Amounts = 1..Len(Amounts)
    BY <1>2, <1>3
  <1> QED
    BY <1>1, <1>2, <1>3, <1>4, <1>5

(* The parameters of an accepted query are in their ranges.                *)
LEMMA ParametersInRange ==
    ASSUME query \in Queries, Outcome(query) = "accepted"
    PROVE  /\ Block.is # "none" => Block.value \in 1..MaxBlock
           /\ Timestamp.is # "none" => Timestamp.value \in 0..Latest
           /\ Block = None \/ Timestamp = None
  <1>1. query.block \in Texts /\ query.timestamp \in Texts
    BY QueriesAssumption
  <1>2. ParseBlock(query.block) # Error /\ ParseTimestamp(query.timestamp) \notin {Error, Raises}
    BY Accepted
  <1>3. None \in {ParseTimestamp(query.timestamp), ParseBlock(query.block)}
    BY Accepted
  <1>4. Block = None \/ (Block.is = "value" /\ Block.value \in 1..MaxBlock)
    BY <1>1, <1>2, BlockBounded DEF Block
  <1>5. Timestamp = None \/ (Timestamp.is = "value" /\ Timestamp.value \in 0..Latest)
    BY <1>1, <1>2, TimeBounded DEF Timestamp
  <1> QED
    BY <1>3, <1>4, <1>5 DEF Block, Timestamp, None

(* The amounts of an accepted batch are those written beside its tokens.   *)
LEMMA AmountsBesideTokens ==
    ASSUME query \in Queries, query.route = "batch", Outcome(query) = "accepted",
           query.amounts # <<>>
    PROVE  /\ DOMAIN Amounts = DOMAIN Tokens
           /\ Len(query.amounts) = Len(query.tokens) =>
              \A j \in DOMAIN Tokens : \E i \in DOMAIN query.tokens :
                  /\ Len(NonEmpty(SubSeq(query.tokens, 1, i))) = j
                  /\ query.tokens[i] = Tokens[j]
                  /\ Amounts[j] = IF query.amounts[i] \in Missing THEN None
                                  ELSE Positive(query.amounts[i])
  <1>1. DOMAIN Amounts = DOMAIN Tokens /\ DOMAIN Amounts = DOMAIN query.amounts
        /\ Len(query.amounts) = Len(Tokens) /\ query.tokens \in Seq(STRING)
    BY ListsOfBatch
  <1> SUFFICES ASSUME Len(query.amounts) = Len(query.tokens), NEW j \in DOMAIN Tokens
               PROVE  \E i \in DOMAIN query.tokens :
                         /\ Len(NonEmpty(SubSeq(query.tokens, 1, i))) = j
                         /\ query.tokens[i] = Tokens[j]
                         /\ Amounts[j] = IF query.amounts[i] \in Missing THEN None
                                         ELSE Positive(query.amounts[i])
    BY <1>1
  <1>2. Len(NonEmpty(query.tokens)) = Len(query.tokens)
    BY <1>1 DEF Tokens
  <1>3. /\ \A i \in DOMAIN query.tokens : query.tokens[i] # ""
        /\ NonEmpty(query.tokens) = query.tokens
    BY <1>1, <1>2, Dropped
  <1>4. Tokens = query.tokens
    BY <1>3 DEF Tokens
  <1>5. PICK s \in Seq(STRING) :
          /\ s = SubSeq(query.tokens, 1, j) /\ Len(s) = j
          /\ \A i \in DOMAIN s : s[i] = query.tokens[i] /\ i \in DOMAIN query.tokens
    <2>1. PICK m \in Nat : m = Len(query.tokens) /\ DOMAIN query.tokens = 1..m
      BY <1>1, Numbered
    <2>2. j \in 1..m
      BY <1>4, <2>1
    <2>3. SubSeq(query.tokens, 1, j) \in Seq(STRING) /\ Len(SubSeq(query.tokens, 1, j)) = j
      BY <1>1, <2>1, <2>2, SubSeqProperties
    <2>4. \A i \in 1..j : SubSeq(query.tokens, 1, j)[i] = query.tokens[i]
      BY <1>1, <2>1, <2>2, SubSeqProperties
    <2>5. DOMAIN SubSeq(query.tokens, 1, j) = 1..j
      BY <2>3
    <2>6. \A i \in 1..j : i \in DOMAIN query.tokens
      BY <2>1, <2>2
    <2> QED
      BY <2>3, <2>4, <2>5, <2>6
  <1>6. NonEmpty(s) = s
    <2>1. \A i \in DOMAIN s : s[i] # ""
      BY <1>3, <1>5
    <2> QED
      BY <2>1, Dropped
  <1>7. Len(NonEmpty(SubSeq(query.tokens, 1, j))) = j
    BY <1>5, <1>6
  <1>8. Amounts[j] = IF query.amounts[j] \in Missing THEN None ELSE Positive(query.amounts[j])
    BY <1>1 DEF Amounts, ParseAmounts
  <1> QED
    BY <1>4, <1>7, <1>8

-----------------------------------------------------------------------------
(* A position is to be fetched. *)
Fetched(i) == \E p \in DOMAIN fetch : fetch[p] = i

(* Position i was answered by the cache. *)
Answered(i) ==
    /\ results[i] = [price |-> <<Tokens[i], None>>, cached |-> TRUE, filled |-> TRUE]
    /\ AmountAt(i) = None

(* Nothing is stored, answered or fetched before its time, and only for a  *)
(* batch.                                                                  *)
Ordered ==
    /\ query \in Queries
    /\ Parsed => Outcome(query) = "accepted"
    /\ pc # "done" => stored = {}
    /\ pc \in {"parse", "accepted", "resolved", "again"} => results = <<>>
    /\ pc = "done" /\ query.route # "batch" => results = <<>> /\ stored = {}
    /\ pc \in {"lookup", "asking", "fill"} => query.route = "batch"

(* What has no answer yet is to be fetched, what is fetched is for the      *)
(* token and the amount of its position.                                   *)
Placed ==
    /\ \A p, q \in DOMAIN fetch : p < q => fetch[p] < fetch[q]
    /\ pc \in {"lookup", "asking", "fill"} =>
          /\ fetch \in Seq(DOMAIN Tokens) /\ DOMAIN results = DOMAIN Tokens
          /\ \A i \in DOMAIN Tokens : Fetched(i) \/ Answered(i)
    /\ pc = "fill" =>
          /\ DOMAIN prices = DOMAIN fetch
          /\ \A j \in DOMAIN fetch :
                prices[j] \in {NoPrice, <<Tokens[fetch[j]], AmountAt(fetch[j])>>}

BatchInv == Ordered /\ Placed /\ EveryPositionItsOwn /\ StoresWhatItReports

(* The parameters do not change.                                           *)
LEMMA SameQuery ==
    ASSUME UNCHANGED query
    PROVE  Tokens' = Tokens /\ Amounts' = Amounts /\ \A i : AmountAt(i)' = AmountAt(i)
  BY DEF Tokens, Amounts, AmountAt

(* Prepare: what the cache does not answer is to be fetched, in order.      *)
LEMMA Prepared ==
    ASSUME BatchInv, Prepare
    PROVE  /\ fetch' \in Seq(DOMAIN Tokens) /\ DOMAIN results' = DOMAIN Tokens
           /\ \A p, q \in DOMAIN fetch' : p < q => fetch'[p] < fetch'[q]
           /\ \A i \in DOMAIN Tokens : Fetched(i)' \/ Answered(i)'
           /\ fetch' = <<>> => \A i \in DOMAIN Tokens : Answered(i)'
  <1>1. query \in Queries /\ query.route = "batch" /\ Outcome(query) = "accepted" /\ UNCHANGED query
    BY DEF BatchInv, Ordered, Prepare, Parsed
  <1>2. Tokens' = Tokens /\ \A i : AmountAt(i)' = AmountAt(i)
    BY <1>1, SameQuery
  <1>3. Tokens \in Seq(STRING)
    BY <1>1, ListsOfBatch
  <1>4. PICK n \in Nat : n = Len(Tokens) /\ DOMAIN Tokens = 1..n
    BY <1>3, Numbered
  <1>5. PICK cached :
          /\ fetch' = IndicesOf({i \in DOMAIN Tokens : ~(AsksCache(i) /\ Tokens[i] \in cached)})
          /\ results' = [i \in DOMAIN Tokens |->
                IF AsksCache(i) /\ Tokens[i] \in cached
                THEN [price |-> <<Tokens[i], None>>, cached |-> TRUE, filled |-> TRUE]
                ELSE Placeholder]
    BY DEF Prepare
  <1>6. PICK P \in SUBSET (1..n) :
          P = {i \in DOMAIN Tokens : ~(AsksCache(i) /\ Tokens[i] \in cached)}
    BY <1>4
  <1>7. PICK f : f = fetch' /\ f = IndicesOf(P)
    BY <1>5, <1>6
  <1>8. /\ f \in Seq(P) /\ \A p, q \in DOMAIN f : p < q => f[p] < f[q]
        /\ \A i \in P : Place(f, i) \in DOMAIN f /\ f[Place(f, i)] = i
        /\ f = <<>> <=> P = {}
    BY <1>7, CountedAgain
  <1>9. f \in Seq(DOMAIN Tokens)
    <2>1. \A i \in P : i \in DOMAIN Tokens
      BY <1>4
    <2> QED
      BY <1>8, <2>1, Wider
  <1>10. ASSUME NEW i \in P PROVE Fetched(i)'
    BY <1>7, <1>8 DEF Fetched
  <1>11. ASSUME NEW i \in DOMAIN Tokens, i \notin P PROVE Answered(i)'
    BY <1>2, <1>5, <1>6, <1>11 DEF Answered, AsksCache
  <1>12. DOMAIN results' = DOMAIN Tokens
    BY <1>5
  <1> QED
    BY <1>7, <1>8, <1>9, <1>10, <1>11, <1>12

(* Lookup: each price is for the token and the amount of its position.      *)
LEMMA LookedUp ==
    ASSUME BatchInv, Lookup
    PROVE  /\ DOMAIN prices' = DOMAIN fetch
           /\ \A j \in DOMAIN fetch :
                 prices'[j] \in {NoPrice, <<Tokens[fetch[j]], AmountAt(fetch[j])>>}
  <1>1. query \in Queries /\ query.route = "batch" /\ Outcome(query) = "accepted"
        /\ fetch \in Seq(DOMAIN Tokens)
    BY DEF BatchInv, Ordered, Placed, Lookup, Parsed
  <1>2. Tokens \in Seq(STRING)
    BY <1>1, ListsOfBatch
  <1>3. PICK n \in Nat : n = Len(fetch) /\ DOMAIN fetch = 1..n
    BY <1>1, Numbered
  <1>4. PICK ts \in Seq(STRING) : ts = At(Tokens, fetch) /\ Len(ts) = n
                                  /\ \A k \in DOMAIN fetch : ts[k] = Tokens[fetch[k]]
    BY <1>1, <1>2, <1>3, Picked
  <1>5. PICK as : as = FetchAmounts
    OBVIOUS
  <1> DEFINE A == {Amounts[j] : j \in DOMAIN Amounts}
  <1>6. (as = <<>> \/ DOMAIN as = 1..n)
        /\ \A j \in DOMAIN fetch :
              (IF as = <<>> THEN None ELSE as[j]) = AmountAt(fetch[j])
    <2>1. CASE query.amounts = <<>>
      BY <1>5, <2>1 DEF FetchAmounts, AmountAt
    <2>2. CASE query.amounts # <<>>
      <3>1. Amounts \in Seq(A) /\ fetch \in Seq(DOMAIN Amounts)
        BY <1>1, <2>2, ListsOfBatch
      <3>2. as = At(Amounts, fetch)
        BY <1>5, <2>2 DEF FetchAmounts
      <3> HIDE DEF A
      <3>3. DOMAIN as = DOMAIN fetch
            /\ \A j \in DOMAIN fetch : as[j] = Amounts[fetch[j]]
        BY <1>3, <3>1, <3>2, Picked
      <3>4. \A j \in DOMAIN fetch : as # <<>>
        <4>1. DOMAIN <<>> = {}
          OBVIOUS
        <4> QED
          BY <3>3, <4>1
      <3> QED
        BY <1>3, <2>2, <3>3, <3>4 DEF AmountAt
    <2> QED
      BY <2>1, <2>2
  <1> HIDE DEF A
  <1>7. PICK r : r = LookupBatchPrices(ts, as)
    OBVIOUS
  <1>8. r = GetPrices(ts, as)
    <2>1. DOMAIN ts = 1..n
      BY <1>4
    <2>2. as = <<>> \/ DOMAIN as = 1..n
      BY <1>6
    <2> QED
      BY <1>7, <2>1, <2>2, Adapted
  <1>9. PICK none : prices' = [j \in DOMAIN r |-> IF j \in none THEN NoPrice ELSE r[j]]
    <2>1. LookupBatchPrices(At(Tokens, fetch), FetchAmounts) = r
      BY <1>4, <1>5, <1>7
    <2>2. \E none : prices' = [j \in DOMAIN LookupBatchPrices(At(Tokens, fetch), FetchAmounts) |->
                                 IF j \in none THEN NoPrice
                                 ELSE LookupBatchPrices(At(Tokens, fetch), FetchAmounts)[j]]
      BY DEF Lookup
    <2> QED
      BY <2>1, <2>2
  <1>10. DOMAIN ts = 1..n
    BY <1>4
  <1>11. DOMAIN prices' = DOMAIN fetch
    BY <1>3, <1>8, <1>9, <1>10 DEF GetPrices
  <1>12. ASSUME NEW j \in DOMAIN fetch
         PROVE  prices'[j] \in {NoPrice, <<Tokens[fetch[j]], AmountAt(fetch[j])>>}
    <2>1. ts[j] = Tokens[fetch[j]] /\ j \in DOMAIN ts
      BY <1>3, <1>4, <1>10
    <2>2. (IF as = <<>> THEN None ELSE as[j]) = AmountAt(fetch[j])
      BY <1>6
    <2>3. r[j] = <<Tokens[fetch[j]], AmountAt(fetch[j])>>
      BY <1>8, <2>1, <2>2 DEF GetPrices
    <2>4. prices'[j] \in {NoPrice, r[j]}
      BY <1>8, <1>9, <2>1 DEF GetPrices
    <2> QED
      BY <2>3, <2>4
  <1> QED
    BY <1>11, <1>12

(* Fill: every position gets its own answer, and what is stored is what is  *)
(* reported as fetched.                                                    *)
LEMMA Filled ==
    ASSUME BatchInv, Fill
    PROVE  EveryPositionItsOwn' /\ StoresWhatItReports'
  <1>1. /\ UNCHANGED query /\ fetch \in Seq(DOMAIN Tokens) /\ DOMAIN results = DOMAIN Tokens
        /\ \A i \in DOMAIN Tokens : Fetched(i) \/ Answered(i)
    BY DEF BatchInv, Placed, Fill
  <1>2. \A j \in DOMAIN fetch :
           prices[j] \in {NoPrice, <<Tokens[fetch[j]], AmountAt(fetch[j])>>}
    BY DEF BatchInv, Placed, Fill
  <1>3. Tokens' = Tokens /\ \A i : AmountAt(i)' = AmountAt(i)
    BY <1>1, SameQuery
  <1>4. PICK m \in Nat : m = Len(fetch) /\ DOMAIN fetch = 1..m
    BY <1>1, Numbered
  <1>5. \A p \in DOMAIN fetch : fetch[p] \in DOMAIN Tokens
    BY <1>1, Numbered
  <1>6. PICK n \in Nat : DOMAIN Tokens = 1..n
    <2>1. Tokens \in Seq(STRING)
      BY ListsOfBatch DEF BatchInv, Ordered, Fill, Parsed
    <2> QED
      BY <2>1, Numbered
  <1>7. \A p, q \in DOMAIN fetch : fetch[p] = fetch[q] => p = q
    <2> SUFFICES ASSUME NEW p \in DOMAIN fetch, NEW q \in DOMAIN fetch, fetch[p] = fetch[q]
                 PROVE  p = q
      OBVIOUS
    <2>1. fetch[p] \in Int /\ fetch[q] \in Int /\ p \in Int /\ q \in Int
      BY <1>4, <1>5, <1>6
    <2>2. ~(p < q) /\ ~(q < p)
      BY <2>1 DEF BatchInv, Placed
    <2> QED
      BY <2>1, <2>2
  <1>8. \A i : Fetched(i) => Place(fetch, i) \in DOMAIN fetch /\ fetch[Place(fetch, i)] = i
    BY DEF Fetched, Place
  <1>9. DOMAIN results' = DOMAIN Tokens
    BY <1>1 DEF Fill
  <1>10. ASSUME NEW i \in DOMAIN Tokens, Fetched(i)
         PROVE  /\ results'[i].filled /\ ~results'[i].cached
                /\ results'[i].price = prices[Place(fetch, i)]
    <2>1. results'[i] = [price |-> prices[Place(fetch, i)], cached |-> FALSE, filled |-> TRUE]
      BY <1>1, <1>10 DEF Fill, Fetched
    <2> QED
      BY <2>1
  <1>11. ASSUME NEW i \in DOMAIN Tokens, ~Fetched(i)
         PROVE  /\ results'[i].filled /\ results'[i].cached
                /\ results'[i].price = <<Tokens[i], AmountAt(i)>>
    <2>1. Answered(i) /\ results'[i] = results[i]
      BY <1>1, <1>11 DEF Fill, Fetched
    <2>2. /\ results'[i] = [price |-> <<Tokens[i], None>>, cached |-> TRUE, filled |-> TRUE]
          /\ AmountAt(i) = None
      BY <2>1 DEF Answered
    <2> QED
      BY <2>2
  <1>12. EveryPositionItsOwn'
    <2>1. ASSUME NEW i \in DOMAIN Tokens
          PROVE  results'[i].filled /\ results'[i].price \in {NoPrice, <<Tokens[i], AmountAt(i)>>}
      <3>1. CASE Fetched(i)
        <4>1. prices[Place(fetch, i)] \in {NoPrice, <<Tokens[i], AmountAt(i)>>}
          BY <1>2, <1>8, <3>1
        <4>2. results'[i].filled /\ results'[i].price = prices[Place(fetch, i)]
          BY <1>10, <3>1
        <4> QED
          BY <4>1, <4>2
      <3>2. CASE ~Fetched(i)
        BY <1>11, <3>2
      <3> QED
        BY <3>1, <3>2
    <2> QED
      BY <1>3, <1>9, <2>1 DEF EveryPositionItsOwn
  <1> DEFINE reported == {j \in DOMAIN results' :
                            /\ AmountAt(j) = None
                            /\ ~results'[j].cached /\ results'[j].price # NoPrice}
             stores   == {j \in DOMAIN fetch : Stores(j)}
  <1>13. \A j \in stores : fetch[j] \in reported
    <2> SUFFICES ASSUME NEW j \in DOMAIN fetch, Stores(j) PROVE fetch[j] \in reported
      OBVIOUS
    <2>1. fetch[j] \in DOMAIN Tokens /\ Fetched(fetch[j])
      BY <1>5 DEF Fetched
    <2>2. Place(fetch, fetch[j]) = j
      BY <1>7, <1>8, <2>1
    <2>3. ~results'[fetch[j]].cached /\ results'[fetch[j]].price = prices[j]
      BY <1>10, <2>1, <2>2
    <2> QED
      BY <1>9, <2>1, <2>3 DEF Stores
  <1>14. \A i \in reported : \E j \in stores : fetch[j] = i
    <2> SUFFICES ASSUME NEW i \in reported PROVE \E j \in stores : fetch[j] = i
      OBVIOUS
    <2>1. /\ i \in DOMAIN Tokens /\ AmountAt(i) = None
          /\ ~results'[i].cached /\ results'[i].price # NoPrice
      BY <1>9
    <2>2. Fetched(i)
      BY <1>11, <2>1
    <2>3. Place(fetch, i) \in DOMAIN fetch /\ fetch[Place(fetch, i)] = i
      BY <1>8, <2>2
    <2>4. prices[Place(fetch, i)] # NoPrice
      BY <1>10, <2>1, <2>2
    <2>5. Place(fetch, i) \in stores
      BY <2>1, <2>3, <2>4 DEF Stores
    <2> QED
      BY <2>3, <2>5
  <1>15. stored' = {Tokens[fetch[j]] : j \in stores} /\ pc' = "done"
    BY DEF Fill
  <1>16. stored' = {Tokens[i] : i \in reported}
    <2> HIDE DEF reported, stores
    <2> QED
      BY <1>13, <1>14, <1>15
  <1>17. StoresWhatItReports'
    BY <1>3, <1>15, <1>16 DEF StoresWhatItReports
  <1> QED
    BY <1>12, <1>17

(* The invariant holds initially.                                          *)
LEMMA InitBatch == Init => BatchInv
  BY DEF Init, BatchInv, Ordered, Placed, EveryPositionItsOwn, StoresWhatItReports, Parsed

(* Placed is about a batch between Prepare and Fill.                       *)
LEMMA StillPlaced ==
    ASSUME Placed, UNCHANGED <<query, batch>>,
           pc' \in {"lookup", "asking"} => pc \in {"lookup", "asking"}, pc' = "fill" => pc = "fill"
    PROVE  Placed'
  <1>1. Tokens' = Tokens /\ \A i : AmountAt(i)' = AmountAt(i)
    BY SameQuery
  <1>2. \A i : Fetched(i)' = Fetched(i) /\ (Answered(i)' <=> Answered(i))
    BY <1>1 DEF Fetched, Answered, batch
  <1> QED
    BY <1>1, <1>2 DEF Placed, batch

(* A request that ends without an answer stores nothing.                   *)
LEMMA EndingBatch ==
    ASSUME BatchInv, UNCHANGED <<query, batch>>, Parsed, pc # "done", pc' \in {"failed", "stopping"}
    PROVE  BatchInv'
  <1>1. Placed'
    BY StillPlaced DEF BatchInv
  <1>2. Ordered' /\ EveryPositionItsOwn' /\ StoresWhatItReports'
    BY DEF BatchInv, Ordered, batch, EveryPositionItsOwn, StoresWhatItReports
  <1> QED
    BY <1>1, <1>2 DEF BatchInv

(* A single price or a classification answers nothing of a batch.          *)
LEMMA AnsweredAlone ==
    ASSUME BatchInv, UNCHANGED <<query, batch>>, pc \in {"accepted", "resolved", "again"},
           pc' = "done", query.route # "batch"
    PROVE  BatchInv'
  <1>1. Placed'
    BY StillPlaced DEF BatchInv
  <1>2. results' = <<>> /\ stored' = {}
    BY DEF BatchInv, Ordered, batch
  <1>3. Ordered' /\ EveryPositionItsOwn'
    BY <1>2 DEF BatchInv, Ordered, Parsed, EveryPositionItsOwn
  <1>4. StoresWhatItReports'
    BY <1>2 DEF StoresWhatItReports
  <1> QED
    BY <1>1, <1>3, <1>4 DEF BatchInv

(* A step in which the batch only goes on waiting.                         *)
LEMMA WaitingBatch ==
    ASSUME BatchInv, UNCHANGED <<query, batch>>,
           \/ pc' = pc
           \/ pc \in {"accepted", "resolved"} /\ pc' \in {"resolved", "again"}
           \/ pc = "lookup" /\ pc' = "asking"
    PROVE  BatchInv'
  <1>1. Placed'
    BY StillPlaced DEF BatchInv
  <1>2. Ordered'
    BY DEF BatchInv, Ordered, batch, Parsed
  <1>3. Tokens' = Tokens /\ \A i : AmountAt(i)' = AmountAt(i)
    BY SameQuery
  <1>4. EveryPositionItsOwn'
    BY <1>3 DEF BatchInv, batch, EveryPositionItsOwn
  <1>5. StoresWhatItReports'
    BY <1>3 DEF BatchInv, batch, StoresWhatItReports
  <1> QED
    BY <1>1, <1>2, <1>4, <1>5 DEF BatchInv

(* Calls are in flight only from the lookup on, and not in a request that   *)
(* has been answered; after a failure there may be some.                    *)
CallsFromAsk == InFlight # {} => pc \in {"asking", "stopping", "failed"}

(* Every step keeps the calls where they may be.                            *)
LEMMA NextCalls == CallsFromAsk /\ [Next]_vars => CallsFromAsk'
  <1> SUFFICES ASSUME CallsFromAsk, [Next]_vars PROVE CallsFromAsk'
    OBVIOUS
  <1>1. CASE Parse \/ Resolve \/ Attempt \/ Classify \/ Prepare \/ Refuse \/ Cancelled \/ Fill
    <2>1. InFlight = {} /\ UNCHANGED calls
      BY <1>1 DEF Parse, Resolve, Attempt, Classify, Prepare, Refuse, Cancelled, Fill, CallsFromAsk
    <2> QED
      BY <2>1 DEF InFlight, CallsFromAsk
  <1>2. CASE Ask \/ CancelLookup \/ \E c \in Calls : FailCall(c) \/ StopCall(c)
    BY <1>2 DEF Ask, CancelLookup, FailCall, StopCall, EndWith, CallsFromAsk
  <1>3. ASSUME NEW c \in Calls, EndCall(c) PROVE CallsFromAsk'
    BY <1>3 DEF EndCall, CallsFromAsk
  <1>4. CASE Lookup
    BY <1>4 DEF Lookup, InFlight, CallsFromAsk
  <1>5. CASE UNCHANGED vars
    BY <1>5 DEF vars, InFlight, CallsFromAsk
  <1> QED
    BY <1>1, <1>2, <1>3, <1>4, <1>5 DEF Next

(* Every step preserves the invariant of the batch.                         *)
LEMMA NextBatch == CallsFromAsk /\ BatchInv /\ [Next]_vars => BatchInv'
  <1> SUFFICES ASSUME CallsFromAsk, BatchInv, [Next]_vars PROVE BatchInv'
    OBVIOUS
  <1>1. CASE Parse
    <2>1. Outcome(query) \in {"rejected", "raised", "accepted"}
      BY DEF Outcome
    <2>2. pc = "parse" /\ pc' = Outcome(query) /\ UNCHANGED <<query, batch>>
      BY <1>1 DEF Parse
    <2>3. Placed'
      BY <2>1, <2>2, StillPlaced DEF BatchInv
    <2> QED
      BY <2>1, <2>2, <2>3
      DEF BatchInv, Ordered, Parsed, batch, EveryPositionItsOwn, StoresWhatItReports
  <1>2. CASE Resolve
    <2>1. /\ pc = "accepted" /\ UNCHANGED <<query, batch>>
          /\ pc' \in {"resolved", "failed"}
      BY <1>2 DEF Resolve, EndWith
    <2> QED
      BY <2>1, WaitingBatch, EndingBatch DEF Parsed
  <1>3. CASE Attempt
    <2>1. /\ pc \in {"resolved", "again"} /\ query.route = "price" /\ UNCHANGED <<query, batch>>
          /\ \/ pc' \in {"done", "failed"}
             \/ pc = "resolved" /\ pc' = "again"
      BY <1>3 DEF Attempt, EndWith
    <2> QED
      BY <2>1, WaitingBatch, EndingBatch, AnsweredAlone DEF Parsed
  <1>4. CASE Classify
    <2>1. /\ pc = "accepted" /\ query.route = "bucket" /\ UNCHANGED <<query, batch>>
          /\ pc' \in {"done", "failed"}
      BY <1>4 DEF Classify, EndWith
    <2> QED
      BY <2>1, EndingBatch, AnsweredAlone DEF Parsed
  <1>5. CASE Prepare
    <2>1. /\ pc = "resolved" /\ query.route = "batch" /\ UNCHANGED <<query, stored>>
          /\ pc' = IF fetch' = <<>> THEN "done" ELSE "lookup"
      BY <1>5 DEF Prepare
    <2>2. /\ fetch' \in Seq(DOMAIN Tokens) /\ DOMAIN results' = DOMAIN Tokens
          /\ \A p, q \in DOMAIN fetch' : p < q => fetch'[p] < fetch'[q]
          /\ \A i \in DOMAIN Tokens : Fetched(i)' \/ Answered(i)'
      BY <1>5, Prepared
    <2>3. Tokens' = Tokens /\ \A i : AmountAt(i)' = AmountAt(i)
      BY <2>1, SameQuery
    <2>4. Placed'
      BY <2>1, <2>2, <2>3 DEF Placed
    <2>5. Ordered' /\ stored' = {}
      BY <2>1 DEF BatchInv, Ordered, Parsed
    <2>6. CASE fetch' = <<>>
      <3>1. \A i \in DOMAIN Tokens : Answered(i)'
        BY <1>5, <2>6, Prepared
      <3>2. ASSUME NEW i \in DOMAIN Tokens
            PROVE  /\ results'[i].filled /\ results'[i].cached
                   /\ results'[i].price = <<Tokens[i], AmountAt(i)>>
        <4>1. /\ results'[i] = [price |-> <<Tokens[i], None>>, cached |-> TRUE, filled |-> TRUE]
              /\ AmountAt(i) = None
          BY <2>3, <3>1 DEF Answered
        <4> QED
          BY <4>1
      <3>3. EveryPositionItsOwn'
        BY <2>2, <2>3, <3>2 DEF EveryPositionItsOwn
      <3>4. StoresWhatItReports'
        BY <2>2, <2>5, <3>2 DEF StoresWhatItReports
      <3> QED
        BY <2>4, <2>5, <3>3, <3>4 DEF BatchInv
    <2>7. CASE fetch' # <<>>
      BY <2>1, <2>4, <2>5, <2>7 DEF BatchInv, EveryPositionItsOwn, StoresWhatItReports
    <2> QED
      BY <2>6, <2>7
  <1>6. CASE Refuse
    BY <1>6, EndingBatch DEF Refuse, EndWith, Parsed
  <1>7. CASE Ask
    <2>1. pc = "lookup" /\ pc' = "asking" /\ UNCHANGED <<query, batch>>
      BY <1>7 DEF Ask
    <2> QED
      BY <2>1, WaitingBatch
  <1>8. ASSUME NEW c \in Calls, EndCall(c) PROVE BatchInv'
    <2>1. /\ c \in InFlight /\ UNCHANGED <<query, batch>>
          /\ pc' = pc \/ (pc = "stopping" /\ pc' = "failed")
      BY <1>8 DEF EndCall
    <2> QED
      BY <2>1, WaitingBatch, EndingBatch DEF Parsed
  <1>9. ASSUME NEW c \in Calls, FailCall(c) PROVE BatchInv'
    <2>1. c \in InFlight /\ pc' = "failed" /\ UNCHANGED <<query, batch>>
      BY <1>9 DEF FailCall, EndWith
    <2>2. Parsed /\ pc # "done"
      BY <2>1 DEF CallsFromAsk, Parsed
    <2> QED
      BY <2>1, <2>2, EndingBatch
  <1>10. CASE CancelLookup
    BY <1>10, EndingBatch DEF CancelLookup, Parsed
  <1>11. ASSUME NEW c \in Calls, StopCall(c) PROVE BatchInv'
    <2>1. c \in InFlight /\ pc' = "failed" /\ UNCHANGED <<query, batch>>
      BY <1>11 DEF StopCall, InFlight
    <2>2. pc \in {"asking", "stopping", "failed"}
      BY <2>1 DEF CallsFromAsk
    <2> QED
      BY <2>1, <2>2, EndingBatch DEF Parsed
  <1>12. CASE Lookup
    <2>1. pc = "asking" /\ pc' = "fill" /\ UNCHANGED <<query, fetch, results, stored>>
      BY <1>12 DEF Lookup
    <2>2. /\ DOMAIN prices' = DOMAIN fetch
          /\ \A j \in DOMAIN fetch :
                prices'[j] \in {NoPrice, <<Tokens[fetch[j]], AmountAt(fetch[j])>>}
      BY <1>12, LookedUp
    <2>3. Tokens' = Tokens /\ \A i : AmountAt(i)' = AmountAt(i)
      BY <2>1, SameQuery
    <2>4. \A i : Fetched(i)' = Fetched(i) /\ (Answered(i)' <=> Answered(i))
      BY <2>1, <2>3 DEF Fetched, Answered
    <2>5. Placed'
      BY <2>1, <2>2, <2>3, <2>4 DEF BatchInv, Placed
    <2>6. Ordered' /\ EveryPositionItsOwn' /\ StoresWhatItReports'
      BY <2>1 DEF BatchInv, Ordered, Parsed, EveryPositionItsOwn, StoresWhatItReports
    <2> QED
      BY <2>5, <2>6 DEF BatchInv
  <1>13. CASE Cancelled
    BY <1>13, EndingBatch DEF Cancelled, Parsed
  <1>14. CASE Fill
    <2>1. pc' = "done" /\ UNCHANGED <<query, fetch, prices>> /\ pc = "fill"
      BY <1>14 DEF Fill
    <2>2. Ordered' /\ Placed'
      BY <2>1 DEF BatchInv, Ordered, Placed, Parsed
    <2> QED
      BY <1>14, <2>2, Filled DEF BatchInv
  <1>15. CASE UNCHANGED vars
    BY <1>15, WaitingBatch DEF vars
  <1> QED
    BY <1>1, <1>2, <1>3, <1>4, <1>5, <1>6, <1>7, <1>8, <1>9, <1>10, <1>11, <1>12, <1>13,
       <1>14, <1>15 DEF Next

(* BatchInv is an invariant of the specification.                           *)
THEOREM BatchInvariance == Spec => []BatchInv
  <1>1. Init => CallsFromAsk
    BY DEF Init, InFlight, CallsFromAsk
  <1> QED
    BY <1>1, InitBatch, NextCalls, NextBatch, PTL DEF Spec

(* The handlers see parameters within their ranges, and a batch's positions *)
(* counted upwards with a price for each.                                  *)
THEOREM TypeCorrect == Spec => []TypeOK
  <1>1. BatchInv => TypeOK
    BY ParametersInRange DEF BatchInv, Ordered, Placed, TypeOK
  <1> QED
    BY <1>1, BatchInvariance, PTL

(* The amounts of an accepted batch are "positionally matched to tokens".   *)
THEOREM AmountsMatched == Spec => []AmountsKeepPlace
  <1>1. BatchInv => AmountsKeepPlace
    BY AmountsBesideTokens DEF BatchInv, Ordered, AmountsKeepPlace
  <1> QED
    BY <1>1, BatchInvariance, PTL

(* A finished batch answers every position with a price that is its own.    *)
THEOREM PositionsKept == Spec => []EveryPositionItsOwn
  <1>1. BatchInv => EveryPositionItsOwn
    BY DEF BatchInv
  <1> QED
    BY <1>1, BatchInvariance, PTL

(* The cache gets exactly the prices the response reports as fetched and    *)
(* that are not for an amount.                                             *)
THEOREM StoredAsReported == Spec => []StoresWhatItReports
  <1>1. BatchInv => StoresWhatItReports
    BY DEF BatchInv
  <1> QED
    BY <1>1, BatchInvariance, PTL
=============================================================================
