------------------------- MODULE AiReceiver_proofs -------------------------
(***************************************************************************)
(* Proofs about AiReceiver: two desktops that know of each other's         *)
(* declaration do not both raise alerts, and no alert is raised again.     *)
(***************************************************************************)
EXTENDS AiReceiver, FiniteSetTheorems, SequenceTheorems, WellFoundedInduction, TLAPS

-----------------------------------------------------------------------------
(* Numbers, and what is defined step by step *)

(* Some number is the least.                                               *)
LEMMA LeastNumber ==
  ASSUME NEW T \in SUBSET Nat, T # {}
  PROVE  \E x \in T : \A y \in T : x <= y
<1> DEFINE R == OpToRel(<, Nat)
<1>1. \A x \in Nat, y \in Nat : <<x, y>> \in R <=> x < y
  BY DEF OpToRel
<1>2. IsWellFoundedOn(R, Nat)
  BY NatLessThanWellFounded
<1> HIDE DEF R
<1>3. PICK x \in T : \A y \in T : ~ (<<y, x>> \in R)
  BY <1>2, WFMin
<1>4. ASSUME NEW y \in T PROVE x <= y
  <2>1. x \in Nat /\ y \in Nat /\ ~ (y < x)
    BY <1>1, <1>3
  <2>2. QED
    BY <2>1
<1>5. QED
  BY <1>4

(* A set of numbers that holds 0, and with every number the next, is all.  *)
LEMMA UpTo ==
  ASSUME NEW n \in Nat, NEW P \in SUBSET (0 .. n), 0 \in P,
         \A i \in 1 .. n : i - 1 \in P => i \in P
  PROVE  \A i \in 0 .. n : i \in P
<1> DEFINE T == (0 .. n) \ P
<1> SUFFICES ASSUME T # {} PROVE FALSE
  OBVIOUS
<1>1. PICK x \in T : \A y \in T : x <= y
  <2>1. T \in SUBSET Nat
    OBVIOUS
  <2> HIDE DEF T
  <2>2. QED
    BY <2>1, LeastNumber
<1>2. x \in 1 .. n /\ x - 1 \in 0 .. n /\ ~ (x <= x - 1)
  OBVIOUS
<1>3. x - 1 \in P
  BY <1>1, <1>2
<1>4. QED
  BY <1>2, <1>3

(* A computation of n steps, each of which keeps to T, from a.             *)
IsCourse(f, n, T, a, step) ==
  f \in [0 .. n -> T] /\ f[0] = a /\ \A i \in 1 .. n : f[i] = step[<<i, f[i - 1]>>]

(* There is one.                                                           *)
LEMMA CourseExists ==
  ASSUME NEW n \in Nat, NEW T, NEW a \in T, NEW step \in [(1 .. n) \X T -> T]
  PROVE  \E f : IsCourse(f, n, T, a, step)
<1> DEFINE Course(f, k) == IsCourse(f, k, T, a, step)
           P == {k \in 0 .. n : \E f : Course(f, k)}
<1>1. 0 \in P
  <2>1. Course([i \in 0 .. 0 |-> a], 0)
    BY DEF IsCourse
  <2>2. 0 \in 0 .. n
    OBVIOUS
  <2> HIDE DEF Course
  <2>3. QED
    BY <2>1, <2>2
<1>2. ASSUME NEW k \in 1 .. n, k - 1 \in P PROVE k \in P
  <2>1. PICK f : Course(f, k - 1)
    BY <1>2
  <2> DEFINE h == [i \in 0 .. k |-> IF i = k THEN step[<<k, f[k - 1]>>] ELSE f[i]]
  <2>2. k \in Nat /\ k - 1 \in 0 .. k - 1 /\ 0 \in 0 .. k - 1 /\ 0 # k
    OBVIOUS
  <2>3. \A i \in 0 .. k : i # k => i \in 0 .. k - 1
    BY <2>2
  <2>4. f[k - 1] \in T /\ step[<<k, f[k - 1]>>] \in T
    BY <2>1, <2>2 DEF IsCourse
  <2>5. h \in [0 .. k -> T]
    BY <2>1, <2>3, <2>4 DEF IsCourse
  <2>6. h[0] = a
    BY <2>1, <2>2 DEF IsCourse
  <2>7. ASSUME NEW i \in 1 .. k PROVE h[i] = step[<<i, h[i - 1]>>]
    <3>1. i - 1 \in 0 .. k /\ i - 1 # k /\ i \in 0 .. k
      OBVIOUS
    <3>2. h[i - 1] = f[i - 1]
      BY <3>1
    <3>3. CASE i = k
      BY <3>1, <3>2, <3>3
    <3>4. CASE i # k
      <4>1. i \in 1 .. k - 1
        BY <3>4
      <4>2. QED
        BY <2>1, <3>1, <3>2, <3>4, <4>1 DEF IsCourse
    <3>5. QED
      BY <3>3, <3>4
  <2>8. Course(h, k)
    BY <2>5, <2>6, <2>7 DEF IsCourse
  <2> HIDE DEF Course
  <2>9. k \in 0 .. n
    OBVIOUS
  <2>10. QED
    BY <2>8, <2>9
<1> HIDE DEF P
<1>3. P \in SUBSET (0 .. n)
  BY DEF P
<1>4. n \in P
  BY <1>1, <1>2, <1>3, UpTo
<1>5. QED
  BY <1>4 DEF P

-----------------------------------------------------------------------------
(* Sequences *)

Distinct(s) == \A i, j \in 1 .. Len(s) : s[i] = s[j] => i = j

Among(e, s) == \E i \in 1 .. Len(s) : s[i] = e

(* What is among the elements of a sequence is in its range.               *)
LEMMA RangeAmong ==
  ASSUME NEW T, NEW s \in Seq(T)
  PROVE  /\ Range(s) = {s[i] : i \in 1 .. Len(s)} /\ Range(s) \subseteq T
         /\ \A e : e \in Range(s) <=> Among(e, s)
<1>1. DOMAIN s = 1 .. Len(s) /\ \A i \in 1 .. Len(s) : s[i] \in T
  BY LenProperties, ElementOfSeq
<1>2. QED
  BY <1>1 DEF Range, Among

(* An element is appended.                                                 *)
LEMMA AppendLast ==
  ASSUME NEW T, NEW s \in Seq(T), NEW e \in T
  PROVE  /\ Append(s, e) \in Seq(T) /\ Append(s, e) # <<>>
         /\ Range(Append(s, e)) = Range(s) \cup {e}
         /\ Distinct(s) /\ e \notin Range(s) => Distinct(Append(s, e))
<1>1. /\ Append(s, e) \in Seq(T) /\ Len(Append(s, e)) = Len(s) + 1 /\ Len(s) \in Nat
      /\ \A i \in 1 .. Len(s) : Append(s, e)[i] = s[i]
      /\ Append(s, e)[Len(s) + 1] = e
  BY AppendProperties, LenProperties
<1>2. 1 .. Len(s) + 1 = (1 .. Len(s)) \cup {Len(s) + 1}
  BY <1>1
<1>3. Range(Append(s, e)) = Range(s) \cup {e}
  <2>1. Range(Append(s, e)) = {Append(s, e)[i] : i \in 1 .. Len(s) + 1}
    BY <1>1, RangeAmong
  <2>2. Range(s) = {s[i] : i \in 1 .. Len(s)}
    BY RangeAmong
  <2>3. QED
    BY <1>1, <1>2, <2>1, <2>2
<1>4. ASSUME Distinct(s), e \notin Range(s) PROVE Distinct(Append(s, e))
  <2>1. \A i \in 1 .. Len(s) : s[i] # e
    BY <1>4, RangeAmong
  <2>2. QED
    BY <1>1, <1>2, <1>4, <2>1 DEF Distinct
<1>5. QED
  BY <1>1, <1>3, <1>4, EmptySeq

(* Without leaves the other elements, and leaves them distinct.            *)
LEMMA WithoutLeaves ==
  ASSUME NEW T, NEW s \in Seq(T), NEW S
  PROVE  /\ Without(s, S) \in Seq(T)
         /\ Range(Without(s, S)) = Range(s) \ S
         /\ Distinct(s) => Distinct(Without(s, S))
<1> DEFINE n == Len(s)
           Q == Seq(T)
           Goes(i, left) == IF s[i] \in S THEN left ELSE Append(left, s[i])
           step == [x \in (1 .. n) \X Q |-> Goes(x[1], x[2])]
<1>1. n \in Nat /\ \A i \in 1 .. n : s[i] \in T
  BY LenProperties, ElementOfSeq
<1>2. \A i \in 1 .. n, q \in Q : Goes(i, q) \in Q
  BY <1>1, AppendProperties
<1>3. <<>> \in Q
  BY EmptySeq
<1> HIDE DEF n, Q, Goes
<1>4. step \in [(1 .. n) \X Q -> Q] /\ \A i \in 1 .. n, q \in Q : step[<<i, q>>] = Goes(i, q)
  BY <1>2
<1> HIDE DEF step
<1>5. PICK f : IsCourse(f, n, Q, <<>>, step)
  <2>1. n \in Nat
    BY <1>1
  <2>2. step \in [(1 .. n) \X Q -> Q]
    BY <1>4
  <2>3. QED
    BY <1>3, <2>1, <2>2, CourseExists
<1>6. \A i \in 1 .. n : i - 1 \in 0 .. n /\ f[i - 1] \in Q /\ f[i] = Goes(i, f[i - 1])
  <2>1. \A i \in 1 .. n : i - 1 \in 0 .. n
    BY <1>1
  <2>2. QED
    BY <1>4, <1>5, <2>1 DEF IsCourse
<1>7. f = [i \in 0 .. Len(s) |->
             IF i = 0 THEN <<>> ELSE IF s[i] \in S THEN f[i - 1] ELSE Append(f[i - 1], s[i])]
  <2>1. \A i \in 0 .. n : i # 0 => i \in 1 .. n
    BY <1>1
  <2>2. \A i \in 0 .. n : f[i] = IF i = 0 THEN <<>> ELSE Goes(i, f[i - 1])
    BY <1>5, <1>6, <2>1 DEF IsCourse
  <2>3. QED
    BY <1>5, <2>2 DEF Goes, n, IsCourse
<1>8. PICK g : /\ Without(s, S) = g[n]
               /\ g = [i \in 0 .. Len(s) |->
                        IF i = 0 THEN <<>>
                        ELSE IF s[i] \in S THEN g[i - 1] ELSE Append(g[i - 1], s[i])]
  BY <1>7 DEF Without, n
<1>9. g[0] = <<>> /\ \A i \in 1 .. n : g[i] = Goes(i, g[i - 1])
  <2>1. 0 \in 0 .. n /\ \A i \in 1 .. n : i \in 0 .. n /\ i # 0
    BY <1>1
  <2>2. QED
    BY <1>8, <2>1 DEF Goes, n
<1> DEFINE Left(i) == /\ g[i] \in Q
                      /\ Range(g[i]) = {s[j] : j \in 1 .. i} \ S
                      /\ Distinct(s) => Distinct(g[i])
           P == {i \in 0 .. n : Left(i)}
<1>10. Left(0)
  <2>1. <<>> \in Seq(T) /\ Len(<<>>) = 0
    BY EmptySeq
  <2>2. Range(<<>>) = {} /\ Distinct(<<>>)
    <3>1. Range(<<>>) = {<<>>[i] : i \in 1 .. 0}
      BY <2>1, RangeAmong
    <3>2. QED
      BY <2>1, <3>1 DEF Distinct
  <2>3. QED
    BY <1>9, <2>1, <2>2 DEF Q
<1>11. ASSUME NEW i \in 1 .. n, Left(i - 1) PROVE Left(i)
  <2>1. i - 1 \in Nat /\ {s[j] : j \in 1 .. i} = {s[j] : j \in 1 .. i - 1} \cup {s[i]}
    <3>1. 1 .. i = (1 .. i - 1) \cup {i} /\ i - 1 \in Nat
      BY <1>1
    <3>2. QED
      BY <3>1
  <2>2. CASE s[i] \in S
    BY <1>9, <1>11, <2>1, <2>2 DEF Goes
  <2>3. CASE s[i] \notin S
    <3>1. g[i] = Append(g[i - 1], s[i]) /\ s[i] \in T /\ g[i - 1] \in Seq(T)
      BY <1>1, <1>9, <1>11, <2>3 DEF Goes, Q
    <3>2. /\ g[i] \in Seq(T) /\ Range(g[i]) = Range(g[i - 1]) \cup {s[i]}
          /\ Distinct(g[i - 1]) /\ s[i] \notin Range(g[i - 1]) => Distinct(g[i])
      BY <3>1, AppendLast
    <3>3. ASSUME Distinct(s), s[i] \in Range(g[i - 1]) PROVE FALSE
      <4>1. PICK j \in 1 .. i - 1 : s[i] = s[j]
        BY <1>11, <3>3
      <4>2. i \in 1 .. Len(s) /\ j \in 1 .. Len(s) /\ i # j
        BY <1>1 DEF n
      <4>3. QED
        BY <3>3, <4>1, <4>2 DEF Distinct
    <3>4. QED
      BY <1>11, <2>1, <2>3, <3>2, <3>3 DEF Q
  <2>4. QED
    BY <2>2, <2>3
<1> HIDE DEF Left
<1>12. Left(n)
  <2>1. n \in Nat /\ P \in SUBSET (0 .. n) /\ 0 \in P
    BY <1>1, <1>10
  <2>2. \A i \in 1 .. n : i - 1 \in P => i \in P
    BY <1>1, <1>11
  <2> HIDE DEF P
  <2>3. \A i \in 0 .. n : i \in P
    BY <2>1, <2>2, UpTo
  <2>4. QED
    BY <2>1, <2>3 DEF P
<1>13. QED
  BY <1>8, <1>12, RangeAmong DEF Left, Q, n

(* The greatest of some numbers up to n is one of them.                    *)
LEMMA MaxIsAmong ==
  ASSUME NEW n \in Nat, NEW S \in SUBSET (1 .. n), S # {}
  PROVE  Max(S) \in S
<1> DEFINE T == {n - x : x \in S}
<1>1. T \in SUBSET Nat /\ T # {}
  <2>1. \A x \in S : n - x \in Nat
    OBVIOUS
  <2>2. PICK x \in S : TRUE
    OBVIOUS
  <2>3. n - x \in T
    OBVIOUS
  <2>4. QED
    BY <2>1, <2>3
<1>2. PICK t \in T : \A u \in T : t <= u
  <2> HIDE DEF T
  <2>1. QED
    BY <1>1, LeastNumber
<1>3. PICK x \in S : t = n - x
  BY <1>2
<1>4. \A y \in S : x >= y
  <2>1. \A y \in S : n - x <= n - y
    BY <1>2, <1>3
  <2>2. QED
    BY <2>1
<1>5. QED
  BY <1>4 DEF Max

(* A sequence in reverse, and its end, have its elements, as distinct.     *)
LEMMA ReverseKeeps ==
  ASSUME NEW T, NEW s \in Seq(T)
  PROVE  /\ Reverse(s) \in Seq(T) /\ Range(Reverse(s)) = Range(s)
         /\ Distinct(s) => Distinct(Reverse(s))
<1> DEFINE n == Len(s)
           r == Reverse(s)
<1>1. n \in Nat /\ \A i \in 1 .. n : n - i + 1 \in 1 .. n /\ n - (n - i + 1) + 1 = i
  BY LenProperties
<1>2. \A i \in 1 .. n : s[i] \in T
  BY ElementOfSeq
<1>3. r \in [1 .. n -> T] /\ \A i \in 1 .. n : r[i] = s[n - i + 1]
  BY <1>1, <1>2 DEF Reverse
<1>4. r \in Seq(T) /\ Len(r) = n
  BY <1>1, <1>3, SeqDef, LenProperties
<1>5. Range(r) = Range(s)
  <2>1. Range(r) = {r[i] : i \in 1 .. n} /\ Range(s) = {s[i] : i \in 1 .. n}
    BY <1>4, RangeAmong
  <2>2. \A i \in 1 .. n : r[n - i + 1] = s[i]
    BY <1>1, <1>3
  <2> HIDE DEF r, n
  <2>3. QED
    BY <1>1, <1>3, <2>1, <2>2
<1>6. ASSUME Distinct(s) PROVE Distinct(r)
  <2> SUFFICES ASSUME NEW i \in 1 .. n, NEW j \in 1 .. n, r[i] = r[j] PROVE i = j
    BY <1>4 DEF Distinct
  <2>1. s[n - i + 1] = s[n - j + 1]
    BY <1>3
  <2>2. n - i + 1 = n - j + 1
    BY <1>1, <1>6, <2>1 DEF Distinct
  <2>3. QED
    BY <1>1, <2>2
<1>7. QED
  BY <1>4, <1>5, <1>6

(* The end of a sequence has elements of it only.                          *)
LEMMA EndKeeps ==
  ASSUME NEW T, NEW s \in Seq(T), NEW m \in 1 .. Len(s) + 1
  PROVE  /\ SubSeq(s, m, Len(s)) \in Seq(T)
         /\ Range(SubSeq(s, m, Len(s))) \subseteq Range(s)
         /\ Distinct(s) => Distinct(SubSeq(s, m, Len(s)))
<1> DEFINE n == Len(s)
           e == SubSeq(s, m, n)
<1>1. n \in Nat /\ \A i \in m .. n : s[i] \in T
  BY LenProperties, ElementOfSeq
<1>2. /\ e \in Seq(T) /\ Len(e) = IF m <= n THEN n - m + 1 ELSE 0
      /\ \A i \in 1 .. n - m + 1 : e[i] = s[m + i - 1]
  BY <1>1, SubSeqProperties
<1>3. \A i \in 1 .. Len(e) : i \in 1 .. n - m + 1 /\ m + i - 1 \in 1 .. n
  BY <1>1, <1>2
<1>4. Range(e) \subseteq Range(s)
  <2>1. Range(e) = {e[i] : i \in 1 .. Len(e)} /\ Range(s) = {s[i] : i \in 1 .. n}
    BY <1>2, RangeAmong
  <2>2. \A i \in 1 .. Len(e) : e[i] = s[m + i - 1]
    BY <1>2, <1>3
  <2> HIDE DEF e, n
  <2>3. QED
    BY <1>3, <2>1, <2>2
<1>5. ASSUME Distinct(s) PROVE Distinct(e)
  <2> SUFFICES ASSUME NEW i \in 1 .. Len(e), NEW j \in 1 .. Len(e), e[i] = e[j] PROVE i = j
    BY DEF Distinct
  <2>1. s[m + i - 1] = s[m + j - 1]
    BY <1>2, <1>3
  <2>2. m + i - 1 = m + j - 1
    BY <1>3, <1>5, <2>1 DEF Distinct
  <2>3. QED
    BY <1>1, <1>2, <2>2
<1>6. QED
  BY <1>2, <1>4, <1>5

(* Distinct elements are no more than there are.                           *)
LEMMA DistinctFit ==
  ASSUME NEW T, IsFiniteSet(T), NEW s \in Seq(T), Distinct(s)
  PROVE  Len(s) <= Cardinality(T)
<1>1. Len(s) \in Nat /\ s \in [1 .. Len(s) -> T]
  BY LenProperties
<1>2. s \in Injection(1 .. Len(s), T)
  BY <1>1 DEF Injection, IsInjective, Distinct
<1>3. Cardinality(1 .. Len(s)) <= Cardinality(T)
  BY <1>2, FS_Injection
<1>4. Cardinality(1 .. Len(s)) = Len(s)
  <2>1. 1 \in Int /\ Len(s) \in Int
    BY <1>1
  <2>2. Cardinality(1 .. Len(s)) = IF 1 > Len(s) THEN 0 ELSE Len(s) - 1 + 1
    BY <2>1, FS_Interval
  <2>3. QED
    BY <1>1, <2>2
<1>5. QED
  BY <1>3, <1>4

(* Two sequences of distinct elements that share none, one after the other.*)
LEMMA ConcatKeeps ==
  ASSUME NEW T, NEW s \in Seq(T), NEW t \in Seq(T), Distinct(s), Distinct(t),
         Range(s) \cap Range(t) = {}
  PROVE  Distinct(s \o t)
<1>1. /\ Len(s) \in Nat /\ Len(t) \in Nat /\ Len(s \o t) = Len(s) + Len(t)
      /\ \A i \in 1 .. Len(s) + Len(t) :
           (s \o t)[i] = IF i <= Len(s) THEN s[i] ELSE t[i - Len(s)]
  BY ConcatProperties, LenProperties
<1>2. \A i \in 1 .. Len(s), j \in 1 .. Len(t) : s[i] # t[j]
  <2>1. Range(s) = {s[i] : i \in 1 .. Len(s)} /\ Range(t) = {t[i] : i \in 1 .. Len(t)}
    BY RangeAmong
  <2>2. QED
    BY <2>1
<1> SUFFICES ASSUME NEW i \in 1 .. Len(s \o t), NEW j \in 1 .. Len(s \o t), i < j,
                    (s \o t)[i] = (s \o t)[j]
             PROVE  FALSE
  BY <1>1 DEF Distinct
<1>3. CASE j <= Len(s)
  BY <1>1, <1>3 DEF Distinct
<1>4. CASE i <= Len(s) /\ ~ (j <= Len(s))
  <2>1. j - Len(s) \in 1 .. Len(t) /\ i \in 1 .. Len(s)
    BY <1>1, <1>4
  <2>2. QED
    BY <1>1, <1>2, <1>4, <2>1
<1>5. CASE ~ (i <= Len(s))
  <2>1. /\ i - Len(s) \in 1 .. Len(t) /\ j - Len(s) \in 1 .. Len(t)
        /\ i - Len(s) # j - Len(s) /\ ~ (j <= Len(s))
    BY <1>1, <1>5
  <2>2. QED
    BY <1>1, <1>5, <2>1 DEF Distinct
<1>6. QED
  BY <1>1, <1>3, <1>4, <1>5

-----------------------------------------------------------------------------
(* Types *)

Declaration ==
  [device : Desktop, counter : Nat, operation : Nat, on : BOOLEAN, group : Group]

Selection == {S \in SUBSET Declaration : \A s, t \in S : s = t}

Alert == [key : Desktop, event : Event]

FeedId == Desktop \X Event

Events == {s \in Seq(Event) : Distinct(s)}

Monitor ==
  [enabled : BOOLEAN, selection : Selection, configured : BOOLEAN, group : Group \cup {NoGroup},
   sources : SUBSET Desktop, pending : SUBSET Desktop, seen : Seq(FeedId),
   alerts : Seq(Alert), sync : [Desktop -> BOOLEAN], dirty : BOOLEAN]

(* A feed that was read, or none.                                          *)
Batch == {F \in SUBSET Events : \A s, t \in F : s = t}

Reply == [from : Desktop, feed : Batch, said : BOOLEAN, selection : Selection]

Poll ==
  [phase : {"rest", "drain", "prune", "remove", "peers"}, files : Seq(Event),
   local : Batch, todo : SUBSET Desktop, got : Seq(Reply)]

(* What a desktop has seen is never forgotten: there is room for all ids.  *)
Room == IsFiniteSet(FeedId) /\ Cardinality(FeedId) <= SeenMax

ReceiverTypeOK ==
  /\ monitor \in [Desktop -> Monitor] /\ stored \in [Desktop -> Monitor]
  /\ token \in [Desktop -> Group \cup {NoGroup}]
  /\ poll \in [Desktop -> Poll]
  /\ \A d \in Desktop : poll[d].phase \in {"prune", "remove"} => poll[d].files # <<>>
  /\ spool \in [Desktop -> Seq(Event)] /\ table \in [Desktop -> Events]
  /\ heard \in [Desktop -> [Desktop -> SUBSET Declaration]]
  /\ silent \in [Desktop -> SUBSET FeedId]
  /\ trouble \in [faults : Nat, restarts : Nat]

-----------------------------------------------------------------------------
(* What a feed does to the alerts and the ids seen *)

(* An alert of an event tells of it in the feed of its desktop.            *)
Pair(a) == <<a.key, a.event>>

(* One session: at most its event is new among the alerts.                 *)
LEMMA ToldKeeps ==
  ASSUME NEW alerts \in Seq(Alert), NEW k \in Desktop, NEW e \in Event, NEW tell \in BOOLEAN
  PROVE  /\ Told(alerts, k, e, tell) \in Seq(Alert)
         /\ \A a \in Range(Told(alerts, k, e, tell)) :
              a \in Range(alerts) \/ (tell /\ a = [key |-> k, event |-> e])
         /\ Distinct(alerts) => Distinct(Told(alerts, k, e, tell))
<1> DEFINE S == {a \in Range(alerts) : a.key = k /\ Session[a.event] = Session[e]}
           rest == Without(alerts, S)
           a1 == [key |-> k, event |-> e]
<1>1. /\ rest \in Seq(Alert) /\ Range(rest) = Range(alerts) \ S
      /\ Distinct(alerts) => Distinct(rest)
  BY WithoutLeaves
<1>2. WithoutSession(alerts, k, Session[e]) = rest
  BY DEF WithoutSession
<1>3. a1 \in Alert /\ a1 \notin Range(rest)
  BY <1>1 DEF Alert
<1> HIDE DEF rest, a1
<1>4. /\ Append(rest, a1) \in Seq(Alert) /\ Range(Append(rest, a1)) = Range(rest) \cup {a1}
      /\ Distinct(rest) => Distinct(Append(rest, a1))
  BY <1>1, <1>3, AppendLast
<1>5. \/ Told(alerts, k, e, tell) = rest
      \/ Told(alerts, k, e, tell) = alerts
      \/ tell /\ Told(alerts, k, e, tell) = Append(rest, a1)
  BY <1>2 DEF Told, a1
<1>6. QED
  BY <1>1, <1>4, <1>5 DEF a1

(* All sessions of a feed: what is new is of the feed, and to be told.     *)
LEMMA ToldAllKeeps ==
  ASSUME NEW alerts \in Seq(Alert), NEW k \in Desktop, NEW s \in Seq(Event), NEW tell
  PROVE  /\ ToldAll(alerts, k, s, tell) \in Seq(Alert)
         /\ \A a \in Range(ToldAll(alerts, k, s, tell)) :
              a \in Range(alerts) \/ (a.key = k /\ a.event \in tell)
         /\ Distinct(alerts) => Distinct(ToldAll(alerts, k, s, tell))
<1> DEFINE Q == Seq(Alert)
           E(i) == s[Max(OfSession(s, i))]
           Goes(i, q) == IF OfSession(s, i) = {} THEN q ELSE Told(q, k, E(i), E(i) \in tell)
           step == [x \in (1 .. Sessions) \X Q |-> Goes(x[1], x[2])]
<1>1. Sessions \in Nat
  BY ReceiverAssumption
<1>2. \A i \in 1 .. Sessions : OfSession(s, i) # {} => E(i) \in Event
  <2> SUFFICES ASSUME NEW i \in 1 .. Sessions, OfSession(s, i) # {} PROVE E(i) \in Event
    OBVIOUS
  <2>1. Len(s) \in Nat /\ OfSession(s, i) \in SUBSET (1 .. Len(s))
    BY LenProperties DEF OfSession
  <2>2. Max(OfSession(s, i)) \in 1 .. Len(s)
    BY <2>1, MaxIsAmong
  <2>3. QED
    BY <2>2, ElementOfSeq
<1>3. ASSUME NEW i \in 1 .. Sessions, NEW q \in Q
      PROVE  /\ Goes(i, q) \in Q
             /\ \A a \in Range(Goes(i, q)) : a \in Range(q) \/ (a.key = k /\ a.event \in tell)
             /\ Distinct(q) => Distinct(Goes(i, q))
  <2>1. CASE OfSession(s, i) = {}
    BY <2>1
  <2>2. CASE OfSession(s, i) # {}
    <3> DEFINE e == E(i)
    <3>1. e \in Event
      BY <1>2, <2>2
    <3>2. PICK b \in BOOLEAN : b <=> (e \in tell)
      OBVIOUS
    <3>3. Goes(i, q) = Told(q, k, e, b)
      <4>1. Told(q, k, e, e \in tell) = Told(q, k, e, b)
        BY <3>2 DEF Told
      <4>2. QED
        BY <2>2, <4>1
    <3> HIDE DEF e, Goes
    <3>4. /\ Told(q, k, e, b) \in Q
          /\ \A a \in Range(Told(q, k, e, b)) :
               a \in Range(q) \/ (b /\ a = [key |-> k, event |-> e])
          /\ Distinct(q) => Distinct(Told(q, k, e, b))
      BY <3>1, ToldKeeps
    <3>5. QED
      BY <3>2, <3>3, <3>4
  <2>3. QED
    BY <2>1, <2>2
<1> HIDE DEF Q, Goes
<1>4. step \in [(1 .. Sessions) \X Q -> Q]
      /\ \A i \in 1 .. Sessions, q \in Q : step[<<i, q>>] = Goes(i, q)
  BY <1>3
<1>5. alerts \in Q
  BY DEF Q
<1> HIDE DEF step
<1>6. PICK f : IsCourse(f, Sessions, Q, alerts, step)
  <2>1. step \in [(1 .. Sessions) \X Q -> Q]
    BY <1>4
  <2>2. QED
    BY <1>1, <1>5, <2>1, CourseExists
<1>7. f = [i \in 0 .. Sessions |->
             IF i = 0 THEN alerts
             ELSE IF OfSession(s, i) = {} THEN f[i - 1]
             ELSE LET e == s[Max(OfSession(s, i))] IN Told(f[i - 1], k, e, e \in tell)]
  <2>1. \A i \in 0 .. Sessions : i # 0 => i \in 1 .. Sessions /\ i - 1 \in 0 .. Sessions
    BY <1>1
  <2>2. \A i \in 0 .. Sessions : f[i] = IF i = 0 THEN alerts ELSE Goes(i, f[i - 1])
    BY <1>4, <1>6, <2>1 DEF IsCourse
  <2>3. f = [i \in 0 .. Sessions |-> IF i = 0 THEN alerts ELSE Goes(i, f[i - 1])]
    BY <1>6, <2>2 DEF IsCourse
  <2>4. QED
    BY <2>3 DEF Goes
<1>8. PICK g : /\ ToldAll(alerts, k, s, tell) = g[Sessions]
               /\ g = [i \in 0 .. Sessions |->
                        IF i = 0 THEN alerts
                        ELSE IF OfSession(s, i) = {} THEN g[i - 1]
                        ELSE LET e == s[Max(OfSession(s, i))]
                             IN Told(g[i - 1], k, e, e \in tell)]
  BY <1>7 DEF ToldAll
<1>9. g[0] = alerts /\ \A i \in 1 .. Sessions : g[i] = Goes(i, g[i - 1])
  <2>1. 0 \in 0 .. Sessions /\ \A i \in 1 .. Sessions : i \in 0 .. Sessions /\ i # 0
    BY <1>1
  <2>2. QED
    BY <1>8, <2>1 DEF Goes
<1> DEFINE Keeps(i) ==
             /\ g[i] \in Q
             /\ \A a \in Range(g[i]) : a \in Range(alerts) \/ (a.key = k /\ a.event \in tell)
             /\ Distinct(alerts) => Distinct(g[i])
           P == {i \in 0 .. Sessions : Keeps(i)}
<1>10. Sessions \in P
  <2>1. P \in SUBSET (0 .. Sessions) /\ 0 \in P
    BY <1>1, <1>5, <1>9
  <2>2. \A i \in 1 .. Sessions : i - 1 \in P => i \in P
    BY <1>1, <1>3, <1>9
  <2> HIDE DEF P
  <2>3. \A i \in 0 .. Sessions : i \in P
    BY <1>1, <2>1, <2>2, UpTo
  <2>4. QED
    BY <1>1, <2>3
<1>11. QED
  BY <1>8, <1>10 DEF Q

(* The ids of a feed are seen, besides those that were, while there is     *)
(* room.                                                                   *)
LEMMA RememberedKeeps ==
  ASSUME NEW seen \in Seq(FeedId), NEW k \in Desktop, NEW s \in Events
  PROVE  /\ Remembered(seen, k, s) \in Seq(FeedId)
         /\ Room /\ Distinct(seen) =>
              /\ Distinct(Remembered(seen, k, s))
              /\ Range(Remembered(seen, k, s)) = Range(seen) \cup {<<k, e>> : e \in Range(s)}
<1> DEFINE S == {e \in Range(s) : <<k, e>> \in Range(seen)}
           new == Without(Reverse(s), S)
           ids == [i \in 1 .. Len(new) |-> <<k, new[i]>>]
           all == seen \o ids
<1>1. s \in Seq(Event) /\ Distinct(s)
  BY DEF Events
<1>2. /\ Reverse(s) \in Seq(Event) /\ Range(Reverse(s)) = Range(s) /\ Distinct(Reverse(s))
  BY <1>1, ReverseKeeps
<1>3. /\ new \in Seq(Event) /\ Range(new) = Range(s) \ S /\ Distinct(new)
  BY <1>2, WithoutLeaves
<1>r. Range(s) \subseteq Event
  BY <1>1, RangeAmong
<1>4. Remembered(seen, k, s) =
        IF Len(all) > SeenMax THEN SubSeq(all, Len(all) - SeenMax + 1, Len(all)) ELSE all
  BY DEF Remembered
<1> HIDE DEF new
<1>5. Len(new) \in Nat /\ \A i \in 1 .. Len(new) : new[i] \in Event
  BY <1>3, LenProperties, ElementOfSeq
<1>6. ids \in Seq(FeedId) /\ Len(ids) = Len(new)
  <2>1. ids \in [1 .. Len(new) -> FeedId]
    BY <1>5 DEF FeedId
  <2> HIDE DEF ids
  <2>2. QED
    BY <1>5, <2>1, SeqDef, LenProperties
<1>7. \A i \in 1 .. Len(new) : ids[i] = <<k, new[i]>>
  OBVIOUS
<1> HIDE DEF ids
<1>8. Range(ids) = {<<k, e>> : e \in Range(new)} /\ Distinct(ids)
  <2>1. Range(ids) = {ids[i] : i \in 1 .. Len(new)} /\ Range(new) = {new[i] : i \in 1 .. Len(new)}
    BY <1>3, <1>6, RangeAmong
  <2>2. Range(ids) = {<<k, e>> : e \in Range(new)}
    BY <1>7, <2>1
  <2>3. Distinct(ids)
    BY <1>3, <1>6, <1>7 DEF Distinct
  <2>4. QED
    BY <2>2, <2>3
<1>9. all \in Seq(FeedId) /\ Range(all) = Range(seen) \cup Range(ids) /\ Len(all) \in Nat
  BY <1>6, ConcatProperties, RangeConcatenation, LenProperties
<1>10. Range(all) = Range(seen) \cup {<<k, e>> : e \in Range(s)}
  BY <1>3, <1>8, <1>9
<1>11. ASSUME Distinct(seen) PROVE Distinct(all)
  <2>1. Range(seen) \cap Range(ids) = {}
    BY <1>3, <1>8
  <2>2. QED
    BY <1>6, <1>8, <1>11, <2>1, ConcatKeeps
<1> HIDE DEF all
<1>12. Remembered(seen, k, s) \in Seq(FeedId)
  <2>1. SeenMax \in Nat
    BY ReceiverAssumption
  <2>2. CASE Len(all) > SeenMax
    <3>1. Len(all) - SeenMax + 1 \in 1 .. Len(all) + 1
      BY <1>9, <2>1, <2>2
    <3>2. QED
      BY <1>4, <1>9, <2>2, <3>1, EndKeeps
  <2>3. QED
    BY <1>4, <1>9, <2>2
<1>13. ASSUME Room, Distinct(seen) PROVE Remembered(seen, k, s) = all
  <2>1. Len(all) <= Cardinality(FeedId)
    BY <1>9, <1>11, <1>13, DistinctFit DEF Room
  <2>2. Cardinality(FeedId) \in Nat /\ SeenMax \in Nat
    BY <1>13, FS_CardinalityType, ReceiverAssumption DEF Room
  <2>3. ~ (Len(all) > SeenMax)
    BY <1>9, <1>13, <2>1, <2>2 DEF Room
  <2>4. QED
    BY <1>4, <2>3
<1>14. QED
  BY <1>10, <1>11, <1>12, <1>13


-----------------------------------------------------------------------------
(* What a poll does to the monitor *)

(* The ids of the events of a batch read from k.                           *)
IdsOf(k, F) == {id \in FeedId : id[1] = k /\ \E s \in F : id[2] \in Range(s)}

(* From m to r the feeds of K were recorded, with the ids I: alerts are new*)
(* only of the feeds that m tells of, and of ids that m has not seen.      *)
Records(m, r, K, I) ==
  /\ m.sources \subseteq r.sources /\ r.sources \subseteq m.sources \cup K
  /\ r.pending \subseteq m.pending /\ m.pending \subseteq r.pending \cup K
  /\ Range(r.seen) = Range(m.seen) \cup I
  /\ \A a \in Range(r.alerts) :
       \/ a \in Range(m.alerts)
       \/ /\ m.enabled /\ a.key \in (K \cap m.sources) \ m.pending
          /\ Pair(a) \in I \ Range(m.seen)
  /\ Distinct(r.seen) /\ Distinct(r.alerts)

(* From m to r the receiver stayed what it was, and what changed is to be  *)
(* written.                                                                *)
Marks(m, r) ==
  /\ r \in Monitor /\ r.enabled = m.enabled /\ r.selection = m.selection
  /\ r.dirty \/ r = m

(* One feed is recorded.                                                   *)
LEMMA RecordedKeeps ==
  ASSUME NEW m \in Monitor, NEW k \in Desktop, NEW F \in Batch
  PROVE  /\ Marks(m, RecordedIfRead(m, k, F))
         /\ Room /\ Distinct(m.seen) /\ Distinct(m.alerts) =>
              Records(m, RecordedIfRead(m, k, F), {k}, IdsOf(k, F))
<1>0. /\ m.seen \in Seq(FeedId) /\ m.alerts \in Seq(Alert) /\ m.dirty \in BOOLEAN
      /\ m.sources \in SUBSET Desktop /\ m.pending \in SUBSET Desktop /\ m.enabled \in BOOLEAN
  BY DEF Monitor
<1>1. CASE F = {}
  <2>1. RecordedIfRead(m, k, F) = m /\ IdsOf(k, F) = {}
    BY <1>1 DEF RecordedIfRead, IdsOf
  <2>2. QED
    BY <2>1 DEF Marks, Records
<1>2. CASE F # {}
  <2>1. PICK s \in Events : F = {s}
    BY <1>2 DEF Batch
  <2> DEFINE r == Recorded(m, k, s)
             quiet == Suppressed(m, k)
             tell == {e \in Range(s) : m.enabled /\ ~quiet /\ <<k, e>> \notin Range(m.seen)}
             alerts == ToldAll(m.alerts, k, s, tell)
             seen == Remembered(m.seen, k, s)
             dirty == m.dirty \/ quiet \/ alerts # m.alerts \/ seen # m.seen
  <2>2. RecordedIfRead(m, k, F) = r
    BY <2>1 DEF RecordedIfRead
  <2>3. s \in Seq(Event) /\ Range(s) \subseteq Event
    BY RangeAmong DEF Events
  <2>4. /\ alerts \in Seq(Alert)
        /\ \A a \in Range(alerts) : a \in Range(m.alerts) \/ (a.key = k /\ a.event \in tell)
        /\ Distinct(m.alerts) => Distinct(alerts)
    <3> HIDE DEF tell
    <3>1. QED
      BY <1>0, <2>3, ToldAllKeeps
  <2>5. /\ seen \in Seq(FeedId)
        /\ Room /\ Distinct(m.seen) =>
             Distinct(seen) /\ Range(seen) = Range(m.seen) \cup {<<k, e>> : e \in Range(s)}
    BY <1>0, RememberedKeeps
  <2>6. r = [m EXCEPT !.sources = m.sources \cup {k}, !.pending = m.pending \ {k},
                      !.alerts = alerts, !.seen = seen, !.dirty = dirty]
    BY DEF Recorded
  <2>7. dirty \in BOOLEAN
    OBVIOUS
  <2>8. quiet <=> (k \notin m.sources \/ k \in m.pending)
    BY DEF Suppressed
  <2>9. IdsOf(k, F) = {<<k, e>> : e \in Range(s)}
    BY <2>1, <2>3 DEF IdsOf, FeedId
  <2>t. \A e \in tell : m.enabled /\ ~quiet /\ <<k, e>> \notin Range(m.seen) /\ e \in Range(s)
    OBVIOUS
  <2>d. ~dirty => ~quiet /\ alerts = m.alerts /\ seen = m.seen /\ ~m.dirty
    OBVIOUS
  <2> HIDE DEF r, quiet, tell, alerts, seen, dirty
  <2>10. Marks(m, r)
    <3>1. r \in Monitor /\ r.enabled = m.enabled /\ r.selection = m.selection /\ r.dirty = dirty
      BY <1>0, <2>4, <2>5, <2>6, <2>7 DEF Monitor
    <3>2. ASSUME ~dirty PROVE r = m
      <4>1. m.sources \cup {k} = m.sources /\ m.pending \ {k} = m.pending
        BY <2>8, <2>d, <3>2
      <4>2. alerts = m.alerts /\ seen = m.seen /\ dirty = m.dirty
        BY <1>0, <2>7, <2>d, <3>2
      <4>3. QED
        BY <2>6, <4>1, <4>2 DEF Monitor
    <3>3. QED
      BY <3>1, <3>2 DEF Marks
  <2>11. ASSUME Room, Distinct(m.seen), Distinct(m.alerts)
         PROVE  Records(m, r, {k}, IdsOf(k, F))
    <3>1. /\ r.sources = m.sources \cup {k} /\ r.pending = m.pending \ {k}
          /\ r.alerts = alerts /\ r.seen = seen
      BY <2>6 DEF Monitor
    <3>2. ASSUME NEW a \in Range(alerts), a \notin Range(m.alerts)
          PROVE  /\ m.enabled /\ a.key \in ({k} \cap m.sources) \ m.pending
                 /\ Pair(a) \in IdsOf(k, F) \ Range(m.seen)
      <4>1. a.key = k /\ a.event \in tell
        BY <2>4, <3>2
      <4>2. QED
        BY <2>8, <2>9, <2>t, <4>1 DEF Pair
    <3>3. QED
      BY <2>4, <2>5, <2>9, <2>11, <3>1, <3>2 DEF Records
  <2>12. QED
    BY <2>2, <2>10, <2>11
<1>3. QED
  BY <1>1, <1>2

(* One feed after another, each of a desktop of its own.                   *)
LEMMA RecordsInTurn ==
  ASSUME NEW m \in Monitor, NEW n \in Monitor, NEW r, NEW K, NEW L, NEW I, NEW J,
         m.enabled = n.enabled, K \cap L = {}, Records(m, n, K, I), Records(n, r, L, J)
  PROVE  Records(m, r, K \cup L, I \cup J)
<1>1. \A a \in Range(r.alerts) :
        \/ a \in Range(m.alerts)
        \/ /\ m.enabled /\ a.key \in ((K \cup L) \cap m.sources) \ m.pending
           /\ Pair(a) \in (I \cup J) \ Range(m.seen)
  <2> SUFFICES ASSUME NEW a \in Range(r.alerts), a \notin Range(m.alerts)
               PROVE  /\ m.enabled /\ a.key \in ((K \cup L) \cap m.sources) \ m.pending
                      /\ Pair(a) \in (I \cup J) \ Range(m.seen)
    OBVIOUS
  <2>1. CASE a \in Range(n.alerts)
    BY <2>1 DEF Records
  <2>2. CASE a \notin Range(n.alerts)
    BY <2>2 DEF Records
  <2>3. QED
    BY <2>1, <2>2
<1>2. QED
  BY <1>1 DEF Records

(* All feeds of a poll.                                                    *)
LEMMA RecordedAllKeeps ==
  ASSUME NEW m \in Monitor, NEW got \in Seq(Reply)
  PROVE  /\ Marks(m, RecordedAll(m, got))
         /\ Room /\ Distinct(m.seen) /\ Distinct(m.alerts)
              /\ (\A i, j \in 1 .. Len(got) : got[i].from = got[j].from => i = j) =>
              Records(m, RecordedAll(m, got), {got[i].from : i \in 1 .. Len(got)},
                      {id \in FeedId : \E i \in 1 .. Len(got) :
                         id \in IdsOf(got[i].from, got[i].feed)})
<1> DEFINE n == Len(got)
           Goes(i, q) == RecordedIfRead(q, got[i].from, got[i].feed)
           step == [x \in (1 .. n) \X Monitor |-> Goes(x[1], x[2])]
<1>1. n \in Nat /\ \A i \in 1 .. n : got[i] \in Reply
  BY LenProperties, ElementOfSeq
<1>2. \A i \in 1 .. n : got[i].from \in Desktop /\ got[i].feed \in Batch
  BY <1>1 DEF Reply
<1>3. ASSUME NEW i \in 1 .. n, NEW q \in Monitor
      PROVE  /\ Marks(q, Goes(i, q)) /\ Goes(i, q) \in Monitor
             /\ Room /\ Distinct(q.seen) /\ Distinct(q.alerts) =>
                  Records(q, Goes(i, q), {got[i].from}, IdsOf(got[i].from, got[i].feed))
  <2>1. got[i].from \in Desktop /\ got[i].feed \in Batch
    BY <1>2
  <2>2. QED
    BY <2>1, RecordedKeeps DEF Marks
<1> HIDE DEF n, Goes
<1>4. step \in [(1 .. n) \X Monitor -> Monitor]
      /\ \A i \in 1 .. n, q \in Monitor : step[<<i, q>>] = Goes(i, q)
  BY <1>3
<1> HIDE DEF step
<1>5. PICK f : IsCourse(f, n, Monitor, m, step)
  <2>1. n \in Nat
    BY <1>1
  <2>2. step \in [(1 .. n) \X Monitor -> Monitor]
    BY <1>4
  <2>3. QED
    BY <2>1, <2>2, CourseExists
<1>6. f = [i \in 0 .. Len(got) |->
             IF i = 0 THEN m ELSE RecordedIfRead(f[i - 1], got[i].from, got[i].feed)]
  <2>1. \A i \in 0 .. n : i # 0 => i \in 1 .. n /\ i - 1 \in 0 .. n
    BY <1>1
  <2>2. \A i \in 0 .. n : f[i] = IF i = 0 THEN m ELSE Goes(i, f[i - 1])
    BY <1>4, <1>5, <2>1 DEF IsCourse
  <2>3. QED
    BY <1>5, <2>2 DEF Goes, n, IsCourse
<1>7. PICK g : /\ RecordedAll(m, got) = g[n]
               /\ g = [i \in 0 .. Len(got) |->
                        IF i = 0 THEN m
                        ELSE RecordedIfRead(g[i - 1], got[i].from, got[i].feed)]
  BY <1>6 DEF RecordedAll, n
<1>8. g[0] = m /\ \A i \in 1 .. n : g[i] = Goes(i, g[i - 1])
  <2>1. 0 \in 0 .. n /\ \A i \in 1 .. n : i \in 0 .. n /\ i # 0
    BY <1>1
  <2>2. QED
    BY <1>7, <2>1 DEF Goes, n
<1> DEFINE Whole == /\ Room /\ Distinct(m.seen) /\ Distinct(m.alerts)
                    /\ \A i, j \in 1 .. n : got[i].from = got[j].from => i = j
           From(i) == {got[j].from : j \in 1 .. i}
           Ids(i) == {id \in FeedId : \E j \in 1 .. i : id \in IdsOf(got[j].from, got[j].feed)}
           Keeps(i) == Marks(m, g[i]) /\ (Whole => Records(m, g[i], From(i), Ids(i)))
           P == {i \in 0 .. n : Keeps(i)}
<1>9. Keeps(0)
  <2>1. From(0) = {} /\ Ids(0) = {}
    OBVIOUS
  <2>2. QED
    BY <1>8, <2>1 DEF Marks, Records
<1>10. ASSUME NEW i \in 1 .. n, Keeps(i - 1) PROVE Keeps(i)
  <2> DEFINE q == g[i - 1]
             k == got[i].from
  <2>0. q \in Monitor /\ q.enabled = m.enabled
    BY <1>10 DEF Marks
  <2>1. Marks(m, g[i])
    <3>1. Marks(q, g[i])
      BY <1>3, <1>8, <2>0
    <3>2. QED
      BY <1>10, <3>1 DEF Marks
  <2>2. 1 .. i = (1 .. i - 1) \cup {i} /\ i \in 1 .. n /\ i \notin 1 .. i - 1
        /\ 1 .. i - 1 \subseteq 1 .. n
    BY <1>1
  <2>3. From(i) = From(i - 1) \cup {k}
    BY <2>2
  <2>4. Ids(i) = Ids(i - 1) \cup IdsOf(k, got[i].feed)
    <3>1. IdsOf(k, got[i].feed) \subseteq FeedId
      BY DEF IdsOf
    <3>2. QED
      BY <2>2, <3>1
  <2>5. ASSUME Whole PROVE Records(m, g[i], From(i), Ids(i))
    <3>1. Records(m, q, From(i - 1), Ids(i - 1))
      BY <1>10, <2>5
    <3>2. Records(q, g[i], {k}, IdsOf(k, got[i].feed))
      <4>1. Distinct(q.seen) /\ Distinct(q.alerts)
        BY <3>1 DEF Records
      <4>2. QED
        BY <1>3, <1>8, <2>0, <2>5, <4>1
    <3>3. k \notin From(i - 1)
      BY <2>2, <2>5
    <3> HIDE DEF q, k, From, Ids
    <3>4. From(i - 1) \cap {k} = {}
      BY <3>3
    <3>5. Records(m, g[i], From(i - 1) \cup {k}, Ids(i - 1) \cup IdsOf(k, got[i].feed))
      BY <2>0, <3>1, <3>2, <3>4, RecordsInTurn
    <3>6. QED
      BY <2>3, <2>4, <3>5
  <2>6. QED
    BY <2>1, <2>5
<1> HIDE DEF Keeps
<1>11. Keeps(n)
  <2>1. n \in Nat /\ P \in SUBSET (0 .. n) /\ 0 \in P
    BY <1>1, <1>9
  <2>2. \A i \in 1 .. n : i - 1 \in P => i \in P
    BY <1>1, <1>10
  <2> HIDE DEF P
  <2>3. \A i \in 0 .. n : i \in P
    BY <2>1, <2>2, UpTo
  <2>4. QED
    BY <2>1, <2>3 DEF P
<1>12. QED
  BY <1>7, <1>11 DEF Keeps, n

(* From m to r the declarations of S were looked at: r has the latest, and *)
(* the receiver is told of what comes after it was chosen.                 *)
Chooses(d, g, m, r, S) ==
  /\ r \in Monitor /\ (r.dirty \/ r = m)
  /\ \/ r.selection = m.selection
     \/ \E s \in S : /\ r.selection = {s} /\ s.group = g
                     /\ \A c \in m.selection : Precedes(c, s)
  /\ \A x \in S : x.group = g => \E s \in r.selection : ~ Precedes(s, x)
  /\ r.seen = m.seen /\ r.sources = m.sources
  /\ \/ r.alerts = <<>>
     \/ r.alerts = m.alerts /\ r.pending = m.pending /\ r.enabled = m.enabled
  /\ r.enabled => \/ m.enabled /\ r.pending = m.pending
                  \/ Baseline(d, m) \subseteq r.pending

(* The declarations of one desktop.                                        *)
LEMMA MergedKeeps ==
  ASSUME NEW d \in Desktop, NEW g, NEW m \in Monitor, NEW S \in Selection
  PROVE  Chooses(d, g, m, Merged(d, m, S, g), S)
<1> DEFINE now == {s \in S : s.group = g /\ \A c \in m.selection : Precedes(c, s)}
           on == \E s \in now : s.on /\ s.device = d
           r == Merged(d, m, S, g)
<1>0. /\ m.enabled \in BOOLEAN /\ m.selection \in Selection /\ m.dirty \in BOOLEAN
      /\ m.alerts \in Seq(Alert) /\ m.pending \in SUBSET Desktop
      /\ m.sources \in SUBSET Desktop /\ Baseline(d, m) \in SUBSET Desktop
  BY DEF Monitor, Baseline
<1>1. CASE now = {}
  <2>1. r = m
    BY <1>1 DEF Merged
  <2>2. QED
    BY <1>0, <1>1, <2>1 DEF Chooses
<1>2. CASE now # {}
  <2>1. PICK s \in S : /\ now = {s} /\ S = {s} /\ s \in Declaration /\ s.group = g
                       /\ \A c \in m.selection : Precedes(c, s)
    BY <1>2 DEF Selection
  <2>2. now \in Selection /\ ~ Precedes(s, s)
    BY <2>1 DEF Selection, Precedes, Declaration
  <2>3. PICK b \in BOOLEAN : b <=> on
    OBVIOUS
  <2> DEFINE n == [m EXCEPT !.selection = now, !.dirty = TRUE]
             k == [n EXCEPT !.enabled = b, !.alerts = <<>>,
                            !.pending = IF b /\ ~m.enabled THEN Baseline(d, m) ELSE m.pending]
  <2>4. r = IF m.enabled = b /\ (b \/ m.alerts = <<>>) THEN n ELSE k
    <3>1. on = b
      BY <2>3, Zenon
    <3>2. Rebased(d, m, b) = IF b /\ ~m.enabled THEN Baseline(d, m) ELSE m.pending
      BY DEF Rebased
    <3>3. r = IF m.enabled = on /\ (on \/ m.alerts = <<>>) THEN n
              ELSE [n EXCEPT !.enabled = on, !.alerts = <<>>, !.pending = Rebased(d, m, on)]
      BY <1>2 DEF Merged
    <3> HIDE DEF on, n, r, now
    <3>4. QED
      BY <3>1, <3>2, <3>3
  <2>l. ASSUME r.selection = {s}
        PROVE  /\ \E t \in S : /\ r.selection = {t} /\ t.group = g
                              /\ \A c \in m.selection : Precedes(c, t)
               /\ \A x \in S : x.group = g => \E t \in r.selection : ~ Precedes(t, x)
    BY <2>1, <2>2, <2>l
  <2> HIDE DEF now, on, r
  <2>5. CASE m.enabled = b /\ (b \/ m.alerts = <<>>)
    <3>1. /\ r \in Monitor /\ r.dirty /\ r.selection = {s} /\ r.seen = m.seen
          /\ r.sources = m.sources /\ r.alerts = m.alerts /\ r.pending = m.pending
          /\ r.enabled = m.enabled
      BY <1>0, <2>1, <2>2, <2>4, <2>5 DEF Monitor
    <3>2. QED
      BY <1>0, <2>l, <3>1 DEF Chooses, r
  <2>6. CASE ~ (m.enabled = b /\ (b \/ m.alerts = <<>>))
    <3>1. /\ r \in Monitor /\ r.dirty /\ r.selection = {s} /\ r.seen = m.seen
          /\ r.sources = m.sources /\ r.alerts = <<>> /\ r.enabled = b
          /\ r.pending = IF b /\ ~m.enabled THEN Baseline(d, m) ELSE m.pending
      <4>1. <<>> \in Seq(Alert)
        BY EmptySeq
      <4>2. QED
        BY <1>0, <2>1, <2>2, <2>4, <2>6, <4>1 DEF Monitor
    <3>2. QED
      BY <1>0, <2>l, <3>1 DEF Chooses, r
  <2>7. QED
    BY <2>5, <2>6
<1>3. QED
  BY <1>1, <1>2

(* One after another.                                                      *)
LEMMA ChoosesInTurn ==
  ASSUME NEW d \in Desktop, NEW g, NEW m \in Monitor, NEW n, NEW r,
         NEW S \in SUBSET Declaration, NEW T \in SUBSET Declaration,
         Chooses(d, g, m, n, S), Chooses(d, g, n, r, T)
  PROVE  Chooses(d, g, m, r, S \cup T)
<1>0. /\ m \in Monitor /\ n \in Monitor /\ r \in Monitor
      /\ m.selection \subseteq Declaration /\ n.selection \subseteq Declaration
      /\ r.selection \subseteq Declaration /\ m.alerts \in Seq(Alert)
  BY DEF Chooses, Monitor, Selection
<1>o. \A s, t, u \in Declaration :
        /\ Precedes(s, t) /\ Precedes(t, u) => Precedes(s, u)
        /\ Precedes(s, t) /\ ~ Precedes(s, u) => ~ Precedes(t, u)
  BY DEF Precedes, Declaration
<1>1. r.dirty \/ r = m
  BY DEF Chooses
<1>2. \/ r.selection = m.selection
      \/ \E s \in S \cup T : /\ r.selection = {s} /\ s.group = g
                             /\ \A c \in m.selection : Precedes(c, s)
  <2>1. CASE r.selection = n.selection
    BY <2>1 DEF Chooses
  <2>2. CASE r.selection # n.selection
    <3>1. PICK t \in T : /\ r.selection = {t} /\ t.group = g
                         /\ \A c \in n.selection : Precedes(c, t)
      BY <2>2 DEF Chooses
    <3>2. CASE n.selection = m.selection
      BY <3>1, <3>2
    <3>3. CASE n.selection # m.selection
      <4>1. PICK s \in S : n.selection = {s} /\ \A c \in m.selection : Precedes(c, s)
        BY <3>3 DEF Chooses
      <4>2. \A c \in m.selection : Precedes(c, t)
        BY <1>0, <1>o, <3>1, <4>1
      <4>3. QED
        BY <3>1, <4>2
    <3>4. QED
      BY <3>2, <3>3
  <2>3. QED
    BY <2>1, <2>2
<1>3. ASSUME NEW x \in S \cup T, x.group = g PROVE \E s \in r.selection : ~ Precedes(s, x)
  <2>1. CASE x \in T
    BY <1>3, <2>1 DEF Chooses
  <2>2. CASE x \in S
    <3>1. PICK s \in n.selection : ~ Precedes(s, x)
      BY <1>3, <2>2 DEF Chooses
    <3>2. CASE r.selection = n.selection
      BY <3>1, <3>2
    <3>3. CASE r.selection # n.selection
      <4>1. PICK t \in T : r.selection = {t} /\ Precedes(s, t)
        BY <3>1, <3>3 DEF Chooses
      <4>2. ~ Precedes(t, x)
        BY <1>0, <1>o, <2>2, <3>1, <4>1
      <4>3. QED
        BY <4>1, <4>2
    <3>4. QED
      BY <3>2, <3>3
  <2>3. QED
    BY <1>3, <2>1, <2>2
<1>4. Baseline(d, n) = Baseline(d, m)
  BY DEF Chooses, Baseline
<1>5. \/ r.alerts = <<>>
      \/ r.alerts = m.alerts /\ r.pending = m.pending /\ r.enabled = m.enabled
  BY DEF Chooses
<1>6. r.enabled => \/ m.enabled /\ r.pending = m.pending
                   \/ Baseline(d, m) \subseteq r.pending
  BY <1>4 DEF Chooses
<1>7. QED
  BY <1>0, <1>1, <1>2, <1>3, <1>5, <1>6 DEF Chooses

(* The declarations that a poll was given.                                 *)
Offered(got) == {x \in Declaration : \E i \in 1 .. Len(got) : x \in got[i].selection}

(* All declarations of a poll are merged.                                  *)
LEMMA MergedAllKeeps ==
  ASSUME NEW d \in Desktop, NEW m \in Monitor, NEW got \in Seq(Reply)
  PROVE  Chooses(d, token[d], m, MergedAll(d, m, got), Offered(got))
<1> DEFINE n == Len(got)
           g == token[d]
           Goes(i, q) == Merged(d, q, got[i].selection, g)
           step == [x \in (1 .. n) \X Monitor |-> Goes(x[1], x[2])]
<1>1. n \in Nat /\ \A i \in 1 .. n : got[i] \in Reply
  BY LenProperties, ElementOfSeq
<1>2. \A i \in 1 .. n : got[i].selection \in Selection
  BY <1>1 DEF Reply
<1>3. ASSUME NEW i \in 1 .. n, NEW q \in Monitor
      PROVE  Chooses(d, g, q, Goes(i, q), got[i].selection) /\ Goes(i, q) \in Monitor
  <2>1. Chooses(d, g, q, Goes(i, q), got[i].selection)
    BY <1>2, MergedKeeps
  <2>2. QED
    BY <2>1 DEF Chooses
<1> HIDE DEF n, g, Goes
<1>4. step \in [(1 .. n) \X Monitor -> Monitor]
      /\ \A i \in 1 .. n, q \in Monitor : step[<<i, q>>] = Goes(i, q)
  BY <1>3
<1> HIDE DEF step
<1>5. PICK f : IsCourse(f, n, Monitor, m, step)
  <2>1. n \in Nat
    BY <1>1
  <2>2. step \in [(1 .. n) \X Monitor -> Monitor]
    BY <1>4
  <2>3. QED
    BY <2>1, <2>2, CourseExists
<1>6. f = [i \in 0 .. Len(got) |->
             IF i = 0 THEN m ELSE Merged(d, f[i - 1], got[i].selection, token[d])]
  <2>1. \A i \in 0 .. n : i # 0 => i \in 1 .. n /\ i - 1 \in 0 .. n
    BY <1>1
  <2>2. \A i \in 0 .. n : f[i] = IF i = 0 THEN m ELSE Goes(i, f[i - 1])
    BY <1>4, <1>5, <2>1 DEF IsCourse
  <2>3. QED
    BY <1>5, <2>2 DEF Goes, n, g, IsCourse
<1>7. PICK h : /\ MergedAll(d, m, got) = h[n]
               /\ h = [i \in 0 .. Len(got) |->
                        IF i = 0 THEN m
                        ELSE Merged(d, h[i - 1], got[i].selection, token[d])]
  BY <1>6 DEF MergedAll, n
<1>8. h[0] = m /\ \A i \in 1 .. n : h[i] = Goes(i, h[i - 1])
  <2>1. 0 \in 0 .. n /\ \A i \in 1 .. n : i \in 0 .. n /\ i # 0
    BY <1>1
  <2>2. QED
    BY <1>7, <2>1 DEF Goes, n, g
<1> DEFINE Given(i) == {x \in Declaration : \E j \in 1 .. i : x \in got[j].selection}
           Keeps(i) == Chooses(d, g, m, h[i], Given(i))
           P == {i \in 0 .. n : Keeps(i)}
<1>9. Keeps(0)
  <2>1. Given(0) = {}
    OBVIOUS
  <2>2. QED
    BY <1>8, <2>1 DEF Chooses
<1>10. ASSUME NEW i \in 1 .. n, Keeps(i - 1) PROVE Keeps(i)
  <2> DEFINE q == h[i - 1]
  <2>1. q \in Monitor
    BY <1>10 DEF Chooses
  <2>2. Chooses(d, g, q, h[i], got[i].selection)
    BY <1>3, <1>8, <2>1
  <2>3. Given(i) = Given(i - 1) \cup got[i].selection
    <3>1. 1 .. i = (1 .. i - 1) \cup {i} /\ got[i].selection \in SUBSET Declaration
      BY <1>1, <1>2 DEF Selection
    <3>2. QED
      BY <3>1
  <2>4. Given(i - 1) \in SUBSET Declaration /\ got[i].selection \in SUBSET Declaration
    BY <1>2 DEF Selection
  <2>5. Chooses(d, g, m, q, Given(i - 1))
    BY <1>10
  <2> HIDE DEF q, Given
  <2>6. Chooses(d, g, m, h[i], Given(i - 1) \cup got[i].selection)
    BY <2>2, <2>4, <2>5, ChoosesInTurn
  <2>7. QED
    BY <2>3, <2>6
<1> HIDE DEF Keeps
<1>11. Keeps(n)
  <2>1. n \in Nat /\ P \in SUBSET (0 .. n) /\ 0 \in P
    BY <1>1, <1>9
  <2>2. \A i \in 1 .. n : i - 1 \in P => i \in P
    BY <1>1, <1>10
  <2> HIDE DEF P
  <2>3. \A i \in 0 .. n : i \in P
    BY <2>1, <2>2, UpTo
  <2>4. QED
    BY <2>1, <2>3 DEF P
<1>12. QED
  BY <1>7, <1>11 DEF Keeps, n, g, Offered

-----------------------------------------------------------------------------
(* The inductive invariant of the declarations *)

(* What a write of the monitor is about.                                   *)
Same(m, n) ==
  /\ m.selection = n.selection /\ m.enabled = n.enabled /\ m.sources = n.sources
  /\ m.pending = n.pending /\ m.seen = n.seen /\ m.alerts = n.alerts

IsWritten(m, v) == m.dirty \/ Same(v, m)

KnownOf(d) ==
  {s \in Declaration :
     \/ s \in monitor[d].selection \/ s \in stored[d].selection
     \/ \E p \in Desktop : s \in heard[d][p]
     \/ s \in Offered(poll[d].got)}

Known == {s \in Declaration : \E d \in Desktop : s \in KnownOf(d)}

(* An operation id stands for one declaration.                             *)
OperationsAreUnique ==
  /\ \A s \in Known : s.operation \in spent
  /\ \A s, t \in Known : s.operation = t.operation => s = t

(* No declaration of the same group that was heard is later than S.        *)
Heeds(d, S) ==
  \A p \in Desktop : \A x \in heard[d][p], s \in S : x.group = s.group => ~ Precedes(s, x)

IsHeedful(d) ==
  /\ Heeds(d, monitor[d].selection) /\ Heeds(d, stored[d].selection)
  /\ monitor[d].selection = {} =>
       \A p \in Desktop : \A x \in heard[d][p] : x.group # token[d]
  /\ poll[d].phase = "peers" => \A s \in monitor[d].selection : s.group = token[d]

ReceiverInv ==
  /\ ReceiverTypeOK
  /\ OperationsAreUnique
  /\ \A d \in Desktop : IsHeedful(d) /\ IsWritten(monitor[d], stored[d])

(* Nothing but what belongs to d changes.                                  *)
OnlyOf(d) ==
  \A e \in Desktop \ {d} :
    /\ monitor'[e] = monitor[e] /\ stored'[e] = stored[e] /\ token'[e] = token[e]
    /\ poll'[e] = poll[e] /\ heard'[e] = heard[e] /\ silent'[e] = silent[e]

(* A step of one desktop that brings at most one declaration of its own.   *)
LEMMA OneDesktopKeeps ==
  ASSUME ReceiverInv, NEW d \in Desktop, NEW N \in SUBSET Declaration,
         ReceiverTypeOK', OnlyOf(d), spent \subseteq spent',
         KnownOf(d)' \subseteq Known \cup N,
         \A s \in N : s.operation \in spent' \ spent, \A s, t \in N : s = t,
         IsHeedful(d)', IsWritten(monitor[d], stored[d])'
  PROVE  ReceiverInv'
<1>1. \A e \in Desktop \ {d} : /\ KnownOf(e)' = KnownOf(e) /\ IsHeedful(e)'
                               /\ IsWritten(monitor[e], stored[e])'
  <2> SUFFICES ASSUME NEW e \in Desktop \ {d}
               PROVE  /\ KnownOf(e)' = KnownOf(e) /\ IsHeedful(e)'
                      /\ IsWritten(monitor[e], stored[e])'
    OBVIOUS
  <2>1. /\ monitor'[e] = monitor[e] /\ stored'[e] = stored[e] /\ token'[e] = token[e]
        /\ poll'[e] = poll[e] /\ heard'[e] = heard[e]
    BY DEF OnlyOf
  <2>2. IsHeedful(e) /\ IsWritten(monitor[e], stored[e])
    BY DEF ReceiverInv
  <2>3. KnownOf(e)' = KnownOf(e)
    BY <2>1 DEF KnownOf
  <2>4. IsHeedful(e)' /\ IsWritten(monitor[e], stored[e])'
    BY <2>1, <2>2 DEF IsHeedful, Heeds, IsWritten
  <2>5. QED
    BY <2>3, <2>4
<1>2. Known' \subseteq Known \cup N
  BY <1>1 DEF Known
<1>3. OperationsAreUnique'
  <2>1. \A s \in Known : s.operation \in spent
    BY DEF ReceiverInv, OperationsAreUnique
  <2>2. \A s, t \in Known : s.operation = t.operation => s = t
    BY DEF ReceiverInv, OperationsAreUnique
  <2>3. \A s \in Known' : s \in Known \/ (s \in N /\ s.operation \in spent' \ spent)
    BY <1>2
  <2> HIDE DEF Known
  <2>4. QED
    BY <2>1, <2>2, <2>3 DEF OperationsAreUnique
<1>4. QED
  BY <1>1, <1>3 DEF ReceiverInv

(* A step of one desktop that declares nothing.                            *)
LEMMA NothingDeclared ==
  ASSUME ReceiverInv, NEW d \in Desktop, ReceiverTypeOK', OnlyOf(d), spent \subseteq spent',
         KnownOf(d)' \subseteq Known, IsHeedful(d)', IsWritten(monitor[d], stored[d])'
  PROVE  ReceiverInv'
<1> DEFINE N == {}
<1>1. N \in SUBSET Declaration /\ KnownOf(d)' \subseteq Known \cup N
  OBVIOUS
<1>2. (\A s \in N : s.operation \in spent' \ spent) /\ (\A s, t \in N : s = t)
  OBVIOUS
<1> HIDE DEF N
<1>3. QED
  BY <1>1, <1>2, OneDesktopKeeps

-----------------------------------------------------------------------------
(* Saving *)

(* What is saved is in the file; what is not, is still to be written.      *)
LEMMA SaveKeeps ==
  ASSUME ReceiverTypeOK, NEW d \in Desktop, NEW m \in Monitor, NEW f \in Monitor,
         SaveMonitor(d, m, f), IsWritten(monitor[d], stored[d]),
         m.dirty \/ (~ monitor[d].dirty /\ Same(m, monitor[d])),
         f.dirty \/ f = monitor[d]
  PROVE  /\ monitor' \in [Desktop -> Monitor] /\ stored' \in [Desktop -> Monitor]
         /\ trouble' \in [faults : Nat, restarts : Nat]
         /\ \A e \in Desktop \ {d} : monitor'[e] = monitor[e] /\ stored'[e] = stored[e]
         /\ IsWritten(monitor[d], stored[d])'
         /\ \/ IsSaved /\ Same(monitor'[d], m) /\ Same(stored'[d], m)
            \/ ~ IsSaved /\ monitor'[d] = f /\ stored' = stored
<1>0. /\ monitor \in [Desktop -> Monitor] /\ stored \in [Desktop -> Monitor]
      /\ trouble \in [faults : Nat, restarts : Nat]
  BY DEF ReceiverTypeOK
<1>1. CASE /\ m.dirty
           /\ monitor' = [monitor EXCEPT ![d] = [m EXCEPT !.dirty = FALSE]]
           /\ stored' = [stored EXCEPT ![d] = Kept(m)]
           /\ UNCHANGED trouble
  <2>1. /\ [m EXCEPT !.dirty = FALSE] \in Monitor /\ Same([m EXCEPT !.dirty = FALSE], m)
    BY DEF Monitor, Same
  <2>2. Kept(m) \in Monitor /\ Same(Kept(m), m)
    BY DEF Kept, Monitor, Same, NoSync
  <2>3. /\ monitor'[d] = [m EXCEPT !.dirty = FALSE] /\ stored'[d] = Kept(m)
    BY <1>0, <1>1
  <2>4. Same(monitor'[d], m) /\ Same(stored'[d], m)
    BY <2>1, <2>2, <2>3
  <2>5. IsWritten(monitor[d], stored[d])'
    BY <2>4 DEF IsWritten, Same
  <2>6. /\ monitor' \in [Desktop -> Monitor] /\ stored' \in [Desktop -> Monitor]
        /\ \A e \in Desktop \ {d} : monitor'[e] = monitor[e] /\ stored'[e] = stored[e]
    <3> HIDE DEF Monitor
    <3>1. QED
      BY <1>0, <1>1, <2>1, <2>2
  <2>7. QED
    BY <1>0, <1>1, <2>4, <2>5, <2>6 DEF IsSaved
<1>2. CASE ~ m.dirty /\ monitor' = [monitor EXCEPT ![d] = m] /\ UNCHANGED <<stored, trouble>>
  <2>1. Same(m, monitor[d]) /\ Same(stored[d], monitor[d])
    BY <1>2 DEF IsWritten
  <2>2. monitor'[d] = m /\ stored'[d] = stored[d]
    BY <1>0, <1>2
  <2>3. Same(monitor'[d], m) /\ Same(stored'[d], m)
    BY <2>1, <2>2 DEF Same
  <2>4. QED
    BY <1>0, <1>2, <2>2, <2>3 DEF IsSaved, IsWritten
<1>3. CASE /\ m.dirty /\ Fault
           /\ monitor' = [monitor EXCEPT ![d] = f]
           /\ UNCHANGED stored
  <2>1. trouble' \in [faults : Nat, restarts : Nat] /\ trouble'.faults = trouble.faults + 1
        /\ trouble.faults \in Nat
    BY <1>0, <1>3 DEF Fault
  <2>2. ~ IsSaved
    BY <2>1 DEF IsSaved
  <2>3. monitor'[d] = f /\ stored'[d] = stored[d]
    BY <1>0, <1>3
  <2>4. IsWritten(monitor[d], stored[d])'
    BY <2>3 DEF IsWritten
  <2>5. QED
    BY <1>0, <1>3, <2>1, <2>2, <2>3, <2>4
<1>4. QED
  BY <1>1, <1>2, <1>3 DEF SaveMonitor

(* The states that the pages and the loop bring about: at most something is*)
(* given up.                                                               *)
Relents(m, r) ==
  /\ r \in Monitor /\ (r.selection = m.selection \/ r.selection = {})
  /\ r.seen = m.seen /\ r.sources = m.sources
  /\ \/ r.alerts = <<>>
     \/ r.alerts = m.alerts /\ r.enabled = m.enabled /\ r.pending \subseteq m.pending
  /\ r.dirty \/ (~ m.dirty /\ Same(r, m))

(* Giving up being the receiver.                                           *)
LEMMA QuietRelents ==
  ASSUME NEW m \in Monitor
  PROVE  /\ Quiet(m) \in Monitor /\ Dropped(m) \in Monitor
         /\ Quiet(m).alerts = <<>> /\ Quiet(m).selection = m.selection
         /\ Quiet(m).seen = m.seen /\ Quiet(m).sources = m.sources
         /\ Quiet(m).pending = m.pending /\ Quiet(m).dirty = m.dirty
         /\ Dropped(m).alerts = <<>> /\ Dropped(m).selection = {}
         /\ Dropped(m).seen = m.seen /\ Dropped(m).sources = m.sources
         /\ Dropped(m).pending = m.pending /\ Dropped(m).dirty = m.dirty
<1>1. {} \in Selection /\ <<>> \in Seq(Alert)
  BY EmptySeq DEF Selection
<1>2. QED
  BY <1>1 DEF Quiet, Dropped, Monitor

(* A switch while no token is configured.                                  *)
LEMMA AloneRelents ==
  ASSUME NEW d \in Desktop, NEW m \in Monitor, NEW on \in BOOLEAN
  PROVE  Relents(m, Alone(d, m, on)) /\ Alone(d, m, on).selection = {}
<1> DEFINE n == [m EXCEPT !.selection = {}, !.sync = NoSync, !.alerts = <<>>,
                          !.configured = FALSE, !.group = NoGroup, !.enabled = on,
                          !.pending = IF on THEN Baseline(d, m) ELSE {}]
           dirty == m.dirty \/ [n EXCEPT !.group = m.group] # m
           r == [n EXCEPT !.dirty = dirty]
<1>1. {} \in Selection /\ <<>> \in Seq(Alert) /\ NoSync \in [Desktop -> BOOLEAN]
  BY EmptySeq DEF Selection, NoSync
<1>2. Baseline(d, m) \in SUBSET Desktop
  BY DEF Baseline, Monitor
<1>3. /\ n \in Monitor /\ n.selection = {} /\ n.alerts = <<>> /\ n.seen = m.seen
      /\ n.sources = m.sources
  BY <1>1, <1>2 DEF Monitor
<1>4. dirty \in BOOLEAN
  BY DEF Monitor
<1>5. Alone(d, m, on) = r
  BY DEF Alone
<1>6. ~ dirty => ~ m.dirty /\ [n EXCEPT !.group = m.group] = m
  OBVIOUS
<1>7. ~ dirty => ~ m.dirty /\ Same(n, m)
  <2> HIDE DEF n, dirty
  <2>1. Same([n EXCEPT !.group = m.group], n)
    BY <1>3 DEF Same, Monitor
  <2>2. QED
    BY <1>6, <2>1 DEF Same
<1> HIDE DEF n, dirty
<1>8. /\ r \in Monitor /\ Same(r, n) /\ r.dirty = dirty
  BY <1>3, <1>4 DEF Monitor, Same
<1>9. QED
  BY <1>3, <1>5, <1>7, <1>8 DEF Relents, Same

(* Joining the group of a token.                                           *)
LEMMA JoinedRelents ==
  ASSUME NEW m \in Monitor, NEW g \in Group
  PROVE  /\ Relents(m, Joined(m, g)) /\ Joined(m, g).dirty
         /\ Joined(m, g).selection = IF Foreign(m, g) THEN {} ELSE m.selection
<1> DEFINE n == IF Foreign(m, g) THEN [Dropped(m) EXCEPT !.pending = {}, !.sync = NoSync] ELSE m
           r == [n EXCEPT !.configured = TRUE, !.group = g, !.dirty = TRUE]
<1>1. NoSync \in [Desktop -> BOOLEAN]
  BY DEF NoSync
<1>2. /\ n \in Monitor /\ n.seen = m.seen /\ n.sources = m.sources
      /\ n.selection = IF Foreign(m, g) THEN {} ELSE m.selection
      /\ \/ n.alerts = <<>>
         \/ n.alerts = m.alerts /\ n.enabled = m.enabled /\ n.pending = m.pending
  <2>1. CASE Foreign(m, g)
    BY <1>1, <2>1, QuietRelents DEF Monitor
  <2>2. CASE ~ Foreign(m, g)
    BY <2>2
  <2>3. QED
    BY <2>1, <2>2
<1> HIDE DEF n
<1>3. /\ r \in Monitor /\ r.seen = n.seen /\ r.sources = n.sources /\ r.selection = n.selection
      /\ r.alerts = n.alerts /\ r.enabled = n.enabled /\ r.pending = n.pending /\ r.dirty
  BY <1>2 DEF Monitor
<1>4. Joined(m, g) = r
  BY DEF Joined, n
<1>5. QED
  BY <1>2, <1>3, <1>4 DEF Relents

(* The page brings the state in line with the token.                       *)
LEMMA AlignedRelents ==
  ASSUME NEW m \in Monitor, NEW g \in Group \cup {NoGroup}
  PROVE  Relents(m, Aligned(m, g))
<1> DEFINE changed == m.group # g
           n == CASE Foreign(m, g) \/ (changed /\ g = NoGroup) -> Dropped(m)
                  [] m.selection = {} /\ m.enabled
                     /\ (changed \/ (g # NoGroup /\ ~m.configured)) -> Quiet(m)
                  [] OTHER -> m
           k == IF changed \/ Foreign(m, g)
                THEN [n EXCEPT !.group = g, !.pending = {}, !.sync = NoSync] ELSE n
           here == g # NoGroup
           dirty == m.dirty \/ changed \/ Foreign(m, g) \/ n # m \/ m.configured # here
           r == [k EXCEPT !.configured = here, !.dirty = dirty]
<1>1. NoSync \in [Desktop -> BOOLEAN]
  BY DEF NoSync
<1>2. n = Dropped(m) \/ n = Quiet(m) \/ n = m
  OBVIOUS
<1>3. here \in BOOLEAN /\ dirty \in BOOLEAN
  BY DEF Monitor
<1>4. Aligned(m, g) = r
  BY DEF Aligned
<1>5. ~ dirty => ~ m.dirty /\ n = m /\ k = n
  OBVIOUS
<1>d. m.dirty \in BOOLEAN
  BY DEF Monitor
<1>6. /\ k = n \/ k = [n EXCEPT !.group = g, !.pending = {}, !.sync = NoSync]
  OBVIOUS
<1> HIDE DEF n, k, dirty, here
<1>7. /\ n \in Monitor /\ n.seen = m.seen /\ n.sources = m.sources
      /\ n.selection = m.selection \/ n.selection = {}
      /\ \/ n.alerts = <<>>
         \/ n.alerts = m.alerts /\ n.enabled = m.enabled /\ n.pending = m.pending
  BY <1>2, QuietRelents
<1>8. /\ k \in Monitor /\ k.seen = n.seen /\ k.sources = n.sources /\ k.selection = n.selection
      /\ k.alerts = n.alerts /\ k.enabled = n.enabled /\ k.pending \subseteq n.pending
  BY <1>1, <1>6, <1>7 DEF Monitor
<1>9. /\ r \in Monitor /\ r.seen = k.seen /\ r.sources = k.sources /\ r.selection = k.selection
      /\ r.alerts = k.alerts /\ r.enabled = k.enabled /\ r.pending = k.pending
      /\ r.dirty = dirty
  BY <1>3, <1>8 DEF Monitor
<1>10. ~ dirty => Same(r, m)
  BY <1>5, <1>9 DEF Same
<1>11. QED
  BY <1>4, <1>5, <1>7, <1>8, <1>9, <1>10 DEF Relents

(* So does the loop, and keeps declarations of the group only.             *)
LEMMA AlignedInPollRelents ==
  ASSUME NEW m \in Monitor, NEW g \in Group \cup {NoGroup}
  PROVE  /\ Relents(m, AlignedInPoll(m, g))
         /\ \A s \in AlignedInPoll(m, g).selection : s.group = g
<1> DEFINE changed == m.group # g
           r == AlignedInPoll(m, g)
<1>1. NoSync \in [Desktop -> BOOLEAN]
  BY DEF NoSync
<1>q. /\ m.selection \in Selection /\ m.dirty \in BOOLEAN /\ m.pending \in SUBSET Desktop
      /\ m.enabled \in BOOLEAN
  BY DEF Monitor
<1>2. CASE g = NoGroup
  <2> DEFINE n == IF m.selection # {} \/ m.configured \/ m.group # NoGroup
                  THEN [Dropped(m) EXCEPT !.pending = {}, !.dirty = TRUE] ELSE m
  <2>1. r = [n EXCEPT !.configured = FALSE, !.group = NoGroup, !.sync = NoSync]
    BY <1>2 DEF AlignedInPoll
  <2>2. /\ n \in Monitor /\ n.seen = m.seen /\ n.sources = m.sources /\ n.selection = {}
        /\ \/ n.alerts = <<>> /\ n.dirty
           \/ n = m
    BY <1>q, QuietRelents DEF Monitor
  <2> HIDE DEF n, r
  <2>3. /\ r \in Monitor /\ r.seen = n.seen /\ r.sources = n.sources /\ r.selection = n.selection
        /\ r.alerts = n.alerts /\ r.enabled = n.enabled /\ r.pending = n.pending
        /\ r.dirty = n.dirty
    BY <1>1, <2>1, <2>2 DEF Monitor
  <2>4. QED
    BY <1>q, <2>2, <2>3 DEF Relents, Same, r
<1>3. CASE g # NoGroup
  <2> DEFINE k == IF Foreign(m, g) \/ (m.selection = {} /\ ~m.configured /\ m.enabled)
                  THEN Dropped(m) ELSE m
             sync == IF changed THEN NoSync ELSE k.sync
             pending == IF changed THEN {} ELSE k.pending
             l == [k EXCEPT !.sync = sync, !.pending = pending, !.group = g, !.dirty = TRUE]
             n == IF changed \/ Foreign(m, g) THEN l ELSE m
  <2>1. r = [n EXCEPT !.configured = TRUE]
    BY <1>3 DEF AlignedInPoll
  <2>2. /\ k \in Monitor /\ k.seen = m.seen /\ k.sources = m.sources
        /\ k.selection = {} \/ (k.selection = m.selection /\ ~ Foreign(m, g))
        /\ k.pending = m.pending
        /\ k.alerts = <<>> \/ (k.alerts = m.alerts /\ k.enabled = m.enabled)
    BY QuietRelents
  <2> HIDE DEF k
  <2>3. sync \in [Desktop -> BOOLEAN] /\ pending \in SUBSET Desktop /\ pending \subseteq m.pending
    BY <1>1, <2>2 DEF Monitor
  <2> HIDE DEF sync, pending
  <2>4. /\ l \in Monitor /\ l.seen = k.seen /\ l.sources = k.sources /\ l.selection = k.selection
        /\ l.alerts = k.alerts /\ l.enabled = k.enabled /\ l.pending = pending /\ l.dirty
    BY <2>2, <2>3 DEF Monitor
  <2> HIDE DEF l
  <2>5. n = l \/ (n = m /\ ~ Foreign(m, g))
    OBVIOUS
  <2> HIDE DEF n, r
  <2>6. n \in Monitor
    BY <2>4, <2>5
  <2>7. /\ r \in Monitor /\ r.seen = n.seen /\ r.sources = n.sources /\ r.selection = n.selection
        /\ r.alerts = n.alerts /\ r.enabled = n.enabled /\ r.pending = n.pending
        /\ r.dirty = n.dirty
    BY <2>1, <2>6 DEF Monitor
  <2>8. ~ Foreign(m, g) => \A s \in m.selection : s.group = g
    BY DEF Foreign
  <2>9. CASE n = l
    BY <2>2, <2>3, <2>4, <2>7, <2>8, <2>9 DEF Relents, r
  <2>10. CASE n = m /\ ~ Foreign(m, g)
    BY <1>q, <2>7, <2>8, <2>10 DEF Relents, Same, r
  <2>11. QED
    BY <2>5, <2>9, <2>10
<1>4. QED
  BY <1>2, <1>3

(* A declaration of one's own comes after the one it replaces.             *)
LEMMA DeclaredFollows ==
  ASSUME NEW d \in Desktop, NEW m \in Monitor, NEW on \in BOOLEAN, NEW o \in Nat,
         NEW g \in Group, m.dirty
  PROVE  \E s \in Declaration :
           LET r == Declared(d, m, on, o, g)
           IN /\ r \in Monitor /\ r.dirty /\ r.selection = {s}
              /\ s.operation = o /\ s.group = g
              /\ \A c \in m.selection : c.counter < s.counter
              /\ r.seen = m.seen /\ r.sources = m.sources /\ r.alerts = <<>>
<1> DEFINE s == [device |-> d, counter |-> Counter(m) + 1, operation |-> o,
                 on |-> on, group |-> g]
           r == Declared(d, m, on, o, g)
           pending == IF on THEN Baseline(d, m) ELSE m.pending
<1>1. Counter(m) \in Nat /\ \A c \in m.selection : c.counter = Counter(m)
  <2>1. m.selection \in Selection
    BY DEF Monitor
  <2>2. CASE m.selection = {}
    BY <2>2 DEF Counter
  <2>3. CASE m.selection # {}
    <3>1. PICK c \in Declaration : m.selection = {c}
      BY <2>1, <2>3 DEF Selection
    <3>2. Counter(m) = c.counter
      BY <3>1 DEF Counter
    <3>3. QED
      BY <3>1, <3>2 DEF Declaration
  <2>4. QED
    BY <2>2, <2>3
<1>2. s \in Declaration /\ s.operation = o /\ s.group = g /\ s.counter = Counter(m) + 1
  BY <1>1 DEF Declaration
<1>3. pending \in SUBSET Desktop
  BY DEF Baseline, Monitor
<1>4. r = [m EXCEPT !.selection = {s}, !.enabled = on, !.alerts = <<>>, !.pending = pending]
  BY DEF Declared
<1> HIDE DEF s, r, pending
<1>5. {s} \in Selection /\ <<>> \in Seq(Alert)
  BY <1>2, EmptySeq DEF Selection
<1>6. /\ r \in Monitor /\ r.dirty = m.dirty /\ r.selection = {s} /\ r.seen = m.seen
      /\ r.sources = m.sources /\ r.alerts = <<>>
  BY <1>3, <1>4, <1>5 DEF Monitor
<1>7. \A c \in m.selection : c.counter < s.counter
  BY <1>1, <1>2
<1>8. QED
  BY <1>2, <1>6, <1>7 DEF r

-----------------------------------------------------------------------------
(* The steps of the loop before the feeds of the others *)

(* A loop that rests has read nothing.                                     *)
LEMMA NoPollType ==
  /\ NoPoll \in Poll /\ NoPoll.phase = "rest" /\ NoPoll.got = <<>> /\ NoPoll.todo = {}
  /\ Offered(<<>>) = {}
<1>1. <<>> \in Seq(Event) /\ <<>> \in Seq(Reply) /\ Len(<<>>) = 0
  BY EmptySeq
<1>2. {} \in Batch
  BY DEF Batch
<1>3. QED
  BY <1>1, <1>2 DEF NoPoll, Poll, Offered

(* A feed is one that can be read.                                         *)
LEMMA FeedType ==
  ASSUME ReceiverTypeOK, NEW d \in Desktop
  PROVE  Feed(d) \in Batch
BY DEF Feed, Batch, ReceiverTypeOK

(* The steps that drain the spool touch no monitor.                        *)
Drains(d) == WakeUp(d) \/ Ingest(d) \/ PruneTable(d) \/ RemoveFile(d)

(* What they change is the loop, the spool and the table of one desktop.   *)
LEMMA DrainsKeeps ==
  ASSUME ReceiverTypeOK, NEW d \in Desktop, Drains(d)
  PROVE  /\ ReceiverTypeOK' /\ OnlyOf(d)
         /\ UNCHANGED <<monitor, stored, token, spent, heard, silent>>
         /\ poll'[d].phase # "peers"
         /\ \/ poll'[d].got = <<>> /\ poll'[d].todo = {}
            \/ poll'[d].got = poll[d].got /\ poll'[d].todo = poll[d].todo
<1>0. /\ poll \in [Desktop -> Poll] /\ spool \in [Desktop -> Seq(Event)]
      /\ table \in [Desktop -> Events] /\ trouble \in [faults : Nat, restarts : Nat]
      /\ poll[d].phase \in {"prune", "remove"} => poll[d].files # <<>>
  BY DEF ReceiverTypeOK
<1> DEFINE Files(p) == p.phase \in {"prune", "remove"} => p.files # <<>>
           Goal == /\ poll' \in [Desktop -> Poll] /\ spool' \in [Desktop -> Seq(Event)]
                   /\ table' \in [Desktop -> Events] /\ trouble' \in [faults : Nat, restarts : Nat]
                   /\ \A e \in Desktop \ {d} : poll'[e] = poll[e]
                   /\ Files(poll'[d]) /\ poll'[d].phase # "peers"
                   /\ \/ poll'[d].got = <<>> /\ poll'[d].todo = {}
                      \/ poll'[d].got = poll[d].got /\ poll'[d].todo = poll[d].todo
<1>f. ASSUME Fault PROVE trouble' \in [faults : Nat, restarts : Nat]
  <2>1. trouble \in [faults : Nat, restarts : Nat]
    BY <1>0
  <2>2. QED
    BY <1>f, <2>1 DEF Fault
<1>p. ASSUME NEW phase \in {"drain", "prune", "remove"}, NEW files \in Seq(Event),
             poll' = [poll EXCEPT ![d] = [poll[d] EXCEPT !.phase = phase, !.files = files]],
             phase \in {"prune", "remove"} => files # <<>>
      PROVE  /\ poll' \in [Desktop -> Poll] /\ \A e \in Desktop \ {d} : poll'[e] = poll[e]
             /\ Files(poll'[d]) /\ poll'[d].phase # "peers"
             /\ poll'[d].got = poll[d].got /\ poll'[d].todo = poll[d].todo
  <2> DEFINE q == [poll[d] EXCEPT !.phase = phase, !.files = files]
  <2>1. poll[d] \in Poll
    BY <1>0
  <2>2. /\ q \in Poll /\ q.phase = phase /\ q.files = files /\ q.got = poll[d].got
        /\ q.todo = poll[d].todo
    BY <2>1 DEF Poll
  <2> HIDE DEF q
  <2>3. poll' = [poll EXCEPT ![d] = q]
    BY <1>p DEF q
  <2>4. /\ poll' \in [Desktop -> Poll] /\ \A e \in Desktop \ {d} : poll'[e] = poll[e]
        /\ poll'[d] = q
    BY <1>0, <2>2, <2>3
  <2>5. QED
    BY <1>p, <2>2, <2>4
<1>q. poll[d].files \in Seq(Event) /\ <<>> \in Seq(Event)
      /\ (poll[d].files # <<>> => /\ Tail(poll[d].files) \in Seq(Event)
                                  /\ Head(poll[d].files) \in Event)
  <2>1. poll[d].files \in Seq(Event)
    BY <1>0 DEF Poll
  <2>2. QED
    BY <2>1, EmptySeq, HeadTailProperties
<1>1. CASE WakeUp(d)
  <2>1. [NoPoll EXCEPT !.phase = "drain", !.files = spool[d]] \in Poll
    BY <1>0, NoPollType DEF Poll
  <2>2. /\ poll' \in [Desktop -> Poll] /\ \A e \in Desktop \ {d} : poll'[e] = poll[e]
        /\ poll'[d] = [NoPoll EXCEPT !.phase = "drain", !.files = spool[d]]
    BY <1>0, <1>1, <2>1 DEF WakeUp
  <2>3. poll'[d].phase = "drain" /\ poll'[d].got = <<>> /\ poll'[d].todo = {}
    BY <2>2 DEF NoPoll
  <2>4. QED
    BY <1>0, <1>1, <2>2, <2>3 DEF WakeUp, OnlyOf, feeds, ReceiverTypeOK
<1>2. CASE Ingest(d)
  <2> DEFINE e == Head(poll[d].files)
  <2>1. /\ poll[d].phase = "drain" /\ poll[d].files # <<>> /\ e \in Event
        /\ Tail(poll[d].files) \in Seq(Event)
        /\ UNCHANGED <<monitor, stored, token, spool, spent, heard, silent>>
    BY <1>2, <1>q DEF Ingest
  <2>2. CASE poll' = [poll EXCEPT ![d].files = Tail(@)] /\ UNCHANGED <<table, trouble>>
    <3>1. poll' = [poll EXCEPT ![d] = [poll[d] EXCEPT !.phase = "drain",
                                                      !.files = Tail(poll[d].files)]]
      BY <1>0, <2>1, <2>2 DEF Poll
    <3>2. Goal
      BY <1>0, <1>p, <2>1, <2>2, <3>1
    <3>3. QED
      BY <2>1, <3>2 DEF OnlyOf, ReceiverTypeOK
  <2>3. CASE poll' = [poll EXCEPT ![d].phase = "remove"] /\ UNCHANGED <<table, trouble>>
    <3>1. poll' = [poll EXCEPT ![d] = [poll[d] EXCEPT !.phase = "remove",
                                                      !.files = poll[d].files]]
      BY <1>0, <2>1, <2>3 DEF Poll
    <3>2. Goal
      BY <1>0, <1>p, <1>q, <2>1, <2>3, <3>1
    <3>3. QED
      BY <2>1, <3>2 DEF OnlyOf, ReceiverTypeOK
  <2>4. CASE /\ e \notin Range(table[d]) /\ table' = [table EXCEPT ![d] = Append(@, e)]
             /\ poll' = [poll EXCEPT ![d].phase = "prune"] /\ UNCHANGED trouble
    <3>1. poll' = [poll EXCEPT ![d] = [poll[d] EXCEPT !.phase = "prune",
                                                      !.files = poll[d].files]]
      BY <1>0, <2>1, <2>4 DEF Poll
    <3>2. Append(table[d], e) \in Events
      <4>1. table[d] \in Seq(Event) /\ Distinct(table[d])
        BY <1>0 DEF Events
      <4>2. Append(table[d], e) \in Seq(Event) /\ Distinct(Append(table[d], e))
        BY <2>1, <2>4, <4>1, AppendLast
      <4>3. QED
        BY <4>2 DEF Events
    <3>3. table' \in [Desktop -> Events]
      <4> HIDE DEF e
      <4>1. QED
        BY <1>0, <2>4, <3>2
    <3>4. Goal
      BY <1>0, <1>p, <1>q, <2>1, <2>4, <3>1, <3>3
    <3>5. QED
      BY <2>1, <3>4 DEF OnlyOf, ReceiverTypeOK
  <2>5. CASE Fault /\ poll' = [poll EXCEPT ![d].files = <<>>] /\ UNCHANGED table
    <3>1. poll' = [poll EXCEPT ![d] = [poll[d] EXCEPT !.phase = "drain", !.files = <<>>]]
      BY <1>0, <2>1, <2>5 DEF Poll
    <3>2. Goal
      BY <1>0, <1>f, <1>p, <1>q, <2>1, <2>5, <3>1
    <3>3. QED
      BY <2>1, <3>2 DEF OnlyOf, ReceiverTypeOK
  <2>6. QED
    BY <1>2, <2>2, <2>3, <2>4, <2>5 DEF Ingest
<1>3. CASE PruneTable(d)
  <2>1. /\ poll[d].phase = "prune" /\ poll[d].files # <<>>
        /\ UNCHANGED <<monitor, stored, token, spool, spent, heard, silent>>
    BY <1>0, <1>3 DEF PruneTable
  <2>2. CASE /\ table' = [table EXCEPT ![d] = NewestEvents(@)]
             /\ poll' = [poll EXCEPT ![d].phase = "remove"] /\ UNCHANGED trouble
    <3>1. poll' = [poll EXCEPT ![d] = [poll[d] EXCEPT !.phase = "remove",
                                                      !.files = poll[d].files]]
      BY <1>0, <2>1, <2>2 DEF Poll
    <3>2. NewestEvents(table[d]) \in Events
      <4> DEFINE t == table[d]
                 x == Len(t) - MaxEvents + 1
      <4>1. t \in Seq(Event) /\ Distinct(t) /\ Len(t) \in Nat /\ MaxEvents \in Nat
        BY <1>0, LenProperties, ReceiverAssumption DEF Events
      <4>2. Max({1, x}) \in 1 .. Len(t) + 1
        <5>1. \E y \in {1, x} : \A z \in {1, x} : y >= z
          BY <4>1
        <5>2. Max({1, x}) \in {1, x} /\ Max({1, x}) >= 1
          BY <5>1 DEF Max
        <5>3. QED
          BY <4>1, <5>2
      <4> HIDE DEF t
      <4>3. NewestEvents(t) = SubSeq(t, Max({1, x}), Len(t))
        BY DEF NewestEvents
      <4> HIDE DEF x
      <4>4. NewestEvents(t) \in Seq(Event) /\ Distinct(NewestEvents(t))
        BY <4>1, <4>2, <4>3, EndKeeps
      <4>5. QED
        BY <4>4 DEF Events, t
    <3>3. table' \in [Desktop -> Events]
      BY <1>0, <2>2, <3>2
    <3>4. Goal
      BY <1>0, <1>p, <1>q, <2>1, <2>2, <3>1, <3>3
    <3>5. QED
      BY <2>1, <3>4 DEF OnlyOf, ReceiverTypeOK
  <2>3. CASE /\ Fault /\ UNCHANGED table
             /\ poll' = [poll EXCEPT ![d].phase = "drain", ![d].files = <<>>]
    <3>1. poll' = [poll EXCEPT ![d] = [poll[d] EXCEPT !.phase = "drain", !.files = <<>>]]
      BY <1>0, <2>1, <2>3 DEF Poll
    <3>2. Goal
      BY <1>0, <1>f, <1>p, <1>q, <2>1, <2>3, <3>1
    <3>3. QED
      BY <2>1, <3>2 DEF OnlyOf, ReceiverTypeOK
  <2>4. QED
    BY <1>3, <2>2, <2>3 DEF PruneTable
<1>4. CASE RemoveFile(d)
  <2> DEFINE e == Head(poll[d].files)
  <2>1. /\ poll[d].phase = "remove" /\ poll[d].files # <<>>
        /\ Tail(poll[d].files) \in Seq(Event)
        /\ UNCHANGED <<monitor, stored, token, table, spent, heard, silent>>
    BY <1>0, <1>4, <1>q DEF RemoveFile
  <2>2. CASE /\ spool' = [spool EXCEPT ![d] = Without(@, {e})]
             /\ poll' = [poll EXCEPT ![d].phase = "drain", ![d].files = Tail(@)]
             /\ UNCHANGED trouble
    <3>1. poll' = [poll EXCEPT ![d] = [poll[d] EXCEPT !.phase = "drain",
                                                      !.files = Tail(poll[d].files)]]
      BY <1>0, <2>1, <2>2 DEF Poll
    <3>2. Without(spool[d], {e}) \in Seq(Event)
      BY <1>0, WithoutLeaves
    <3>3. spool' \in [Desktop -> Seq(Event)]
      <4> HIDE DEF e
      <4>1. QED
        BY <1>0, <2>2, <3>2
    <3>4. Goal
      BY <1>0, <1>p, <2>1, <2>2, <3>1, <3>3
    <3>5. QED
      BY <2>1, <3>4 DEF OnlyOf, ReceiverTypeOK
  <2>3. CASE /\ UNCHANGED spool /\ (UNCHANGED trouble \/ Fault)
             /\ poll' = [poll EXCEPT ![d].phase = "drain", ![d].files = <<>>]
    <3>1. poll' = [poll EXCEPT ![d] = [poll[d] EXCEPT !.phase = "drain", !.files = <<>>]]
      BY <1>0, <2>1, <2>3 DEF Poll
    <3>2. Goal
      BY <1>0, <1>f, <1>p, <1>q, <2>1, <2>3, <3>1
    <3>3. QED
      BY <2>1, <3>2 DEF OnlyOf, ReceiverTypeOK
  <2>4. QED
    BY <1>4, <2>2, <2>3 DEF RemoveFile
<1>5. QED
  BY <1>1, <1>2, <1>3, <1>4 DEF Drains

(* A hook leaves a file.                                                   *)
LEMMA HookKeeps ==
  ASSUME ReceiverTypeOK, NEW e \in Event, Hook(e)
  PROVE  /\ ReceiverTypeOK' /\ spent \subseteq spent'
         /\ UNCHANGED <<monitor, stored, token, poll, heard, silent>>
<1> DEFINE d == At[e]
           room == IF Len(spool[d]) >= SpoolMax THEN Tail(spool[d]) ELSE spool[d]
<1>1. d \in Desktop /\ SpoolMax \in Nat /\ SpoolMax > 0
  BY ReceiverAssumption
<1>2. spool \in [Desktop -> Seq(Event)] /\ spool[d] \in Seq(Event) /\ Len(spool[d]) \in Nat
  <2>1. spool \in [Desktop -> Seq(Event)] /\ spool[d] \in Seq(Event)
    BY <1>1 DEF ReceiverTypeOK
  <2>2. QED
    BY <2>1, LenProperties
<1>3. room \in Seq(Event)
  <2>1. CASE Len(spool[d]) >= SpoolMax
    <3>1. spool[d] # <<>>
      BY <1>1, <1>2, <2>1, EmptySeq
    <3>2. QED
      BY <1>2, <2>1, <3>1, HeadTailProperties
  <2>2. CASE ~ (Len(spool[d]) >= SpoolMax)
    BY <1>2, <2>2
  <2>3. QED
    BY <2>1, <2>2
<1>4. spool' = [spool EXCEPT ![d] = Append(room, e)]
  BY DEF Hook
<1> HIDE DEF room, d
<1>5. Append(room, e) \in Seq(Event)
  BY <1>3, AppendProperties
<1>6. spool' \in [Desktop -> Seq(Event)]
  BY <1>2, <1>4, <1>5
<1>7. QED
  BY <1>6 DEF Hook, ReceiverTypeOK

(* The feed of another desktop is read, and what it declares.              *)
LEMMA ReadPeerKeeps ==
  ASSUME ReceiverTypeOK, NEW d \in Desktop, NEW p \in Desktop, ReadPeer(d, p)
  PROVE  /\ ReceiverTypeOK' /\ OnlyOf(d)
         /\ UNCHANGED <<monitor, stored, token, spent, heard, silent>>
         /\ poll[d].phase = "peers" /\ p \in poll[d].todo
         /\ poll'[d].todo = poll[d].todo \ {p}
         /\ \E r \in Reply :
              /\ r.from = p /\ r.selection \subseteq monitor[p].selection
              /\ poll'[d].got = Append(poll[d].got, r)
<1>0. /\ poll \in [Desktop -> Poll] /\ monitor \in [Desktop -> Monitor]
      /\ trouble \in [faults : Nat, restarts : Nat]
      /\ \A e \in Desktop : poll[e].phase \in {"prune", "remove"} => poll[e].files # <<>>
  BY DEF ReceiverTypeOK
<1> DEFINE says == NoGroup \notin {token[d], token[p]}
<1>1. PICK feed \in {Feed(p), {}}, said \in {says, FALSE} :
        /\ IF feed = Feed(p) /\ said = says THEN UNCHANGED trouble ELSE Fault
        /\ poll' = [poll EXCEPT
                      ![d].todo = @ \ {p},
                      ![d].got = Append(@, [from |-> p, feed |-> feed, said |-> said,
                                            selection |-> IF said THEN Published(p, token[p])
                                                          ELSE {}])]
  BY DEF ReadPeer
<1>2. /\ poll[d].phase = "peers" /\ p \in poll[d].todo
      /\ UNCHANGED <<monitor, stored, token, feeds, spent, heard, silent>>
  BY DEF ReadPeer
<1> DEFINE S == IF said THEN Published(p, token[p]) ELSE {}
           r == [from |-> p, feed |-> feed, said |-> said, selection |-> S]
<1>3. S \in Selection /\ S \subseteq monitor[p].selection
  <2>1. monitor[p].selection \in Selection
    BY <1>0 DEF Monitor
  <2>2. QED
    BY <2>1 DEF Selection, Published
<1>4. feed \in Batch /\ said \in BOOLEAN
  <2>1. {} \in Batch
    BY DEF Batch
  <2>2. feed = Feed(p) \/ feed = {}
    OBVIOUS
  <2>3. feed \in Batch
    BY <2>1, <2>2, FeedType
  <2>4. QED
    BY <2>3
<1> HIDE DEF S, says
<1>5. r \in Reply /\ r.from = p /\ r.selection = S
  BY <1>3, <1>4 DEF Reply
<1>6. poll' = [poll EXCEPT ![d] = [poll[d] EXCEPT !.todo = poll[d].todo \ {p},
                                                  !.got = Append(poll[d].got, r)]]
  BY <1>0, <1>1 DEF S, Poll
<1>7. trouble' \in [faults : Nat, restarts : Nat]
  <2>1. UNCHANGED trouble \/ Fault
    BY <1>1
  <2>2. QED
    BY <1>0, <2>1 DEF Fault
<1> HIDE DEF r
<1>8. Append(poll[d].got, r) \in Seq(Reply)
  <2>1. poll[d].got \in Seq(Reply)
    BY <1>0 DEF Poll
  <2>2. QED
    BY <1>5, <2>1, AppendProperties
<1>9. /\ poll' \in [Desktop -> Poll] /\ \A e \in Desktop \ {d} : poll'[e] = poll[e]
      /\ poll'[d].phase = "peers" /\ poll'[d].todo = poll[d].todo \ {p}
      /\ poll'[d].got = Append(poll[d].got, r)
  <2> DEFINE q == [poll[d] EXCEPT !.todo = poll[d].todo \ {p}, !.got = Append(poll[d].got, r)]
  <2>1. poll[d] \in Poll
    BY <1>0
  <2>2. /\ q \in Poll /\ q.phase = poll[d].phase /\ q.todo = poll[d].todo \ {p}
        /\ q.got = Append(poll[d].got, r)
    BY <1>8, <2>1 DEF Poll
  <2> HIDE DEF q
  <2>3. poll' = [poll EXCEPT ![d] = q]
    BY <1>6 DEF q
  <2>4. QED
    BY <1>0, <1>2, <2>2, <2>3
<1>10. \A e \in Desktop : poll'[e].phase \in {"prune", "remove"} => poll'[e].files # <<>>
  BY <1>0, <1>9
<1>11. ReceiverTypeOK'
  BY <1>2, <1>7, <1>9, <1>10 DEF ReceiverTypeOK, feeds
<1>12. QED
  BY <1>2, <1>3, <1>5, <1>9, <1>11 DEF OnlyOf

-----------------------------------------------------------------------------
(* The steps that give something up *)

(* What remains of the selections, where the history forgets with them.    *)
LEMMA ForgetKeeps ==
  ASSUME ReceiverInv, NEW d \in Desktop,
         heard' = [heard EXCEPT ![d] = IF monitor'[d].selection = {} THEN NothingHeard ELSE @],
         \/ monitor'[d].selection = monitor[d].selection
         \/ monitor'[d].selection = stored[d].selection
         \/ monitor'[d].selection = {},
         \/ stored'[d].selection = stored[d].selection
         \/ stored'[d].selection = monitor'[d].selection,
         \A e \in Desktop \ {d} : token'[e] = token[e],
         poll'[d].got = <<>> \/ poll'[d].got = poll[d].got,
         poll'[d].phase = "peers" => \A s \in monitor'[d].selection : s.group = token'[d]
  PROVE  /\ heard' \in [Desktop -> [Desktop -> SUBSET Declaration]]
         /\ \A e \in Desktop \ {d} : heard'[e] = heard[e]
         /\ IsHeedful(d)' /\ KnownOf(d)' \subseteq Known
<1>1. /\ heard \in [Desktop -> [Desktop -> SUBSET Declaration]]
      /\ IsHeedful(d)
  BY DEF ReceiverInv, ReceiverTypeOK
<1>2. NothingHeard \in [Desktop -> SUBSET Declaration] /\ \A p \in Desktop : NothingHeard[p] = {}
  BY DEF NothingHeard
<1> HIDE DEF NothingHeard
<1>3. /\ heard' \in [Desktop -> [Desktop -> SUBSET Declaration]]
      /\ \A e \in Desktop \ {d} : heard'[e] = heard[e]
      /\ heard'[d] = IF monitor'[d].selection = {} THEN NothingHeard ELSE heard[d]
  BY <1>1, <1>2
<1>4. \A p \in Desktop : /\ heard'[d][p] \subseteq heard[d][p]
                         /\ monitor'[d].selection = {} => heard'[d][p] = {}
  BY <1>2, <1>3
<1>5. Heeds(d, monitor'[d].selection) /\ Heeds(d, stored'[d].selection)
  BY <1>1 DEF IsHeedful, Heeds
<1>6. IsHeedful(d)'
  BY <1>4, <1>5 DEF IsHeedful, Heeds
<1>7. KnownOf(d)' \subseteq KnownOf(d)
  <2>1. Offered(poll'[d].got) \subseteq Offered(poll[d].got)
    BY NoPollType
  <2>2. QED
    BY <1>4, <2>1 DEF KnownOf
<1>8. KnownOf(d) \subseteq Known
  BY DEF Known, KnownOf
<1>9. QED
  BY <1>3, <1>6, <1>7, <1>8

(* The loop reads its own feed, in line with the token.                    *)
LEMMA ReadLocalKeeps ==
  ASSUME ReceiverInv, NEW d \in Desktop, ReadLocal(d)
  PROVE  /\ ReceiverInv' /\ OnlyOf(d)
         /\ UNCHANGED <<stored, silent>>
         /\ Relents(monitor[d], monitor'[d])
         /\ poll'[d].got = <<>> /\ d \notin poll'[d].todo
<1> DEFINE m == AlignedInPoll(monitor[d], token[d])
           q == [NoPoll EXCEPT !.phase = "peers", !.local = Feed(d), !.todo = Desktop \ {d}]
<1>0. /\ ReceiverTypeOK /\ monitor \in [Desktop -> Monitor] /\ poll \in [Desktop -> Poll]
      /\ token[d] \in Group \cup {NoGroup}
      /\ \A e \in Desktop : poll[e].phase \in {"prune", "remove"} => poll[e].files # <<>>
      /\ IsWritten(monitor[d], stored[d])
  BY DEF ReceiverInv, ReceiverTypeOK
<1>1. Relents(monitor[d], m) /\ \A s \in m.selection : s.group = token[d]
  BY <1>0, AlignedInPollRelents
<1>2. q \in Poll /\ q.phase = "peers" /\ q.got = <<>> /\ d \notin q.todo
  BY <1>0, NoPollType, FeedType DEF Poll
<1> HIDE DEF m, q
<1>3. m \in Monitor
  BY <1>1 DEF Relents
<1>4. /\ poll' = [poll EXCEPT ![d] = q] /\ monitor' = [monitor EXCEPT ![d] = m] /\ Forget(d)
      /\ UNCHANGED <<stored, token, feeds, spent, silent, trouble>>
  BY DEF ReadLocal, m, q
<1>5. /\ monitor' \in [Desktop -> Monitor] /\ monitor'[d] = m
      /\ \A e \in Desktop \ {d} : monitor'[e] = monitor[e]
  BY <1>0, <1>3, <1>4
<1>6. /\ poll' \in [Desktop -> Poll] /\ poll'[d] = q
      /\ \A e \in Desktop \ {d} : poll'[e] = poll[e]
      /\ \A e \in Desktop : poll'[e].phase \in {"prune", "remove"} => poll'[e].files # <<>>
  BY <1>0, <1>2, <1>4
<1>7. m.selection = monitor[d].selection \/ m.selection = {}
  BY <1>1 DEF Relents
<1>8. /\ heard' \in [Desktop -> [Desktop -> SUBSET Declaration]]
      /\ \A e \in Desktop \ {d} : heard'[e] = heard[e]
      /\ IsHeedful(d)' /\ KnownOf(d)' \subseteq Known
  <2>1. heard' = [heard EXCEPT ![d] = IF monitor'[d].selection = {} THEN NothingHeard ELSE @]
    BY <1>4 DEF Forget
  <2>2. \/ monitor'[d].selection = monitor[d].selection
        \/ monitor'[d].selection = stored[d].selection
        \/ monitor'[d].selection = {}
    BY <1>5, <1>7
  <2>3. \/ stored'[d].selection = stored[d].selection
        \/ stored'[d].selection = monitor'[d].selection
    BY <1>4
  <2>4. \A e \in Desktop \ {d} : token'[e] = token[e]
    BY <1>4
  <2>5. poll'[d].got = <<>> \/ poll'[d].got = poll[d].got
    BY <1>2, <1>6
  <2>6. poll'[d].phase = "peers" => \A s \in monitor'[d].selection : s.group = token'[d]
    BY <1>1, <1>4, <1>5
  <2>7. QED
    BY <2>1, <2>2, <2>3, <2>4, <2>5, <2>6, ForgetKeeps
<1>9. IsWritten(monitor[d], stored[d])'
  BY <1>0, <1>1, <1>4, <1>5 DEF IsWritten, Relents, Same
<1>10. ReceiverTypeOK'
  BY <1>0, <1>4, <1>5, <1>6, <1>8 DEF ReceiverTypeOK, feeds
<1>11. OnlyOf(d) /\ spent \subseteq spent'
  BY <1>4, <1>5, <1>6, <1>8 DEF OnlyOf
<1>12. ReceiverInv'
  BY <1>8, <1>9, <1>10, <1>11, NothingDeclared
<1>13. QED
  BY <1>1, <1>2, <1>4, <1>5, <1>6, <1>11, <1>12

(* A restart reads what was written.                                       *)
LEMMA StartAgainKeeps ==
  ASSUME ReceiverInv, NEW d \in Desktop, StartAgain(d)
  PROVE  /\ ReceiverInv' /\ OnlyOf(d)
         /\ UNCHANGED <<stored, silent>>
         /\ monitor'[d] = stored[d]
         /\ poll'[d].got = <<>> /\ d \notin poll'[d].todo
<1>0. /\ ReceiverTypeOK /\ monitor \in [Desktop -> Monitor] /\ poll \in [Desktop -> Poll]
      /\ stored \in [Desktop -> Monitor] /\ token \in [Desktop -> Group \cup {NoGroup}]
      /\ trouble \in [faults : Nat, restarts : Nat]
      /\ \A e \in Desktop : poll[e].phase \in {"prune", "remove"} => poll[e].files # <<>>
  BY DEF ReceiverInv, ReceiverTypeOK
<1>1. PICK t \in NextTokens \cup {token[d]} : token' = [token EXCEPT ![d] = t]
  BY DEF StartAgain
<1>2. /\ monitor' = [monitor EXCEPT ![d] = stored[d]] /\ poll' = [poll EXCEPT ![d] = NoPoll]
      /\ heard' = [heard EXCEPT ![d] = IF stored[d].selection = {} THEN NothingHeard ELSE @]
      /\ trouble' = [trouble EXCEPT !.restarts = @ + 1]
      /\ UNCHANGED <<stored, feeds, spent, silent>>
  BY DEF StartAgain
<1>3. /\ token' \in [Desktop -> Group \cup {NoGroup}]
      /\ \A e \in Desktop \ {d} : token'[e] = token[e]
  BY <1>0, <1>1, ReceiverAssumption
<1>4. trouble' \in [faults : Nat, restarts : Nat]
  BY <1>0, <1>2
<1>5. /\ monitor' \in [Desktop -> Monitor] /\ monitor'[d] = stored[d]
      /\ \A e \in Desktop \ {d} : monitor'[e] = monitor[e]
  BY <1>0, <1>2
<1>6. /\ poll' \in [Desktop -> Poll] /\ poll'[d] = NoPoll
      /\ \A e \in Desktop \ {d} : poll'[e] = poll[e]
      /\ \A e \in Desktop : poll'[e].phase \in {"prune", "remove"} => poll'[e].files # <<>>
  BY <1>0, <1>2, NoPollType
<1>8. /\ heard' \in [Desktop -> [Desktop -> SUBSET Declaration]]
      /\ \A e \in Desktop \ {d} : heard'[e] = heard[e]
      /\ IsHeedful(d)' /\ KnownOf(d)' \subseteq Known
  <2>1. heard' = [heard EXCEPT ![d] = IF monitor'[d].selection = {} THEN NothingHeard ELSE @]
    BY <1>2, <1>5
  <2>2. \/ monitor'[d].selection = monitor[d].selection
        \/ monitor'[d].selection = stored[d].selection
        \/ monitor'[d].selection = {}
    BY <1>5
  <2>3. \/ stored'[d].selection = stored[d].selection
        \/ stored'[d].selection = monitor'[d].selection
    BY <1>2
  <2>5. poll'[d].got = <<>> \/ poll'[d].got = poll[d].got
    BY <1>6, NoPollType
  <2>6. poll'[d].phase = "peers" => \A s \in monitor'[d].selection : s.group = token'[d]
    BY <1>6, NoPollType
  <2>7. QED
    BY <1>3, <2>1, <2>2, <2>3, <2>5, <2>6, ForgetKeeps
<1>9. IsWritten(monitor[d], stored[d])'
  BY <1>2, <1>5 DEF IsWritten, Same
<1>10. ReceiverTypeOK'
  BY <1>0, <1>2, <1>3, <1>4, <1>5, <1>6, <1>8 DEF ReceiverTypeOK, feeds
<1>11. OnlyOf(d) /\ spent \subseteq spent'
  BY <1>2, <1>3, <1>5, <1>6, <1>8 DEF OnlyOf
<1>12. ReceiverInv'
  BY <1>8, <1>9, <1>10, <1>11, NothingDeclared
<1>13. QED
  BY <1>2, <1>5, <1>6, <1>11, <1>12, NoPollType

(* What a failed or successful save of such a state makes of the monitor.  *)
Yields(m, r) ==
  /\ r.seen = m.seen /\ r.sources = m.sources
  /\ \/ r.alerts = <<>>
     \/ r.alerts = m.alerts /\ r.enabled = m.enabled /\ r.pending \subseteq m.pending

(* Saving gives up no more than what is saved.                             *)
LEMMA SavedRelents ==
  ASSUME NEW m, NEW r, NEW n, Relents(m, r), Same(n, r)
  PROVE  Yields(m, n) /\ (n.selection = m.selection \/ n.selection = {})
BY DEF Relents, Same, Yields

(* The page is opened.                                                     *)
LEMMA OverviewKeeps ==
  ASSUME ReceiverInv, NEW d \in Desktop, Overview(d)
  PROVE  /\ ReceiverInv' /\ OnlyOf(d)
         /\ UNCHANGED <<silent, poll>>
         /\ Yields(monitor[d], monitor'[d])
         /\ Yields(monitor[d], stored'[d]) \/ stored'[d] = stored[d]
<1> DEFINE m == Aligned(monitor[d], token[d])
<1>0. /\ ReceiverTypeOK /\ monitor[d] \in Monitor /\ token[d] \in Group \cup {NoGroup}
      /\ IsWritten(monitor[d], stored[d])
      /\ poll[d].phase = "peers" => \A s \in monitor[d].selection : s.group = token[d]
  BY DEF ReceiverInv, ReceiverTypeOK, IsHeedful
<1>1. Relents(monitor[d], m)
  BY <1>0, AlignedRelents
<1> HIDE DEF m
<1>2. m \in Monitor /\ (m.dirty \/ (~ monitor[d].dirty /\ Same(m, monitor[d])))
  BY <1>1 DEF Relents
<1>3. /\ SaveMonitor(d, m, monitor[d]) /\ Forget(d)
      /\ UNCHANGED <<token, poll, feeds, spent, silent>>
  BY DEF Overview, m
<1>4. /\ monitor' \in [Desktop -> Monitor] /\ stored' \in [Desktop -> Monitor]
      /\ trouble' \in [faults : Nat, restarts : Nat]
      /\ \A e \in Desktop \ {d} : monitor'[e] = monitor[e] /\ stored'[e] = stored[e]
      /\ IsWritten(monitor[d], stored[d])'
      /\ \/ IsSaved /\ Same(monitor'[d], m) /\ Same(stored'[d], m)
         \/ ~ IsSaved /\ monitor'[d] = monitor[d] /\ stored' = stored
  <2>1. monitor[d].dirty \/ monitor[d] = monitor[d]
    OBVIOUS
  <2>2. QED
    BY <1>0, <1>2, <1>3, <2>1, SaveKeeps
<1>5. \/ /\ Yields(monitor[d], monitor'[d]) /\ Yields(monitor[d], stored'[d])
         /\ monitor'[d].selection = monitor[d].selection \/ monitor'[d].selection = {}
         /\ stored'[d].selection = monitor'[d].selection
      \/ monitor'[d] = monitor[d] /\ stored' = stored
  <2>1. CASE Same(monitor'[d], m) /\ Same(stored'[d], m)
    <3>1. Yields(monitor[d], monitor'[d])
          /\ (monitor'[d].selection = monitor[d].selection \/ monitor'[d].selection = {})
      BY <1>1, <2>1, SavedRelents
    <3>2. Yields(monitor[d], stored'[d])
      BY <1>1, <2>1, SavedRelents
    <3>3. stored'[d].selection = monitor'[d].selection
      BY <2>1 DEF Same
    <3>4. QED
      BY <3>1, <3>2, <3>3
  <2>2. QED
    BY <1>4, <2>1
<1>6. /\ Yields(monitor[d], monitor'[d])
      /\ Yields(monitor[d], stored'[d]) \/ stored'[d] = stored[d]
  BY <1>5 DEF Yields
<1>7. /\ heard' \in [Desktop -> [Desktop -> SUBSET Declaration]]
      /\ \A e \in Desktop \ {d} : heard'[e] = heard[e]
      /\ IsHeedful(d)' /\ KnownOf(d)' \subseteq Known
  <2>1. heard' = [heard EXCEPT ![d] = IF monitor'[d].selection = {} THEN NothingHeard ELSE @]
    BY <1>3 DEF Forget
  <2>2. \/ monitor'[d].selection = monitor[d].selection
        \/ monitor'[d].selection = stored[d].selection
        \/ monitor'[d].selection = {}
    BY <1>5
  <2>3. \/ stored'[d].selection = stored[d].selection
        \/ stored'[d].selection = monitor'[d].selection
    BY <1>5
  <2>4. \A e \in Desktop \ {d} : token'[e] = token[e]
    BY <1>3
  <2>5. poll'[d].got = <<>> \/ poll'[d].got = poll[d].got
    BY <1>3
  <2>6. poll'[d].phase = "peers" => \A s \in monitor'[d].selection : s.group = token'[d]
    BY <1>0, <1>3, <1>5
  <2>7. QED
    BY <2>1, <2>2, <2>3, <2>4, <2>5, <2>6, ForgetKeeps
<1>8. ReceiverTypeOK'
  BY <1>0, <1>3, <1>4, <1>7 DEF ReceiverTypeOK, feeds
<1>9. OnlyOf(d) /\ spent \subseteq spent'
  BY <1>3, <1>4, <1>7 DEF OnlyOf
<1>10. ReceiverInv'
  BY <1>4, <1>7, <1>8, <1>9, NothingDeclared
<1>11. QED
  BY <1>3, <1>6, <1>9, <1>10

(* An alert is taken, and shown when that could be saved.                  *)
LEMMA TakeAlertKeeps ==
  ASSUME ReceiverInv, NEW d \in Desktop, TakeAlert(d)
  PROVE  /\ ReceiverInv' /\ OnlyOf(d)
         /\ UNCHANGED poll
         /\ LET old == monitor[d]
                m == [old EXCEPT !.alerts = Tail(old.alerts), !.dirty = TRUE]
                a == Head(old.alerts)
            IN /\ old.alerts # <<>> /\ Same(monitor'[d], m)
               /\ \/ /\ silent' = [silent EXCEPT ![d] = silent[d] \cup {Pair(a)}]
                     /\ Same(stored'[d], m)
                  \/ silent' = silent /\ stored' = stored
<1> DEFINE old == monitor[d]
           m == [old EXCEPT !.alerts = Tail(old.alerts), !.dirty = TRUE]
           a == Head(old.alerts)
<1>0. /\ ReceiverTypeOK /\ monitor[d] \in Monitor /\ IsWritten(monitor[d], stored[d])
      /\ silent \in [Desktop -> SUBSET FeedId] /\ IsHeedful(d)
  BY DEF ReceiverInv, ReceiverTypeOK
<1>1. /\ old.alerts # <<>> /\ SaveMonitor(d, m, m)
      /\ silent' = IF IsSaved THEN [silent EXCEPT ![d] = @ \cup {<<a.key, a.event>>}]
                   ELSE silent
      /\ UNCHANGED <<token, poll, feeds, spent, heard>>
  BY DEF TakeAlert
<1>2. old.alerts \in Seq(Alert) /\ a \in Alert /\ Tail(old.alerts) \in Seq(Alert)
  <2>1. old.alerts \in Seq(Alert)
    BY <1>0 DEF Monitor
  <2>2. QED
    BY <1>1, <2>1, HeadTailProperties
<1>3. /\ m \in Monitor /\ m.dirty /\ m.selection = old.selection
  BY <1>0, <1>2 DEF Monitor
<1>4. Pair(a) \in FeedId /\ Pair(a) = <<a.key, a.event>>
  BY <1>2 DEF Pair, FeedId, Alert
<1> HIDE DEF m, a
<1>5. /\ monitor' \in [Desktop -> Monitor] /\ stored' \in [Desktop -> Monitor]
      /\ trouble' \in [faults : Nat, restarts : Nat]
      /\ \A e \in Desktop \ {d} : monitor'[e] = monitor[e] /\ stored'[e] = stored[e]
      /\ IsWritten(monitor[d], stored[d])'
      /\ \/ IsSaved /\ Same(monitor'[d], m) /\ Same(stored'[d], m)
         \/ ~ IsSaved /\ monitor'[d] = m /\ stored' = stored
  BY <1>0, <1>1, <1>3, SaveKeeps
<1>6. /\ silent' \in [Desktop -> SUBSET FeedId]
      /\ \A e \in Desktop \ {d} : silent'[e] = silent[e]
  BY <1>0, <1>1, <1>4
<1>7. /\ Same(monitor'[d], m)
      /\ \/ /\ silent' = [silent EXCEPT ![d] = silent[d] \cup {Pair(a)}]
            /\ Same(stored'[d], m)
         \/ silent' = silent /\ stored' = stored
  BY <1>1, <1>4, <1>5 DEF Same
<1>8. /\ monitor'[d].selection = monitor[d].selection
      /\ \/ stored'[d].selection = stored[d].selection
         \/ stored'[d].selection = monitor[d].selection
  BY <1>3, <1>7 DEF Same
<1>9. IsHeedful(d)' /\ KnownOf(d)' \subseteq KnownOf(d)
  BY <1>0, <1>1, <1>8 DEF IsHeedful, Heeds, KnownOf
<1>10. KnownOf(d)' \subseteq Known
  BY <1>9 DEF Known, KnownOf
<1>11. ReceiverTypeOK'
  BY <1>0, <1>1, <1>5, <1>6 DEF ReceiverTypeOK, feeds
<1>12. OnlyOf(d) /\ spent \subseteq spent'
  BY <1>1, <1>5, <1>6 DEF OnlyOf
<1>13. ReceiverInv'
  BY <1>5, <1>9, <1>10, <1>11, <1>12, NothingDeclared
<1>14. QED
  BY <1>1, <1>7, <1>12, <1>13 DEF m, a

-----------------------------------------------------------------------------
(* The switch of the page *)

(* What gives something up may then fall silent.                           *)
LEMMA QuietAgain ==
  ASSUME NEW m \in Monitor, NEW n, Relents(m, n), n.dirty
  PROVE  Relents(m, Quiet(n)) /\ Quiet(n).selection = n.selection
<1>1. n \in Monitor
  BY DEF Relents
<1>2. QED
  BY <1>1, QuietRelents DEF Relents

(* What the switch makes of the monitor, before it is saved: something is  *)
(* given up, or declared with an operation of its own.                     *)
Switched(d, m, N) ==
  /\ m \in Monitor /\ N \in SUBSET Declaration /\ \A s, t \in N : s = t
  /\ m.dirty \/ (~ monitor[d].dirty /\ Same(m, monitor[d]))
  /\ Yields(monitor[d], m)
  /\ IF token[d] = NoGroup THEN m.selection = {} /\ N = {}
     ELSE \/ /\ N = {}
             /\ m.selection = IF Foreign(monitor[d], token[d]) THEN {} ELSE monitor[d].selection
          \/ /\ m.selection = N /\ N # {}
             /\ \A s \in N :
                  /\ s.group = token[d] /\ s.operation \in spent' \ spent
                  /\ ~ Foreign(monitor[d], token[d]) =>
                       \A c \in monitor[d].selection : c.counter < s.counter

(* The switch is of this kind.                                             *)
LEMMA SwitchIs ==
  ASSUME ReceiverInv, NEW d \in Desktop, NEW on \in BOOLEAN, Receiver(d, on)
  PROVE  \E m, N : /\ Switched(d, m, N) /\ SaveMonitor(d, m, monitor[d])
                   /\ spent \subseteq spent'
<1> DEFINE old == monitor[d]
<1>0. old \in Monitor /\ token[d] \in Group \cup {NoGroup}
  BY DEF ReceiverInv, ReceiverTypeOK
<1>1. CASE token[d] = NoGroup
  <2> DEFINE m == Alone(d, old, on)
             N == {}
  <2>1. SaveMonitor(d, m, old) /\ UNCHANGED spent
    BY <1>1 DEF Receiver
  <2>2. Relents(old, m) /\ m.selection = {}
    BY <1>0, AloneRelents
  <2>3. N \in SUBSET Declaration /\ \A s, t \in N : s = t
    OBVIOUS
  <2> HIDE DEF m
  <2>4. Switched(d, m, N)
    BY <1>1, <2>2, <2>3 DEF Switched, Relents, Yields
  <2>5. QED
    BY <2>1, <2>4
<1>2. CASE token[d] # NoGroup
  <2> DEFINE g == token[d]
             j == Joined(old, g)
  <2>0. g \in Group
    BY <1>0, <1>2
  <2>1. /\ Relents(old, j) /\ j.dirty
        /\ j.selection = IF Foreign(old, g) THEN {} ELSE old.selection
    BY <1>0, <2>0, JoinedRelents
  <2>j. j \in Monitor
    BY <2>1 DEF Relents
  <2>2. CASE on \/ Owns(d, j)
    <3>1. PICK o \in Operation \ spent : /\ SaveMonitor(d, Declared(d, j, on, o, g), old)
                                         /\ spent' = spent \cup {o}
      BY <1>2, <2>2 DEF Receiver
    <3> DEFINE m == Declared(d, j, on, o, g)
    <3> HIDE DEF j, g
    <3>2. PICK s \in Declaration :
             /\ m \in Monitor /\ m.dirty /\ m.selection = {s}
             /\ s.operation = o /\ s.group = g
             /\ \A c \in j.selection : c.counter < s.counter
             /\ m.seen = j.seen /\ m.sources = j.sources /\ m.alerts = <<>>
      <4>1. o \in Nat
        BY ReceiverAssumption
      <4>2. QED
        BY <2>0, <2>1, <2>j, <4>1, DeclaredFollows
    <3> DEFINE N == {s}
    <3> HIDE DEF m
    <3>3. Yields(old, m)
      BY <2>1, <3>2 DEF Yields, Relents
    <3>4. Switched(d, m, N)
      BY <1>2, <2>1, <3>1, <3>2, <3>3 DEF Switched, g
    <3>5. QED
      BY <3>1, <3>4 DEF m
  <2>3. CASE ~ (on \/ Owns(d, j))
    <3> DEFINE m == Quiet(j)
               N == {}
    <3>1. SaveMonitor(d, m, old) /\ UNCHANGED spent
      BY <1>2, <2>3 DEF Receiver
    <3> HIDE DEF j
    <3>2. Relents(old, m) /\ m.selection = j.selection
      BY <1>0, <2>1, QuietAgain
    <3>3. N \in SUBSET Declaration /\ \A s, t \in N : s = t
      OBVIOUS
    <3> HIDE DEF m
    <3>4. Switched(d, m, N)
      BY <1>2, <2>1, <3>2, <3>3 DEF Switched, Relents, Yields
    <3>5. QED
      BY <3>1, <3>4
  <2>4. QED
    BY <2>2, <2>3
<1>3. QED
  BY <1>1, <1>2

(* The switch keeps the invariant.                                         *)
LEMMA ReceiverKeeps ==
  ASSUME ReceiverInv, NEW d \in Desktop, NEW on \in BOOLEAN, Receiver(d, on)
  PROVE  /\ ReceiverInv' /\ OnlyOf(d)
         /\ UNCHANGED <<silent, poll>>
         /\ Yields(monitor[d], monitor'[d])
         /\ Yields(monitor[d], stored'[d]) \/ stored'[d] = stored[d]
<1> DEFINE old == monitor[d]
           g == token[d]
<1>0. /\ ReceiverTypeOK /\ old \in Monitor /\ IsWritten(old, stored[d]) /\ IsHeedful(d)
      /\ heard \in [Desktop -> [Desktop -> SUBSET Declaration]]
  BY DEF ReceiverInv, ReceiverTypeOK
<1>1. PICK m, N : /\ Switched(d, m, N) /\ SaveMonitor(d, m, monitor[d])
                  /\ spent \subseteq spent'
  BY SwitchIs
<1>2. /\ m \in Monitor /\ N \in SUBSET Declaration /\ \A s, t \in N : s = t
      /\ m.dirty \/ (~ monitor[d].dirty /\ Same(m, monitor[d]))
      /\ Yields(old, m)
  BY <1>1 DEF Switched
<1>3. /\ heard' = [heard EXCEPT ![d] = IF Foreign(old, g) /\ IsSaved THEN NothingHeard ELSE @]
      /\ UNCHANGED <<token, poll, feeds, silent>>
  BY DEF Receiver
<1>4. /\ monitor' \in [Desktop -> Monitor] /\ stored' \in [Desktop -> Monitor]
      /\ trouble' \in [faults : Nat, restarts : Nat]
      /\ \A e \in Desktop \ {d} : monitor'[e] = monitor[e] /\ stored'[e] = stored[e]
      /\ IsWritten(monitor[d], stored[d])'
      /\ \/ IsSaved /\ Same(monitor'[d], m) /\ Same(stored'[d], m)
         \/ ~ IsSaved /\ monitor'[d] = old /\ stored' = stored
  <2>1. monitor[d].dirty \/ monitor[d] = monitor[d]
    OBVIOUS
  <2>2. QED
    BY <1>0, <1>1, <1>2, <2>1, SaveKeeps
<1>5. /\ Yields(old, monitor'[d])
      /\ Yields(old, stored'[d]) \/ stored'[d] = stored[d]
  BY <1>2, <1>4 DEF Yields, Same
<1>6. NothingHeard \in [Desktop -> SUBSET Declaration] /\ \A p \in Desktop : NothingHeard[p] = {}
  BY DEF NothingHeard
<1> HIDE DEF NothingHeard
<1>7. /\ heard' \in [Desktop -> [Desktop -> SUBSET Declaration]]
      /\ \A e \in Desktop \ {d} : heard'[e] = heard[e]
      /\ heard'[d] = IF Foreign(old, g) /\ IsSaved THEN NothingHeard ELSE heard[d]
  BY <1>0, <1>3, <1>6
<1>8. \A p \in Desktop : heard'[d][p] \subseteq heard[d][p] /\ heard'[d][p] \subseteq Declaration
  BY <1>6, <1>7
<1>9. CASE IsSaved /\ Same(monitor'[d], m) /\ Same(stored'[d], m)
  <2>1. monitor'[d].selection = m.selection /\ stored'[d].selection = m.selection
    BY <1>9 DEF Same
  <2>2. old.selection \in Selection
    BY <1>0 DEF Monitor
  <2>3. IsHeedful(d)'
    <3>1. CASE g = NoGroup
      <4>1. m.selection = {}
        BY <1>1, <3>1 DEF Switched
      <4>2. \A p \in Desktop : \A x \in heard'[d][p] : x.group # g
        BY <1>8, <3>1, ReceiverAssumption DEF Declaration
      <4>3. QED
        BY <1>3, <2>1, <4>1, <4>2 DEF IsHeedful, Heeds
    <3>2. CASE g # NoGroup /\ Foreign(old, g)
      <4>1. \A p \in Desktop : heard'[d][p] = {}
        BY <1>6, <1>7, <1>9, <3>2
      <4>2. \A s \in m.selection : s.group = g
        BY <1>1, <3>2 DEF Switched
      <4>3. QED
        BY <1>3, <2>1, <4>1, <4>2 DEF IsHeedful, Heeds
    <3>3. CASE g # NoGroup /\ ~ Foreign(old, g)
      <4>1. heard'[d] = heard[d]
        BY <1>7, <3>3
      <4>2. CASE m.selection = old.selection
        BY <1>0, <1>3, <2>1, <4>1, <4>2 DEF IsHeedful, Heeds
      <4>3. CASE m.selection # old.selection
        <5>1. /\ m.selection # {}
              /\ \A s \in m.selection : /\ s.group = g /\ s \in Declaration
                                        /\ \A c \in old.selection : c.counter < s.counter
          BY <1>1, <1>2, <3>3, <4>3 DEF Switched
        <5>2. ASSUME NEW p \in Desktop, NEW x \in heard[d][p],
                  NEW s \in m.selection, x.group = s.group
              PROVE  ~ Precedes(s, x)
          <6>1. old.selection # {}
            BY <1>0, <5>1, <5>2 DEF IsHeedful
          <6>2. PICK c \in old.selection : TRUE
            BY <6>1
          <6>3. c \in Declaration /\ x \in Declaration /\ s \in Declaration
            BY <1>0, <2>2, <5>1, <6>2 DEF Selection
          <6>4. c.group = g
            BY <3>3, <6>2 DEF Foreign
          <6>5. ~ Precedes(c, x) /\ c.counter < s.counter
            BY <1>0, <5>1, <5>2, <6>4 DEF IsHeedful, Heeds
          <6>6. QED
            BY <6>3, <6>5 DEF Precedes, Declaration
        <5>3. QED
          BY <1>3, <2>1, <4>1, <5>1, <5>2 DEF IsHeedful, Heeds
      <4>4. QED
        BY <4>2, <4>3
    <3>4. QED
      BY <3>1, <3>2, <3>3
  <2>4. KnownOf(d)' \subseteq Known \cup N
    <3>1. m.selection \subseteq old.selection \cup N
      BY <1>1 DEF Switched
    <3>2. KnownOf(d)' \subseteq KnownOf(d) \cup N
      BY <1>3, <1>8, <2>1, <3>1 DEF KnownOf
    <3>3. QED
      BY <3>2 DEF Known, KnownOf
  <2>5. \A s \in N : s.operation \in spent' \ spent
    BY <1>1 DEF Switched
  <2>6. ReceiverTypeOK'
    BY <1>0, <1>3, <1>4, <1>7 DEF ReceiverTypeOK, feeds
  <2>7. OnlyOf(d)
    BY <1>3, <1>4, <1>7 DEF OnlyOf
  <2>8. ReceiverInv'
    BY <1>1, <1>2, <1>4, <2>3, <2>4, <2>5, <2>6, <2>7, OneDesktopKeeps
  <2>9. QED
    BY <1>3, <1>5, <2>7, <2>8
<1>10. CASE ~ IsSaved /\ monitor'[d] = old /\ stored' = stored
  <2>1. heard'[d] = heard[d]
    BY <1>7, <1>10
  <2>2. IsHeedful(d)' /\ KnownOf(d)' \subseteq KnownOf(d)
    BY <1>0, <1>3, <1>10, <2>1 DEF IsHeedful, Heeds, KnownOf
  <2>3. KnownOf(d)' \subseteq Known
    BY <2>2 DEF Known, KnownOf
  <2>6. ReceiverTypeOK'
    BY <1>0, <1>3, <1>4, <1>7 DEF ReceiverTypeOK, feeds
  <2>7. OnlyOf(d)
    BY <1>3, <1>4, <1>7 DEF OnlyOf
  <2>8. ReceiverInv'
    BY <1>1, <1>4, <2>2, <2>3, <2>6, <2>7, NothingDeclared
  <2>9. QED
    BY <1>3, <1>5, <2>7, <2>8
<1>11. QED
  BY <1>4, <1>9, <1>10

-----------------------------------------------------------------------------
(* The end of a poll *)

Froms(got) == {got[i].from : i \in 1 .. Len(got)}

IdsRead(d) ==
  IdsOf(d, poll[d].local)
  \cup {id \in FeedId : \E i \in 1 .. Len(poll[d].got) :
          id \in IdsOf(poll[d].got[i].from, poll[d].got[i].feed)}

(* Every feed is of a desktop of its own.                                  *)
IsPolled(d) ==
  LET got == poll[d].got
  IN /\ d \notin poll[d].todo
     /\ \A i, j \in 1 .. Len(got) : got[i].from = got[j].from => i = j
     /\ \A i \in 1 .. Len(got) : got[i].from \notin poll[d].todo \cup {d}

(* At the end of a poll declarations are merged, then feeds recorded.      *)
LEMMA AfterPollIs ==
  ASSUME ReceiverTypeOK, NEW d \in Desktop
  PROVE  \E merged \in Monitor :
           LET m == AfterPoll(d)
           IN /\ Chooses(d, token[d], [monitor[d] EXCEPT !.sync = NoSync], merged,
                         Offered(poll[d].got))
              /\ m \in Monitor /\ m.selection = merged.selection /\ m.enabled = merged.enabled
              /\ m.dirty \/ (~ monitor[d].dirty /\ Same(m, monitor[d]))
              /\ Room /\ Distinct(merged.seen) /\ Distinct(merged.alerts) /\ IsPolled(d) =>
                   Records(merged, m, {d} \cup Froms(poll[d].got), IdsRead(d))
<1> DEFINE got == poll[d].got
           local == poll[d].local
           m0 == [monitor[d] EXCEPT !.sync = NoSync]
           merged == MergedAll(d, m0, got)
           own == RecordedIfRead(merged, d, local)
           all == RecordedAll(own, got)
           sync == [p \in Desktop |-> \E r \in Range(got) :
                      r.from = p /\ r.feed # {} /\ r.said /\ r.selection = all.selection]
           m == [all EXCEPT !.sync = sync]
           Ids == {id \in FeedId : \E i \in 1 .. Len(got) : id \in IdsOf(got[i].from, got[i].feed)}
<1>0. monitor[d] \in Monitor /\ got \in Seq(Reply) /\ local \in Batch
  BY DEF ReceiverTypeOK, Poll
<1>1. /\ m0 \in Monitor /\ m0.dirty = monitor[d].dirty /\ Same(m0, monitor[d])
  BY <1>0 DEF Monitor, NoSync, Same
<1>2. Chooses(d, token[d], m0, merged, Offered(got))
  <2> HIDE DEF got, m0
  <2>1. QED
    BY <1>0, <1>1, MergedAllKeeps
<1>3. merged \in Monitor
  BY <1>2 DEF Chooses
<1>4. AfterPoll(d) = m
  BY DEF AfterPoll
<1> HIDE DEF got, local, merged
<1>5. /\ Marks(merged, own)
      /\ Room /\ Distinct(merged.seen) /\ Distinct(merged.alerts) =>
           Records(merged, own, {d}, IdsOf(d, local))
  BY <1>0, <1>3, RecordedKeeps
<1>6. own \in Monitor
  BY <1>5 DEF Marks
<1> HIDE DEF own
<1>7. /\ Marks(own, all)
      /\ Room /\ Distinct(own.seen) /\ Distinct(own.alerts)
           /\ (\A i, j \in 1 .. Len(got) : got[i].from = got[j].from => i = j) =>
           Records(own, all, {got[i].from : i \in 1 .. Len(got)}, Ids)
  BY <1>0, <1>6, RecordedAllKeeps
<1>8. all \in Monitor
  BY <1>7 DEF Marks
<1> HIDE DEF all
<1>9. sync \in [Desktop -> BOOLEAN]
  OBVIOUS
<1> HIDE DEF sync
<1>10. /\ m \in Monitor /\ Same(m, all) /\ m.dirty = all.dirty
  BY <1>8, <1>9 DEF Monitor, Same
<1> HIDE DEF m
<1>11. m.selection = merged.selection /\ m.enabled = merged.enabled
  BY <1>5, <1>7, <1>10 DEF Marks, Same
<1>12. m.dirty \/ (~ monitor[d].dirty /\ Same(m, monitor[d]))
  <2> SUFFICES ASSUME ~ m.dirty PROVE ~ monitor[d].dirty /\ Same(m, monitor[d])
    OBVIOUS
  <2>1. all = own /\ own = merged /\ merged = m0
    BY <1>2, <1>5, <1>7, <1>10 DEF Marks, Chooses
  <2>2. QED
    BY <1>1, <1>10, <2>1 DEF Same
<1>13. ASSUME Room, Distinct(merged.seen), Distinct(merged.alerts), IsPolled(d)
       PROVE  Records(merged, m, {d} \cup Froms(got), IdsRead(d))
  <2>1. Records(merged, own, {d}, IdsOf(d, local))
    BY <1>5, <1>13
  <2>2. Distinct(own.seen) /\ Distinct(own.alerts)
    BY <2>1 DEF Records
  <2>3. \A i, j \in 1 .. Len(got) : got[i].from = got[j].from => i = j
    BY <1>13 DEF IsPolled, got
  <2>4. Records(own, all, Froms(got), Ids)
    BY <1>7, <1>13, <2>2, <2>3 DEF Froms
  <2>5. {d} \cap Froms(got) = {}
    BY <1>13 DEF IsPolled, Froms, got
  <2>6. merged.enabled = own.enabled
    BY <1>5 DEF Marks
  <2>7. IdsRead(d) = IdsOf(d, local) \cup Ids
    BY DEF IdsRead, got, local
  <2> DEFINE K == {d}
             I == IdsOf(d, local)
             L == Froms(got)
  <2> HIDE DEF Ids, K, I, L
  <2>8. Records(merged, all, K \cup L, I \cup Ids)
    <3>1. Records(merged, own, K, I) /\ Records(own, all, L, Ids) /\ K \cap L = {}
      BY <2>1, <2>4, <2>5 DEF K, I, L
    <3>2. QED
      BY <1>3, <1>6, <2>6, <3>1, RecordsInTurn
  <2>9. Records(merged, m, K \cup L, I \cup Ids)
    BY <1>10, <2>8 DEF Records, Same
  <2>10. QED
    BY <2>7, <2>9 DEF K, I, L
<1>14. QED
  BY <1>2, <1>3, <1>4, <1>10, <1>11, <1>12, <1>13 DEF got

(* The end of a poll keeps the invariant, saved or not.                    *)
LEMMA ApplyKeeps ==
  ASSUME ReceiverInv, NEW d \in Desktop, Apply(d)
  PROVE  /\ ReceiverInv' /\ OnlyOf(d)
         /\ poll'[d].got = <<>> /\ d \notin poll'[d].todo
         /\ LET m == AfterPoll(d)
            IN \/ /\ Same(monitor'[d], m) /\ Same(stored'[d], m)
                  /\ silent' = [silent EXCEPT ![d] = silent[d] \cup RecordedInSilence(d, m)]
               \/ /\ monitor'[d] = TakenBack(d, m) /\ stored' = stored /\ silent' = silent
<1> DEFINE old == monitor[d]
           g == token[d]
           got == poll[d].got
           m == AfterPoll(d)
           f == TakenBack(d, m)
           h == [p \in Desktop |->
                   IF \E r \in Range(got) : r.from = p /\ r.said
                   THEN UNION {r.selection : r \in {q \in Range(got) : q.from = p}}
                   ELSE heard[d][p]]
<1>0. /\ ReceiverTypeOK /\ old \in Monitor /\ IsWritten(old, stored[d]) /\ IsHeedful(d)
      /\ heard \in [Desktop -> [Desktop -> SUBSET Declaration]]
      /\ silent \in [Desktop -> SUBSET FeedId] /\ poll \in [Desktop -> Poll]
      /\ got \in Seq(Reply)
      /\ \A e \in Desktop : poll[e].phase \in {"prune", "remove"} => poll[e].files # <<>>
  BY DEF ReceiverInv, ReceiverTypeOK, Poll
<1>1. PICK merged \in Monitor :
        /\ Chooses(d, g, [old EXCEPT !.sync = NoSync], merged, Offered(got))
        /\ m \in Monitor /\ m.selection = merged.selection
        /\ m.dirty \/ (~ old.dirty /\ Same(m, old))
  BY <1>0, AfterPollIs
<1>s. /\ old.selection \in Selection /\ m.selection \in Selection
      /\ [old EXCEPT !.sync = NoSync].selection = old.selection
  BY <1>0, <1>1 DEF Monitor
<1>2. /\ poll[d].phase = "peers" /\ SaveMonitor(d, m, f)
      /\ IF IsSaved
         THEN /\ heard' = [heard EXCEPT ![d] = h]
              /\ silent' = [silent EXCEPT ![d] = silent[d] \cup RecordedInSilence(d, m)]
         ELSE UNCHANGED <<heard, silent>>
      /\ poll' = [poll EXCEPT ![d] = NoPoll]
      /\ UNCHANGED <<token, feeds, spent>>
  BY <1>0 DEF Apply
<1>3. f \in Monitor /\ f.dirty /\ f.selection = old.selection
  BY <1>0, <1>1 DEF TakenBack, Monitor, NoSync
<1> HIDE DEF m, f
<1>4. /\ monitor' \in [Desktop -> Monitor] /\ stored' \in [Desktop -> Monitor]
      /\ trouble' \in [faults : Nat, restarts : Nat]
      /\ \A e \in Desktop \ {d} : monitor'[e] = monitor[e] /\ stored'[e] = stored[e]
      /\ IsWritten(monitor[d], stored[d])'
      /\ \/ IsSaved /\ Same(monitor'[d], m) /\ Same(stored'[d], m)
         \/ ~ IsSaved /\ monitor'[d] = f /\ stored' = stored
  BY <1>0, <1>1, <1>2, <1>3, SaveKeeps
<1>5. /\ poll' \in [Desktop -> Poll] /\ poll'[d] = NoPoll
      /\ \A e \in Desktop \ {d} : poll'[e] = poll[e]
      /\ \A e \in Desktop : poll'[e].phase \in {"prune", "remove"} => poll'[e].files # <<>>
  BY <1>0, <1>2, NoPollType
<1>6. poll'[d].got = <<>> /\ d \notin poll'[d].todo /\ poll'[d].phase # "peers"
      /\ Offered(poll'[d].got) = {}
  BY <1>5, NoPollType
<1>7. \A p \in Desktop : \A x \in h[p] :
        x \in Declaration /\ (x \in heard[d][p] \/ x \in Offered(got))
  <2> SUFFICES ASSUME NEW p \in Desktop, NEW x \in h[p]
               PROVE  x \in Declaration /\ (x \in heard[d][p] \/ x \in Offered(got))
    OBVIOUS
  <2>1. CASE x \in heard[d][p]
    BY <1>0, <2>1
  <2>2. CASE x \notin heard[d][p]
    <3>1. PICK r \in Range(got) : x \in r.selection
      BY <2>2
    <3>2. PICK i \in 1 .. Len(got) : r = got[i]
      BY <1>0, RangeAmong
    <3>3. got[i] \in Reply
      BY <1>0, ElementOfSeq
    <3>4. x \in Declaration
      BY <3>1, <3>2, <3>3 DEF Reply, Selection
    <3>5. QED
      BY <3>1, <3>2, <3>4 DEF Offered
  <2>3. QED
    BY <2>1, <2>2
<1>8. CASE IsSaved /\ Same(monitor'[d], m) /\ Same(stored'[d], m)
  <2>1. /\ heard' = [heard EXCEPT ![d] = h]
        /\ silent' = [silent EXCEPT ![d] = silent[d] \cup RecordedInSilence(d, m)]
    BY <1>2, <1>8
  <2>2. h \in [Desktop -> SUBSET Declaration]
    BY <1>7
  <2> HIDE DEF h, got
  <2>3. /\ heard' \in [Desktop -> [Desktop -> SUBSET Declaration]] /\ heard'[d] = h
        /\ \A e \in Desktop \ {d} : heard'[e] = heard[e]
    BY <1>0, <2>1, <2>2
  <2>4. RecordedInSilence(d, m) \subseteq FeedId
    BY DEF RecordedInSilence, FeedId
  <2>5. /\ silent' \in [Desktop -> SUBSET FeedId]
        /\ \A e \in Desktop \ {d} : silent'[e] = silent[e]
    BY <1>0, <2>1, <2>4
  <2>6. monitor'[d].selection = m.selection /\ stored'[d].selection = m.selection
    BY <1>8 DEF Same
  <2>7. /\ \/ m.selection = old.selection
           \/ \E s \in Offered(got) : /\ m.selection = {s} /\ s.group = g
                                      /\ \A c \in old.selection : Precedes(c, s)
        /\ \A x \in Offered(got) : x.group = g => \E s \in m.selection : ~ Precedes(s, x)
    BY <1>1, <1>s DEF Chooses
  <2>8. \A s \in m.selection : s.group = g
    BY <1>0, <1>2, <2>7 DEF IsHeedful
  <2>9. \A p \in Desktop : \A x \in heard[d][p], s \in m.selection :
          x.group = s.group => ~ Precedes(s, x)
    <3> SUFFICES ASSUME NEW p \in Desktop, NEW x \in heard[d][p], NEW s \in m.selection,
                        x.group = s.group
                 PROVE  ~ Precedes(s, x)
      OBVIOUS
    <3>1. CASE m.selection = old.selection
      BY <1>0, <3>1 DEF IsHeedful, Heeds
    <3>2. CASE m.selection # old.selection
      <4>1. s.group = g /\ \A c \in old.selection : Precedes(c, s)
        BY <2>7, <3>2
      <4>2. old.selection # {}
        BY <1>0, <4>1 DEF IsHeedful
      <4>3. PICK c \in old.selection : TRUE
        BY <4>2
      <4>4. c.group = g
        BY <1>0, <1>2 DEF IsHeedful
      <4>5. ~ Precedes(c, x) /\ Precedes(c, s)
        BY <1>0, <4>1, <4>4 DEF IsHeedful, Heeds
      <4>6. c \in Declaration /\ s \in Declaration /\ x \in Declaration
        BY <1>0, <1>s DEF Selection
      <4>7. QED
        BY <4>5, <4>6 DEF Precedes, Declaration
    <3>3. QED
      BY <3>1, <3>2
  <2>10. \A p \in Desktop : \A x \in h[p], s \in m.selection :
           x.group = s.group => ~ Precedes(s, x)
    <3> SUFFICES ASSUME NEW p \in Desktop, NEW x \in h[p], NEW s \in m.selection,
                        x.group = s.group
                 PROVE  ~ Precedes(s, x)
      OBVIOUS
    <3>1. CASE x \in heard[d][p]
      BY <2>9, <3>1
    <3>2. CASE x \in Offered(got)
      <4>1. PICK t \in m.selection : ~ Precedes(t, x)
        BY <2>7, <2>8, <3>2
      <4>2. t = s
        BY <1>s DEF Selection
      <4>3. QED
        BY <4>1, <4>2
    <3>3. QED
      BY <1>7, <3>1, <3>2
  <2>11. m.selection = {} => \A p \in Desktop : \A x \in h[p] : x.group # g
    <3> SUFFICES ASSUME m.selection = {}, NEW p \in Desktop, NEW x \in h[p], x.group = g
                 PROVE  FALSE
      OBVIOUS
    <3>1. x \notin Offered(got)
      BY <2>7
    <3>2. x \in heard[d][p] /\ old.selection = {}
      BY <1>7, <2>7, <3>1
    <3>3. QED
      BY <1>0, <3>2 DEF IsHeedful
  <2>12. IsHeedful(d)'
    <3>1. Heeds(d, monitor[d].selection)' /\ Heeds(d, stored[d].selection)'
      BY <2>3, <2>6, <2>10 DEF Heeds
    <3>2. token'[d] = g
      BY <1>2
    <3>3. QED
      BY <1>6, <2>3, <2>6, <2>11, <3>1, <3>2 DEF IsHeedful
  <2>13. KnownOf(d)' \subseteq KnownOf(d)
    <3>1. m.selection \subseteq old.selection \cup Offered(got)
      BY <2>7
    <3>2. QED
      BY <1>6, <1>7, <2>3, <2>6, <3>1 DEF KnownOf, got
  <2>14. KnownOf(d)' \subseteq Known
    BY <2>13 DEF Known, KnownOf
  <2>15. ReceiverTypeOK'
    BY <1>0, <1>2, <1>4, <1>5, <2>3, <2>5 DEF ReceiverTypeOK, feeds
  <2>16. OnlyOf(d) /\ spent \subseteq spent'
    BY <1>2, <1>4, <1>5, <2>3, <2>5 DEF OnlyOf
  <2>17. ReceiverInv'
    BY <1>4, <2>12, <2>14, <2>15, <2>16, NothingDeclared
  <2>18. QED
    BY <1>6, <1>8, <2>1, <2>16, <2>17 DEF m
<1>9. CASE ~ IsSaved /\ monitor'[d] = f /\ stored' = stored
  <2>1. heard' = heard /\ silent' = silent /\ token' = token
    BY <1>2, <1>9
  <2>2. monitor'[d].selection = old.selection
    BY <1>3, <1>9
  <2>3. IsHeedful(d)' /\ KnownOf(d)' \subseteq KnownOf(d)
    BY <1>0, <1>6, <1>9, <2>1, <2>2 DEF IsHeedful, Heeds, KnownOf
  <2>4. KnownOf(d)' \subseteq Known
    BY <2>3 DEF Known, KnownOf
  <2>5. ReceiverTypeOK'
    BY <1>0, <1>2, <1>4, <1>5, <2>1 DEF ReceiverTypeOK, feeds
  <2>6. OnlyOf(d) /\ spent \subseteq spent'
    BY <1>2, <1>4, <1>5, <2>1 DEF OnlyOf
  <2>7. ReceiverInv'
    BY <1>4, <2>3, <2>4, <2>5, <2>6, NothingDeclared
  <2>8. QED
    BY <1>6, <1>9, <2>1, <2>6, <2>7 DEF m, f
<1>10. QED
  BY <1>4, <1>8, <1>9

-----------------------------------------------------------------------------
(* Receivers that know of each other *)

(* A new monitor is one.                                                   *)
LEMMA FreshType ==
  /\ Fresh \in Monitor /\ Fresh.selection = {} /\ Fresh.seen = <<>> /\ Fresh.alerts = <<>>
  /\ Distinct(<<>>) /\ Range(<<>>) = {} /\ <<>> \in Events
<1>1. /\ <<>> \in Seq(FeedId) /\ <<>> \in Seq(Alert) /\ <<>> \in Seq(Event) /\ Len(<<>>) = 0
  BY EmptySeq
<1>2. {} \in Selection /\ NoSync \in [Desktop -> BOOLEAN]
  BY DEF Selection, NoSync
<1>3. Distinct(<<>>)
  BY <1>1 DEF Distinct
<1>4. Range(<<>>) = {}
  <2>1. Range(<<>>) = {<<>>[i] : i \in 1 .. Len(<<>>)}
    BY <1>1, RangeAmong
  <2>2. QED
    BY <1>1, <2>1
<1>5. QED
  BY <1>1, <1>2, <1>3, <1>4 DEF Fresh, Monitor, Events

(* The invariant holds initially.                                          *)
LEMMA ReceiverInitKeeps == ReceiverInit => ReceiverInv
<1> SUFFICES ASSUME ReceiverInit PROVE ReceiverInv
  OBVIOUS
<1>1. ReceiverTypeOK
  <2>1. <<>> \in Seq(Event)
    BY EmptySeq
  <2>2. NothingHeard \in [Desktop -> SUBSET Declaration]
    BY DEF NothingHeard
  <2>3. QED
    BY <2>1, <2>2, FreshType, NoPollType, ReceiverAssumption DEF ReceiverInit, ReceiverTypeOK
<1>2. \A d \in Desktop : KnownOf(d) = {}
  BY FreshType, NoPollType DEF ReceiverInit, KnownOf, NothingHeard
<1>3. OperationsAreUnique
  BY <1>2 DEF OperationsAreUnique, Known
<1>4. \A d \in Desktop : IsHeedful(d) /\ IsWritten(monitor[d], stored[d])
  BY FreshType, NoPollType DEF ReceiverInit, IsHeedful, Heeds, IsWritten, Same, NothingHeard
<1>5. QED
  BY <1>1, <1>3, <1>4 DEF ReceiverInv

(* The steps of the poll that change no monitor.                           *)
LEMMA PollingKeeps ==
  ASSUME ReceiverInv, NEW d \in Desktop, ReceiverTypeOK', OnlyOf(d),
         UNCHANGED <<monitor, stored, token, spent, heard>>,
         poll'[d].phase = "peers" => poll[d].phase = "peers",
         Offered(poll'[d].got) \subseteq Known
  PROVE  ReceiverInv'
<1>1. IsHeedful(d) /\ IsWritten(monitor[d], stored[d])
  BY DEF ReceiverInv
<1>2. IsHeedful(d)' /\ IsWritten(monitor[d], stored[d])'
  BY <1>1 DEF IsHeedful, Heeds, IsWritten, Same
<1>3. KnownOf(d)' \subseteq Known
  <2>1. KnownOf(d) \subseteq Known
    BY DEF Known, KnownOf
  <2>2. KnownOf(d)' \subseteq KnownOf(d) \cup Offered(poll'[d].got)
    BY DEF KnownOf
  <2>3. QED
    BY <2>1, <2>2
<1>4. QED
  BY <1>2, <1>3, NothingDeclared

(* A declaration that was read is known.                                   *)
LEMMA ReadPeerInv ==
  ASSUME ReceiverInv, NEW d \in Desktop, NEW p \in Desktop, ReadPeer(d, p)
  PROVE  ReceiverInv'
<1>0. ReceiverTypeOK /\ poll[d].got \in Seq(Reply)
  BY DEF ReceiverInv, ReceiverTypeOK, Poll
<1>1. /\ ReceiverTypeOK' /\ OnlyOf(d)
      /\ UNCHANGED <<monitor, stored, token, spent, heard, silent>>
      /\ poll[d].phase = "peers"
  BY <1>0, ReadPeerKeeps
<1>2. PICK r \in Reply : /\ r.selection \subseteq monitor[p].selection
                         /\ poll'[d].got = Append(poll[d].got, r)
  BY <1>0, ReadPeerKeeps
<1>3. Offered(poll'[d].got) \subseteq Offered(poll[d].got) \cup monitor[p].selection
  <2>1. /\ Len(Append(poll[d].got, r)) = Len(poll[d].got) + 1 /\ Len(poll[d].got) \in Nat
        /\ \A i \in 1 .. Len(poll[d].got) : Append(poll[d].got, r)[i] = poll[d].got[i]
        /\ Append(poll[d].got, r)[Len(poll[d].got) + 1] = r
    BY <1>0, AppendProperties, LenProperties
  <2>2. \A i \in 1 .. Len(poll[d].got) + 1 : i \in 1 .. Len(poll[d].got) \/ i = Len(poll[d].got) + 1
    BY <2>1
  <2>3. QED
    BY <1>2, <2>1, <2>2 DEF Offered
<1>4. Offered(poll'[d].got) \subseteq Known
  <2>1. Offered(poll'[d].got) \subseteq Declaration
    BY DEF Offered
  <2>2. \A x \in Offered(poll'[d].got) : x \in KnownOf(d) \/ x \in KnownOf(p)
    BY <1>3, <2>1 DEF KnownOf
  <2>3. QED
    BY <2>1, <2>2 DEF Known
<1>5. QED
  BY <1>1, <1>4, PollingKeeps

(* Every step keeps the invariant.                                         *)
LEMMA ReceiverNextKeeps == ReceiverInv /\ [ReceiverNext]_receiverVars => ReceiverInv'
<1> SUFFICES ASSUME ReceiverInv, [ReceiverNext]_receiverVars PROVE ReceiverInv'
  OBVIOUS
<1>0. ReceiverTypeOK /\ \A d \in Desktop : Offered(poll[d].got) \subseteq Known
  BY DEF ReceiverInv, Known, KnownOf, Offered
<1>1. ASSUME NEW d \in Desktop, Drains(d) PROVE ReceiverInv'
  <2>1. /\ ReceiverTypeOK' /\ OnlyOf(d)
        /\ UNCHANGED <<monitor, stored, token, spent, heard, silent>>
        /\ poll'[d].phase # "peers"
        /\ poll'[d].got = <<>> \/ poll'[d].got = poll[d].got
    BY <1>0, <1>1, DrainsKeeps
  <2>2. Offered(poll'[d].got) \subseteq Known
    BY <1>0, <2>1, NoPollType
  <2>3. QED
    BY <2>1, <2>2, PollingKeeps
<1>2. ASSUME NEW d \in Desktop, ReadLocal(d) PROVE ReceiverInv'
  BY <1>2, ReadLocalKeeps
<1>3. ASSUME NEW d \in Desktop, Apply(d) PROVE ReceiverInv'
  BY <1>3, ApplyKeeps
<1>4. ASSUME NEW d \in Desktop, NEW p \in Desktop, ReadPeer(d, p) PROVE ReceiverInv'
  BY <1>4, ReadPeerInv
<1>5. ASSUME NEW d \in Desktop, Overview(d) PROVE ReceiverInv'
  BY <1>5, OverviewKeeps
<1>6. ASSUME NEW d \in Desktop, TakeAlert(d) PROVE ReceiverInv'
  BY <1>6, TakeAlertKeeps
<1>7. ASSUME NEW d \in Desktop, StartAgain(d) PROVE ReceiverInv'
  BY <1>7, StartAgainKeeps
<1>8. ASSUME NEW d \in Desktop, NEW on \in BOOLEAN, Receiver(d, on) PROVE ReceiverInv'
  BY <1>8, ReceiverKeeps
<1>9. ASSUME NEW e \in Event, Hook(e) PROVE ReceiverInv'
  <2>1. /\ ReceiverTypeOK' /\ spent \subseteq spent'
        /\ UNCHANGED <<monitor, stored, token, poll, heard, silent>>
    BY <1>0, <1>9, HookKeeps
  <2>2. /\ Known' = Known /\ \A d \in Desktop : IsHeedful(d) /\ IsWritten(monitor[d], stored[d])
    BY <2>1 DEF Known, KnownOf, ReceiverInv
  <2>3. OperationsAreUnique'
    <3> HIDE DEF Known
    <3>1. QED
      BY <2>1, <2>2 DEF OperationsAreUnique, ReceiverInv
  <2>4. \A d \in Desktop : IsHeedful(d)' /\ IsWritten(monitor[d], stored[d])'
    BY <2>1, <2>2 DEF IsHeedful, Heeds, IsWritten, Same
  <2>5. QED
    BY <2>1, <2>3, <2>4 DEF ReceiverInv
<1>10. CASE UNCHANGED receiverVars
  BY <1>10 DEF receiverVars, feeds, ReceiverInv, ReceiverTypeOK, OperationsAreUnique, Known,
     KnownOf, IsHeedful, Heeds, IsWritten, Same
<1>11. QED
  BY <1>1, <1>2, <1>3, <1>4, <1>5, <1>6, <1>7, <1>8, <1>9, <1>10 DEF ReceiverNext, Polls, Drains

(* Two receivers that had heeded each other would be one declaration.      *)
LEMMA AloneFollows == ReceiverInv => KnownReceiverIsAlone
<1> SUFFICES ASSUME ReceiverInv, NEW d \in Desktop, NEW p \in Desktop, d # p,
                    Active(d), Active(p), token[d] # NoGroup, token[d] = token[p],
                    heard[d][p] = monitor[p].selection, heard[p][d] = monitor[d].selection
             PROVE  FALSE
  BY DEF KnownReceiverIsAlone
<1>1. /\ Owns(d, monitor[d]) /\ ~ Foreign(monitor[d], token[d])
      /\ Owns(p, monitor[p]) /\ ~ Foreign(monitor[p], token[p])
  BY DEF Active
<1>2. PICK s \in monitor[d].selection : s.device = d
  BY <1>1 DEF Owns
<1>3. PICK t \in monitor[p].selection : t.device = p
  BY <1>1 DEF Owns
<1>4. s.group = t.group
  BY <1>1, <1>2, <1>3 DEF Foreign
<1>5. s \in Declaration /\ t \in Declaration
  BY DEF ReceiverInv, ReceiverTypeOK, Monitor, Selection
<1>6. ~ Precedes(s, t) /\ ~ Precedes(t, s)
  BY <1>2, <1>3, <1>4 DEF ReceiverInv, IsHeedful, Heeds
<1>7. s.operation = t.operation
  BY <1>5, <1>6 DEF Precedes, Declaration
<1>8. s \in Known /\ t \in Known
  BY <1>5 DEF Known, KnownOf
<1>9. s = t
  BY <1>7, <1>8 DEF ReceiverInv, OperationsAreUnique
<1>10. QED
  BY <1>2, <1>3, <1>9

(* Whatever the switches, restarts, failed writes and changes of the token:*)
(* of two desktops that learned of each other's declaration at most one    *)
(* raises alerts (merge_selection, receiver and receiver_active).          *)
THEOREM KnownReceiversAreAlone == ReceiverSpec => []KnownReceiverIsAlone
<1>1. ReceiverInit => ReceiverInv
  BY ReceiverInitKeeps
<1>2. ReceiverInv /\ [ReceiverNext]_receiverVars => ReceiverInv'
  BY ReceiverNextKeeps
<1>3. ReceiverInv => KnownReceiverIsAlone
  BY AloneFollows
<1>4. QED
  BY <1>1, <1>2, <1>3, PTL DEF ReceiverSpec

-----------------------------------------------------------------------------
(* Alerts that are new *)

(* S are the events shown or recorded in silence: all have been seen, and  *)
(* no alert is of one; the alerts are those of a receiver, and of feeds    *)
(* that it tells of.                                                       *)
IsUnrepeated(S, m) ==
  /\ S \subseteq Range(m.seen)
  /\ \A a \in Range(m.alerts) : /\ m.enabled /\ a.key \in m.sources \ m.pending
                                /\ Pair(a) \in Range(m.seen) \ S
  /\ Distinct(m.seen) /\ Distinct(m.alerts)

ReplayInv ==
  /\ ReceiverInv
  /\ \A d \in Desktop : /\ IsUnrepeated(silent[d], monitor[d])
                        /\ IsUnrepeated(silent[d], stored[d])
                        /\ IsPolled(d)

(* What gives something up repeats nothing.                                *)
LEMMA YieldsUnrepeated ==
  ASSUME NEW S, NEW m, NEW n, IsUnrepeated(S, m), Yields(m, n)
  PROVE  IsUnrepeated(S, n)
BY FreshType DEF IsUnrepeated, Yields

(* Nor does what is the same.                                              *)
LEMMA SameUnrepeated ==
  ASSUME NEW S, NEW m, NEW n, IsUnrepeated(S, m), Same(n, m)
  PROVE  IsUnrepeated(S, n)
BY DEF IsUnrepeated, Same

(* The alert that is shown is not among the rest.                          *)
LEMMA ShownUnrepeated ==
  ASSUME NEW S, NEW m \in Monitor, NEW n, m.alerts # <<>>, IsUnrepeated(S, m),
         n = [m EXCEPT !.alerts = Tail(m.alerts), !.dirty = TRUE]
  PROVE  IsUnrepeated(S \cup {Pair(Head(m.alerts))}, n) /\ IsUnrepeated(S, n)
<1> DEFINE q == m.alerts
           t == Tail(q)
<1>1. /\ q \in Seq(Alert) /\ q # <<>> /\ Len(q) \in Nat /\ Distinct(q)
      /\ Head(q) = q[1] /\ t \in Seq(Alert) /\ Len(t) = Len(q) - 1
      /\ \A i \in 1 .. Len(t) : t[i] = q[i + 1]
  <2>1. q \in Seq(Alert) /\ Distinct(q)
    BY DEF Monitor, IsUnrepeated
  <2> HIDE DEF q
  <2>2. q # <<>>
    BY DEF q
  <2>3. QED
    BY <2>1, <2>2, HeadTailProperties, LenProperties
<1>2. /\ n.alerts = t /\ n.seen = m.seen /\ n.enabled = m.enabled
      /\ n.sources = m.sources /\ n.pending = m.pending
  BY DEF Monitor
<1> HIDE DEF q, t
<1>3. /\ Range(q) = {q[i] : i \in 1 .. Len(q)} /\ Range(t) = {t[i] : i \in 1 .. Len(t)}
      /\ Range(q) \subseteq Alert
  BY <1>1, RangeAmong
<1>4. Len(q) >= 1 /\ \A i \in 1 .. Len(t) : i + 1 \in 1 .. Len(q) /\ i + 1 # 1
  BY <1>1, EmptySeq
<1>5. Distinct(t)
  <2> SUFFICES ASSUME NEW i \in 1 .. Len(t), NEW j \in 1 .. Len(t), t[i] = t[j] PROVE i = j
    BY DEF Distinct
  <2>1. i + 1 = j + 1
    BY <1>1, <1>4 DEF Distinct
  <2>2. QED
    BY <1>1, <2>1
<1>6. \A a \in Range(t) : a \in Range(q) /\ a # Head(q)
  <2> SUFFICES ASSUME NEW i \in 1 .. Len(t) PROVE t[i] \in Range(q) /\ t[i] # Head(q)
    BY <1>3
  <2>1. t[i] = q[i + 1] /\ i + 1 \in 1 .. Len(q) /\ 1 \in 1 .. Len(q) /\ i + 1 # 1
    BY <1>1, <1>4
  <2>2. QED
    BY <1>1, <1>3, <2>1 DEF Distinct
<1>7. Head(q) \in Range(q)
  <2>1. 1 \in 1 .. Len(q)
    BY <1>1, <1>4
  <2>2. QED
    BY <1>1, <1>3, <2>1
<1>8. \A a, b \in Alert : Pair(a) = Pair(b) => a = b
  BY DEF Alert, Pair
<1>9. \A a \in Range(t) : Pair(a) # Pair(Head(q))
  BY <1>3, <1>6, <1>7, <1>8
<1>10. Pair(Head(q)) \in Range(m.seen)
  BY <1>7 DEF IsUnrepeated, q
<1>11. QED
  BY <1>2, <1>5, <1>6, <1>9, <1>10 DEF IsUnrepeated, q

(* What is recorded in silence was read.                                   *)
LEMMA SilentIsRead ==
  ASSUME ReceiverTypeOK, NEW d \in Desktop, NEW m
  PROVE  RecordedInSilence(d, m) \subseteq IdsRead(d)
<1> SUFFICES ASSUME NEW id \in RecordedInSilence(d, m) PROVE id \in IdsRead(d)
  OBVIOUS
<1>0. poll[d].got \in Seq(Reply)
  BY DEF ReceiverTypeOK, Poll
<1>1. PICK s \in FeedRead(d, id[1]) : id \in FeedId /\ id[2] \in Range(s)
  BY DEF RecordedInSilence, FeedId
<1>2. CASE id[1] = d
  <2>1. s \in poll[d].local
    BY <1>1, <1>2 DEF FeedRead
  <2>2. QED
    BY <1>1, <1>2, <2>1 DEF IdsRead, IdsOf
<1>3. CASE id[1] # d
  <2>1. PICK r \in Range(poll[d].got) : r.from = id[1] /\ s \in r.feed
    BY <1>1, <1>3 DEF FeedRead
  <2>2. PICK i \in 1 .. Len(poll[d].got) : r = poll[d].got[i]
    BY <1>0, RangeAmong
  <2>3. id \in IdsOf(poll[d].got[i].from, poll[d].got[i].feed)
    BY <1>1, <2>1, <2>2 DEF IdsOf
  <2>4. QED
    BY <1>1, <2>3 DEF IdsRead
<1>4. QED
  BY <1>2, <1>3

(* The end of a poll raises no alert again, saved or not.                  *)
LEMMA ApplyUnrepeated ==
  ASSUME Room, ReplayInv, NEW d \in Desktop
  PROVE  LET m == AfterPoll(d)
         IN /\ IsUnrepeated(silent[d] \cup RecordedInSilence(d, m), m)
            /\ IsUnrepeated(silent[d], TakenBack(d, m))
<1> DEFINE old == monitor[d]
           m == AfterPoll(d)
           S == silent[d]
           K == {d} \cup Froms(poll[d].got)
           I == IdsRead(d)
           m0 == [old EXCEPT !.sync = NoSync]
<1>0. ReceiverTypeOK /\ old \in Monitor /\ IsUnrepeated(S, old) /\ IsPolled(d)
  BY DEF ReplayInv, ReceiverInv, ReceiverTypeOK
<1>1. PICK merged \in Monitor :
        /\ Chooses(d, token[d], m0, merged, Offered(poll[d].got))
        /\ m \in Monitor /\ m.enabled = merged.enabled
        /\ Room /\ Distinct(merged.seen) /\ Distinct(merged.alerts) /\ IsPolled(d) =>
             Records(merged, m, K, I)
  BY <1>0, AfterPollIs
<1>2. m0.seen = old.seen /\ m0.sources = old.sources /\ m0.alerts = old.alerts
      /\ m0.pending = old.pending /\ m0.enabled = old.enabled /\ Baseline(d, m0) = Baseline(d, old)
  BY <1>0 DEF Monitor, Baseline
<1> HIDE DEF m0
<1>3. /\ merged.seen = old.seen /\ merged.sources = old.sources
      /\ \/ merged.alerts = <<>>
         \/ /\ merged.alerts = old.alerts /\ merged.pending = old.pending
            /\ merged.enabled = old.enabled
      /\ merged.enabled => \/ old.enabled /\ merged.pending = old.pending
                           \/ Baseline(d, old) \subseteq merged.pending
  BY <1>1, <1>2 DEF Chooses
<1>4. Distinct(merged.seen) /\ Distinct(merged.alerts)
  BY <1>0, <1>3, FreshType DEF IsUnrepeated
<1>5. Records(merged, m, K, I)
  BY <1>0, <1>1, <1>4
<1>6. RecordedInSilence(d, m) \subseteq I
  BY <1>0, SilentIsRead
<1>b. old.enabled \in BOOLEAN /\ m.enabled \in BOOLEAN
  BY <1>0, <1>1 DEF Monitor
<1> HIDE DEF m, K, I
<1>7. ASSUME NEW a \in Range(m.alerts)
      PROVE  /\ m.enabled /\ a.key \in m.sources \ m.pending
             /\ Pair(a) \in Range(m.seen) \ S
             /\ old.enabled /\ a.key \in old.sources \ old.pending
  <2>1. CASE a \in Range(merged.alerts)
    <3>1. /\ merged.alerts = old.alerts /\ merged.pending = old.pending
          /\ merged.enabled = old.enabled
      BY <1>3, <2>1, FreshType
    <3>2. /\ old.enabled /\ a.key \in old.sources \ old.pending
          /\ Pair(a) \in Range(old.seen) \ S
      BY <1>0, <2>1, <3>1 DEF IsUnrepeated
    <3>3. QED
      BY <1>1, <1>3, <1>5, <3>1, <3>2 DEF Records
  <2>2. CASE a \notin Range(merged.alerts)
    <3>1. /\ merged.enabled /\ a.key \in merged.sources \ merged.pending
          /\ Pair(a) \in I \ Range(merged.seen)
      BY <1>5, <2>2 DEF Records
    <3>2. old.enabled /\ merged.pending = old.pending
      BY <1>3, <3>1 DEF Baseline
    <3>3. S \subseteq Range(merged.seen)
      BY <1>0, <1>3 DEF IsUnrepeated
    <3>4. QED
      BY <1>1, <1>3, <1>5, <3>1, <3>2, <3>3 DEF Records
  <2>3. QED
    BY <2>1, <2>2
<1>8. \A a \in Range(m.alerts) : Pair(a) \notin RecordedInSilence(d, m)
  <2> SUFFICES ASSUME NEW a \in Range(m.alerts) PROVE ~ InSilence(d, m, Pair(a)[1])
    BY DEF RecordedInSilence
  <2>1. Pair(a)[1] = a.key
    BY DEF Pair
  <2>2. m.enabled = TRUE /\ old.enabled = TRUE
    BY <1>7, <1>b
  <2>3. QED
    BY <1>7, <2>1, <2>2 DEF InSilence
<1>9. /\ Range(m.seen) = Range(old.seen) \cup I /\ Distinct(m.seen) /\ Distinct(m.alerts)
      /\ S \subseteq Range(old.seen)
  BY <1>0, <1>3, <1>5 DEF Records, IsUnrepeated
<1>10. IsUnrepeated(S \cup RecordedInSilence(d, m), m)
  BY <1>6, <1>7, <1>8, <1>9 DEF IsUnrepeated
<1>11. IsUnrepeated(S, TakenBack(d, m))
  <2> DEFINE f == TakenBack(d, m)
  <2>1. /\ f.enabled = old.enabled /\ f.alerts = old.alerts /\ f.pending = old.pending
        /\ f.sources = old.sources /\ f.seen = m.seen
    BY <1>1 DEF TakenBack, Monitor
  <2> HIDE DEF f
  <2>2. IsUnrepeated(S, f)
    BY <1>0, <1>9, <2>1 DEF IsUnrepeated
  <2>3. QED
    BY <2>2 DEF f
<1>12. QED
  BY <1>10, <1>11 DEF m

(* A poll without answers is in order.                                     *)
LEMMA NonePolled ==
  ASSUME NEW d \in Desktop, poll'[d].got = <<>>, d \notin poll'[d].todo
  PROVE  IsPolled(d)'
<1>1. Len(poll'[d].got) = 0
  BY EmptySeq
<1>2. QED
  BY <1>1 DEF IsPolled

(* Only what belongs to d is to be looked at.                              *)
LEMMA OthersUnrepeated ==
  ASSUME ReplayInv, NEW d \in Desktop, ReceiverInv', OnlyOf(d),
         IsUnrepeated(silent'[d], monitor'[d]), IsUnrepeated(silent'[d], stored'[d]),
         IsPolled(d)'
  PROVE  ReplayInv'
<1> SUFFICES ASSUME NEW e \in Desktop
             PROVE  /\ IsUnrepeated(silent'[e], monitor'[e])
                    /\ IsUnrepeated(silent'[e], stored'[e])
                    /\ IsPolled(e)'
  BY DEF ReplayInv
<1>1. CASE e = d
  BY <1>1
<1>2. CASE e # d
  <2>1. /\ monitor'[e] = monitor[e] /\ stored'[e] = stored[e]
        /\ poll'[e] = poll[e] /\ silent'[e] = silent[e]
    BY <1>2 DEF OnlyOf
  <2>2. IsUnrepeated(silent[e], monitor[e]) /\ IsUnrepeated(silent[e], stored[e]) /\ IsPolled(e)
    BY DEF ReplayInv
  <2>3. QED
    BY <2>1, <2>2 DEF IsPolled
<1>3. QED
  BY <1>1, <1>2

(* Nothing is repeated initially.                                          *)
LEMMA ReplayInitKeeps == ReceiverInit => ReplayInv
<1> SUFFICES ASSUME ReceiverInit PROVE ReplayInv
  OBVIOUS
<1>1. \A d \in Desktop : /\ silent[d] = {} /\ monitor[d] = Fresh /\ stored[d] = Fresh
                         /\ poll[d].got = <<>> /\ poll[d].todo = {}
  BY NoPollType DEF ReceiverInit
<1>2. IsUnrepeated({}, Fresh)
  BY FreshType DEF IsUnrepeated
<1>3. \A d \in Desktop : IsPolled(d)
  BY <1>1, EmptySeq DEF IsPolled
<1>4. QED
  BY <1>1, <1>2, <1>3, ReceiverInitKeeps DEF ReplayInv

(* The answer of a desktop joins those of others.                          *)
LEMMA ReadPeerReplay ==
  ASSUME ReplayInv, ReceiverInv', NEW d \in Desktop, NEW p \in Desktop, ReadPeer(d, p)
  PROVE  ReplayInv'
<1>0. ReceiverTypeOK /\ poll[d].got \in Seq(Reply) /\ IsPolled(d)
      /\ IsUnrepeated(silent[d], monitor[d]) /\ IsUnrepeated(silent[d], stored[d])
  BY DEF ReplayInv, ReceiverInv, ReceiverTypeOK, Poll
<1> DEFINE got == poll[d].got
<1>1. /\ OnlyOf(d) /\ UNCHANGED <<monitor, stored, token, spent, heard, silent>>
      /\ p \in poll[d].todo /\ poll'[d].todo = poll[d].todo \ {p}
  BY <1>0, ReadPeerKeeps
<1>2. PICK r \in Reply : r.from = p /\ poll'[d].got = Append(got, r)
  BY <1>0, ReadPeerKeeps
<1>3. /\ Len(poll'[d].got) = Len(got) + 1 /\ Len(got) \in Nat
      /\ \A i \in 1 .. Len(got) : poll'[d].got[i] = got[i]
      /\ poll'[d].got[Len(got) + 1] = r
  BY <1>0, <1>2, AppendProperties, LenProperties
<1>4. \A i \in 1 .. Len(got) + 1 : i \in 1 .. Len(got) \/ i = Len(got) + 1
  BY <1>3
<1>5. /\ \A i, j \in 1 .. Len(got) : got[i].from = got[j].from => i = j
      /\ \A i \in 1 .. Len(got) : got[i].from \notin poll[d].todo \cup {d}
  BY <1>0 DEF IsPolled
<1>6. p # d /\ d \notin poll'[d].todo
  BY <1>0, <1>1 DEF IsPolled
<1> HIDE DEF got
<1>7. \A i, j \in 1 .. Len(got) + 1 : poll'[d].got[i].from = poll'[d].got[j].from => i = j
  <2> SUFFICES ASSUME NEW i \in 1 .. Len(got) + 1, NEW j \in 1 .. Len(got) + 1,
                      poll'[d].got[i].from = poll'[d].got[j].from
               PROVE  i = j
    OBVIOUS
  <2>1. CASE i \in 1 .. Len(got) /\ j \in 1 .. Len(got)
    BY <1>3, <1>5, <2>1 DEF got
  <2>2. CASE i \in 1 .. Len(got) /\ j = Len(got) + 1
    BY <1>1, <1>2, <1>3, <1>5, <2>2 DEF got
  <2>3. CASE i = Len(got) + 1 /\ j \in 1 .. Len(got)
    BY <1>1, <1>2, <1>3, <1>5, <2>3 DEF got
  <2>4. QED
    BY <1>4, <2>1, <2>2, <2>3
<1>8. \A i \in 1 .. Len(got) + 1 : poll'[d].got[i].from \notin poll'[d].todo \cup {d}
  BY <1>1, <1>2, <1>3, <1>4, <1>5, <1>6 DEF got
<1>9. IsPolled(d)'
  BY <1>3, <1>6, <1>7, <1>8 DEF IsPolled
<1>10. IsUnrepeated(silent'[d], monitor'[d]) /\ IsUnrepeated(silent'[d], stored'[d])
  BY <1>0, <1>1
<1>11. QED
  BY <1>1, <1>9, <1>10, OthersUnrepeated

(* Every step keeps to it.                                                 *)
LEMMA ReplayNextKeeps ==
  ASSUME Room
  PROVE  ReplayInv /\ [ReceiverNext]_receiverVars => ReplayInv'
<1> SUFFICES ASSUME ReplayInv, [ReceiverNext]_receiverVars PROVE ReplayInv'
  OBVIOUS
<1>0. /\ ReceiverInv /\ ReceiverTypeOK /\ ReceiverInv'
      /\ \A d \in Desktop : /\ IsUnrepeated(silent[d], monitor[d])
                            /\ IsUnrepeated(silent[d], stored[d])
                            /\ IsPolled(d) /\ monitor[d] \in Monitor
  BY ReceiverNextKeeps DEF ReplayInv, ReceiverInv, ReceiverTypeOK
<1>1. ASSUME NEW d \in Desktop, Drains(d) PROVE ReplayInv'
  <2>1. /\ OnlyOf(d) /\ UNCHANGED <<monitor, stored, token, spent, heard, silent>>
        /\ \/ poll'[d].got = <<>> /\ poll'[d].todo = {}
           \/ poll'[d].got = poll[d].got /\ poll'[d].todo = poll[d].todo
    BY <1>0, <1>1, DrainsKeeps
  <2>2. IsPolled(d)'
    <3>1. CASE poll'[d].got = <<>> /\ poll'[d].todo = {}
      BY <3>1, NonePolled
    <3>2. CASE poll'[d].got = poll[d].got /\ poll'[d].todo = poll[d].todo
      BY <1>0, <3>2 DEF IsPolled
    <3>3. QED
      BY <2>1, <3>1, <3>2
  <2>3. IsUnrepeated(silent'[d], monitor'[d]) /\ IsUnrepeated(silent'[d], stored'[d])
    BY <1>0, <2>1
  <2>4. QED
    BY <1>0, <2>1, <2>2, <2>3, OthersUnrepeated
<1>2. ASSUME NEW d \in Desktop, ReadLocal(d) PROVE ReplayInv'
  <2>1. /\ OnlyOf(d) /\ UNCHANGED <<stored, silent>> /\ Relents(monitor[d], monitor'[d])
        /\ poll'[d].got = <<>> /\ d \notin poll'[d].todo
    BY <1>0, <1>2, ReadLocalKeeps
  <2>2. IsPolled(d)'
    BY <2>1, NonePolled
  <2>3. Yields(monitor[d], monitor'[d])
    BY <2>1 DEF Relents, Yields
  <2>4. IsUnrepeated(silent'[d], monitor'[d]) /\ IsUnrepeated(silent'[d], stored'[d])
    <3>1. IsUnrepeated(silent[d], monitor'[d])
      BY <1>0, <2>3, YieldsUnrepeated
    <3>2. QED
      BY <1>0, <2>1, <3>1
  <2>5. QED
    BY <1>0, <2>1, <2>2, <2>4, OthersUnrepeated
<1>3. ASSUME NEW d \in Desktop, Apply(d) PROVE ReplayInv'
  <2> DEFINE m == AfterPoll(d)
  <2>1. /\ OnlyOf(d) /\ poll'[d].got = <<>> /\ d \notin poll'[d].todo
        /\ \/ /\ Same(monitor'[d], m) /\ Same(stored'[d], m)
              /\ silent' = [silent EXCEPT ![d] = silent[d] \cup RecordedInSilence(d, m)]
           \/ monitor'[d] = TakenBack(d, m) /\ stored' = stored /\ silent' = silent
    BY <1>0, <1>3, ApplyKeeps
  <2>2. IsPolled(d)'
    BY <2>1, NonePolled
  <2>3. /\ IsUnrepeated(silent[d] \cup RecordedInSilence(d, m), m)
        /\ IsUnrepeated(silent[d], TakenBack(d, m))
    BY ApplyUnrepeated
  <2> HIDE DEF m
  <2>4. CASE /\ Same(monitor'[d], m) /\ Same(stored'[d], m)
             /\ silent' = [silent EXCEPT ![d] = silent[d] \cup RecordedInSilence(d, m)]
    <3>1. silent'[d] = silent[d] \cup RecordedInSilence(d, m)
      BY <1>0, <2>4 DEF ReceiverTypeOK
    <3>2. IsUnrepeated(silent'[d], m)
      BY <2>3, <3>1
    <3>3. IsUnrepeated(silent'[d], monitor'[d])
      BY <2>4, <3>2, SameUnrepeated
    <3>4. IsUnrepeated(silent'[d], stored'[d])
      BY <2>4, <3>2, SameUnrepeated
    <3>5. QED
      BY <1>0, <2>1, <2>2, <3>3, <3>4, OthersUnrepeated
  <2>5. CASE monitor'[d] = TakenBack(d, m) /\ stored' = stored /\ silent' = silent
    <3>1. IsUnrepeated(silent'[d], monitor'[d]) /\ IsUnrepeated(silent'[d], stored'[d])
      BY <1>0, <2>3, <2>5
    <3>2. QED
      BY <1>0, <2>1, <2>2, <3>1, OthersUnrepeated
  <2>6. QED
    BY <2>1, <2>4, <2>5
<1>4. ASSUME NEW d \in Desktop, NEW p \in Desktop, ReadPeer(d, p) PROVE ReplayInv'
  BY <1>0, <1>4, ReadPeerReplay
<1>5. ASSUME NEW d \in Desktop, OnlyOf(d), UNCHANGED <<silent, poll>>,
             Yields(monitor[d], monitor'[d]),
             Yields(monitor[d], stored'[d]) \/ stored'[d] = stored[d]
      PROVE  ReplayInv'
  <2>1. IsPolled(d)'
    BY <1>0, <1>5 DEF IsPolled
  <2>2. IsUnrepeated(silent[d], monitor'[d])
    BY <1>0, <1>5, YieldsUnrepeated
  <2>3. IsUnrepeated(silent[d], stored'[d])
    BY <1>0, <1>5, YieldsUnrepeated
  <2>4. silent'[d] = silent[d]
    BY <1>5
  <2>5. QED
    BY <1>0, <1>5, <2>1, <2>2, <2>3, <2>4, OthersUnrepeated
<1>6. ASSUME NEW d \in Desktop, Overview(d) PROVE ReplayInv'
  BY <1>0, <1>5, <1>6, OverviewKeeps
<1>7. ASSUME NEW d \in Desktop, NEW on \in BOOLEAN, Receiver(d, on) PROVE ReplayInv'
  BY <1>0, <1>5, <1>7, ReceiverKeeps
<1>8. ASSUME NEW d \in Desktop, TakeAlert(d) PROVE ReplayInv'
  <2> DEFINE old == monitor[d]
             m == [old EXCEPT !.alerts = Tail(old.alerts), !.dirty = TRUE]
             S == silent[d] \cup {Pair(Head(old.alerts))}
  <2>1. /\ OnlyOf(d) /\ UNCHANGED poll /\ old.alerts # <<>> /\ Same(monitor'[d], m)
        /\ \/ silent' = [silent EXCEPT ![d] = S] /\ Same(stored'[d], m)
           \/ silent' = silent /\ stored' = stored
    BY <1>0, <1>8, TakeAlertKeeps
  <2>2. IsUnrepeated(S, m) /\ IsUnrepeated(silent[d], m)
    BY <1>0, <2>1, ShownUnrepeated
  <2>3. IsPolled(d)'
    BY <1>0, <2>1 DEF IsPolled
  <2> HIDE DEF m, S
  <2>4. IsUnrepeated(silent'[d], monitor'[d]) /\ IsUnrepeated(silent'[d], stored'[d])
    <3>1. CASE silent' = [silent EXCEPT ![d] = S] /\ Same(stored'[d], m)
      <4>1. silent'[d] = S
        BY <1>0, <3>1 DEF ReceiverTypeOK
      <4>2. IsUnrepeated(S, monitor'[d])
        BY <2>1, <2>2, SameUnrepeated
      <4>3. IsUnrepeated(S, stored'[d])
        BY <2>2, <3>1, SameUnrepeated
      <4>4. QED
        BY <4>1, <4>2, <4>3
    <3>2. CASE silent' = silent /\ stored' = stored
      <4>1. IsUnrepeated(silent[d], monitor'[d])
        BY <2>1, <2>2, SameUnrepeated
      <4>2. QED
        BY <1>0, <3>2, <4>1
    <3>3. QED
      BY <2>1, <3>1, <3>2
  <2>5. QED
    BY <1>0, <2>1, <2>3, <2>4, OthersUnrepeated
<1>9. ASSUME NEW d \in Desktop, StartAgain(d) PROVE ReplayInv'
  <2>1. /\ OnlyOf(d) /\ UNCHANGED <<stored, silent>> /\ monitor'[d] = stored[d]
        /\ poll'[d].got = <<>> /\ d \notin poll'[d].todo
    BY <1>0, <1>9, StartAgainKeeps
  <2>2. IsPolled(d)'
    BY <2>1, NonePolled
  <2>3. IsUnrepeated(silent'[d], monitor'[d]) /\ IsUnrepeated(silent'[d], stored'[d])
    BY <1>0, <2>1
  <2>4. QED
    BY <1>0, <2>1, <2>2, <2>3, OthersUnrepeated
<1>10. ASSUME NEW e \in Event, Hook(e) PROVE ReplayInv'
  <2>1. UNCHANGED <<monitor, stored, token, poll, heard, silent>>
    BY <1>0, <1>10, HookKeeps
  <2>2. QED
    BY <1>0, <2>1 DEF ReplayInv, IsPolled
<1>11. CASE UNCHANGED receiverVars
  BY <1>0, <1>11 DEF receiverVars, feeds, ReplayInv, IsPolled
<1>12. QED
  BY <1>1, <1>2, <1>3, <1>4, <1>6, <1>7, <1>8, <1>9, <1>10, <1>11
     DEF ReceiverNext, Polls, Drains

(* While there is room for the ids of all events, no alert is raised for an*)
(* event that was shown, or recorded before the desktop became the receiver*)
(* (record, merge_selection, take_alert and the file of ai_monitor.rs).    *)
THEOREM NothingIsRepeated == Room => (ReceiverSpec => []NothingIsReplayed)
<1> SUFFICES ASSUME Room PROVE ReceiverSpec => []NothingIsReplayed
  OBVIOUS
<1>1. ReceiverInit => ReplayInv
  BY ReplayInitKeeps
<1>2. ReplayInv /\ [ReceiverNext]_receiverVars => ReplayInv'
  BY ReplayNextKeeps
<1>3. ReplayInv => NothingIsReplayed
  <2> SUFFICES ASSUME ReplayInv, NEW d \in Desktop, NEW i \in 1 .. Len(monitor[d].alerts)
               PROVE  Pair(monitor[d].alerts[i]) \notin silent[d]
    BY DEF NothingIsReplayed, Pair
  <2>1. monitor[d].alerts \in Seq(Alert)
    BY DEF ReplayInv, ReceiverInv, ReceiverTypeOK, Monitor
  <2>2. monitor[d].alerts[i] \in Range(monitor[d].alerts)
    BY <2>1, RangeAmong
  <2>3. QED
    BY <2>2 DEF ReplayInv, IsUnrepeated
<1>4. QED
  BY <1>1, <1>2, <1>3, PTL DEF ReceiverSpec
=============================================================================
