--------------------------- MODULE PostStream_proofs ---------------------------
(***************************************************************************)
(* For any number of posts, windows of any size and any number of          *)
(* deletions: no post is listed or shown twice, nothing staged stays       *)
(* behind, when everything has arrived the stream misses no post and no    *)
(* deleted post is shown, the posts shown are a window of the stream in    *)
(* its order, and a reader who scrolls down gets on.                       *)
(*                                                                         *)
(* The lists are folds over sequences.  The first sections say what each   *)
(* operation does to the elements of a list and to what comes before what  *)
(* in it; from there on no proof looks into a sequence.  StreamInv is the  *)
(* first inductive invariant: who knows of a post that is not in the       *)
(* stream yet, who is going to remove one that is gone, and why nobody     *)
(* knows the id that the staged post is going to have.  WindowInv is the   *)
(* second one, on top of it: news are told of in the order of their        *)
(* numbers, and what a request can still bring belongs at one end of what  *)
(* is loaded.                                                              *)
(***************************************************************************)
EXTENDS PostStream, FiniteSetTheorems, SequenceTheorems, WellFoundedInduction, TLAPS

-----------------------------------------------------------------------------
(* What the elements of sequences are *)

Before(s, x, y) == \E j \in DOMAIN s : \E k \in DOMAIN s : j < k /\ s[j] = x /\ s[k] = y

\* The elements of a sequence and what comes before what in it: all that the
\* proofs say of the lists stream and posts (post-stream.js).
LEMMA Elements ==
    ASSUME NEW U, NEW s \in Seq(U)
    PROVE  /\ Range(s) \in SUBSET U /\ s \in Seq(Range(s)) /\ Range(s) = {s[k] : k \in 1..Len(s)}
           /\ s = <<>> <=> Range(s) = {}
           /\ \A x, y : Before(s, x, y) => x \in Range(s) /\ y \in Range(s)
           /\ \A x, y \in Range(s) : x # y => Before(s, x, y) \/ Before(s, y, x)
           /\ IsInjective(s) <=> \A x : ~Before(s, x, x)
           /\ \A x : Contains(s, x) <=> x \in Range(s)
<1>0. Len(s) \in Nat /\ DOMAIN s = 1..Len(s) /\ \A n \in 1..Len(s) : s[n] \in U
  OBVIOUS
<1>1. Range(s) = {s[k] : k \in 1..Len(s)}
  BY <1>0 DEF Range
<1>2. Range(s) \in SUBSET U
  BY <1>0, <1>1
<1>3. s \in Seq(Range(s))
  BY SeqOfRange
<1>4. s = <<>> <=> Range(s) = {}
  <2>1. CASE s = <<>>
    BY <2>1, <1>1, <1>0
  <2>2. CASE s # <<>>
    <3>1. 1 \in 1..Len(s) BY <2>2, <1>0, EmptySeq
    <3> QED BY <3>1, <1>1, <2>2
  <2> QED BY <2>1, <2>2
<1>5. \A x, y : Before(s, x, y) => x \in Range(s) /\ y \in Range(s)
  BY <1>0, <1>1 DEF Before
<1>6. ASSUME NEW x \in Range(s), NEW y \in Range(s), x # y PROVE Before(s, x, y) \/ Before(s, y, x)
  <2>1. PICK j \in 1..Len(s) : s[j] = x BY <1>1
  <2>2. PICK k \in 1..Len(s) : s[k] = y BY <1>1
  <2>3. j < k \/ k < j BY <2>1, <2>2, <1>6, <1>0
  <2> QED BY <1>0, <2>1, <2>2, <2>3 DEF Before
<1>7. IsInjective(s) <=> \A x : ~Before(s, x, x)
  <2>1. ASSUME IsInjective(s), NEW x, Before(s, x, x) PROVE FALSE
    BY <2>1, <1>0 DEF IsInjective, Before
  <2>2. ASSUME \A x : ~Before(s, x, x) PROVE IsInjective(s)
    <3> SUFFICES ASSUME NEW a \in 1..Len(s), NEW b \in 1..Len(s), s[a] = s[b], a # b PROVE FALSE
      BY <1>0 DEF IsInjective
    <3>1. a < b \/ b < a BY <1>0
    <3> QED BY <2>2, <3>1, <1>0 DEF Before
  <2> QED BY <2>1, <2>2
<1>8. \A x : Contains(s, x) <=> x \in Range(s)
  BY <1>1 DEF Contains
<1> QED BY <1>1, <1>2, <1>3, <1>4, <1>5, <1>6, <1>7, <1>8

\* An element is added at the end (the push of appendPost, a message that is
\* published).
LEMMA AppendElements ==
    ASSUME NEW U, NEW s \in Seq(U), NEW e \in U
    PROVE  /\ Append(s, e) \in Seq(U) /\ Range(Append(s, e)) = Range(s) \cup {e}
           /\ \A x, y : Before(Append(s, e), x, y) <=> Before(s, x, y) \/ (x \in Range(s) /\ y = e)
<1> DEFINE r == Append(s, e)
<1>1. Len(s) \in Nat /\ DOMAIN s = 1..Len(s)
  OBVIOUS
<1>2. r \in Seq(U) /\ Len(r) = Len(s) + 1 /\ DOMAIN r = 1..(Len(s) + 1)
  OBVIOUS
<1>3. (\A i \in 1..Len(s) : r[i] = s[i]) /\ r[Len(s) + 1] = e
  OBVIOUS
<1> HIDE DEF r
<1>4. Range(r) = Range(s) \cup {e}
  <2>1. \A k \in 1..(Len(s) + 1) : k \in 1..Len(s) \/ k = Len(s) + 1 BY <1>1
  <2>2. \A k \in 1..Len(s) : k \in 1..(Len(s) + 1) BY <1>1
  <2>3. Len(s) + 1 \in 1..(Len(s) + 1) BY <1>1
  <2> QED BY <1>1, <1>2, <1>3, <2>1, <2>2, <2>3 DEF Range
<1>5. ASSUME NEW x, NEW y, Before(r, x, y) PROVE Before(s, x, y) \/ (x \in Range(s) /\ y = e)
  <2>1. PICK j \in 1..(Len(s) + 1), k \in 1..(Len(s) + 1) : j < k /\ r[j] = x /\ r[k] = y
    BY <1>5, <1>2 DEF Before
  <2>2. j \in 1..Len(s) BY <2>1, <1>1
  <2>3. CASE k = Len(s) + 1 BY <2>1, <2>2, <2>3, <1>1, <1>3 DEF Range
  <2>4. CASE k \in 1..Len(s) BY <2>1, <2>2, <2>4, <1>1, <1>3 DEF Before
  <2> QED BY <2>3, <2>4, <1>1
<1>6. ASSUME NEW x, NEW y, Before(s, x, y) PROVE Before(r, x, y)
  BY <1>6, <1>1, <1>2, <1>3 DEF Before
<1>7. ASSUME NEW x \in Range(s) PROVE Before(r, x, e)
  <2>1. PICK j \in 1..Len(s) : s[j] = x BY <1>1 DEF Range
  <2>2. j \in DOMAIN r /\ Len(s) + 1 \in DOMAIN r /\ j < Len(s) + 1 BY <1>1, <1>2
  <2> QED BY <2>1, <2>2, <1>3 DEF Before
<1> QED BY <1>2, <1>4, <1>5, <1>6, <1>7 DEF r

\* Two lists, one after the other (addObjects of new ids to stream).
LEMMA ConcatElements ==
    ASSUME NEW U, NEW s \in Seq(U), NEW t \in Seq(U)
    PROVE  /\ s \o t \in Seq(U) /\ Range(s \o t) = Range(s) \cup Range(t)
           /\ \A x, y : Before(s \o t, x, y) <=>
                Before(s, x, y) \/ Before(t, x, y) \/ (x \in Range(s) /\ y \in Range(t))
<1> DEFINE r == s \o t
<1>1. Len(s) \in Nat /\ DOMAIN s = 1..Len(s) /\ Len(t) \in Nat /\ DOMAIN t = 1..Len(t)
  OBVIOUS
<1>2. r \in Seq(U) /\ Len(r) = Len(s) + Len(t) /\ DOMAIN r = 1..(Len(s) + Len(t))
  OBVIOUS
<1>3. \A i \in 1..(Len(s) + Len(t)) : r[i] = IF i <= Len(s) THEN s[i] ELSE t[i - Len(s)]
  BY ConcatProperties
<1> HIDE DEF r
<1>4. \A i \in 1..Len(s) : i \in 1..(Len(s) + Len(t)) /\ r[i] = s[i]
  BY <1>1, <1>3
<1>5. \A i \in 1..Len(t) : Len(s) + i \in 1..(Len(s) + Len(t)) /\ r[Len(s) + i] = t[i]
  BY <1>1, <1>3
<1>6. \A i \in 1..(Len(s) + Len(t)) : i \in 1..Len(s) \/ (i - Len(s) \in 1..Len(t) /\ i > Len(s) /\ r[i] = t[i - Len(s)])
  BY <1>1, <1>3
<1>7. Range(r) = Range(s) \cup Range(t)
  <2>1. \A x \in Range(r) : x \in Range(s) \cup Range(t)
    BY <1>1, <1>2, <1>4, <1>6 DEF Range
  <2>2. \A x \in Range(s) : x \in Range(r)
    BY <1>1, <1>2, <1>4 DEF Range
  <2>3. \A x \in Range(t) : x \in Range(r)
    BY <1>1, <1>2, <1>5 DEF Range
  <2> QED BY <2>1, <2>2, <2>3
<1>8. ASSUME NEW x, NEW y, Before(r, x, y)
      PROVE  Before(s, x, y) \/ Before(t, x, y) \/ (x \in Range(s) /\ y \in Range(t))
  <2>1. PICK j \in 1..(Len(s) + Len(t)), k \in 1..(Len(s) + Len(t)) : j < k /\ r[j] = x /\ r[k] = y
    BY <1>8, <1>2 DEF Before
  <2>2. CASE k \in 1..Len(s)
    <3>1. j \in 1..Len(s) BY <2>1, <2>2, <1>1
    <3> QED BY <2>1, <2>2, <3>1, <1>1, <1>4 DEF Before
  <2>3. CASE k \notin 1..Len(s) /\ j \in 1..Len(s)
    <3>1. k - Len(s) \in 1..Len(t) /\ y = t[k - Len(s)] BY <2>1, <2>3, <1>6
    <3>2. x = s[j] BY <2>1, <2>3, <1>4
    <3> QED BY <3>1, <3>2, <2>3, <1>1 DEF Range
  <2>4. CASE k \notin 1..Len(s) /\ j \notin 1..Len(s)
    <3>1. k - Len(s) \in 1..Len(t) /\ y = t[k - Len(s)] BY <2>1, <2>4, <1>6
    <3>2. j - Len(s) \in 1..Len(t) /\ x = t[j - Len(s)] BY <2>1, <2>4, <1>6
    <3>3. j - Len(s) < k - Len(s) BY <2>1, <1>1
    <3> QED BY <3>1, <3>2, <3>3, <1>1 DEF Before
  <2> QED BY <2>2, <2>3, <2>4
<1>9. ASSUME NEW x, NEW y, Before(s, x, y) PROVE Before(r, x, y)
  BY <1>9, <1>1, <1>2, <1>4 DEF Before
<1>10. ASSUME NEW x, NEW y, Before(t, x, y) PROVE Before(r, x, y)
  <2>1. PICK j \in 1..Len(t), k \in 1..Len(t) : j < k /\ t[j] = x /\ t[k] = y
    BY <1>10, <1>1 DEF Before
  <2>2. Len(s) + j < Len(s) + k BY <2>1, <1>1
  <2> QED BY <2>1, <2>2, <1>1, <1>2, <1>5 DEF Before
<1>11. ASSUME NEW x \in Range(s), NEW y \in Range(t) PROVE Before(r, x, y)
  <2>1. PICK j \in 1..Len(s) : s[j] = x BY <1>1 DEF Range
  <2>2. PICK k \in 1..Len(t) : t[k] = y BY <1>1 DEF Range
  <2>3. j < Len(s) + k BY <1>1
  <2> QED BY <2>1, <2>2, <2>3, <1>2, <1>4, <1>5 DEF Before
<1> QED BY <1>2, <1>7, <1>8, <1>9, <1>10, <1>11 DEF r

\* The first element is taken off (a message is handled).
LEMMA TailElements ==
    ASSUME NEW U, NEW s \in Seq(U), s # <<>>
    PROVE  /\ Tail(s) \in Seq(U) /\ Head(s) \in Range(s) /\ Range(s) = Range(Tail(s)) \cup {Head(s)}
           /\ \A x, y : Before(s, x, y) <=> Before(Tail(s), x, y) \/ (x = Head(s) /\ y \in Range(Tail(s)))
<1> DEFINE r == Tail(s)
<1>1. Len(s) \in Nat /\ DOMAIN s = 1..Len(s) /\ Len(s) >= 1
  BY EmptySeq
<1>2. r \in Seq(U) /\ Len(r) = Len(s) - 1 /\ DOMAIN r = 1..(Len(s) - 1) /\ Head(s) = s[1]
  BY HeadTailProperties
<1>3. \A i \in 1..(Len(s) - 1) : r[i] = s[i + 1]
  BY <1>2, HeadTailProperties
<1> HIDE DEF r
<1>4. \A i \in 1..(Len(s) - 1) : i + 1 \in 1..Len(s)
  BY <1>1
<1>5. \A i \in 1..Len(s) : i = 1 \/ (i - 1 \in 1..(Len(s) - 1) /\ r[i - 1] = s[i])
  BY <1>1, <1>3
<1>6. 1 \in 1..Len(s)
  BY <1>1
<1>7. Head(s) \in Range(s)
  BY <1>1, <1>2, <1>6 DEF Range
<1>8. Range(s) = Range(r) \cup {Head(s)}
  <2>1. \A x \in Range(s) : x \in Range(r) \cup {Head(s)}
    BY <1>1, <1>2, <1>5 DEF Range
  <2>2. \A x \in Range(r) : x \in Range(s)
    BY <1>1, <1>2, <1>3, <1>4 DEF Range
  <2> QED BY <2>1, <2>2, <1>7
<1>9. ASSUME NEW x, NEW y, Before(s, x, y) PROVE Before(r, x, y) \/ (x = Head(s) /\ y \in Range(r))
  <2>1. PICK j \in 1..Len(s), k \in 1..Len(s) : j < k /\ s[j] = x /\ s[k] = y
    BY <1>9, <1>1 DEF Before
  <2>2. k - 1 \in 1..(Len(s) - 1) /\ r[k - 1] = y
    BY <2>1, <1>1, <1>5
  <2>3. CASE j = 1
    BY <2>1, <2>2, <2>3, <1>2 DEF Range
  <2>4. CASE j # 1
    <3>1. j - 1 \in 1..(Len(s) - 1) /\ r[j - 1] = x /\ j - 1 < k - 1
      BY <2>1, <2>4, <1>1, <1>5
    <3> QED BY <2>2, <3>1, <1>2 DEF Before
  <2> QED BY <2>3, <2>4
<1>10. ASSUME NEW x, NEW y, Before(r, x, y) PROVE Before(s, x, y)
  <2>1. PICK j \in 1..(Len(s) - 1), k \in 1..(Len(s) - 1) : j < k /\ r[j] = x /\ r[k] = y
    BY <1>10, <1>2 DEF Before
  <2>2. j + 1 < k + 1 BY <2>1
  <2> QED BY <2>1, <2>2, <1>1, <1>3, <1>4 DEF Before
<1>11. ASSUME NEW y \in Range(r) PROVE Before(s, Head(s), y)
  <2>1. PICK k \in 1..(Len(s) - 1) : r[k] = y BY <1>2 DEF Range
  <2>2. 1 < k + 1 BY <2>1
  <2> QED BY <2>1, <2>2, <1>1, <1>2, <1>3, <1>4, <1>6 DEF Before
<1> QED BY <1>2, <1>7, <1>8, <1>9, <1>10, <1>11 DEF r

\* The last element, what nextWindow starts from: nothing comes after it.
LEMMA LastElement ==
    ASSUME NEW U, NEW s \in Seq(U), s # <<>>
    PROVE  /\ Last(s) \in Range(s)
           /\ \A x \in Range(s) : x # Last(s) => Before(s, x, Last(s))
           /\ IsInjective(s) => \A y : ~Before(s, Last(s), y)
<1>1. Len(s) \in Nat /\ DOMAIN s = 1..Len(s) /\ Len(s) \in 1..Len(s)
  BY EmptySeq
<1>2. Last(s) \in Range(s)
  BY <1>1 DEF Range, Last
<1>3. ASSUME NEW x \in Range(s), x # Last(s) PROVE Before(s, x, Last(s))
  <2>1. PICK j \in 1..Len(s) : s[j] = x BY <1>1 DEF Range
  <2>2. j < Len(s) BY <2>1, <1>1, <1>3 DEF Last
  <2> QED BY <2>1, <2>2, <1>1 DEF Before, Last
<1>4. ASSUME IsInjective(s), NEW y, Before(s, Last(s), y) PROVE FALSE
  BY <1>4, <1>1 DEF IsInjective, Before, Last
<1> QED BY <1>2, <1>3, <1>4

\* The first element, what previousWindow starts from: nothing comes before
\* it.
LEMMA HeadElement ==
    ASSUME NEW U, NEW s \in Seq(U), s # <<>>
    PROVE  /\ Head(s) \in Range(s)
           /\ \A x \in Range(s) : x # Head(s) => Before(s, Head(s), x)
           /\ IsInjective(s) => \A y : ~Before(s, y, Head(s))
<1>1. Len(s) \in Nat /\ DOMAIN s = 1..Len(s) /\ 1 \in 1..Len(s) /\ Head(s) = s[1]
  BY EmptySeq, HeadTailProperties
<1>2. Head(s) \in Range(s)
  BY <1>1 DEF Range
<1>3. ASSUME NEW x \in Range(s), x # Head(s) PROVE Before(s, Head(s), x)
  <2>1. PICK j \in 1..Len(s) : s[j] = x BY <1>1 DEF Range
  <2>2. 1 < j BY <2>1, <1>1, <1>3
  <2> QED BY <2>1, <2>2, <1>1 DEF Before
<1>4. ASSUME IsInjective(s), NEW y, Before(s, y, Head(s)) PROVE FALSE
  BY <1>4, <1>1 DEF IsInjective, Before
<1> QED BY <1>2, <1>3, <1>4

\* prependMore walks its window backwards, and what was before is after.
LEMMA ReverseElements ==
    ASSUME NEW U, NEW s \in Seq(U)
    PROVE  /\ Reverse(s) \in Seq(U) /\ Range(Reverse(s)) = Range(s)
           /\ \A x, y : Before(Reverse(s), x, y) <=> Before(s, y, x)
<1> DEFINE r == Reverse(s)
<1>1. Len(s) \in Nat /\ DOMAIN s = 1..Len(s) /\ \A n \in 1..Len(s) : s[n] \in U
  OBVIOUS
<1>2. \A i \in 1..Len(s) : (Len(s) - i) + 1 \in 1..Len(s) /\ (Len(s) - ((Len(s) - i) + 1)) + 1 = i
  BY <1>1
<1>3. r = [i \in 1..Len(s) |-> s[(Len(s) - i) + 1]]
  BY DEF Reverse
<1>4. r \in [1..Len(s) -> U] /\ DOMAIN r = 1..Len(s) /\ \A i \in 1..Len(s) : r[i] = s[(Len(s) - i) + 1]
  BY <1>1, <1>2, <1>3
<1>5. r \in Seq(U) /\ Len(r) = Len(s)
  BY <1>1, <1>4, SeqDef
<1>6. \A i \in 1..Len(s) : s[i] = r[(Len(s) - i) + 1]
  BY <1>2, <1>4
<1> HIDE DEF r
<1>7. Range(r) = Range(s)
  <2>1. \A x \in Range(r) : x \in Range(s) BY <1>1, <1>2, <1>4 DEF Range
  <2>2. \A x \in Range(s) : x \in Range(r) BY <1>1, <1>2, <1>4, <1>6 DEF Range
  <2> QED BY <2>1, <2>2
<1>8. ASSUME NEW x, NEW y, Before(r, x, y) PROVE Before(s, y, x)
  <2>1. PICK j \in 1..Len(s), k \in 1..Len(s) : j < k /\ r[j] = x /\ r[k] = y
    BY <1>8, <1>4 DEF Before
  <2>2. (Len(s) - k) + 1 < (Len(s) - j) + 1 BY <2>1, <1>1
  <2> QED BY <2>1, <2>2, <1>1, <1>2, <1>4 DEF Before
<1>9. ASSUME NEW x, NEW y, Before(s, y, x) PROVE Before(r, x, y)
  <2>1. PICK j \in 1..Len(s), k \in 1..Len(s) : j < k /\ s[j] = y /\ s[k] = x
    BY <1>9, <1>1 DEF Before
  <2>2. (Len(s) - k) + 1 < (Len(s) - j) + 1 BY <2>1, <1>1
  <2> QED BY <2>1, <2>2, <1>2, <1>4, <1>6 DEF Before
<1> QED BY <1>5, <1>7, <1>8, <1>9 DEF r

\* The staged object gets its id in the place where it is (commitPost).
LEMMA ReplaceElements ==
    ASSUME NEW U, NEW s \in Seq(U), NEW old \in U, NEW new \in U, old # new
    PROVE  /\ ReplaceAll(s, old, new) \in Seq(U)
           /\ Range(ReplaceAll(s, old, new)) = (Range(s) \ {old}) \cup (IF old \in Range(s) THEN {new} ELSE {})
           /\ IsInjective(s) /\ (old \in Range(s) => new \notin Range(s)) =>
                /\ IsInjective(ReplaceAll(s, old, new))
                /\ \A x, y : Before(ReplaceAll(s, old, new), x, y) <=>
                        \/ x # new /\ y # new /\ x # old /\ y # old /\ Before(s, x, y)
                        \/ x = new /\ y # new /\ Before(s, old, y)
                        \/ y = new /\ x # new /\ Before(s, x, old)
                        \/ old \notin Range(s) /\ Before(s, x, y)
<1> DEFINE r == ReplaceAll(s, old, new)
<1>1. Len(s) \in Nat /\ DOMAIN s = 1..Len(s) /\ \A n \in 1..Len(s) : s[n] \in U
  OBVIOUS
<1>2. r = [i \in 1..Len(s) |-> IF s[i] = old THEN new ELSE s[i]]
  BY DEF ReplaceAll
<1>3. r \in [1..Len(s) -> U] /\ DOMAIN r = 1..Len(s) /\ \A i \in 1..Len(s) : r[i] = IF s[i] = old THEN new ELSE s[i]
  BY <1>1, <1>2
<1>4. r \in Seq(U) /\ Len(r) = Len(s)
  BY <1>1, <1>3, SeqDef
<1> HIDE DEF r
<1>5. Range(r) = (Range(s) \ {old}) \cup (IF old \in Range(s) THEN {new} ELSE {})
  <2>1. \A x \in Range(r) : x \in (Range(s) \ {old}) \cup (IF old \in Range(s) THEN {new} ELSE {})
    BY <1>1, <1>3 DEF Range
  <2>2. \A x \in Range(s) \ {old} : x \in Range(r)
    BY <1>1, <1>3 DEF Range
  <2>3. old \in Range(s) => new \in Range(r)
    BY <1>1, <1>3 DEF Range
  <2> QED BY <2>1, <2>2, <2>3
<1>6. ASSUME IsInjective(s), old \in Range(s) => new \notin Range(s)
      PROVE  /\ IsInjective(r)
             /\ \A x, y : Before(r, x, y) <=>
                        \/ x # new /\ y # new /\ x # old /\ y # old /\ Before(s, x, y)
                        \/ x = new /\ y # new /\ Before(s, old, y)
                        \/ y = new /\ x # new /\ Before(s, x, old)
                        \/ old \notin Range(s) /\ Before(s, x, y)
  <2>1. CASE old \notin Range(s)
    <3>1. \A i \in 1..Len(s) : s[i] # old /\ r[i] = s[i]
      BY <2>1, <1>1, <1>3 DEF Range
    <3>2. IsInjective(r)
      BY <3>1, <1>6, <1>1, <1>3 DEF IsInjective
    <3>3. \A x, y : Before(r, x, y) <=> Before(s, x, y)
      BY <3>1, <1>1, <1>3 DEF Before
    <3>4. \A y : ~Before(s, old, y) /\ ~Before(s, y, old)
      BY <3>1, <1>1 DEF Before
    <3> QED BY <3>2, <3>3, <3>4, <2>1
  <2>2. CASE old \in Range(s)
    <3>1. \A i \in 1..Len(s) : s[i] # new
      BY <2>2, <1>6, <1>1 DEF Range
    <3>2. IsInjective(r)
      BY <3>1, <1>6, <1>1, <1>3 DEF IsInjective
    <3>3. ASSUME NEW x, NEW y PROVE Before(r, x, y) <=>
                        \/ x # new /\ y # new /\ x # old /\ y # old /\ Before(s, x, y)
                        \/ x = new /\ y # new /\ Before(s, old, y)
                        \/ y = new /\ x # new /\ Before(s, x, old)
      <4>1. ASSUME Before(r, x, y) PROVE x # old /\ y # old /\ (x # new \/ y # new)
        BY <4>1, <3>2, <1>1, <1>3 DEF Before, IsInjective
      <4>2. CASE x # new /\ y # new
        <5>1. \A i \in 1..Len(s) : (r[i] = x => s[i] = x) /\ (r[i] = y => s[i] = y)
          BY <4>2, <1>3
        <5>2. ASSUME x # old, y # old PROVE \A i \in 1..Len(s) : (s[i] = x => r[i] = x) /\ (s[i] = y => r[i] = y)
          BY <5>2, <1>3
        <5>3. Before(r, x, y) => Before(s, x, y)
          BY <5>1, <1>1, <1>3 DEF Before
        <5>4. x # old /\ y # old /\ Before(s, x, y) => Before(r, x, y)
          BY <5>2, <1>1, <1>3 DEF Before
        <5> QED BY <5>3, <5>4, <4>1, <4>2
      <4>3. CASE x = new /\ y # new
        <5>1. \A i \in 1..Len(s) : (r[i] = x <=> s[i] = old) /\ (r[i] = y => s[i] = y)
          BY <4>3, <1>3, <3>1
        <5>2. y # old => \A i \in 1..Len(s) : s[i] = y => r[i] = y
          BY <1>3
        <5>3. Before(r, x, y) => Before(s, old, y)
          BY <5>1, <1>1, <1>3 DEF Before
        <5>4. Before(s, old, y) => y # old
          BY <1>6, <1>1 DEF Before, IsInjective
        <5>5. Before(s, old, y) => Before(r, x, y)
          BY <5>1, <5>2, <5>4, <1>1, <1>3 DEF Before
        <5> QED BY <5>3, <5>5, <4>3
      <4>4. CASE y = new /\ x # new
        <5>1. \A i \in 1..Len(s) : (r[i] = y <=> s[i] = old) /\ (r[i] = x => s[i] = x)
          BY <4>4, <1>3, <3>1
        <5>2. x # old => \A i \in 1..Len(s) : s[i] = x => r[i] = x
          BY <1>3
        <5>3. Before(r, x, y) => Before(s, x, old)
          BY <5>1, <1>1, <1>3 DEF Before
        <5>4. Before(s, x, old) => x # old
          BY <1>6, <1>1 DEF Before, IsInjective
        <5>5. Before(s, x, old) => Before(r, x, y)
          BY <5>1, <5>2, <5>4, <1>1, <1>3 DEF Before
        <5> QED BY <5>3, <5>5, <4>4
      <4>5. CASE x = new /\ y = new
        BY <4>1, <4>5
      <4> QED BY <4>2, <4>3, <4>4, <4>5
    <3> QED BY <3>2, <3>3, <2>2
  <2> QED BY <2>1, <2>2
<1> QED BY <1>4, <1>5, <1>6 DEF r

-----------------------------------------------------------------------------
(* The folds *)

\* Induction over the numbers, with the property as a set: what the induction
\* of folds rests on.
LEMMA Induction == ASSUME NEW S, 0 \in S, \A n \in Nat : n \in S => n+1 \in S PROVE \A n \in Nat : n \in S
<1> DEFINE T == Nat \ S
<1> SUFFICES ASSUME T # {} PROVE FALSE OBVIOUS
<1>1. PICK x \in T : \A y \in T : <<y, x>> \notin OpToRel(<, Nat)
  BY WFMin, NatLessThanWellFounded, Zenon
<1>2. \A y \in T : ~(y < x)
  BY <1>1, Zenon DEF OpToRel
<1> QED BY <1>2, SMT

\* The greatest number of a set of numbers up to n+1, and the others.
LEMMA MaxUpTo ==
    ASSUME NEW n \in Nat, NEW t \in SUBSET (1..(n+1)), t # {}
    PROVE  Max(t) \in t /\ t \ {Max(t)} \in SUBSET (1..n)
<1>1. \E x \in t : \A y \in t : x >= y
  <2> DEFINE up == {m \in Nat : \A u \in SUBSET (1..m) : u # {} => \E x \in u : \A y \in u : x >= y}
  <2>1. 0 \in up
    <3>1. \A u \in SUBSET (1..0) : u = {} OBVIOUS
    <3> QED BY <3>1
  <2>2. ASSUME NEW m \in Nat, m \in up PROVE m + 1 \in up
    <3> SUFFICES ASSUME NEW u \in SUBSET (1..(m+1)), u # {} PROVE \E x \in u : \A y \in u : x >= y
      OBVIOUS
    <3>1. CASE m + 1 \in u
      BY <3>1
    <3>2. CASE m + 1 \notin u
      BY <2>2, <3>2
    <3> QED BY <3>1, <3>2
  <2> HIDE DEF up
  <2>3. n + 1 \in up
    BY <2>1, <2>2, Induction
  <2> QED BY <2>3 DEF up
<1>2. Max(t) \in t /\ \A y \in t : Max(t) >= y
  BY <1>1, Zenon DEF Max
<1>3. ASSUME NEW y \in t \ {Max(t)} PROVE y \in 1..n
  <2>1. y \in 1..(n+1) /\ Max(t) \in 1..(n+1) BY <1>2
  <2> QED BY <1>2, <2>1
<1> QED BY <1>2, <1>3

KeepSteps(F, U, s, S) ==
    /\ F \in [0..Len(s) -> Seq(U)]
    /\ F[0] = <<>>
    /\ \A n \in 1..Len(s) : F[n] = IF s[n] \in S THEN Append(F[n-1], s[n]) ELSE F[n-1]
    /\ Keep(s, S) = F[Len(s)]

\* Keep goes through a list element by element (filter and without).
LEMMA KeepFold ==
    ASSUME NEW U, NEW s \in Seq(U), NEW S
    PROVE  \E F : KeepSteps(F, U, s, S)
<1> DEFINE body(h, t) == IF t = {} THEN <<>>
                         ELSE IF s[Max(t)] \in S THEN Append(h[t \ {Max(t)}], s[Max(t)]) ELSE h[t \ {Max(t)}]
           folds(n, h) == \A t \in SUBSET (1..n) : h[t] = body(h, t)
           good == {n \in Nat : n <= Len(s) => \E h \in [SUBSET (1..n) -> Seq(U)] : folds(n, h)}
<1>0. Len(s) \in Nat /\ DOMAIN s = 1..Len(s) /\ \A n \in 1..Len(s) : s[n] \in U
  OBVIOUS
<1>1. 0 \in good
  <2> DEFINE h == [t \in SUBSET (1..0) |-> <<>>]
  <2>1. folds(0, h) /\ h \in [SUBSET (1..0) -> Seq(U)]
    OBVIOUS
  <2> HIDE DEF h, folds
  <2> QED BY <2>1
<1>2. ASSUME NEW n \in Nat, n \in good PROVE n + 1 \in good
  <2> SUFFICES ASSUME n + 1 <= Len(s) PROVE \E h \in [SUBSET (1..(n+1)) -> Seq(U)] : folds(n + 1, h)
    <3>1. n + 1 \in Nat OBVIOUS
    <3> HIDE DEF folds
    <3> QED BY <3>1, Zenon DEF good
  <2>1. PICK g \in [SUBSET (1..n) -> Seq(U)] : folds(n, g)
    <3>1. n <= Len(s) BY <1>0
    <3> HIDE DEF folds
    <3>2. \E h \in [SUBSET (1..n) -> Seq(U)] : folds(n, h) BY <3>1, <1>2, Zenon
    <3> QED BY <3>2, Zenon
  <2> DEFINE h == [t \in SUBSET (1..(n+1)) |-> body(g, t)]
  <2>2. ASSUME NEW t \in SUBSET (1..(n+1)), t # {}
        PROVE  Max(t) \in 1..Len(s) /\ t \ {Max(t)} \in SUBSET (1..n)
    <3>1. Max(t) \in t /\ t \ {Max(t)} \in SUBSET (1..n)
      BY <2>2, MaxUpTo
    <3>2. Max(t) \in 1..(n+1) BY <3>1
    <3> QED BY <3>1, <3>2, <1>0
  <2>3. ASSUME NEW t \in SUBSET (1..n) PROVE h[t] = g[t]
    <3>1. t \in SUBSET (1..(n+1)) OBVIOUS
    <3> HIDE DEF body
    <3> QED BY <2>1, <3>1
  <2>4. h \in [SUBSET (1..(n+1)) -> Seq(U)]
    <3> SUFFICES ASSUME NEW t \in SUBSET (1..(n+1)) PROVE body(g, t) \in Seq(U)
      OBVIOUS
    <3> QED BY <2>2, <1>0
  <2>5. ASSUME NEW t \in SUBSET (1..(n+1)) PROVE body(g, t) = body(h, t)
    <3> HIDE DEF h
    <3> QED BY <2>2, <2>3
  <2>6. folds(n + 1, h)
    <3> HIDE DEF body
    <3> QED BY <2>5
  <2> HIDE DEF h, folds
  <2> QED BY <2>4, <2>6
<1>3. Len(s) \in good
  <2> HIDE DEF good
  <2> QED BY <1>0, <1>1, <1>2, Induction
<1>4. PICK K \in [SUBSET (1..Len(s)) -> Seq(U)] : folds(Len(s), K)
  <2> HIDE DEF folds
  <2>1. Len(s) <= Len(s) BY <1>0
  <2>2. \E h \in [SUBSET (1..Len(s)) -> Seq(U)] : folds(Len(s), h) BY <2>1, <1>3, Zenon
  <2> QED BY <2>2, Zenon
<1> DEFINE iter == CHOOSE h : h = [t \in SUBSET DOMAIN s |-> body(h, t)]
<1>5. iter = [t \in SUBSET DOMAIN s |-> body(iter, t)]
  <2>1. K = [t \in SUBSET DOMAIN s |-> body(K, t)]
    <3> HIDE DEF body
    <3> QED BY <1>0, <1>4
  <2> HIDE DEF body
  <2> QED BY <2>1
<1>6. Keep(s, S) = iter[DOMAIN s]
  BY DEF Keep, FoldLeft, MapThenFoldSet
<1>7. \A t \in SUBSET (1..Len(s)) : iter[t] = body(iter, t)
  <2> HIDE DEF iter, body
  <2> QED BY <1>5, <1>0
<1> HIDE DEF iter
<1> DEFINE F == [n \in 0..Len(s) |-> iter[1..n]]
<1>8. ASSUME NEW n \in 1..Len(s)
      PROVE  F[n] = IF s[n] \in S THEN Append(F[n-1], s[n]) ELSE F[n-1]
  <2>1. Max(1..n) = n /\ (1..n) \ {n} = 1..(n-1)
    <3>1. n \in 1..n /\ \A y \in 1..n : n >= y OBVIOUS
    <3>3. \E x \in 1..n : \A y \in 1..n : x >= y BY <3>1
    <3>4. Max(1..n) \in 1..n /\ \A y \in 1..n : Max(1..n) >= y BY <3>3, Zenon DEF Max
    <3> QED BY <3>1, <3>4
  <2>2. iter[1..n] = body(iter, 1..n)
    <3>1. 1..n \in SUBSET (1..Len(s)) BY <1>0
    <3> HIDE DEF body
    <3> QED BY <1>7, <3>1
  <2>3. n \in 1..n /\ n \in 0..Len(s) /\ n-1 \in 0..Len(s) BY <1>0
  <2> QED BY <2>1, <2>2, <2>3
<1>9. F[0] = <<>>
  <2>1. 1..0 = {} OBVIOUS
  <2>2. {} \in SUBSET (1..Len(s)) /\ 0 \in 0..Len(s) BY <1>0
  <2> QED BY <1>7, <2>1, <2>2
<1>10. F \in [0..Len(s) -> Seq(U)]
  <2> DEFINE ok == {n \in 0..Len(s) : F[n] \in Seq(U)} \cup {n \in Nat : n > Len(s)}
  <2>1. DOMAIN F = 0..Len(s) /\ F = [n \in 0..Len(s) |-> F[n]] OBVIOUS
  <2> HIDE DEF F
  <2>2. 0 \in ok
    <3>1. 0 \in 0..Len(s) /\ F[0] \in Seq(U) BY <1>9, <1>0, EmptySeq
    <3> QED BY <3>1
  <2>3. ASSUME NEW n \in Nat, n \in ok PROVE n + 1 \in ok
    <3>1. CASE n + 1 > Len(s) BY <3>1
    <3>2. CASE n + 1 <= Len(s)
      <4>1. F[n] \in Seq(U) /\ n + 1 \in 1..Len(s) /\ n + 1 - 1 = n BY <2>3, <3>2, <1>0
      <4>2. F[n + 1] = IF s[n + 1] \in S THEN Append(F[n], s[n + 1]) ELSE F[n] BY <4>1, <1>8
      <4>3. s[n + 1] \in U BY <4>1, <1>0
      <4>4. Append(F[n], s[n + 1]) \in Seq(U) BY <4>1, <4>3, AppendProperties
      <4>5. F[n + 1] \in Seq(U) BY <4>1, <4>2, <4>4
      <4> QED BY <4>1, <4>5, <1>0
    <3> QED BY <3>1, <3>2, <1>0
  <2>4. \A n \in Nat : n \in ok
    <3> HIDE DEF ok
    <3> QED BY <2>2, <2>3, Induction
  <2>5. \A n \in 0..Len(s) : F[n] \in Seq(U)
    BY <2>4, <1>0
  <2> QED BY <2>1, <2>5
<1>11. Keep(s, S) = F[Len(s)]
  BY <1>6, <1>0
<1> HIDE DEF F
<1> QED BY <1>8, <1>9, <1>10, <1>11 DEF KeepSteps

AppendSteps(F, U, ps, s) ==
    /\ F \in [0..Len(s) -> Seq(U)]
    /\ F[0] = ps
    /\ \A n \in 1..Len(s) : F[n] = IF Contains(F[n-1], s[n]) THEN F[n-1] ELSE Append(F[n-1], s[n])
    /\ AppendPosts(ps, s) = F[Len(s)]

\* AppendPosts goes through a list element by element (appendPost for each
\* post of an answer).
LEMMA AppendFold ==
    ASSUME NEW U, NEW ps \in Seq(U), NEW s \in Seq(U)
    PROVE  \E F : AppendSteps(F, U, ps, s)
<1> DEFINE body(h, t) == IF t = {} THEN ps
                         ELSE IF Contains(h[t \ {Max(t)}], s[Max(t)]) THEN h[t \ {Max(t)}] ELSE Append(h[t \ {Max(t)}], s[Max(t)])
           folds(n, h) == \A t \in SUBSET (1..n) : h[t] = body(h, t)
           good == {n \in Nat : n <= Len(s) => \E h \in [SUBSET (1..n) -> Seq(U)] : folds(n, h)}
<1>0. Len(s) \in Nat /\ DOMAIN s = 1..Len(s) /\ \A n \in 1..Len(s) : s[n] \in U
  OBVIOUS
<1>1. 0 \in good
  <2> DEFINE h == [t \in SUBSET (1..0) |-> ps]
  <2>1. folds(0, h) /\ h \in [SUBSET (1..0) -> Seq(U)]
    OBVIOUS
  <2> HIDE DEF h, folds
  <2> QED BY <2>1
<1>2. ASSUME NEW n \in Nat, n \in good PROVE n + 1 \in good
  <2> SUFFICES ASSUME n + 1 <= Len(s) PROVE \E h \in [SUBSET (1..(n+1)) -> Seq(U)] : folds(n + 1, h)
    <3>1. n + 1 \in Nat OBVIOUS
    <3> HIDE DEF folds
    <3> QED BY <3>1, Zenon DEF good
  <2>1. PICK g \in [SUBSET (1..n) -> Seq(U)] : folds(n, g)
    <3>1. n <= Len(s) BY <1>0
    <3> HIDE DEF folds
    <3>2. \E h \in [SUBSET (1..n) -> Seq(U)] : folds(n, h) BY <3>1, <1>2, Zenon
    <3> QED BY <3>2, Zenon
  <2> DEFINE h == [t \in SUBSET (1..(n+1)) |-> body(g, t)]
  <2>2. ASSUME NEW t \in SUBSET (1..(n+1)), t # {}
        PROVE  Max(t) \in 1..Len(s) /\ t \ {Max(t)} \in SUBSET (1..n)
    <3>1. Max(t) \in t /\ t \ {Max(t)} \in SUBSET (1..n)
      BY <2>2, MaxUpTo
    <3>2. Max(t) \in 1..(n+1) BY <3>1
    <3> QED BY <3>1, <3>2, <1>0
  <2>3. ASSUME NEW t \in SUBSET (1..n) PROVE h[t] = g[t]
    <3>1. t \in SUBSET (1..(n+1)) OBVIOUS
    <3> HIDE DEF body
    <3> QED BY <2>1, <3>1
  <2>4. h \in [SUBSET (1..(n+1)) -> Seq(U)]
    <3> SUFFICES ASSUME NEW t \in SUBSET (1..(n+1)) PROVE body(g, t) \in Seq(U)
      OBVIOUS
    <3> QED BY <2>2, <1>0
  <2>5. ASSUME NEW t \in SUBSET (1..(n+1)) PROVE body(g, t) = body(h, t)
    <3> HIDE DEF h
    <3> QED BY <2>2, <2>3
  <2>6. folds(n + 1, h)
    <3> HIDE DEF body
    <3> QED BY <2>5
  <2> HIDE DEF h, folds
  <2> QED BY <2>4, <2>6
<1>3. Len(s) \in good
  <2> HIDE DEF good
  <2> QED BY <1>0, <1>1, <1>2, Induction
<1>4. PICK K \in [SUBSET (1..Len(s)) -> Seq(U)] : folds(Len(s), K)
  <2> HIDE DEF folds
  <2>1. Len(s) <= Len(s) BY <1>0
  <2>2. \E h \in [SUBSET (1..Len(s)) -> Seq(U)] : folds(Len(s), h) BY <2>1, <1>3, Zenon
  <2> QED BY <2>2, Zenon
<1> DEFINE iter == CHOOSE h : h = [t \in SUBSET DOMAIN s |-> body(h, t)]
<1>5. iter = [t \in SUBSET DOMAIN s |-> body(iter, t)]
  <2>1. K = [t \in SUBSET DOMAIN s |-> body(K, t)]
    <3> HIDE DEF body
    <3> QED BY <1>0, <1>4
  <2> HIDE DEF body
  <2> QED BY <2>1
<1>6. AppendPosts(ps, s) = iter[DOMAIN s]
  BY DEF AppendPosts, FoldLeft, MapThenFoldSet
<1>7. \A t \in SUBSET (1..Len(s)) : iter[t] = body(iter, t)
  <2> HIDE DEF iter, body
  <2> QED BY <1>5, <1>0
<1> HIDE DEF iter
<1> DEFINE F == [n \in 0..Len(s) |-> iter[1..n]]
<1>8. ASSUME NEW n \in 1..Len(s)
      PROVE  F[n] = IF Contains(F[n-1], s[n]) THEN F[n-1] ELSE Append(F[n-1], s[n])
  <2>1. Max(1..n) = n /\ (1..n) \ {n} = 1..(n-1)
    <3>1. n \in 1..n /\ \A y \in 1..n : n >= y OBVIOUS
    <3>3. \E x \in 1..n : \A y \in 1..n : x >= y BY <3>1
    <3>4. Max(1..n) \in 1..n /\ \A y \in 1..n : Max(1..n) >= y BY <3>3, Zenon DEF Max
    <3> QED BY <3>1, <3>4
  <2>2. iter[1..n] = body(iter, 1..n)
    <3>1. 1..n \in SUBSET (1..Len(s)) BY <1>0
    <3> HIDE DEF body
    <3> QED BY <1>7, <3>1
  <2>3. n \in 1..n /\ n \in 0..Len(s) /\ n-1 \in 0..Len(s) BY <1>0
  <2> QED BY <2>1, <2>2, <2>3
<1>9. F[0] = ps
  <2>1. 1..0 = {} OBVIOUS
  <2>2. {} \in SUBSET (1..Len(s)) /\ 0 \in 0..Len(s) BY <1>0
  <2> QED BY <1>7, <2>1, <2>2
<1>10. F \in [0..Len(s) -> Seq(U)]
  <2> DEFINE ok == {n \in 0..Len(s) : F[n] \in Seq(U)} \cup {n \in Nat : n > Len(s)}
  <2>1. DOMAIN F = 0..Len(s) /\ F = [n \in 0..Len(s) |-> F[n]] OBVIOUS
  <2> HIDE DEF F
  <2>2. 0 \in ok
    <3>1. 0 \in 0..Len(s) /\ F[0] \in Seq(U) BY <1>9, <1>0
    <3> QED BY <3>1
  <2>3. ASSUME NEW n \in Nat, n \in ok PROVE n + 1 \in ok
    <3>1. CASE n + 1 > Len(s) BY <3>1
    <3>2. CASE n + 1 <= Len(s)
      <4>1. F[n] \in Seq(U) /\ n + 1 \in 1..Len(s) /\ n + 1 - 1 = n BY <2>3, <3>2, <1>0
      <4>2. F[n + 1] = IF Contains(F[n], s[n + 1]) THEN F[n] ELSE Append(F[n], s[n + 1]) BY <4>1, <1>8
      <4>3. s[n + 1] \in U BY <4>1, <1>0
      <4>4. Append(F[n], s[n + 1]) \in Seq(U) BY <4>1, <4>3, AppendProperties
      <4>5. F[n + 1] \in Seq(U) BY <4>1, <4>2, <4>4
      <4> QED BY <4>1, <4>5, <1>0
    <3> QED BY <3>1, <3>2, <1>0
  <2>4. \A n \in Nat : n \in ok
    <3> HIDE DEF ok
    <3> QED BY <2>2, <2>3, Induction
  <2>5. \A n \in 0..Len(s) : F[n] \in Seq(U)
    BY <2>4, <1>0
  <2> QED BY <2>1, <2>5
<1>11. AppendPosts(ps, s) = F[Len(s)]
  BY <1>6, <1>0
<1> HIDE DEF F
<1> QED BY <1>8, <1>9, <1>10, <1>11 DEF AppendSteps

-----------------------------------------------------------------------------
(* Lists that are filtered, extended and cut *)

\* What Keep gives (filter): the elements of s that are in S, in the order of
\* s.
LEMMA KeepElements ==
    ASSUME NEW U, NEW s \in Seq(U), NEW S
    PROVE  /\ Keep(s, S) \in Seq(U) /\ Range(Keep(s, S)) = Range(s) \cap S
           /\ IsInjective(s) => IsInjective(Keep(s, S))
           /\ \A x, y : Before(Keep(s, S), x, y) <=> Before(s, x, y) /\ x \in S /\ y \in S
<1>0. Len(s) \in Nat /\ DOMAIN s = 1..Len(s) /\ \A n \in 1..Len(s) : s[n] \in U
  OBVIOUS
<1>a. PICK F : KeepSteps(F, U, s, S)
  BY KeepFold
<1>1. /\ F \in [0..Len(s) -> Seq(U)]
      /\ F[0] = <<>>
      /\ \A n \in 1..Len(s) : F[n] = IF s[n] \in S THEN Append(F[n-1], s[n]) ELSE F[n-1]
      /\ Keep(s, S) = F[Len(s)]
  BY <1>a DEF KeepSteps
<1> DEFINE early(n) == {s[k] : k \in 1..n}
           pair(n, x, y) == \E j \in 1..n : \E k \in 1..n : j < k /\ s[j] = x /\ s[k] = y
           right(n) == /\ Range(F[n]) = early(n) \cap S
                       /\ \A x, y : Before(F[n], x, y) <=> pair(n, x, y) /\ x \in S /\ y \in S
           ok == {n \in Nat : n <= Len(s) => right(n)}
<1>2. 0 \in ok
  <2>1. right(0)
    <3>1. DOMAIN F[0] = {} BY <1>1
    <3> QED BY <3>1 DEF Range, Before
  <2> HIDE DEF right
  <2> QED BY <2>1
<1>3. ASSUME NEW n \in Nat, n \in ok PROVE n + 1 \in ok
  <2> SUFFICES ASSUME n + 1 <= Len(s) PROVE right(n + 1)
    <3> HIDE DEF right
    <3> QED OBVIOUS
  <2>1. right(n)
    <3> HIDE DEF right
    <3> QED BY <1>3, <1>0
  <2>2. n + 1 \in 1..Len(s) /\ n \in 0..Len(s) /\ n + 1 - 1 = n
    BY <1>0
  <2>3. F[n] \in Seq(U) /\ s[n + 1] \in U
    BY <1>1, <2>2, <1>0
  <2>4. F[n + 1] = IF s[n + 1] \in S THEN Append(F[n], s[n + 1]) ELSE F[n]
    BY <1>1, <2>2
  <2>5. early(n + 1) = early(n) \cup {s[n + 1]}
    <3>1. \A k \in 1..(n+1) : k \in 1..n \/ k = n + 1 OBVIOUS
    <3>2. \A k \in 1..n : k \in 1..(n+1) OBVIOUS
    <3>3. n + 1 \in 1..(n + 1) OBVIOUS
    <3> QED BY <3>1, <3>2, <3>3
  <2>6. ASSUME NEW x, NEW y PROVE pair(n + 1, x, y) <=> pair(n, x, y) \/ (x \in early(n) /\ y = s[n + 1])
    <3>1. \A k \in 1..(n+1) : k \in 1..n \/ k = n + 1 OBVIOUS
    <3>2. \A k \in 1..n : k \in 1..(n+1) /\ k < n + 1 OBVIOUS
    <3>3. n + 1 \in 1..(n + 1) OBVIOUS
    <3>4. \A j, k \in 1..(n+1) : j < k => j \in 1..n OBVIOUS
    <3>5. ASSUME pair(n + 1, x, y) PROVE pair(n, x, y) \/ (x \in early(n) /\ y = s[n + 1])
      <4>1. PICK j \in 1..(n+1), k \in 1..(n+1) : j < k /\ s[j] = x /\ s[k] = y BY <3>5
      <4>2. j \in 1..n BY <4>1, <3>4
      <4>3. CASE k \in 1..n BY <4>1, <4>2, <4>3
      <4>4. CASE k = n + 1 BY <4>1, <4>2, <4>4
      <4> QED BY <4>3, <4>4, <3>1
    <3>6. pair(n, x, y) => pair(n + 1, x, y) BY <3>2
    <3>7. ASSUME x \in early(n), y = s[n + 1] PROVE pair(n + 1, x, y)
      BY <3>2, <3>3, <3>7
    <3> QED BY <3>5, <3>6, <3>7
  <2> HIDE DEF early, pair
  <2>7. CASE s[n + 1] \in S
    <3>1. F[n + 1] = Append(F[n], s[n + 1]) BY <2>4, <2>7
    <3>2. /\ Range(F[n + 1]) = Range(F[n]) \cup {s[n + 1]}
          /\ \A x, y : Before(F[n + 1], x, y) <=> Before(F[n], x, y) \/ (x \in Range(F[n]) /\ y = s[n + 1])
      BY <2>3, <3>1, AppendElements
    <3>3. Range(F[n + 1]) = early(n + 1) \cap S BY <3>2, <2>1, <2>5, <2>7
    <3>4. ASSUME NEW x, NEW y PROVE Before(F[n + 1], x, y) <=> pair(n + 1, x, y) /\ x \in S /\ y \in S
      BY <3>2, <2>1, <2>6, <2>7
    <3> QED BY <3>3, <3>4
  <2>8. CASE s[n + 1] \notin S
    <3>1. F[n + 1] = F[n] BY <2>4, <2>8
    <3>3. Range(F[n + 1]) = early(n + 1) \cap S BY <3>1, <2>1, <2>5, <2>8
    <3>4. ASSUME NEW x, NEW y PROVE Before(F[n + 1], x, y) <=> pair(n + 1, x, y) /\ x \in S /\ y \in S
      BY <3>1, <2>1, <2>6, <2>8
    <3> QED BY <3>3, <3>4
  <2> QED BY <2>7, <2>8
<1>4. right(Len(s))
  <2> HIDE DEF ok
  <2>1. Len(s) \in ok BY <1>0, <1>2, <1>3, Induction
  <2> HIDE DEF right
  <2> QED BY <2>1, <1>0 DEF ok
<1>5. early(Len(s)) = Range(s) /\ \A x, y : pair(Len(s), x, y) <=> Before(s, x, y)
  BY <1>0 DEF Range, Before
<1>6. Keep(s, S) \in Seq(U)
  <2>1. Len(s) \in 0..Len(s) BY <1>0
  <2> QED BY <1>1, <2>1
<1>7. /\ Range(Keep(s, S)) = Range(s) \cap S
      /\ \A x, y : Before(Keep(s, S), x, y) <=> Before(s, x, y) /\ x \in S /\ y \in S
  <2> HIDE DEF early, pair
  <2> QED BY <1>1, <1>4, <1>5
<1>8. IsInjective(s) => IsInjective(Keep(s, S))
  BY <1>6, <1>7, Elements
<1> QED BY <1>6, <1>7, <1>8

\* What Drop gives (without and the ids of unloaded posts): the elements of s
\* that are not in S, in the order of s.
LEMMA DropElements ==
    ASSUME NEW U, NEW s \in Seq(U), NEW S
    PROVE  /\ Drop(s, S) \in Seq(U) /\ Range(Drop(s, S)) = Range(s) \ S
           /\ IsInjective(s) => IsInjective(Drop(s, S))
           /\ \A x, y : Before(Drop(s, S), x, y) <=> Before(s, x, y) /\ x \notin S /\ y \notin S
<1>1. \A x, y : Before(s, x, y) => x \in Range(s) /\ y \in Range(s)
  BY Elements
<1> QED BY <1>1, KeepElements DEF Drop

\* appendPost adds the posts that are not there yet behind the others, in
\* their order.
LEMMA AppendPostsElements ==
    ASSUME NEW U, NEW ps \in Seq(U), NEW s \in Seq(U)
    PROVE  /\ AppendPosts(ps, s) \in Seq(U) /\ Range(AppendPosts(ps, s)) = Range(ps) \cup Range(s)
           /\ IsInjective(ps) => IsInjective(AppendPosts(ps, s))
           /\ IsInjective(s) =>
                \A x, y : Before(AppendPosts(ps, s), x, y) <=>
                    \/ Before(ps, x, y)
                    \/ x \in Range(ps) /\ y \in Range(s) \ Range(ps)
                    \/ Before(s, x, y) /\ x \notin Range(ps) /\ y \notin Range(ps)
<1>0. Len(s) \in Nat /\ DOMAIN s = 1..Len(s) /\ \A n \in 1..Len(s) : s[n] \in U
  OBVIOUS
<1>a. PICK F : AppendSteps(F, U, ps, s)
  BY AppendFold
<1>1. /\ F \in [0..Len(s) -> Seq(U)]
      /\ F[0] = ps
      /\ \A n \in 1..Len(s) : F[n] = IF Contains(F[n-1], s[n]) THEN F[n-1] ELSE Append(F[n-1], s[n])
      /\ AppendPosts(ps, s) = F[Len(s)]
  BY <1>a DEF AppendSteps
<1> DEFINE early(n) == {s[k] : k \in 1..n}
           pair(n, x, y) == \E j \in 1..n : \E k \in 1..n : j < k /\ s[j] = x /\ s[k] = y
           ranged(n) == Range(F[n]) = Range(ps) \cup early(n)
           distinct(n) == IsInjective(ps) => IsInjective(F[n])
           ordered(n) == IsInjective(s) =>
                           \A x, y : Before(F[n], x, y) <=>
                             \/ Before(ps, x, y)
                             \/ x \in Range(ps) /\ y \in early(n) \ Range(ps)
                             \/ pair(n, x, y) /\ x \notin Range(ps) /\ y \notin Range(ps)
           right(n) == ranged(n) /\ distinct(n) /\ ordered(n)
           ok == {n \in Nat : n <= Len(s) => right(n)}
<1>2. 0 \in ok
  <2>1. right(0)
    <3>1. F[0] = ps /\ early(0) = {} /\ \A x, y : ~pair(0, x, y) BY <1>1
    <3> HIDE DEF early, pair
    <3> QED BY <3>1
  <2> HIDE DEF right
  <2> QED BY <2>1
<1>3. ASSUME NEW n \in Nat, n \in ok PROVE n + 1 \in ok
  <2> SUFFICES ASSUME n + 1 <= Len(s) PROVE right(n + 1)
    <3> HIDE DEF right
    <3> QED OBVIOUS
  <2>1. right(n)
    <3> HIDE DEF right
    <3> QED BY <1>3, <1>0
  <2>2. n + 1 \in 1..Len(s) /\ n \in 0..Len(s) /\ n + 1 - 1 = n
    BY <1>0
  <2>3. F[n] \in Seq(U) /\ s[n + 1] \in U
    BY <1>1, <2>2, <1>0
  <2>4. F[n + 1] = IF Contains(F[n], s[n + 1]) THEN F[n] ELSE Append(F[n], s[n + 1])
    BY <1>1, <2>2
  <2>5. early(n + 1) = early(n) \cup {s[n + 1]}
    <3>1. \A k \in 1..(n+1) : k \in 1..n \/ k = n + 1 OBVIOUS
    <3>2. \A k \in 1..n : k \in 1..(n+1) OBVIOUS
    <3>3. n + 1 \in 1..(n + 1) OBVIOUS
    <3> QED BY <3>1, <3>2, <3>3
  <2>6. ASSUME NEW x, NEW y PROVE pair(n + 1, x, y) <=> pair(n, x, y) \/ (x \in early(n) /\ y = s[n + 1])
    <3>1. \A k \in 1..(n+1) : k \in 1..n \/ k = n + 1 OBVIOUS
    <3>2. \A k \in 1..n : k \in 1..(n+1) /\ k < n + 1 OBVIOUS
    <3>3. n + 1 \in 1..(n + 1) OBVIOUS
    <3>4. \A j, k \in 1..(n+1) : j < k => j \in 1..n OBVIOUS
    <3>5. ASSUME pair(n + 1, x, y) PROVE pair(n, x, y) \/ (x \in early(n) /\ y = s[n + 1])
      <4>1. PICK j \in 1..(n+1), k \in 1..(n+1) : j < k /\ s[j] = x /\ s[k] = y BY <3>5
      <4>2. j \in 1..n BY <4>1, <3>4
      <4>3. CASE k \in 1..n BY <4>1, <4>2, <4>3
      <4>4. CASE k = n + 1 BY <4>1, <4>2, <4>4
      <4> QED BY <4>3, <4>4, <3>1
    <3>6. pair(n, x, y) => pair(n + 1, x, y) BY <3>2
    <3>7. ASSUME x \in early(n), y = s[n + 1] PROVE pair(n + 1, x, y)
      BY <3>2, <3>3, <3>7
    <3> QED BY <3>5, <3>6, <3>7
  <2>7. IsInjective(s) => s[n + 1] \notin early(n)
    <3>1. \A k \in 1..n : k \in 1..Len(s) /\ k # n + 1 BY <2>2, <1>0
    <3> QED BY <3>1, <2>2, <1>0 DEF IsInjective
  <2> HIDE DEF early, pair
  <2>8. Contains(F[n], s[n + 1]) <=> s[n + 1] \in Range(F[n])
    BY <2>3, Elements
  <2>9. CASE Contains(F[n], s[n + 1])
    <3>1. F[n + 1] = F[n] BY <2>4, <2>9
    <3>2. ranged(n + 1) BY <3>1, <2>1, <2>5, <2>8, <2>9
    <3>3. distinct(n + 1) BY <3>1, <2>1
    <3>4. ASSUME IsInjective(s), NEW x, NEW y
          PROVE  Before(F[n + 1], x, y) <=>
                             \/ Before(ps, x, y)
                             \/ x \in Range(ps) /\ y \in early(n + 1) \ Range(ps)
                             \/ pair(n + 1, x, y) /\ x \notin Range(ps) /\ y \notin Range(ps)
      <4>1. s[n + 1] \in Range(ps) BY <3>4, <2>7, <2>8, <2>9, <2>1
      <4>2. Before(F[n], x, y) <=>
                             \/ Before(ps, x, y)
                             \/ x \in Range(ps) /\ y \in early(n) \ Range(ps)
                             \/ pair(n, x, y) /\ x \notin Range(ps) /\ y \notin Range(ps)
        BY <3>4, <2>1
      <4> QED BY <4>1, <4>2, <3>1, <2>5, <2>6
    <3> QED BY <3>2, <3>3, <3>4
  <2>10. CASE ~Contains(F[n], s[n + 1])
    <3>1. F[n + 1] = Append(F[n], s[n + 1]) BY <2>4, <2>10
    <3>2. /\ F[n + 1] \in Seq(U) /\ Range(F[n + 1]) = Range(F[n]) \cup {s[n + 1]}
          /\ \A x, y : Before(F[n + 1], x, y) <=> Before(F[n], x, y) \/ (x \in Range(F[n]) /\ y = s[n + 1])
      BY <2>3, <3>1, AppendElements
    <3>3. ranged(n + 1) BY <3>2, <2>1, <2>5
    <3>4. distinct(n + 1)
      <4> SUFFICES ASSUME IsInjective(ps) PROVE IsInjective(F[n + 1]) OBVIOUS
      <4>1. \A x : ~Before(F[n], x, x) BY <2>1, <2>3, Elements
      <4>2. \A x : ~Before(F[n + 1], x, x) BY <4>1, <3>2, <2>8, <2>10
      <4> QED BY <4>2, <3>2, Elements
    <3>5. ASSUME IsInjective(s), NEW x, NEW y
          PROVE  Before(F[n + 1], x, y) <=>
                             \/ Before(ps, x, y)
                             \/ x \in Range(ps) /\ y \in early(n + 1) \ Range(ps)
                             \/ pair(n + 1, x, y) /\ x \notin Range(ps) /\ y \notin Range(ps)
      <4>1. s[n + 1] \notin Range(ps) /\ Range(F[n]) = Range(ps) \cup early(n) BY <2>8, <2>10, <2>1
      <4>2. Before(F[n], x, y) <=>
                             \/ Before(ps, x, y)
                             \/ x \in Range(ps) /\ y \in early(n) \ Range(ps)
                             \/ pair(n, x, y) /\ x \notin Range(ps) /\ y \notin Range(ps)
        BY <3>5, <2>1
      <4> QED BY <4>1, <4>2, <3>2, <2>5, <2>6
    <3> QED BY <3>3, <3>4, <3>5
  <2> QED BY <2>9, <2>10
<1>4. right(Len(s))
  <2> HIDE DEF ok
  <2>1. Len(s) \in ok BY <1>0, <1>2, <1>3, Induction
  <2> HIDE DEF right
  <2> QED BY <2>1, <1>0 DEF ok
<1>5. early(Len(s)) = Range(s) /\ \A x, y : pair(Len(s), x, y) <=> Before(s, x, y)
  BY <1>0 DEF Range, Before
<1>6. AppendPosts(ps, s) \in Seq(U)
  <2>1. Len(s) \in 0..Len(s) BY <1>0
  <2> QED BY <1>1, <2>1
<1>7. Range(AppendPosts(ps, s)) = Range(ps) \cup Range(s)
  <2> HIDE DEF early, pair
  <2> QED BY <1>1, <1>4, <1>5
<1>8. IsInjective(ps) => IsInjective(AppendPosts(ps, s))
  BY <1>1, <1>4
<1>9. ASSUME IsInjective(s), NEW x, NEW y
      PROVE  Before(AppendPosts(ps, s), x, y) <=>
                    \/ Before(ps, x, y)
                    \/ x \in Range(ps) /\ y \in Range(s) \ Range(ps)
                    \/ Before(s, x, y) /\ x \notin Range(ps) /\ y \notin Range(ps)
  <2> HIDE DEF early, pair
  <2> QED BY <1>1, <1>4, <1>5, <1>9
<1> QED BY <1>6, <1>7, <1>8, <1>9

\* prependPost adds the posts that are not there yet before the others, in
\* the opposite order: the window came in backwards.
LEMMA PrependPostsElements ==
    ASSUME NEW U, NEW ps \in Seq(U), NEW s \in Seq(U)
    PROVE  /\ PrependPosts(ps, s) \in Seq(U) /\ Range(PrependPosts(ps, s)) = Range(ps) \cup Range(s)
           /\ IsInjective(ps) => IsInjective(PrependPosts(ps, s))
           /\ IsInjective(s) =>
                \A x, y : Before(PrependPosts(ps, s), x, y) <=>
                    \/ Before(ps, x, y)
                    \/ y \in Range(ps) /\ x \in Range(s) \ Range(ps)
                    \/ Before(s, y, x) /\ x \notin Range(ps) /\ y \notin Range(ps)
<1> DEFINE q == Reverse(ps)
           a == AppendPosts(q, s)
<1>1. q \in Seq(U) /\ Range(q) = Range(ps) /\ \A x, y : Before(q, x, y) <=> Before(ps, y, x)
  BY ReverseElements
<1> HIDE DEF q
<1>2. IsInjective(ps) => IsInjective(q)
  BY <1>1, Elements
<1>3. /\ a \in Seq(U) /\ Range(a) = Range(q) \cup Range(s)
      /\ IsInjective(q) => IsInjective(a)
      /\ IsInjective(s) =>
                \A x, y : Before(a, x, y) <=>
                    \/ Before(q, x, y)
                    \/ x \in Range(q) /\ y \in Range(s) \ Range(q)
                    \/ Before(s, x, y) /\ x \notin Range(q) /\ y \notin Range(q)
  BY <1>1, AppendPostsElements
<1> HIDE DEF a
<1>4. Reverse(a) \in Seq(U) /\ Range(Reverse(a)) = Range(a) /\ \A x, y : Before(Reverse(a), x, y) <=> Before(a, y, x)
  BY <1>3, ReverseElements
<1>5. IsInjective(a) => IsInjective(Reverse(a))
  BY <1>3, <1>4, Elements
<1>6. PrependPosts(ps, s) = Reverse(a)
  BY DEF PrependPosts, a, q
<1>7. ASSUME IsInjective(s), NEW x, NEW y
      PROVE  Before(Reverse(a), x, y) <=>
                    \/ Before(ps, x, y)
                    \/ y \in Range(ps) /\ x \in Range(s) \ Range(ps)
                    \/ Before(s, y, x) /\ x \notin Range(ps) /\ y \notin Range(ps)
  BY <1>1, <1>3, <1>4, <1>7
<1> QED BY <1>1, <1>2, <1>3, <1>4, <1>5, <1>6, <1>7

\* The greater and the smaller of two numbers.
LEMMA MaxMin ==
    ASSUME NEW a \in Int, NEW b \in Int
    PROVE  Max({a, b}) = (IF a > b THEN a ELSE b) /\ Min({a, b}) = (IF a < b THEN a ELSE b)
<1>1. \E x \in {a, b} : \A y \in {a, b} : x >= y
  OBVIOUS
<1>2. \E x \in {a, b} : \A y \in {a, b} : x <= y
  OBVIOUS
<1>3. Max({a, b}) \in {a, b} /\ Max({a, b}) >= a /\ Max({a, b}) >= b
  BY <1>1, Zenon DEF Max
<1>4. Min({a, b}) \in {a, b} /\ Min({a, b}) <= a /\ Min({a, b}) <= b
  BY <1>2, Zenon DEF Min
<1> QED BY <1>3, <1>4

\* What a part of a list holds, and in which order (the slices of nextWindow
\* and previousWindow).
LEMMA SliceElements ==
    ASSUME NEW U, NEW s \in Seq(U), NEW from \in Int, NEW til \in Int
    PROVE  /\ Slice(s, from, til) \in Seq(U)
           /\ Range(Slice(s, from, til)) = {s[k] : k \in from..til \cap 1..Len(s)}
           /\ \A x, y : Before(Slice(s, from, til), x, y) <=>
                \E j \in from..til \cap 1..Len(s) : \E k \in from..til \cap 1..Len(s) : j < k /\ s[j] = x /\ s[k] = y
           /\ IsInjective(s) => IsInjective(Slice(s, from, til))
<1>0. Len(s) \in Nat /\ DOMAIN s = 1..Len(s) /\ \A k \in 1..Len(s) : s[k] \in U
  OBVIOUS
<1> DEFINE n == Len(s)
           lo == Max({from, 1})
           hi == Min({til, n})
           r == Slice(s, from, til)
<1>1. lo = IF from > 1 THEN from ELSE 1
  BY MaxMin
<1>n. n \in Int
  BY <1>0
<1>3. r = SubSeq(s, lo, hi)
  BY DEF Slice
<1> HIDE DEF n
<1>2. hi = IF til < n THEN til ELSE n
  BY MaxMin, <1>n
<1> HIDE DEF lo, hi
<1>4. lo \in Int /\ hi \in Int /\ lo..hi = from..til \cap 1..n
  <2>1. lo \in Int /\ hi \in Int BY <1>n, <1>1, <1>2
  <2>2. \A k \in Int : lo <= k <=> from <= k /\ 1 <= k BY <1>1
  <2>3. \A k \in Int : k <= hi <=> k <= til /\ k <= n BY <1>n, <1>2
  <2>4. \A k : k \in lo..hi <=> k \in from..til /\ k \in 1..n BY <1>n, <2>1, <2>2, <2>3
  <2> QED BY <2>1, <2>4, Zenon
<1>5. \A i \in lo..hi : s[i] \in U
  BY <1>0, <1>4 DEF n
<1>6. /\ r \in Seq(U) /\ Len(r) = (IF lo <= hi THEN hi - lo + 1 ELSE 0)
      /\ \A i \in 1..(hi - lo + 1) : r[i] = s[lo + i - 1]
  BY <1>3, <1>4, <1>5, SubSeqProperties
<1>7. DOMAIN r = 1..(hi - lo + 1)
  <2>1. DOMAIN r = 1..Len(r) BY <1>6
  <2> HIDE DEF r
  <2> QED BY <2>1, <1>4, <1>6
<1> HIDE DEF r
<1>8. \A i \in 1..(hi - lo + 1) : lo + i - 1 \in lo..hi /\ r[i] = s[lo + i - 1]
  BY <1>4, <1>6
<1>9. \A k \in lo..hi : k - lo + 1 \in 1..(hi - lo + 1) /\ r[k - lo + 1] = s[k]
  <2> TAKE k \in lo..hi
  <2>1. k - lo + 1 \in 1..(hi - lo + 1) /\ lo + (k - lo + 1) - 1 = k BY <1>4
  <2> QED BY <2>1, <1>6
<1>10. Range(r) = {s[k] : k \in lo..hi}
  BY <1>7, <1>8, <1>9 DEF Range
<1>11. ASSUME NEW x, NEW y
       PROVE  Before(r, x, y) <=> \E j \in lo..hi : \E k \in lo..hi : j < k /\ s[j] = x /\ s[k] = y
  <2>1. ASSUME Before(r, x, y) PROVE \E j \in lo..hi : \E k \in lo..hi : j < k /\ s[j] = x /\ s[k] = y
    <3>1. PICK j \in 1..(hi-lo+1), k \in 1..(hi-lo+1) : j < k /\ r[j] = x /\ r[k] = y BY <2>1, <1>7 DEF Before
    <3>2. lo + j - 1 < lo + k - 1 BY <3>1, <1>4
    <3> QED BY <3>1, <3>2, <1>8
  <2>2. ASSUME NEW j \in lo..hi, NEW k \in lo..hi, j < k, s[j] = x, s[k] = y PROVE Before(r, x, y)
    <3>1. j - lo + 1 < k - lo + 1 BY <2>2, <1>4
    <3> QED BY <3>1, <2>2, <1>7, <1>9 DEF Before
  <2> QED BY <2>1, <2>2
<1>12. IsInjective(s) => IsInjective(r)
  <2> SUFFICES ASSUME IsInjective(s), NEW x, Before(r, x, x) PROVE FALSE
    BY <1>6, Elements
  <2>1. PICK j \in lo..hi, k \in lo..hi : j < k /\ s[j] = x /\ s[k] = x
    BY <1>11
  <2> QED BY <2>1, <1>0, <1>4 DEF IsInjective, n
<1> DEFINE I == from..til \cap 1..Len(s)
<1>13. lo..hi = I
  BY <1>4, Zenon DEF n
<1> HIDE DEF I
<1>14. Range(r) = {s[k] : k \in I}
  BY <1>10, <1>13, Zenon
<1>15. ASSUME NEW x, NEW y
       PROVE  Before(r, x, y) <=> \E j \in I : \E k \in I : j < k /\ s[j] = x /\ s[k] = y
  <2>1. Before(r, x, y) <=> \E j \in lo..hi : \E k \in lo..hi : j < k /\ s[j] = x /\ s[k] = y
    BY <1>11
  <2> DEFINE L == lo..hi
  <2>2. L = I BY <1>13
  <2>3. Before(r, x, y) <=> \E j \in L : \E k \in L : j < k /\ s[j] = x /\ s[k] = y
    BY <2>1
  <2> HIDE DEF L
  <2> QED BY <2>2, <2>3
<1> QED BY <1>6, <1>12, <1>14, <1>15, Zenon DEF r, I

\* The index of an element, 0 without one (indexOf).
LEMMA IndexElements ==
    ASSUME NEW U, NEW s \in Seq(U), NEW e
    PROVE  /\ Index(s, e) \in 0..Len(s)
           /\ Index(s, e) = 0 <=> e \notin Range(s)
           /\ Index(s, e) # 0 => s[Index(s, e)] = e
<1> DEFINE I == {i \in 1..Len(s) : s[i] = e}
<1>0. Len(s) \in Nat /\ DOMAIN s = 1..Len(s)
  OBVIOUS
<1>1. Index(s, e) = IF I # {} THEN Min(I) ELSE 0
  BY DEF Index, SelectInSeq
<1>2. I = {} <=> e \notin Range(s)
  BY <1>0 DEF Range
<1>3. ASSUME I # {} PROVE Min(I) \in I
  <2>1. PICK x \in I : \A y \in I : <<y, x>> \notin OpToRel(<, Nat)
    <3>1. I \in SUBSET Nat BY <1>0
    <3> HIDE DEF I
    <3> QED BY <1>3, <3>1, WFMin, NatLessThanWellFounded, Zenon
  <2>2. \A y \in I : ~(y < x)
    <3>1. I \in SUBSET Nat BY <1>0
    <3> HIDE DEF I
    <3> QED BY <2>1, <3>1, Zenon DEF OpToRel
  <2>3. \E z \in I : \A y \in I : z <= y
    BY <2>2, <1>0
  <2> HIDE DEF I
  <2> QED BY <2>3, Zenon DEF Min
<1>4. \A i \in I : i \in 1..Len(s) /\ s[i] = e
  OBVIOUS
<1> HIDE DEF I
<1> QED BY <1>0, <1>1, <1>2, <1>3, <1>4

\* The ids of a topic view's stream, in the order of their numbers
\* (filter_posts).
LEMMA SortedElements ==
    ASSUME NEW S
    PROVE  /\ Sorted(S) \in Seq(Ids) /\ Range(Sorted(S)) = S \cap Ids
           /\ IsInjective(Sorted(S))
           /\ \A x, y : Before(Sorted(S), x, y) <=> x \in S \cap Ids /\ y \in S \cap Ids /\ x < y
<1> DEFINE all == [i \in Ids |-> i]
<1>1. MaxPost \in Nat
  BY PostStreamAssumption
<1>2. all \in Seq(Ids) /\ Len(all) = MaxPost /\ DOMAIN all = 1..MaxPost /\ \A i \in 1..MaxPost : all[i] = i
  BY <1>1 DEF Ids
<1>3. Sorted(S) = Keep(all, S)
  BY DEF Sorted
<1> HIDE DEF all
<1>4. IsInjective(all)
  BY <1>2 DEF IsInjective
<1>5. Range(all) = Ids
  BY <1>2 DEF Range, Ids
<1>6. \A x, y : Before(all, x, y) <=> x \in Ids /\ y \in Ids /\ x < y
  BY <1>2 DEF Before, Ids
<1> QED BY <1>2, <1>3, <1>4, <1>5, <1>6, KeepElements

\* The posts of a topic view (filter_posts_near): in order, all different,
\* none between two of them left out.
LEMMA FilterElements ==
    ASSUME NEW near \in Int, NEW S \in SUBSET Ids
    PROVE  /\ FilterPostsNear(near, S) \in Seq(Ids) /\ Range(FilterPostsNear(near, S)) \in SUBSET S
           /\ IsInjective(FilterPostsNear(near, S))
           /\ \A x, y \in Ids : Before(FilterPostsNear(near, S), x, y) => x < y
           /\ \A x, y \in Range(FilterPostsNear(near, S)) : \A z \in S : x < z /\ z < y => z \in Range(FilterPostsNear(near, S))
<1> DEFINE before == Max({Chunk \div 4, 1})
           some == Cardinality({i \in S : i < near})
           size == Cardinality(S)
           start == Min({some - before, size - Chunk})
           from == Max({start, 0})
           sorted == Sorted(S)
<1>1. Chunk \in Nat /\ MaxPost \in Nat
  BY PostStreamAssumption
<1>2. IsFiniteSet(S) /\ IsFiniteSet({i \in S : i < near})
  <2>1. IsFiniteSet(Ids) BY <1>1, FS_Interval DEF Ids
  <2>2. {i \in S : i < near} \in SUBSET Ids OBVIOUS
  <2> QED BY <2>1, <2>2, FS_Subset
<1>3. some \in Nat /\ size \in Nat
  BY <1>2, FS_CardinalityType
<1> HIDE DEF some, size
<1>4. Chunk \div 4 \in Int
  BY <1>1
<1>5. before \in Int
  <2> DEFINE quarter == Chunk \div 4
  <2>1. quarter \in Int BY <1>4
  <2> HIDE DEF quarter
  <2>2. Max({quarter, 1}) \in Int BY <2>1, MaxMin
  <2> QED BY <2>2 DEF quarter
<1> HIDE DEF before
<1>6. start \in Int
  <2> DEFINE a == some - before
             b == size - Chunk
  <2>1. a \in Int /\ b \in Int BY <1>1, <1>3, <1>5
  <2> HIDE DEF a, b
  <2>2. Min({a, b}) \in Int BY <2>1, MaxMin
  <2> QED BY <2>2 DEF a, b
<1> HIDE DEF start
<1>7. from \in Int
  BY <1>6, MaxMin
<1>8. FilterPostsNear(near, S) = Slice(sorted, from + 1, from + Chunk)
  BY Zenon DEF FilterPostsNear, from, start, some, size, before
<1> HIDE DEF from
<1> DEFINE first == from + 1
           last == from + Chunk
           fp == Slice(sorted, first, last)
<1>9. first \in Int /\ last \in Int
  BY <1>7, <1>1
<1>10. /\ sorted \in Seq(Ids) /\ Range(sorted) = S
       /\ IsInjective(sorted)
       /\ \A x, y : Before(sorted, x, y) <=> x \in S /\ y \in S /\ x < y
  BY SortedElements
<1>11. FilterPostsNear(near, S) = fp
  BY <1>8
<1> HIDE DEF first, last, sorted
<1>12. /\ fp \in Seq(Ids)
       /\ Range(fp) = {sorted[k] : k \in first..last \cap 1..Len(sorted)}
       /\ \A x, y : Before(fp, x, y) <=>
                \E j \in first..last \cap 1..Len(sorted) : \E k \in first..last \cap 1..Len(sorted) : j < k /\ sorted[j] = x /\ sorted[k] = y
       /\ IsInjective(sorted) => IsInjective(fp)
  BY <1>9, <1>10, SliceElements
<1> HIDE DEF fp
<1>13. Len(sorted) \in Nat /\ DOMAIN sorted = 1..Len(sorted)
  BY <1>10
<1> DEFINE I == first..last \cap 1..Len(sorted)
<1>a. \A k \in I : k \in 1..Len(sorted)
  OBVIOUS
<1>b. \A x, y : Before(fp, x, y) <=> \E j \in I : \E k \in I : j < k /\ sorted[j] = x /\ sorted[k] = y
  BY <1>12
<1>c. Range(fp) = {sorted[k] : k \in I}
  BY <1>12
<1> HIDE DEF I
<1>14. \A x, y : Before(fp, x, y) => Before(sorted, x, y)
  BY <1>a, <1>b, <1>13 DEF Before
<1>15. Range(fp) \in SUBSET S
  <2>1. \A k \in 1..Len(sorted) : sorted[k] \in S BY <1>10, <1>13 DEF Range
  <2> QED BY <1>a, <1>c, <2>1
<1>16. ASSUME NEW x \in Range(fp), NEW y \in Range(fp), NEW z \in S, x < z, z < y
       PROVE  z \in Range(fp)
  <2>1. PICK j \in I : sorted[j] = x BY <1>c
  <2>2. PICK k \in I : sorted[k] = y BY <1>c
  <2>3. PICK l \in 1..Len(sorted) : sorted[l] = z BY <1>10, <1>13 DEF Range
  <2>4. x \in Int /\ y \in Int /\ z \in Int
    <3>1. x \in Ids /\ y \in Ids /\ z \in Ids BY <1>15
    <3> QED BY <3>1, <1>1 DEF Ids
  <2>5. \A a, b \in 1..Len(sorted) : a < b => sorted[a] < sorted[b] BY <1>10, <1>13 DEF Before
  <2>6. j < l
    <3>1. ~(l < j) BY <2>1, <2>3, <2>4, <2>5, <1>16, <1>13, <1>a
    <3>2. l # j BY <2>1, <2>3, <2>4, <1>16
    <3> QED BY <3>1, <3>2, <1>13, <1>a
  <2>7. l < k
    <3>1. ~(k < l) BY <2>2, <2>3, <2>4, <2>5, <1>16, <1>13, <1>a
    <3>2. l # k BY <2>2, <2>3, <2>4, <1>16
    <3> QED BY <3>1, <3>2, <1>13, <1>a
  <2>8. l \in I BY <2>6, <2>7, <1>9, <1>13 DEF I
  <2> QED BY <2>3, <2>8, <1>c
<1>17. \A x, y \in Ids : Before(fp, x, y) => x < y
  BY <1>10, <1>14
<1> QED BY <1>10, <1>11, <1>12, <1>15, <1>16, <1>17

-----------------------------------------------------------------------------
(* What the operations on the lists do *)

AllIds == Ids \cup {Staged}
PostIds == Range(posts)
StreamIds == Range(stream)
Asked(c) == Range(call[c].ids)
Told(type, i) == <<type, i>> \in bus
Gone(i) == Told("deleted", i) \/ Told("destroyed", i)

\* loadedAllPosts in terms of elements: the end of the stream is shown.
LEMMA LoadedAllMeaning ==
    ASSUME posts \in Seq(AllIds), stream \in Seq(AllIds)
    PROVE  /\ LoadedAllPosts <=> /\ PostIds # {} /\ StreamIds # {}
                                 /\ Last(stream) = Staged \/ Last(stream) \in PostIds
           /\ StreamIds # {} => /\ Last(stream) \in StreamIds
                                /\ \A x \in StreamIds : x # Last(stream) => Before(stream, x, Last(stream))
<1>1. /\ posts = <<>> <=> PostIds = {}
      /\ \A x : Contains(posts, x) <=> x \in PostIds
  BY Elements DEF PostIds
<1>2. stream = <<>> <=> StreamIds = {}
  BY Elements DEF StreamIds
<1>3. StreamIds # {} => /\ Last(stream) \in StreamIds
                        /\ \A x \in StreamIds : x # Last(stream) => Before(stream, x, Last(stream))
  BY <1>2, LastElement DEF StreamIds
<1> QED BY <1>1, <1>2, <1>3 DEF LoadedAllPosts

\* What appendPost does to the posts shown
Appended(old, new, ids, S) ==
    /\ new \in Seq(AllIds) /\ Range(new) = Range(old) \cup (Range(ids) \cap S)
    /\ IsInjective(old) => IsInjective(new)
    /\ \A x, y : Before(new, x, y) <=>
            \/ Before(old, x, y)
            \/ x \in Range(old) /\ y \in (Range(ids) \cap S) \ Range(old)
            \/ Before(ids, x, y) /\ {x, y} \subseteq S \ Range(old)
Prepended(old, new, ids, S) ==
    /\ new \in Seq(AllIds) /\ Range(new) = Range(old) \cup (Range(ids) \cap S)
    /\ IsInjective(old) => IsInjective(new)
    /\ \A x, y : Before(new, x, y) <=>
            \/ Before(old, x, y)
            \/ y \in Range(old) /\ x \in (Range(ids) \cap S) \ Range(old)
            \/ Before(ids, y, x) /\ {x, y} \subseteq S \ Range(old)

\* What is shown when the identity map has the posts of S: only those of ids
\* are added (findPostsByIds drops the others).
LEMMA AppendedKnown ==
    ASSUME NEW ps \in Seq(AllIds), NEW ids \in Seq(Ids), IsInjective(ids), NEW S
    PROVE  Appended(ps, AppendPosts(ps, Known(ids, S)), ids, S) /\ Prepended(ps, PrependPosts(ps, Known(ids, S)), ids, S)
<1> DEFINE k == Known(ids, S)
<1>1. ids \in Seq(AllIds)
  BY DEF AllIds
<1>2. /\ k \in Seq(AllIds) /\ Range(k) = Range(ids) \cap S /\ IsInjective(k)
      /\ \A x, y : Before(k, x, y) <=> Before(ids, x, y) /\ x \in S /\ y \in S
  BY <1>1, KeepElements DEF Known
<1> HIDE DEF k
<1>3. /\ AppendPosts(ps, k) \in Seq(AllIds) /\ Range(AppendPosts(ps, k)) = Range(ps) \cup Range(k)
      /\ IsInjective(ps) => IsInjective(AppendPosts(ps, k))
      /\ \A x, y : Before(AppendPosts(ps, k), x, y) <=>
                    \/ Before(ps, x, y)
                    \/ x \in Range(ps) /\ y \in Range(k) \ Range(ps)
                    \/ Before(k, x, y) /\ x \notin Range(ps) /\ y \notin Range(ps)
  BY <1>2, AppendPostsElements
<1>4. /\ PrependPosts(ps, k) \in Seq(AllIds) /\ Range(PrependPosts(ps, k)) = Range(ps) \cup Range(k)
      /\ IsInjective(ps) => IsInjective(PrependPosts(ps, k))
      /\ \A x, y : Before(PrependPosts(ps, k), x, y) <=>
                    \/ Before(ps, x, y)
                    \/ y \in Range(ps) /\ x \in Range(k) \ Range(ps)
                    \/ Before(k, y, x) /\ x \notin Range(ps) /\ y \notin Range(ps)
  BY <1>2, PrependPostsElements
<1>5. Appended(ps, AppendPosts(ps, k), ids, S)
  BY <1>2, <1>3 DEF Appended
<1>6. Prepended(ps, PrependPosts(ps, k), ids, S)
  BY <1>2, <1>4 DEF Prepended
<1> QED BY <1>5, <1>6 DEF k

\* The arrival of posts adds to posts, and the arrival of new ones to stream
\* too.
LEMMA ShownEffect ==
    ASSUME posts \in Seq(AllIds), stream \in Seq(AllIds),
           NEW c \in Calls, NEW ids \in Seq(Ids), IsInjective(ids), NEW S, Shown(c, ids, S)
    PROVE  /\ IF c = "prepend" THEN Prepended(posts, posts', ids, S) ELSE Appended(posts, posts', ids, S)
           /\ IF c = "news" THEN Appended(stream, stream', ids, S) ELSE stream' = stream
<1>1. c = "append" \/ c = "prepend" \/ c = "news"
  BY DEF Calls, Windows
<1>2. CASE c = "append"
  <2>1. posts' = AppendPosts(posts, Known(ids, S)) /\ stream' = stream BY <1>2 DEF Shown
  <2> QED BY <2>1, <1>2, AppendedKnown
<1>3. CASE c = "prepend"
  <2>1. posts' = PrependPosts(posts, Known(ids, S)) /\ stream' = stream BY <1>3 DEF Shown
  <2> QED BY <2>1, <1>3, AppendedKnown
<1>4. CASE c = "news"
  <2>1. posts' = AppendPosts(posts, Known(ids, S)) /\ stream' = AppendPosts(stream, Known(ids, S)) BY <1>4 DEF Shown
  <2> QED BY <2>1, <1>4, AppendedKnown
<1> QED BY <1>1, <1>2, <1>3, <1>4

CallTypes == call \in [Calls -> [pc : {"idle", "sent", "served"}, ids : Seq(Ids), wanted : SUBSET Ids, got : SUBSET Ids]]

\* The call c for ids goes out
Goes(c, ids) ==
    /\ CallTypes'
    /\ call'[c].pc = "sent" /\ call'[c].ids = ids /\ call'[c].wanted = Range(ids) \ imap /\ call'[c].got = {}
    /\ \A d \in Calls \ {c} : call'[d] = call[d]

\* findPostsByIds shows the posts at once, or its request goes out and
\* nothing else changes.
LEMMA FindEffect ==
    ASSUME CallTypes, NEW c \in Calls, NEW ids \in Seq(Ids), Find(c, ids)
    PROVE  \/ Range(ids) \subseteq imap /\ Shown(c, ids, imap) /\ imap' = imap /\ call' = call
           \/ ~(Range(ids) \subseteq imap) /\ posts' = posts /\ stream' = stream /\ imap' = imap /\ Goes(c, ids)
<1>1. Missing(ids) \in Seq(Ids) /\ Range(Missing(ids)) = Range(ids) \ imap
  BY DropElements DEF Missing
<1>2. Missing(ids) = <<>> <=> Range(ids) \subseteq imap
  BY <1>1, Elements
<1>3. CASE Missing(ids) = <<>>
  BY <1>2, <1>3 DEF Find
<1>4. CASE Missing(ids) # <<>>
  <2>1. /\ call' = [call EXCEPT ![c] = [Idle EXCEPT !.pc = "sent", !.ids = ids, !.wanted = Range(Missing(ids))]]
        /\ posts' = posts /\ stream' = stream /\ imap' = imap
    BY <1>4 DEF Find, shown
  <2> DEFINE r == [Idle EXCEPT !.pc = "sent", !.ids = ids, !.wanted = Range(Missing(ids))]
  <2>2. r.pc = "sent" /\ r.ids = ids /\ r.wanted = Range(ids) \ imap /\ r.got = {}
    BY <1>1 DEF Idle
  <2>3. r \in [pc : {"idle", "sent", "served"}, ids : Seq(Ids), wanted : SUBSET Ids, got : SUBSET Ids]
    <3>1. Range(ids) \subseteq Ids BY Elements
    <3> QED BY <3>1, <1>1 DEF Idle
  <2>4. call' = [call EXCEPT ![c] = r]
    BY <2>1
  <2> HIDE DEF r
  <2>5. CallTypes'
    BY <2>3, <2>4 DEF CallTypes
  <2>6. Goes(c, ids)
    BY <2>2, <2>4, <2>5 DEF CallTypes, Goes
  <2> QED BY <2>1, <2>6, <1>2, <1>4
<1> QED BY <1>3, <1>4

\* new ids go to the end of the stream
Added(old, new, N, ids) ==
    /\ new \in Seq(AllIds) /\ Range(new) = Range(old) \cup N
    /\ IsInjective(old) => IsInjective(new)
    /\ \A x, y : Before(new, x, y) <=>
            \/ Before(old, x, y)
            \/ x \in Range(old) /\ y \in N
            \/ Before(ids, x, y) /\ {x, y} \subseteq N

\* The four outcomes of triggerNewPostsInStream: nothing new, shown at once,
\* asked for, or only listed in the stream.
LEMMA TriggerEffect ==
    ASSUME posts \in Seq(AllIds), stream \in Seq(AllIds), CallTypes,
           NEW ids \in Seq(Ids), IsInjective(ids), TriggerNewPosts(ids)
    PROVE  LET N == Range(ids) \ StreamIds
           IN  \/ N = {} /\ posts' = posts /\ stream' = stream /\ imap' = imap /\ call' = call
               \/ /\ N # {} /\ LoadedAllPosts /\ N \subseteq imap /\ imap' = imap /\ call' = call
                  /\ Added(stream, stream', N, ids)
                  /\ Appended(posts, posts', ids, N)
               \/ /\ N # {} /\ LoadedAllPosts /\ ~(N \subseteq imap)
                  /\ posts' = posts /\ stream' = stream /\ imap' = imap
                  /\ \E m \in Seq(Ids) : /\ IsInjective(m) /\ Range(m) = N /\ Goes("news", m)
                                         /\ \A x, y : Before(m, x, y) <=> Before(ids, x, y) /\ {x, y} \subseteq N
               \/ /\ N # {} /\ ~LoadedAllPosts
                  /\ posts' = posts /\ imap' = imap /\ call' = call
                  /\ Added(stream, stream', N, ids)
<1> DEFINE N == Range(ids) \ StreamIds
           m == Drop(ids, StreamIds)
<1>1. /\ m \in Seq(Ids) /\ Range(m) = N /\ IsInjective(m)
      /\ \A x, y : Before(m, x, y) <=> Before(ids, x, y) /\ x \notin StreamIds /\ y \notin StreamIds
  BY DropElements
<1>2. \A x, y : Before(ids, x, y) => x \in Range(ids) /\ y \in Range(ids)
  BY Elements
<1>3. \A x, y : Before(m, x, y) <=> Before(ids, x, y) /\ {x, y} \subseteq N
  BY <1>1, <1>2
<1>4. /\ m = <<>> => posts' = posts /\ stream' = stream /\ imap' = imap /\ call' = call
      /\ m # <<>> /\ LoadedAllPosts => Find("news", m)
      /\ m # <<>> /\ ~LoadedAllPosts => stream' = stream \o m /\ posts' = posts /\ imap' = imap /\ call' = call
  BY DEF TriggerNewPosts, StreamIds, shown
<1> HIDE DEF m
<1>5. m = <<>> <=> N = {}
  BY <1>1, Elements
<1>6. m \in Seq(AllIds)
  BY <1>1 DEF AllIds
<1>7. CASE m = <<>>
  BY <1>4, <1>5, <1>7
<1>8. CASE m # <<>> /\ ~LoadedAllPosts
  <2>1. /\ stream \o m \in Seq(AllIds) /\ Range(stream \o m) = StreamIds \cup N
        /\ \A x, y : Before(stream \o m, x, y) <=>
                Before(stream, x, y) \/ Before(m, x, y) \/ (x \in StreamIds /\ y \in N)
    BY <1>1, <1>6, ConcatElements DEF StreamIds
  <2>2. \A x, y : Before(stream, x, y) => x \in StreamIds /\ y \in StreamIds
    BY Elements DEF StreamIds
  <2>3. IsInjective(stream) => IsInjective(stream \o m)
    <3>1. \A x : ~Before(m, x, x) BY <1>1, Elements
    <3>2. IsInjective(stream) => \A x : ~Before(stream, x, x) BY Elements
    <3>3. IsInjective(stream) => \A x : ~Before(stream \o m, x, x) BY <2>1, <3>1, <3>2
    <3> QED BY <3>3, <2>1, Elements
  <2>4. Added(stream, stream', N, ids)
    <3>1. stream' = stream \o m BY <1>4, <1>8
    <3>2. \A x, y : Before(stream \o m, x, y) <=>
            Before(stream, x, y) \/ (x \in StreamIds /\ y \in N) \/ (Before(ids, x, y) /\ {x, y} \subseteq N)
      BY <2>1, <1>3
    <3> QED BY <3>1, <3>2, <2>1, <2>3 DEF Added, StreamIds
  <2> QED BY <2>4, <1>4, <1>5, <1>8
<1>9. CASE m # <<>> /\ LoadedAllPosts
  <2>1. Find("news", m) BY <1>4, <1>9
  <2>2. "news" \in Calls BY DEF Calls
  <2>3. CASE Range(m) \subseteq imap /\ Shown("news", m, imap) /\ imap' = imap /\ call' = call
    <3>1. Appended(posts, posts', m, imap) /\ Appended(stream, stream', m, imap)
      BY <2>2, <2>3, <1>1, ShownEffect
    <3>2. Range(m) \cap imap = N BY <2>3, <1>1
    <3>3. \A x, y : Before(m, x, y) /\ {x, y} \subseteq imap \ Range(posts) <=> Before(ids, x, y) /\ {x, y} \subseteq N \ Range(posts)
      BY <1>1, <1>3, <2>3
    <3>4. Range(ids) \cap N = N
      OBVIOUS
    <3>5. Appended(posts, posts', ids, N)
      BY <3>1, <3>2, <3>3, <3>4 DEF Appended
    <3>6. \A x, y : Before(m, x, y) /\ {x, y} \subseteq imap \ Range(stream) <=> Before(ids, x, y) /\ {x, y} \subseteq N
      BY <1>1, <1>3, <2>3 DEF StreamIds
    <3>7. N \ Range(stream) = N
      BY DEF StreamIds
    <3>8. Added(stream, stream', N, ids)
      BY <3>1, <3>2, <3>6, <3>7 DEF Appended, Added
    <3> QED BY <3>5, <3>8, <2>3, <1>1, <1>5, <1>9
  <2>4. CASE ~(Range(m) \subseteq imap) /\ posts' = posts /\ stream' = stream /\ imap' = imap /\ Goes("news", m)
    <3>1. \E k \in Seq(Ids) : /\ IsInjective(k) /\ Range(k) = N /\ Goes("news", k)
                              /\ \A x, y : Before(k, x, y) <=> Before(ids, x, y) /\ {x, y} \subseteq N
      BY <1>1, <1>3, <2>4
    <3> QED BY <3>1, <2>4, <1>1, <1>5, <1>9
  <2> QED BY <2>1, <2>2, <2>3, <2>4, <1>1, FindEffect
<1> QED BY <1>7, <1>8, <1>9

-----------------------------------------------------------------------------
(* The inductive invariant *)

Typed ==
    /\ visible \subseteq 1..last_post /\ last_post \in First..MaxPost
    /\ deletions \in 0..MaxDeletions
    /\ bus \subseteq Messages
    /\ stream \in Seq(AllIds) /\ posts \in Seq(AllIds)
    /\ imap \subseteq AllIds
    /\ staging \in BOOLEAN
    /\ create \in [pc : {"idle", "sent", "served"}, id : 0..MaxPost]
    /\ refresh \in [pc : {"idle", "sent", "served"}, near : 0..MaxPost, got : SUBSET Ids]
    /\ CallTypes
    /\ new_posts \in Seq(Ids)
    /\ checking \subseteq Ids
    /\ upset \subseteq {"failed", "disordered", "outdated"}

\* Nobody knows of a post that the server has not created yet
Numbered ==
    /\ \A i \in StreamIds \cup PostIds \cup imap : i = Staged \/ i <= last_post
    /\ \A i \in Ids : Told("created", i) \/ Gone(i) => i <= last_post
    /\ \A i \in Range(new_posts) \cup checking \cup refresh.got : i <= last_post
    /\ \A c \in Calls : \A i \in Asked(c) : i <= last_post
    /\ create.id <= last_post

\* What a request that is not answered holds
Settled ==
    /\ \A c \in Calls : /\ call[c].got \subseteq call[c].wanted /\ call[c].wanted \subseteq Asked(c)
                        /\ call[c].pc = "idle" => Asked(c) = {}
                        /\ call[c].pc # "served" => call[c].got = {}
    /\ refresh.pc # "served" => refresh.got = {}
    /\ create.pc # "served" => create.id = 0

\* The staged post: it is the last one of the stream but for others that are
\* shown too, and nobody knows the id that it is going to have
StagedAside ==
    /\ PostIds \subseteq imap
    /\ Staged \in StreamIds \cup imap => staging
    /\ staging => create.pc # "idle"
    /\ Staged \in PostIds => Staged \in StreamIds /\ \A y \in StreamIds : Before(stream, Staged, y) => y \in PostIds
    /\ create.id # 0 => Told("created", create.id)
    /\ Staged \in PostIds /\ create.id # 0 => create.id \notin imap /\ \A c \in Calls : create.id \notin Asked(c)

\* A request asks for what the identity map does not have
Requested == \A c \in Calls : call[c].pc = "sent" => Asked(c) \cap visible \subseteq imap \cup call[c].wanted

\* Every message is handled once
MailOnce ==
    /\ IsInjective(new_posts)
    /\ \A i \in Range(new_posts) : ~Told("created", i)
    /\ \A i \in Ids : Gone(i) \/ i \in checking => i \notin visible

Distinct ==
    /\ IsInjective(stream) /\ IsInjective(posts)
    /\ \A c \in Calls : IsInjective(call[c].ids)

\* A post that is gone is going to be removed
GhostsAnnounced ==
    "outdated" \notin upset =>
        /\ \A i \in imap : i = Staged \/ i \in visible \/ Gone(i) \/ i \in checking
        /\ \A i \in refresh.got : i \in visible \/ Gone(i)
        /\ \A c \in Calls : \A i \in call[c].got : i \in visible \/ Gone(i)
        /\ create.id # 0 => create.id \in visible \/ Gone(create.id)

\* A post that is not in the stream is going to get there
MissingAnnounced ==
    upset \cap {"failed", "outdated"} = {} =>
        /\ \A i \in visible : i \in StreamIds \/ Told("created", i) \/ i \in Range(new_posts) \/ i \in Asked("news")
        /\ call["news"].pc = "served" => Asked("news") \cap visible \subseteq imap \cup call["news"].got
        /\ refresh.pc = "served" => \A i \in visible : i \in refresh.got \/ Told("created", i)

StreamInv ==
    Typed /\ Numbered /\ Settled /\ StagedAside /\ Requested /\ MailOnce /\ Distinct /\ GhostsAnnounced /\ MissingAnnounced

-----------------------------------------------------------------------------

\* A message is there to be handled.
LEMMA SentEffect ==
    ASSUME bus \subseteq Messages, NEW type \in {"created", "deleted", "destroyed"}, NEW i \in Ids,
           bus' = bus \cup {<<type, i>>}
    PROVE  /\ bus' \subseteq Messages
           /\ \A t, j : Told(t, j)' <=> Told(t, j) \/ (t = type /\ j = i)
BY DEF Messages, Told

\* A message is handled.
LEMMA HandledEffect ==
    ASSUME bus \subseteq Messages, NEW type, NEW i, <<type, i>> \in bus, bus' = bus \ {<<type, i>>}
    PROVE  /\ bus' \subseteq Messages
           /\ \A t, j : Told(t, j) <=> Told(t, j)' \/ (t = type /\ j = i)
           /\ Told(type, i) /\ ~Told(type, i)'
BY DEF Told

\* The ids that the lists, the requests and the messages hold.
LEMMA IdTypes ==
    ASSUME Typed
    PROVE  /\ StreamIds \subseteq AllIds /\ PostIds \subseteq AllIds /\ Range(new_posts) \subseteq Ids
           /\ \A c \in Calls : Asked(c) \subseteq Ids
           /\ last_post \in Nat /\ last_post <= MaxPost /\ MaxPost \in Nat /\ visible \subseteq Ids
           /\ Staged \notin Ids /\ Ids \subseteq AllIds /\ 0 \notin Ids
           /\ \A i \in Ids : i \in Nat /\ i > 0
           /\ \A i : Told("created", i) \/ Gone(i) => i \in Ids
<1>1. StreamIds \subseteq AllIds /\ PostIds \subseteq AllIds /\ Range(new_posts) \subseteq Ids
  BY Elements DEF Typed, StreamIds, PostIds
<1>2. ASSUME NEW c \in Calls PROVE Asked(c) \subseteq Ids
  <2>1. call[c].ids \in Seq(Ids) BY DEF Typed, CallTypes
  <2> QED BY <2>1, Elements DEF Asked
<1>3. /\ last_post \in Nat /\ last_post <= MaxPost /\ MaxPost \in Nat /\ visible \subseteq Ids
      /\ Staged \notin Ids /\ Ids \subseteq AllIds /\ 0 \notin Ids
      /\ \A i \in Ids : i \in Nat /\ i > 0
  BY PostStreamAssumption DEF Typed, Ids, AllIds, Staged
<1>4. ASSUME NEW i, Told("created", i) \/ Gone(i) PROVE i \in Ids
  <2>1. bus \subseteq Messages BY DEF Typed
  <2> QED BY <2>1, <1>4 DEF Told, Gone, Messages
<1> QED BY <1>1, <1>2, <1>3, <1>4

-----------------------------------------------------------------------------
(* The steps of the server *)

\* A post is created, by somebody else or by the reader
NewPost ==
    /\ last_post < MaxPost
    /\ last_post' = last_post + 1
    /\ visible' = visible \cup {last_post + 1}
    /\ bus' = bus \cup {<<"created", last_post + 1>>}

\* A new post, of the reader (ServeCreate) or of others (Post), preserves the
\* invariant: its id is new to everybody.
LEMMA PostKeeps ==
    ASSUME StreamInv, NewPost, UNCHANGED <<deletions, shown, staging, refresh, call, new_posts, checking, upset>>,
           \/ create' = create
           \/ /\ create.pc = "sent" /\ create' \in [pc : {"idle", "sent", "served"}, id : 0..MaxPost]
              /\ create'.pc = "served" /\ create'.id \in {last_post + 1, 0}
    PROVE  StreamInv'
<1> USE DEF StreamInv
<1>1. /\ posts' = posts /\ stream' = stream /\ imap' = imap /\ PostIds' = PostIds /\ StreamIds' = StreamIds
      /\ \A c : Asked(c)' = Asked(c)
  BY DEF shown, PostIds, StreamIds, Asked
<1>2. /\ StreamIds \subseteq AllIds /\ PostIds \subseteq AllIds /\ Range(new_posts) \subseteq Ids
      /\ \A c \in Calls : Asked(c) \subseteq Ids
      /\ last_post \in Nat /\ MaxPost \in Nat /\ visible \subseteq Ids
      /\ \A i \in Ids : i \in Nat /\ i > 0
      /\ \A i : Told("created", i) \/ Gone(i) => i \in Ids
  BY IdTypes
<1> DEFINE n == last_post + 1
<1>3. n \in Ids /\ n # Staged /\ last_post < n
  BY <1>2 DEF NewPost, Ids, Staged
<1>4. ~Told("created", n) /\ ~Gone(n)
  BY <1>2, <1>3 DEF Numbered
<1>5. /\ bus' \subseteq Messages
      /\ \A t, j : Told(t, j)' <=> Told(t, j) \/ (t = "created" /\ j = n)
  BY <1>3, <1>4, SentEffect DEF Typed, MailOnce, NewPost
<1>6. \A j : Gone(j)' <=> Gone(j)
  BY <1>5 DEF Gone
<1>7. visible' = visible \cup {n} /\ last_post' = n
  BY DEF NewPost
<1> HIDE DEF n
<1>8. \A i : i \in visible \/ i \in imap \/ i \in StreamIds \/ i \in PostIds \/ i \in checking \/ i \in refresh.got \/ i \in Range(new_posts)
             \/ Told("created", i) \/ Gone(i) \/ (\E c \in Calls : i \in Asked(c)) => i # n
  <2>1. \A i \in visible : i <= last_post BY <1>2 DEF Typed
  <2>2. \A i \in Ids \cup AllIds : i # Staged /\ i <= last_post => i # n BY <1>2, <1>3 DEF AllIds
  <2>3. imap \subseteq AllIds /\ checking \subseteq Ids /\ refresh.got \subseteq Ids BY DEF Typed
  <2> QED BY <1>2, <1>3, <2>1, <2>2, <2>3 DEF Numbered
<1>9. Typed'
  <2>1. visible' \subseteq 1..last_post' /\ last_post' \in First..MaxPost
    <3>1. n = last_post + 1 BY DEF n
    <3> QED BY <3>1, <1>2, <1>7, PostStreamAssumption DEF Typed, NewPost
  <2>2. CallTypes' BY <1>1 DEF Typed, CallTypes
  <2> QED BY <2>1, <2>2, <1>1, <1>5, <1>7 DEF Typed, shown
<1>10. Numbered'
  <2>1. \A i \in AllIds \cup Ids \cup {0}: i <= last_post => i <= n BY <1>2, <1>3 DEF AllIds, Staged
  <2>2. imap \subseteq AllIds /\ checking \subseteq Ids /\ refresh.got \subseteq Ids /\ create.id \in Nat BY DEF Typed
  <2>3. create'.id <= n
    <3>1. create.id <= n BY <2>2, <1>2, <1>3 DEF Numbered, Ids
    <3>2. n \in Nat /\ n <= n /\ 0 <= n BY <1>2, <1>3
    <3> QED BY <3>1, <3>2 DEF n
  <2> QED BY <2>1, <2>2, <2>3, <1>1, <1>2, <1>3, <1>5, <1>6, <1>7 DEF Numbered
<1>11. Settled'
  BY <1>1 DEF Settled
<1>17. Requested'
  BY <1>1, <1>7, <1>8 DEF Requested
<1>12. StagedAside'
  <2>1. create'.id # 0 => create'.id = create.id \/ create'.id = n BY DEF n
  <2>2. CASE create'.id = n
    BY <2>2, <1>1, <1>3, <1>5, <1>8 DEF StagedAside, Settled, n
  <2>3. CASE create' = create
    BY <2>3, <1>1, <1>5 DEF StagedAside
  <2>4. CASE create'.id = 0 /\ create'.pc = "served"
    BY <2>4, <1>1, <1>5 DEF StagedAside
  <2> QED BY <2>2, <2>3, <2>4 DEF n
<1>13. MailOnce'
  BY <1>1, <1>2, <1>4, <1>5, <1>6, <1>7, <1>8 DEF MailOnce
<1>14. Distinct'
  BY <1>1 DEF Distinct
<1>15. GhostsAnnounced'
  <2>1. create'.id # 0 => create'.id = create.id \/ create'.id = n BY DEF n
  <2> QED BY <2>1, <1>1, <1>5, <1>6, <1>7 DEF GhostsAnnounced
<1>16. MissingAnnounced'
  <2>1. "news" \in Calls BY DEF Calls
  <2> QED BY <2>1, <1>1, <1>5, <1>7, <1>8 DEF MissingAnnounced
<1> QED BY <1>9, <1>10, <1>11, <1>17, <1>12, <1>13, <1>14, <1>15, <1>16

\* A deletion on the server (PostDestroyer) preserves the invariant.
LEMMA DeleteKeeps ==
    ASSUME StreamInv, NEW i \in Ids, Delete(i)
    PROVE  StreamInv'
<1> USE DEF StreamInv
<1>1. /\ posts' = posts /\ stream' = stream /\ imap' = imap /\ PostIds' = PostIds /\ StreamIds' = StreamIds
      /\ \A c : Asked(c)' = Asked(c)
  BY DEF Delete, shown, PostIds, StreamIds, Asked
<1>2. /\ \A c \in Calls : Asked(c) \subseteq Ids
      /\ last_post \in Nat /\ visible \subseteq Ids /\ StreamIds \subseteq AllIds
      /\ \A j \in Ids : j \in Nat
      /\ \A j : Told("created", j) \/ Gone(j) => j \in Ids
  BY IdTypes
<1>3. PICK type \in {"deleted", "destroyed"} : bus' = bus \cup {<<type, i>>}
  BY DEF Delete
<1>4. i \in visible /\ i <= last_post /\ ~Gone(i)
  BY <1>2 DEF Delete, Typed, MailOnce
<1>5. /\ bus' \subseteq Messages
      /\ \A t, j : Told(t, j)' <=> Told(t, j) \/ (t = type /\ j = i)
  BY <1>3, <1>4, SentEffect DEF Typed, MailOnce, Gone
<1>6. \A j : (Gone(j)' <=> Gone(j) \/ j = i) /\ (Told("created", j)' <=> Told("created", j))
  BY <1>5 DEF Gone
<1>9. Typed'
  <2>1. CallTypes' BY DEF Typed, CallTypes, Delete
  <2>2. deletions' \in 0..MaxDeletions BY PostStreamAssumption DEF Typed, Delete
  <2> QED BY <2>1, <2>2, <1>1, <1>5 DEF Typed, Delete
<1>10. Numbered'
  BY <1>1, <1>4, <1>6 DEF Numbered, Delete
<1>11. Settled'
  BY <1>1 DEF Settled, Delete
<1>17. Requested'
  BY <1>1 DEF Requested, Delete
<1>12. StagedAside'
  BY <1>1, <1>6 DEF StagedAside, Delete
<1>13. MailOnce'
  BY <1>5, <1>6 DEF MailOnce, Delete
<1>14. Distinct'
  BY <1>1 DEF Distinct, Delete
<1>15. GhostsAnnounced'
  BY <1>1, <1>6 DEF GhostsAnnounced, Delete
<1>16. MissingAnnounced'
  BY <1>1, <1>6 DEF MissingAnnounced, Delete
<1> QED BY <1>9, <1>10, <1>11, <1>17, <1>12, <1>13, <1>14, <1>15, <1>16

\* The answer of the creation preserves the invariant, with a post or
\* without.
LEMMA ServeCreateKeeps ==
    ASSUME StreamInv, ServeCreate
    PROVE  StreamInv'
<1> USE DEF StreamInv
<1>0. last_post \in Nat /\ last_post <= MaxPost /\ MaxPost \in Nat
  BY IdTypes
<1>1. CASE \E id \in {last_post + 1, 0} : NewPost /\ create' = [pc |-> "served", id |-> id]
  <2>1. PICK id \in {last_post + 1, 0} : NewPost /\ create' = [pc |-> "served", id |-> id]
    BY <1>1
  <2>2. create' \in [pc : {"idle", "sent", "served"}, id : 0..MaxPost] /\ create'.pc = "served" /\ create'.id = id
    BY <2>1, <1>0 DEF NewPost
  <2> QED BY <2>1, <2>2, PostKeeps DEF ServeCreate
<1>2. CASE create' = [pc |-> "served", id |-> 0] /\ UNCHANGED <<visible, last_post, bus>>
  <2>1. /\ posts' = posts /\ stream' = stream /\ imap' = imap /\ PostIds' = PostIds /\ StreamIds' = StreamIds
        /\ (\A c : Asked(c)' = Asked(c)) /\ (\A t, j : Told(t, j)' <=> Told(t, j)) /\ \A j : Gone(j)' <=> Gone(j)
    BY <1>2 DEF ServeCreate, shown, PostIds, StreamIds, Asked, Told, Gone
  <2>2. create' \in [pc : {"idle", "sent", "served"}, id : 0..MaxPost] /\ create'.pc = "served" /\ create'.id = 0
    BY <1>2, <1>0
  <2>3. Typed'
    <3>1. CallTypes' BY DEF Typed, CallTypes, ServeCreate
    <3> QED BY <3>1, <2>1, <2>2, <1>2 DEF Typed, ServeCreate
  <2>4. Numbered'
    BY <2>1, <2>2, <1>0, <1>2 DEF Numbered, ServeCreate
  <2>5. Settled'
    BY <2>1, <2>2 DEF Settled, ServeCreate
  <2>11. Requested'
    BY <2>1, <1>2 DEF Requested, ServeCreate
  <2>6. StagedAside'
    BY <2>1, <2>2, <1>2 DEF StagedAside, ServeCreate
  <2>7. MailOnce'
    BY <2>1, <1>2 DEF MailOnce, ServeCreate
  <2>8. Distinct'
    BY <2>1 DEF Distinct, ServeCreate
  <2>9. GhostsAnnounced'
    BY <2>1, <2>2, <1>2 DEF GhostsAnnounced, ServeCreate
  <2>10. MissingAnnounced'
    BY <2>1, <1>2 DEF MissingAnnounced, ServeCreate
  <2> QED BY <2>3, <2>4, <2>5, <2>11, <2>6, <2>7, <2>8, <2>9, <2>10
<1> QED BY <1>1, <1>2 DEF ServeCreate, NewPost

\* appendPost of one post.
LEMMA AppendOne ==
    ASSUME NEW ps \in Seq(AllIds), NEW e \in AllIds
    PROVE  LET new == AppendPosts(ps, <<e>>)
           IN  /\ new \in Seq(AllIds) /\ Range(new) = Range(ps) \cup {e}
               /\ IsInjective(ps) => IsInjective(new)
               /\ \A x, y : Before(new, x, y) <=> Before(ps, x, y) \/ (x \in Range(ps) /\ y = e /\ e \notin Range(ps))
<1> DEFINE s == <<e>>
           new == AppendPosts(ps, s)
<1>1. s \in Seq(AllIds) /\ DOMAIN s = 1..1 /\ s[1] = e
  OBVIOUS
<1> HIDE DEF s
<1>2. Range(s) = {e} /\ IsInjective(s) /\ \A x, y : ~Before(s, x, y)
  BY <1>1 DEF Range, IsInjective, Before
<1>3. /\ new \in Seq(AllIds) /\ Range(new) = Range(ps) \cup Range(s)
      /\ IsInjective(ps) => IsInjective(new)
      /\ \A x, y : Before(new, x, y) <=>
                    \/ Before(ps, x, y)
                    \/ x \in Range(ps) /\ y \in Range(s) \ Range(ps)
                    \/ Before(s, x, y) /\ x \notin Range(ps) /\ y \notin Range(ps)
  BY <1>1, <1>2, AppendPostsElements
<1> HIDE DEF new
<1>4. /\ new \in Seq(AllIds) /\ Range(new) = Range(ps) \cup {e}
      /\ IsInjective(ps) => IsInjective(new)
      /\ \A x, y : Before(new, x, y) <=> Before(ps, x, y) \/ (x \in Range(ps) /\ y = e /\ e \notin Range(ps))
  BY <1>2, <1>3
<1> QED BY <1>4 DEF new, s

\* Nothing staged is known when nothing is being staged.
LEMMA NotStaged ==
    ASSUME StagedAside, ~staging
    PROVE  Staged \notin StreamIds /\ Staged \notin PostIds /\ Staged \notin imap
BY DEF StagedAside

\* createPost preserves the invariant, with stagePost and without.
LEMMA CreatePostKeeps ==
    ASSUME StreamInv, NEW staged \in BOOLEAN, CreatePost(staged)
    PROVE  StreamInv'
<1> USE DEF StreamInv
<1>0. /\ last_post \in Nat /\ MaxPost \in Nat /\ StreamIds \subseteq AllIds /\ Staged \in AllIds /\ Staged \notin Ids
      /\ \A c \in Calls : Asked(c) \subseteq Ids
  BY IdTypes DEF AllIds
<1>1. /\ (\A c : Asked(c)' = Asked(c)) /\ (\A t, j : Told(t, j)' <=> Told(t, j)) /\ \A j : Gone(j)' <=> Gone(j)
  BY DEF CreatePost, Asked, Told, Gone
<1>2. create' \in [pc : {"idle", "sent", "served"}, id : 0..MaxPost] /\ create'.pc = "sent" /\ create'.id = 0
  BY <1>0 DEF CreatePost, NoCreate
<1>3. Staged \notin StreamIds /\ Staged \notin PostIds /\ Staged \notin imap
  BY NotStaged DEF CreatePost
<1>4. UNCHANGED <<visible, last_post, deletions, bus, refresh, call, new_posts, checking>> /\ staging' = staged
  BY DEF CreatePost, server
<1>5. upset \subseteq upset' /\ upset' \subseteq {"failed", "disordered", "outdated"} /\ upset' \subseteq upset \cup {"disordered"}
  BY DEF CreatePost, Typed
<1>6. \/ staged /\ stream' = AppendPosts(stream, <<Staged>>) /\ posts' = AppendPosts(posts, <<Staged>>) /\ imap' = imap \cup {Staged}
      \/ stream' = stream /\ posts' = posts /\ imap' = imap
  BY DEF CreatePost, shown
<1>7. /\ posts' \in Seq(AllIds) /\ IsInjective(posts') /\ stream' \in Seq(AllIds) /\ IsInjective(stream')
      /\ \/ staged /\ PostIds' = PostIds \cup {Staged} /\ StreamIds' = StreamIds \cup {Staged} /\ imap' = imap \cup {Staged}
         \/ PostIds' = PostIds /\ StreamIds' = StreamIds /\ imap' = imap
      /\ \A y : ~Before(stream', Staged, y)
  <2>1. CASE staged /\ stream' = AppendPosts(stream, <<Staged>>) /\ posts' = AppendPosts(posts, <<Staged>>) /\ imap' = imap \cup {Staged}
    <3>1. /\ posts' \in Seq(AllIds) /\ Range(posts') = Range(posts) \cup {Staged} /\ IsInjective(posts')
      BY <2>1, <1>0, AppendOne DEF Typed, Distinct
    <3>2. /\ stream' \in Seq(AllIds) /\ Range(stream') = Range(stream) \cup {Staged} /\ IsInjective(stream')
          /\ \A x, y : Before(stream', x, y) <=> Before(stream, x, y) \/ (x \in Range(stream) /\ y = Staged /\ Staged \notin Range(stream))
      BY <2>1, <1>0, AppendOne DEF Typed, Distinct
    <3>3. \A y : ~Before(stream, Staged, y) BY <1>3, Elements DEF StreamIds, Typed
    <3> QED BY <2>1, <3>1, <3>2, <3>3, <1>3 DEF StreamIds, PostIds
  <2>2. CASE stream' = stream /\ posts' = posts /\ imap' = imap
    <3>1. \A y : ~Before(stream, Staged, y) BY <1>3, Elements DEF StreamIds, Typed
    <3> QED BY <2>2, <3>1 DEF StreamIds, PostIds, Typed, Distinct
  <2> QED BY <1>6, <2>1, <2>2
<1>9. Typed'
  <2>1. CallTypes' BY <1>4 DEF Typed, CallTypes
  <2> QED BY <2>1, <1>0, <1>2, <1>4, <1>5, <1>7 DEF Typed
<1>10. Numbered'
  BY <1>0, <1>1, <1>2, <1>4, <1>7 DEF Numbered
<1>11. Settled'
  BY <1>1, <1>2, <1>4 DEF Settled
<1>17. Requested'
  BY <1>0, <1>1, <1>2, <1>3, <1>4, <1>5, <1>6, <1>7 DEF Requested
<1>12. StagedAside'
  BY <1>0, <1>1, <1>2, <1>3, <1>4, <1>7 DEF StagedAside
<1>13. MailOnce'
  BY <1>1, <1>4 DEF MailOnce
<1>14. Distinct'
  BY <1>4, <1>7 DEF Distinct
<1>15. GhostsAnnounced'
  BY <1>1, <1>2, <1>4, <1>5, <1>7 DEF GhostsAnnounced
<1>16. MissingAnnounced'
  BY <1>1, <1>4, <1>5, <1>7 DEF MissingAnnounced
<1> QED BY <1>9, <1>10, <1>11, <1>17, <1>12, <1>13, <1>14, <1>15, <1>16

\* While the staged post is shown, the end of the stream is loaded.
LEMMA StagedAtEnd ==
    ASSUME Typed, StagedAside, Staged \in PostIds
    PROVE  LoadedAllPosts
<1>1. Staged \in StreamIds /\ \A y \in StreamIds : Before(stream, Staged, y) => y \in PostIds
  BY DEF StagedAside
<1>2. Last(stream) \in StreamIds /\ \A x \in StreamIds : x # Last(stream) => Before(stream, x, Last(stream))
  BY <1>1, LoadedAllMeaning DEF Typed
<1>3. Last(stream) = Staged \/ Last(stream) \in PostIds
  BY <1>1, <1>2
<1> QED BY <1>1, <1>3, LoadedAllMeaning DEF Typed

\* commitPost: the post that was staged takes its place, or is added at the
\* end of what is loaded.
LEMMA CommitEffect ==
    ASSUME Typed, StagedAside, Distinct, CommitPost
    PROVE  LET i == create.id
           IN  /\ i \in Ids
               /\ posts' \in Seq(AllIds) /\ IsInjective(posts') /\ stream' \in Seq(AllIds) /\ IsInjective(stream')
               /\ PostIds' = (PostIds \ {Staged}) \cup IF LoadedAllPosts THEN {i} ELSE {}
               /\ StreamIds' = (StreamIds \cup IF LoadedAllPosts THEN {i} ELSE {}) \ {Staged}
               /\ imap' = (imap \cup IF LoadedAllPosts THEN {i} ELSE {}) \ {Staged}
               /\ \A x, y : Before(stream', x, y) <=>
                      /\ x # Staged /\ y # Staged
                      /\ Before(stream, x, y) \/ (LoadedAllPosts /\ x \in StreamIds /\ y = i /\ i \notin StreamIds)
               /\ Staged \in PostIds =>
                      \A x, y : Before(posts', x, y) <=>
                        \/ x # i /\ y # i /\ x # Staged /\ y # Staged /\ Before(posts, x, y)
                        \/ x = i /\ y # i /\ Before(posts, Staged, y)
                        \/ y = i /\ x # i /\ Before(posts, x, Staged)
               /\ Staged \notin PostIds =>
                      \A x, y : Before(posts', x, y) <=>
                        \/ Before(posts, x, y)
                        \/ LoadedAllPosts /\ x \in PostIds /\ y = i /\ i \notin PostIds
<1> DEFINE i == create.id
           own == ReplaceAll(posts, Staged, i)
           isShown == IF i \in imap THEN Contains(posts, i) ELSE Contains(posts, Staged)
           more == IF LoadedAllPosts THEN {i} ELSE {}
<1>0. i \in Ids /\ Staged \in AllIds /\ i \in AllIds /\ i # Staged /\ posts \in Seq(AllIds) /\ stream \in Seq(AllIds)
  BY IdTypes DEF CommitPost, Typed, AllIds, Ids
<1>1. /\ posts' = IF LoadedAllPosts /\ ~isShown THEN Append(own, i) ELSE own
      /\ stream' = Drop(IF LoadedAllPosts THEN AppendPosts(stream, <<i>>) ELSE stream, {Staged})
      /\ imap' = (imap \cup more) \ {Staged}
  BY DEF CommitPost
<1>2. PostIds \subseteq imap /\ (Staged \in PostIds => LoadedAllPosts /\ i \notin imap)
  BY StagedAtEnd DEF StagedAside, CommitPost
<1>3. \A x : Contains(posts, x) <=> x \in PostIds
  BY <1>0, Elements DEF PostIds
<1>4. isShown <=> IF i \in imap THEN i \in PostIds ELSE Staged \in PostIds
  BY <1>3
<1>5. /\ own \in Seq(AllIds)
      /\ Range(own) = (PostIds \ {Staged}) \cup (IF Staged \in PostIds THEN {i} ELSE {})
      /\ IsInjective(own)
      /\ \A x, y : Before(own, x, y) <=>
                        \/ x # i /\ y # i /\ x # Staged /\ y # Staged /\ Before(posts, x, y)
                        \/ x = i /\ y # i /\ Before(posts, Staged, y)
                        \/ y = i /\ x # i /\ Before(posts, x, Staged)
                        \/ Staged \notin PostIds /\ Before(posts, x, y)
  BY <1>0, <1>2, ReplaceElements DEF PostIds, Distinct
<1>6. \A x, y : Before(posts, x, y) => x \in PostIds /\ y \in PostIds
  BY <1>0, Elements DEF PostIds
<1> HIDE DEF i, own, isShown, more
<1>7. /\ posts' \in Seq(AllIds) /\ IsInjective(posts') /\ Range(posts') = (PostIds \ {Staged}) \cup more
      /\ Staged \in PostIds =>
                      \A x, y : Before(posts', x, y) <=>
                        \/ x # i /\ y # i /\ x # Staged /\ y # Staged /\ Before(posts, x, y)
                        \/ x = i /\ y # i /\ Before(posts, Staged, y)
                        \/ y = i /\ x # i /\ Before(posts, x, Staged)
      /\ Staged \notin PostIds =>
                      \A x, y : Before(posts', x, y) <=>
                        \/ Before(posts, x, y)
                        \/ LoadedAllPosts /\ x \in PostIds /\ y = i /\ i \notin PostIds
  <2>1. CASE Staged \in PostIds
    <3>1. posts' = own BY <2>1, <1>1, <1>2, <1>4
    <3> QED BY <2>1, <3>1, <1>2, <1>5 DEF more
  <2>2. CASE Staged \notin PostIds /\ LoadedAllPosts /\ i \notin PostIds
    <3>1. posts' = Append(own, i) BY <2>2, <1>1, <1>4
    <3>2. /\ posts' \in Seq(AllIds) /\ Range(posts') = Range(own) \cup {i}
          /\ \A x, y : Before(posts', x, y) <=> Before(own, x, y) \/ (x \in Range(own) /\ y = i)
      BY <3>1, <1>0, <1>5, AppendElements
    <3>3. Range(own) = PostIds BY <2>2, <1>5
    <3>4. \A x, y : Before(own, x, y) <=> Before(posts, x, y)
      BY <2>2, <1>5, <1>6
    <3>5. \A x : ~Before(posts, x, x) BY <1>0, Elements DEF Distinct
    <3>6. \A x : ~Before(posts', x, x) BY <3>2, <3>3, <3>4, <3>5, <2>2
    <3>7. IsInjective(posts') BY <3>2, <3>6, Elements
    <3>8. (PostIds \ {Staged}) \cup more = PostIds \cup {i} BY <2>2 DEF more
    <3> QED BY <2>2, <3>2, <3>3, <3>4, <3>7, <3>8
  <2>3. CASE Staged \notin PostIds /\ ~(LoadedAllPosts /\ i \notin PostIds)
    <3>1. posts' = own BY <2>3, <1>1, <1>2, <1>4
    <3>2. Range(own) = PostIds BY <2>3, <1>5
    <3>3. \A x, y : Before(own, x, y) <=> Before(posts, x, y)
      BY <2>3, <1>5, <1>6
    <3>4. (PostIds \ {Staged}) \cup more = PostIds BY <2>3 DEF more
    <3> QED BY <2>3, <3>1, <3>2, <3>3, <3>4, <1>5
  <2> QED BY <2>1, <2>2, <2>3
<1> DEFINE longer == IF LoadedAllPosts THEN AppendPosts(stream, <<i>>) ELSE stream
<1>8. /\ longer \in Seq(AllIds) /\ IsInjective(longer) /\ Range(longer) = StreamIds \cup more
      /\ \A x, y : Before(longer, x, y) <=> Before(stream, x, y) \/ (LoadedAllPosts /\ x \in StreamIds /\ y = i /\ i \notin StreamIds)
  <2>1. CASE LoadedAllPosts
    <3> DEFINE new == AppendPosts(stream, <<i>>)
    <3>1. /\ new \in Seq(AllIds) /\ Range(new) = Range(stream) \cup {i}
          /\ IsInjective(stream) => IsInjective(new)
          /\ \A x, y : Before(new, x, y) <=> Before(stream, x, y) \/ (x \in Range(stream) /\ y = i /\ i \notin Range(stream))
      BY <1>0, AppendOne DEF i
    <3>2. longer = new BY <2>1
    <3> HIDE DEF new, longer
    <3> QED BY <2>1, <3>1, <3>2 DEF StreamIds, Distinct, more
  <2>2. CASE ~LoadedAllPosts
    BY <2>2, <1>0 DEF StreamIds, Distinct, more
  <2> QED BY <2>1, <2>2
<1>9. stream' = Drop(longer, {Staged})
  BY <1>1
<1> HIDE DEF longer
<1>10. /\ stream' \in Seq(AllIds) /\ Range(stream') = Range(longer) \ {Staged} /\ IsInjective(stream')
       /\ \A x, y : Before(stream', x, y) <=> Before(longer, x, y) /\ x \notin {Staged} /\ y \notin {Staged}
  BY <1>8, <1>9, DropElements
<1>11. StreamIds' = (StreamIds \cup more) \ {Staged} /\ PostIds' = (PostIds \ {Staged}) \cup more
  BY <1>7, <1>8, <1>10 DEF StreamIds, PostIds
<1>12. \A x, y : Before(stream', x, y) <=>
                      /\ x # Staged /\ y # Staged
                      /\ Before(stream, x, y) \/ (LoadedAllPosts /\ x \in StreamIds /\ y = i /\ i \notin StreamIds)
  BY <1>8, <1>10
<1> QED BY <1>0, <1>1, <1>7, <1>10, <1>11, <1>12 DEF i, more

\* commitPost preserves the invariant: above all, the id it shows is not
\* shown yet.
LEMMA CommitPostKeeps ==
    ASSUME StreamInv, CommitPost
    PROVE  StreamInv'
<1> USE DEF StreamInv
<1> DEFINE i == create.id
           more == IF LoadedAllPosts THEN {i} ELSE {}
<1>0. /\ last_post \in Nat /\ MaxPost \in Nat /\ StreamIds \subseteq AllIds /\ Staged \in AllIds /\ Staged \notin Ids /\ visible \subseteq Ids
      /\ \A c \in Calls : Asked(c) \subseteq Ids
  BY IdTypes DEF AllIds
<1>1. /\ (\A c : Asked(c)' = Asked(c)) /\ (\A t, j : Told(t, j)' <=> Told(t, j)) /\ \A j : Gone(j)' <=> Gone(j)
  BY DEF CommitPost, Asked, Told, Gone
<1>2. create' \in [pc : {"idle", "sent", "served"}, id : 0..MaxPost] /\ create'.pc = "idle" /\ create'.id = 0
  BY <1>0 DEF CommitPost, NoCreate
<1>4. UNCHANGED <<visible, last_post, deletions, bus, refresh, call, new_posts, checking>> /\ staging' = FALSE /\ create.id # 0
  BY DEF CommitPost, server
<1>5. upset \subseteq upset' /\ upset' \subseteq {"failed", "disordered", "outdated"} /\ upset' \subseteq upset \cup {"disordered"}
  BY DEF CommitPost, Typed
<1>6. /\ i \in Ids
      /\ posts' \in Seq(AllIds) /\ IsInjective(posts') /\ stream' \in Seq(AllIds) /\ IsInjective(stream')
      /\ PostIds' = (PostIds \ {Staged}) \cup more
      /\ StreamIds' = (StreamIds \cup more) \ {Staged}
      /\ imap' = (imap \cup more) \ {Staged}
  BY CommitEffect
<1>7. more \subseteq {i} /\ more \subseteq Ids /\ more \subseteq AllIds /\ i <= last_post
  BY <1>6 DEF Numbered, AllIds
<1> HIDE DEF more
<1>9. Typed'
  <2>1. CallTypes' BY <1>4 DEF Typed, CallTypes
  <2>2. imap' \subseteq AllIds BY <1>6, <1>7 DEF Typed
  <2> QED BY <2>1, <2>2, <1>0, <1>2, <1>4, <1>5, <1>6 DEF Typed
<1>10. Numbered'
  BY <1>0, <1>1, <1>2, <1>4, <1>6, <1>7 DEF Numbered
<1>11. Settled'
  BY <1>1, <1>2, <1>4 DEF Settled
<1>17. Requested'
  BY <1>0, <1>1, <1>2, <1>4, <1>5, <1>6, <1>7 DEF Requested
<1>12. StagedAside'
  BY <1>0, <1>2, <1>4, <1>6, <1>7 DEF StagedAside
<1>13. MailOnce'
  BY <1>1, <1>4 DEF MailOnce
<1>14. Distinct'
  BY <1>4, <1>6 DEF Distinct
<1>15. GhostsAnnounced'
  BY <1>1, <1>2, <1>4, <1>5, <1>6, <1>7 DEF GhostsAnnounced
<1>16. MissingAnnounced'
  BY <1>0, <1>1, <1>4, <1>5, <1>6 DEF MissingAnnounced
<1> QED BY <1>9, <1>10, <1>11, <1>17, <1>12, <1>13, <1>14, <1>15, <1>16

\* undoPost preserves the invariant: nothing of the staged post is left.
LEMMA UndoPostKeeps ==
    ASSUME StreamInv, UndoPost
    PROVE  StreamInv'
<1> USE DEF StreamInv
<1>0. /\ last_post \in Nat /\ MaxPost \in Nat /\ StreamIds \subseteq AllIds /\ Staged \in AllIds /\ Staged \notin Ids /\ visible \subseteq Ids
      /\ \A c \in Calls : Asked(c) \subseteq Ids
  BY IdTypes DEF AllIds
<1>1. /\ (\A c : Asked(c)' = Asked(c)) /\ (\A t, j : Told(t, j)' <=> Told(t, j)) /\ \A j : Gone(j)' <=> Gone(j)
  BY DEF UndoPost, Asked, Told, Gone
<1>2. create' \in [pc : {"idle", "sent", "served"}, id : 0..MaxPost] /\ create'.pc = "idle" /\ create'.id = 0
  BY <1>0 DEF UndoPost, NoCreate
<1>4. UNCHANGED <<visible, last_post, deletions, bus, refresh, call, new_posts, checking, upset>> /\ staging' = FALSE
  BY DEF UndoPost, server
<1>5. /\ posts' \in Seq(AllIds) /\ Range(posts') = Range(posts) \ {Staged} /\ IsInjective(posts')
  BY DropElements DEF UndoPost, Typed, Distinct
<1>6. /\ stream' \in Seq(AllIds) /\ Range(stream') = Range(stream) \ {Staged} /\ IsInjective(stream')
  BY DropElements DEF UndoPost, Typed, Distinct
<1>7. PostIds' = PostIds \ {Staged} /\ StreamIds' = StreamIds \ {Staged} /\ imap' = imap \ {Staged}
  BY <1>5, <1>6 DEF PostIds, StreamIds, UndoPost
<1>9. Typed'
  <2>1. CallTypes' BY <1>4 DEF Typed, CallTypes
  <2> QED BY <2>1, <1>2, <1>4, <1>5, <1>6, <1>7 DEF Typed
<1>10. Numbered'
  BY <1>0, <1>1, <1>2, <1>4, <1>7 DEF Numbered
<1>11. Settled'
  BY <1>1, <1>2, <1>4 DEF Settled
<1>17. Requested'
  BY <1>0, <1>1, <1>2, <1>4, <1>5, <1>6, <1>7 DEF Requested
<1>12. StagedAside'
  BY <1>2, <1>4, <1>7 DEF StagedAside
<1>13. MailOnce'
  BY <1>1, <1>4 DEF MailOnce
<1>14. Distinct'
  BY <1>4, <1>5, <1>6 DEF Distinct
<1>15. GhostsAnnounced'
  BY <1>1, <1>2, <1>4, <1>7 DEF GhostsAnnounced
<1>16. MissingAnnounced'
  BY <1>0, <1>1, <1>4, <1>7 DEF MissingAnnounced
<1> QED BY <1>9, <1>10, <1>11, <1>17, <1>12, <1>13, <1>14, <1>15, <1>16

-----------------------------------------------------------------------------
(* Requests *)

\* What an answer of posts.json holds: the posts asked for that are not
\* deleted.
LEMMA ServeEffect ==
    ASSUME Typed, NEW c \in Calls, Serve(c)
    PROVE  /\ CallTypes'
           /\ \A d \in Calls : Asked(d)' = Asked(d)
           /\ call[c].pc = "sent" /\ call'[c].pc = "served" /\ call'[c].got = call[c].wanted \cap visible
      /\ call'[c].ids = call[c].ids /\ call'[c].wanted = call[c].wanted
           /\ \A d \in Calls \ {c} : call'[d] = call[d]
<1> DEFINE got == call[c].wanted \cap visible
<1>1. call[c] \in [pc : {"idle", "sent", "served"}, ids : Seq(Ids), wanted : SUBSET Ids, got : SUBSET Ids]
  BY DEF Typed, CallTypes
<1>3. got = call[c].wanted \cap visible /\ got \in SUBSET Ids
  BY <1>1
<1>4. call' = [call EXCEPT ![c].pc = "served", ![c].got = got] /\ call[c].pc = "sent"
  BY DEF Serve
<1> HIDE DEF got
<1>5. /\ CallTypes' /\ call'[c].pc = "served" /\ call'[c].got = got /\ call'[c].ids = call[c].ids /\ call'[c].wanted = call[c].wanted
      /\ \A d \in Calls \ {c} : call'[d] = call[d]
  BY <1>1, <1>3, <1>4 DEF Typed, CallTypes
<1>6. \A d \in Calls : Asked(d)' = Asked(d)
  <2> SUFFICES ASSUME NEW d \in Calls PROVE Asked(d)' = Asked(d) OBVIOUS
  <2>1. call'[d].ids = call[d].ids BY <1>5
  <2> QED BY <2>1 DEF Asked
<1> QED BY <1>3, <1>4, <1>5, <1>6

\* An answer of posts.json preserves the invariant.
LEMMA ServeKeeps ==
    ASSUME StreamInv, NEW c \in Calls, Serve(c)
    PROVE  StreamInv'
<1> USE DEF StreamInv
<1>1. /\ posts' = posts /\ stream' = stream /\ imap' = imap /\ PostIds' = PostIds /\ StreamIds' = StreamIds
      /\ (\A t, j : Told(t, j)' <=> Told(t, j)) /\ \A j : Gone(j)' <=> Gone(j)
  BY DEF Serve, shown, PostIds, StreamIds, Told, Gone
<1>2. UNCHANGED <<visible, last_post, deletions, bus, refresh, create, staging, new_posts, checking, upset>>
  BY DEF Serve, server
<1>3. /\ CallTypes'
      /\ \A d \in Calls : Asked(d)' = Asked(d)
      /\ call[c].pc = "sent" /\ call'[c].pc = "served" /\ call'[c].got = call[c].wanted \cap visible
      /\ call'[c].ids = call[c].ids /\ call'[c].wanted = call[c].wanted
      /\ \A d \in Calls \ {c} : call'[d] = call[d]
  BY ServeEffect
<1>9. Typed'
  BY <1>1, <1>2, <1>3 DEF Typed
<1>10. Numbered'
  BY <1>1, <1>2, <1>3 DEF Numbered
<1>11. Settled'
  BY <1>1, <1>2, <1>3 DEF Settled
<1>17. Requested'
  BY <1>1, <1>2, <1>3 DEF Requested
<1>12. StagedAside'
  BY <1>1, <1>2, <1>3 DEF StagedAside
<1>13. MailOnce'
  BY <1>1, <1>2 DEF MailOnce
<1>14. Distinct'
  <2>1. \A d \in Calls : call'[d].ids = call[d].ids BY <1>3
  <2> QED BY <1>1, <2>1 DEF Distinct
<1>15. GhostsAnnounced'
  BY <1>1, <1>2, <1>3 DEF GhostsAnnounced
<1>16. MissingAnnounced'
  <2>1. "news" \in Calls BY DEF Calls
  <2> QED BY <2>1, <1>1, <1>2, <1>3 DEF MissingAnnounced, Requested
<1> QED BY <1>9, <1>10, <1>11, <1>17, <1>12, <1>13, <1>14, <1>15, <1>16

\* The steps that change nothing but the request for a topic view preserve
\* the invariant.
LEMMA RefreshStepKeeps ==
    ASSUME StreamInv, UNCHANGED <<server, bus, shown, staging, create, call, new_posts, checking, upset>>,
           refresh' \in [pc : {"idle", "sent", "served"}, near : 0..MaxPost, got : SUBSET Ids],
           refresh'.got \subseteq visible,
           IF refresh'.pc = "served" THEN refresh'.got = visible ELSE refresh'.got = {}
    PROVE  StreamInv'
<1> USE DEF StreamInv
<1>1. /\ posts' = posts /\ stream' = stream /\ imap' = imap /\ PostIds' = PostIds /\ StreamIds' = StreamIds
      /\ (\A c : Asked(c)' = Asked(c)) /\ (\A t, j : Told(t, j)' <=> Told(t, j)) /\ \A j : Gone(j)' <=> Gone(j)
  BY DEF shown, PostIds, StreamIds, Told, Gone, Asked
<1>2. UNCHANGED <<visible, last_post, deletions, bus, call, create, staging, new_posts, checking, upset>>
  BY DEF server
<1>3. \A i \in visible : i <= last_post
  BY IdTypes DEF Typed
<1>9. Typed'
  BY <1>1, <1>2 DEF Typed, CallTypes
<1>10. Numbered'
  BY <1>1, <1>2, <1>3 DEF Numbered
<1>11. Settled'
  BY <1>1, <1>2 DEF Settled
<1>17. Requested'
  BY <1>1, <1>2, <1>3 DEF Requested
<1>12. StagedAside'
  BY <1>1, <1>2 DEF StagedAside
<1>13. MailOnce'
  BY <1>1, <1>2 DEF MailOnce
<1>14. Distinct'
  BY <1>1, <1>2 DEF Distinct
<1>15. GhostsAnnounced'
  BY <1>1, <1>2 DEF GhostsAnnounced
<1>16. MissingAnnounced'
  BY <1>1, <1>2 DEF MissingAnnounced
<1> QED BY <1>9, <1>10, <1>11, <1>17, <1>12, <1>13, <1>14, <1>15, <1>16

\* refresh, its answer and its failure preserve the invariant.
LEMMA RefreshesKeep ==
    ASSUME StreamInv, (\E near \in Ids : Refresh(near)) \/ ServeRefresh \/ ErrorLoading
    PROVE  StreamInv'
<1> DEFINE T == [pc : {"idle", "sent", "served"}, near : 0..MaxPost, got : SUBSET Ids]
<1>0. Typed /\ Settled /\ visible \subseteq Ids /\ MaxPost \in Nat
  BY IdTypes DEF StreamInv
<1>1. ASSUME NEW near \in Ids, Refresh(near) PROVE StreamInv'
  <2>1. refresh' \in T /\ refresh'.pc = "sent" /\ refresh'.got = {}
    <3>1. near \in 0..MaxPost BY <1>0 DEF Ids
    <3> QED BY <3>1, <1>1 DEF Refresh, NoRefresh
  <2> QED BY <2>1, <1>1, RefreshStepKeeps DEF Refresh
<1>2. CASE ServeRefresh
  <2>1. refresh' \in T /\ refresh'.pc = "served" /\ refresh'.got = visible
    BY <1>2, <1>0 DEF ServeRefresh, Typed
  <2> QED BY <2>1, <1>2, RefreshStepKeeps DEF ServeRefresh
<1>3. CASE ErrorLoading
  <2>1. refresh' \in T /\ refresh'.pc = "idle" /\ refresh'.got = {}
    BY <1>3, <1>0 DEF ErrorLoading, NoRefresh
  <2> QED BY <2>1, <1>3, RefreshStepKeeps DEF ErrorLoading
<1> QED BY <1>1, <1>2, <1>3

\* updateFromJson preserves the invariant: the lists it replaces were of
\* posts that are there, and what it puts there has them all.
LEMMA UpdateFromJsonKeeps ==
    ASSUME StreamInv, UpdateFromJson
    PROVE  StreamInv'
<1> USE DEF StreamInv
<1>0. /\ last_post \in Nat /\ MaxPost \in Nat /\ Staged \notin Ids /\ visible \subseteq Ids /\ Ids \subseteq AllIds
      /\ \A c \in Calls : Asked(c) \subseteq Ids
  BY IdTypes
<1>1. /\ (\A c : Asked(c)' = Asked(c)) /\ (\A t, j : Told(t, j)' <=> Told(t, j)) /\ \A j : Gone(j)' <=> Gone(j)
  BY DEF UpdateFromJson, Asked, Told, Gone
<1>2. UNCHANGED <<visible, last_post, deletions, bus, staging, create, call, new_posts, checking>>
  BY DEF UpdateFromJson, server
<1>3. upset \subseteq upset' /\ upset' \subseteq {"failed", "disordered", "outdated"} /\ upset' \subseteq upset \cup {"disordered"}
  BY DEF UpdateFromJson, Typed
<1>4. refresh' \in [pc : {"idle", "sent", "served"}, near : 0..MaxPost, got : SUBSET Ids] /\ refresh'.pc = "idle" /\ refresh'.got = {}
  BY <1>0 DEF UpdateFromJson, NoRefresh
<1>5. refresh.near \in Int /\ refresh.got \in SUBSET Ids /\ refresh.pc = "served"
  BY DEF Typed, UpdateFromJson
<1>6. posts' \in Seq(Ids) /\ Range(posts') \subseteq refresh.got /\ IsInjective(posts')
  BY <1>5, FilterElements DEF UpdateFromJson
<1>7. stream' \in Seq(Ids) /\ Range(stream') = refresh.got /\ IsInjective(stream')
  <2>1. refresh.got \cap Ids = refresh.got BY <1>5
  <2> QED BY <2>1, SortedElements DEF UpdateFromJson
<1>8. PostIds' \subseteq refresh.got /\ StreamIds' = refresh.got /\ imap' = imap \cup PostIds'
  BY <1>6, <1>7 DEF PostIds, StreamIds, UpdateFromJson
<1>9. Typed'
  <2>1. CallTypes' BY <1>2 DEF Typed, CallTypes
  <2>2. posts' \in Seq(AllIds) /\ stream' \in Seq(AllIds) BY <1>6, <1>7 DEF AllIds
  <2>3. imap' \subseteq AllIds BY <1>0, <1>5, <1>8 DEF Typed
  <2> QED BY <2>1, <2>2, <2>3, <1>2, <1>3, <1>4 DEF Typed
<1>10. Numbered'
  BY <1>1, <1>2, <1>4, <1>8 DEF Numbered
<1>11. Settled'
  BY <1>1, <1>2, <1>4 DEF Settled
<1>17. Requested'
  BY <1>0, <1>1, <1>2, <1>3, <1>4, <1>5, <1>6, <1>7, <1>8 DEF Requested
<1>12. StagedAside'
  BY <1>0, <1>1, <1>2, <1>5, <1>8 DEF StagedAside
<1>13. MailOnce'
  BY <1>1, <1>2 DEF MailOnce
<1>14. Distinct'
  BY <1>2, <1>6, <1>7 DEF Distinct
<1>15. GhostsAnnounced'
  BY <1>1, <1>2, <1>3, <1>4, <1>8 DEF GhostsAnnounced
<1>16. MissingAnnounced'
  BY <1>1, <1>2, <1>3, <1>4, <1>5, <1>8 DEF MissingAnnounced
<1> QED BY <1>9, <1>10, <1>11, <1>17, <1>12, <1>13, <1>14, <1>15, <1>16

\* What is shown after the arrival of posts.
LEMMA ArrivalEffect ==
    ASSUME Typed, StagedAside, Distinct, NEW c \in Calls, NEW ids \in Seq(Ids), IsInjective(ids),
           Shown(c, ids, imap'), imap \subseteq imap'
    PROVE  /\ posts' \in Seq(AllIds) /\ IsInjective(posts') /\ stream' \in Seq(AllIds) /\ IsInjective(stream')
           /\ PostIds' = PostIds \cup (Range(ids) \cap imap')
           /\ StreamIds' = StreamIds \cup IF c = "news" THEN Range(ids) \cap imap' ELSE {}
           /\ PostIds' \subseteq imap'
           /\ Staged \in PostIds' => Staged \in StreamIds' /\ \A y \in StreamIds' : Before(stream', Staged, y) => y \in PostIds'
<1>0. Staged \notin Ids /\ posts \in Seq(AllIds) /\ stream \in Seq(AllIds) /\ IsInjective(posts) /\ IsInjective(stream)
  BY IdTypes DEF Typed, Distinct
<1>1. /\ IF c = "prepend" THEN Prepended(posts, posts', ids, imap') ELSE Appended(posts, posts', ids, imap')
      /\ IF c = "news" THEN Appended(stream, stream', ids, imap') ELSE stream' = stream
  BY <1>0, ShownEffect
<1>2. /\ posts' \in Seq(AllIds) /\ IsInjective(posts') /\ PostIds' = PostIds \cup (Range(ids) \cap imap')
  BY <1>0, <1>1 DEF Appended, Prepended, PostIds
<1>3. /\ stream' \in Seq(AllIds) /\ IsInjective(stream')
      /\ StreamIds' = StreamIds \cup IF c = "news" THEN Range(ids) \cap imap' ELSE {}
  BY <1>0, <1>1 DEF Appended, StreamIds
<1>4. PostIds' \subseteq imap'
  BY <1>2 DEF StagedAside
<1>5. Range(ids) \subseteq Ids /\ \A x, y : Before(ids, x, y) => x \in Range(ids)
  BY Elements
<1>6. ASSUME Staged \in PostIds', NEW y \in StreamIds', Before(stream', Staged, y) PROVE y \in PostIds'
  <2>1. Staged \in PostIds BY <1>0, <1>2, <1>5, <1>6
  <2>2. CASE c = "news"
    <3>1. Before(stream, Staged, y) \/ y \in Range(ids) \cap imap'
      BY <2>2, <1>0, <1>1, <1>5, <1>6 DEF Appended
    <3>2. Before(stream, Staged, y) => y \in StreamIds BY <1>0, Elements DEF StreamIds
    <3> QED BY <2>1, <3>1, <3>2, <1>2 DEF StagedAside
  <2>3. CASE c # "news"
    BY <2>1, <2>3, <1>1, <1>2, <1>3, <1>6 DEF StagedAside
  <2> QED BY <2>2, <2>3
<1>7. Staged \in PostIds' => Staged \in StreamIds'
  BY <1>0, <1>2, <1>3, <1>5 DEF StagedAside
<1> QED BY <1>2, <1>3, <1>4, <1>6, <1>7

\* A call that is over holds nothing, and the others are as they were.
LEMMA Closed ==
    ASSUME CallTypes, NEW c \in Calls, call' = [call EXCEPT ![c] = Idle]
    PROVE  /\ CallTypes' /\ call'[c].pc = "idle" /\ call'[c].wanted = {} /\ call'[c].got = {} /\ Asked(c)' = {} /\ IsInjective(call'[c].ids)
           /\ \A d \in Calls \ {c} : call'[d] = call[d] /\ Asked(d)' = Asked(d)
<1>1. Idle \in [pc : {"idle", "sent", "served"}, ids : Seq(Ids), wanted : SUBSET Ids, got : SUBSET Ids] /\ Idle.pc = "idle" /\ Idle.ids = <<>> /\ Idle.wanted = {} /\ Idle.got = {}
  BY EmptySeq DEF Idle
<1>2. CallTypes' /\ call'[c] = Idle /\ \A d \in Calls \ {c} : call'[d] = call[d]
  <2> HIDE DEF Idle
  <2> QED BY <1>1 DEF CallTypes
<1>3. Range(<<>>) = {} /\ IsInjective(<<>>)
  BY DEF Range, IsInjective
<1> QED BY <1>1, <1>2, <1>3 DEF Asked

\* The arrival of posts preserves the invariant.
LEMMA ArriveKeeps ==
    ASSUME StreamInv, NEW c \in Calls, Arrive(c)
    PROVE  StreamInv'
<1> USE DEF StreamInv
<1>0. /\ last_post \in Nat /\ Staged \notin Ids /\ visible \subseteq Ids /\ Ids \subseteq AllIds
      /\ \A d \in Calls : Asked(d) \subseteq Ids
  BY IdTypes
<1>1. (\A t, j : Told(t, j)' <=> Told(t, j)) /\ \A j : Gone(j)' <=> Gone(j)
  BY DEF Arrive, Told, Gone
<1>2. UNCHANGED <<visible, last_post, deletions, bus, staging, create, refresh, new_posts, checking, upset>> /\ call[c].pc = "served"
  BY DEF Arrive, server
<1>3. imap' = imap \cup call[c].got /\ call[c].got \subseteq Asked(c) /\ call[c].got \subseteq Ids
  BY DEF Arrive, Settled, Typed, CallTypes
<1>4. /\ CallTypes' /\ call'[c].pc = "idle" /\ call'[c].wanted = {} /\ call'[c].got = {} /\ Asked(c)' = {} /\ IsInjective(call'[c].ids)
      /\ \A d \in Calls \ {c} : call'[d] = call[d] /\ Asked(d)' = Asked(d)
  BY Closed DEF Arrive, Typed
<1>5. call[c].ids \in Seq(Ids) /\ IsInjective(call[c].ids) /\ Shown(c, call[c].ids, imap')
  BY DEF Typed, CallTypes, Distinct, Arrive
<1>6. /\ posts' \in Seq(AllIds) /\ IsInjective(posts') /\ stream' \in Seq(AllIds) /\ IsInjective(stream')
      /\ PostIds' = PostIds \cup (Asked(c) \cap imap')
      /\ StreamIds' = StreamIds \cup IF c = "news" THEN Asked(c) \cap imap' ELSE {}
      /\ PostIds' \subseteq imap'
      /\ Staged \in PostIds' => Staged \in StreamIds' /\ \A y \in StreamIds' : Before(stream', Staged, y) => y \in PostIds'
  BY <1>3, <1>5, ArrivalEffect DEF Asked
<1>9. Typed'
  BY <1>0, <1>2, <1>3, <1>4, <1>6 DEF Typed
<1>10. Numbered'
  BY <1>1, <1>2, <1>3, <1>4, <1>6 DEF Numbered
<1>11. Settled'
  BY <1>2, <1>4 DEF Settled
<1>17. Requested'
  BY <1>0, <1>1, <1>2, <1>3, <1>4, <1>5, <1>6 DEF Requested
<1>12. StagedAside'
  BY <1>0, <1>1, <1>2, <1>3, <1>4, <1>6 DEF StagedAside
<1>13. MailOnce'
  BY <1>1, <1>2 DEF MailOnce
<1>14. Distinct'
  BY <1>4, <1>6 DEF Distinct
<1>15. GhostsAnnounced'
  BY <1>1, <1>2, <1>3, <1>4 DEF GhostsAnnounced
<1>16. MissingAnnounced'
  <2>1. "news" \in Calls BY DEF Calls
  <2> QED BY <2>1, <1>1, <1>2, <1>3, <1>4, <1>6 DEF MissingAnnounced
<1> QED BY <1>9, <1>10, <1>11, <1>17, <1>12, <1>13, <1>14, <1>15, <1>16

\* A request that fails preserves the invariant.
LEMMA FailKeeps ==
    ASSUME StreamInv, NEW c \in Calls, Fail(c)
    PROVE  StreamInv'
<1> USE DEF StreamInv
<1>0. /\ last_post \in Nat /\ Staged \notin Ids /\ visible \subseteq Ids /\ Ids \subseteq AllIds
      /\ \A d \in Calls : Asked(d) \subseteq Ids
  BY IdTypes
<1>1. (\A t, j : Told(t, j)' <=> Told(t, j)) /\ \A j : Gone(j)' <=> Gone(j)
  BY DEF Fail, Told, Gone
<1>2. UNCHANGED <<visible, last_post, deletions, bus, imap, staging, create, refresh, new_posts, checking>>
  BY DEF Fail, server
<1>3. upset' = upset \cup {"failed"} /\ upset' \subseteq {"failed", "disordered", "outdated"}
  BY DEF Fail, Typed
<1>4. /\ CallTypes' /\ call'[c].pc = "idle" /\ call'[c].wanted = {} /\ call'[c].got = {} /\ Asked(c)' = {} /\ IsInjective(call'[c].ids)
      /\ \A d \in Calls \ {c} : call'[d] = call[d] /\ Asked(d)' = Asked(d)
  BY Closed DEF Fail, Typed
<1>5. call[c].ids \in Seq(Ids) /\ IsInjective(call[c].ids) /\ Shown(c, call[c].ids, imap') /\ imap \subseteq imap'
  BY <1>2 DEF Typed, CallTypes, Distinct, Fail
<1>6. /\ posts' \in Seq(AllIds) /\ IsInjective(posts') /\ stream' \in Seq(AllIds) /\ IsInjective(stream')
      /\ PostIds' = PostIds \cup (Asked(c) \cap imap')
      /\ StreamIds' = StreamIds \cup IF c = "news" THEN Asked(c) \cap imap' ELSE {}
      /\ PostIds' \subseteq imap'
      /\ Staged \in PostIds' => Staged \in StreamIds' /\ \A y \in StreamIds' : Before(stream', Staged, y) => y \in PostIds'
  BY <1>5, ArrivalEffect DEF Asked
<1>9. Typed'
  BY <1>0, <1>2, <1>3, <1>4, <1>6 DEF Typed
<1>10. Numbered'
  BY <1>1, <1>2, <1>3, <1>4, <1>6 DEF Numbered
<1>11. Settled'
  BY <1>2, <1>4 DEF Settled
<1>17. Requested'
  BY <1>0, <1>1, <1>2, <1>3, <1>4, <1>5, <1>6 DEF Requested
<1>12. StagedAside'
  BY <1>0, <1>1, <1>2, <1>3, <1>4, <1>6 DEF StagedAside
<1>13. MailOnce'
  BY <1>1, <1>2 DEF MailOnce
<1>14. Distinct'
  BY <1>4, <1>6 DEF Distinct
<1>15. GhostsAnnounced'
  BY <1>1, <1>2, <1>3, <1>4 DEF GhostsAnnounced
<1>16. MissingAnnounced'
  BY <1>3 DEF MissingAnnounced
<1> QED BY <1>9, <1>10, <1>11, <1>17, <1>12, <1>13, <1>14, <1>15, <1>16

\* The windows that are asked for hold ids of the stream, each once, and not
\* that of the staged post.
LEMMA WindowElements ==
    ASSUME Typed, Distinct, StagedAside, ~staging
    PROVE  /\ NextWindow \in Seq(Ids) /\ IsInjective(NextWindow) /\ Range(NextWindow) \subseteq StreamIds
           /\ LET w == Reverse(PreviousWindow) IN w \in Seq(Ids) /\ IsInjective(w) /\ Range(w) \subseteq StreamIds
<1>1. stream \in Seq(AllIds) /\ IsInjective(stream) /\ StreamIds \subseteq Ids /\ Chunk \in Nat
  BY NotStaged, IdTypes, PostStreamAssumption DEF Typed, Distinct, AllIds
<1>2. stream \in Seq(Ids) /\ Len(stream) \in Nat /\ \A k \in 1..Len(stream) : stream[k] \in StreamIds
  <2>1. stream \in Seq(Range(stream)) BY <1>1, Elements
  <2> QED BY <2>1, <1>1 DEF StreamIds
<1>3. ASSUME NEW from \in Int, NEW til \in Int
      PROVE  Slice(stream, from, til) \in Seq(Ids) /\ IsInjective(Slice(stream, from, til)) /\ Range(Slice(stream, from, til)) \subseteq StreamIds
  BY <1>1, <1>2, SliceElements
<1>4. <<>> \in Seq(Ids) /\ IsInjective(<<>>) /\ Range(<<>>) \subseteq StreamIds
  BY EmptySeq DEF IsInjective, Range
<1>5. /\ NextWindow \in Seq(Ids) /\ IsInjective(NextWindow) /\ Range(NextWindow) \subseteq StreamIds
  <2> DEFINE last == Index(stream, Last(posts))
             from == last + 1
             til == last + Chunk
  <2>1. last \in Int BY <1>2, IndexElements
  <2>2. from \in Int /\ til \in Int BY <2>1, <1>1
  <2>3. NextWindow = IF last = 0 THEN <<>> ELSE Slice(stream, from, til) BY DEF NextWindow
  <2> HIDE DEF last, from, til
  <2> QED BY <2>2, <2>3, <1>3, <1>4
<1>6. /\ PreviousWindow \in Seq(Ids) /\ IsInjective(PreviousWindow) /\ Range(PreviousWindow) \subseteq StreamIds
  <2> DEFINE first == Index(stream, Head(posts))
             from == first - Chunk
             til == first - 1
  <2>1. first \in Int BY <1>2, IndexElements
  <2>2. from \in Int /\ til \in Int BY <2>1, <1>1
  <2>3. PreviousWindow = IF first = 0 THEN <<>> ELSE Slice(stream, from, til) BY DEF PreviousWindow
  <2> HIDE DEF first, from, til
  <2> QED BY <2>2, <2>3, <1>3, <1>4
<1> DEFINE w == Reverse(PreviousWindow)
<1>7. w \in Seq(Ids) /\ Range(w) = Range(PreviousWindow) /\ \A x, y : Before(w, x, y) <=> Before(PreviousWindow, y, x)
  BY <1>6, ReverseElements
<1>8. IsInjective(w)
  <2>1. \A x : ~Before(PreviousWindow, x, x) BY <1>6, Elements
  <2>2. \A x : ~Before(w, x, x) BY <2>1, <1>7
  <2> HIDE DEF w
  <2> QED BY <1>7, <2>2, Elements
<1> QED BY <1>5, <1>6, <1>7, <1>8

\* The request for a window, or the posts of it at once, preserves the
\* invariant.
LEMMA FindWindowKeeps ==
    ASSUME StreamInv, NEW c \in Windows, NEW ids \in Seq(Ids), IsInjective(ids), Range(ids) \subseteq StreamIds,
           ~staging, call[c].pc = "idle", Find(c, ids),
           UNCHANGED <<server, bus, staging, create, refresh, new_posts, checking, upset>>
    PROVE  StreamInv'
<1> USE DEF StreamInv
<1>0. /\ c \in Calls /\ c # "news" /\ last_post \in Nat /\ Staged \notin Ids /\ visible \subseteq Ids /\ Ids \subseteq AllIds
      /\ \A d \in Calls : Asked(d) \subseteq Ids
  BY IdTypes DEF Windows, Calls
<1>1. (\A t, j : Told(t, j)' <=> Told(t, j)) /\ \A j : Gone(j)' <=> Gone(j)
  BY DEF Told, Gone
<1>2. UNCHANGED <<visible, last_post, deletions, bus, staging, create, refresh, new_posts, checking, upset>>
  BY DEF server
<1>3. Staged \notin StreamIds /\ Staged \notin PostIds /\ Staged \notin imap
  BY NotStaged
<1>4. \A i \in Range(ids) : i \in Ids /\ i <= last_post
  BY <1>3, Elements DEF Numbered
<1>5. CASE Range(ids) \subseteq imap /\ Shown(c, ids, imap) /\ imap' = imap /\ call' = call
  <2>1. /\ posts' \in Seq(AllIds) /\ IsInjective(posts') /\ stream' \in Seq(AllIds) /\ IsInjective(stream')
        /\ PostIds' = PostIds \cup (Range(ids) \cap imap')
        /\ StreamIds' = StreamIds \cup IF c = "news" THEN Range(ids) \cap imap' ELSE {}
        /\ PostIds' \subseteq imap'
    BY <1>0, <1>5, ArrivalEffect
  <2>2. StreamIds' = StreamIds /\ PostIds' = PostIds \cup Range(ids) /\ \A d : Asked(d)' = Asked(d)
    BY <2>1, <1>0, <1>5 DEF Asked
  <2>3. Typed'
    BY <2>1, <1>2, <1>5 DEF Typed, CallTypes
  <2>4. Numbered'
    BY <2>2, <1>1, <1>2, <1>4, <1>5 DEF Numbered
  <2>5. Settled'
    BY <2>2, <1>2, <1>5 DEF Settled
  <2>11. Requested'
    BY <2>1, <2>2, <1>1, <1>2, <1>5 DEF Requested
  <2>6. StagedAside'
    BY <2>1, <2>2, <1>0, <1>1, <1>2, <1>3, <1>4, <1>5 DEF StagedAside
  <2>7. MailOnce'
    BY <1>1, <1>2 DEF MailOnce
  <2>8. Distinct'
    BY <2>1, <1>5 DEF Distinct
  <2>9. GhostsAnnounced'
    BY <2>2, <1>1, <1>2, <1>5 DEF GhostsAnnounced
  <2>10. MissingAnnounced'
    BY <2>2, <1>1, <1>2, <1>5 DEF MissingAnnounced
  <2> QED BY <2>3, <2>4, <2>5, <2>11, <2>6, <2>7, <2>8, <2>9, <2>10
<1>6. CASE posts' = posts /\ stream' = stream /\ imap' = imap /\ Goes(c, ids)
  <2>1. PostIds' = PostIds /\ StreamIds' = StreamIds
    BY <1>6 DEF PostIds, StreamIds
  <2>2. /\ CallTypes' /\ call'[c].pc = "sent" /\ call'[c].ids = ids /\ call'[c].got = {} /\ Asked(c)' = Range(ids)
        /\ call'[c].wanted = Range(ids) \ imap
        /\ \A d \in Calls \ {c} : call'[d] = call[d] /\ Asked(d)' = Asked(d)
    BY <1>6 DEF Goes, Asked
  <2>3. Typed'
    BY <2>2, <1>2, <1>6 DEF Typed
  <2>4. Numbered'
    BY <2>1, <2>2, <1>1, <1>2, <1>4, <1>6 DEF Numbered
  <2>5. Settled'
    BY <2>2, <1>2 DEF Settled
  <2>11. Requested'
    BY <2>2, <1>2, <1>6 DEF Requested
  <2>6. StagedAside'
    BY <2>1, <1>1, <1>2, <1>3, <1>6 DEF StagedAside
  <2>7. MailOnce'
    BY <1>1, <1>2 DEF MailOnce
  <2>8. Distinct'
    BY <2>2, <1>6 DEF Distinct
  <2>9. GhostsAnnounced'
    BY <2>2, <1>1, <1>2, <1>6 DEF GhostsAnnounced
  <2>10. MissingAnnounced'
    <3>1. "news" \in Calls \ {c} BY <1>0 DEF Calls
    <3> QED BY <3>1, <2>1, <2>2, <1>1, <1>2, <1>6 DEF MissingAnnounced
  <2> QED BY <2>3, <2>4, <2>5, <2>11, <2>6, <2>7, <2>8, <2>9, <2>10
<1> QED BY <1>0, <1>5, <1>6, FindEffect DEF Typed

\* appendMore preserves the invariant.
LEMMA AppendMoreKeeps == ASSUME StreamInv, AppendMore PROVE StreamInv'
<1>1. ~staging /\ "append" \in Windows /\ call["append"].pc = "idle"
  BY DEF AppendMore, CanAppendMore, Loading, Windows
<1>2. NextWindow \in Seq(Ids) /\ IsInjective(NextWindow) /\ Range(NextWindow) \subseteq StreamIds
  BY <1>1, WindowElements DEF StreamInv
<1> QED BY <1>1, <1>2, FindWindowKeeps DEF AppendMore

\* prependMore preserves the invariant.
LEMMA PrependMoreKeeps == ASSUME StreamInv, PrependMore PROVE StreamInv'
<1> DEFINE w == Reverse(PreviousWindow)
<1>1. ~staging /\ "prepend" \in Windows /\ call["prepend"].pc = "idle"
  BY DEF PrependMore, CanPrependMore, Loading, Windows
<1>2. w \in Seq(Ids) /\ IsInjective(w) /\ Range(w) \subseteq StreamIds
  BY <1>1, WindowElements DEF StreamInv
<1>3. Find("prepend", w) /\ UNCHANGED <<server, bus, staging, create, refresh, new_posts, checking, upset>>
  BY DEF PrependMore
<1> HIDE DEF w
<1> QED BY <1>1, <1>2, <1>3, FindWindowKeeps

-----------------------------------------------------------------------------
(* Messages *)

\* After triggerNewPostsInStream every new id is in the stream or asked for.
LEMMA TriggerResult ==
    ASSUME Typed, StagedAside, Distinct, Settled, NEW ids \in Seq(Ids), IsInjective(ids), TriggerNewPosts(ids), call["news"].pc = "idle"
    PROVE  /\ posts' \in Seq(AllIds) /\ IsInjective(posts') /\ stream' \in Seq(AllIds) /\ IsInjective(stream') /\ imap' = imap
           /\ PostIds \subseteq PostIds' /\ PostIds' \subseteq imap /\ PostIds' \subseteq PostIds \cup Range(ids)
           /\ StreamIds \subseteq StreamIds' /\ StreamIds' \subseteq StreamIds \cup Range(ids)
           /\ CallTypes' /\ Asked("news")' \subseteq Range(ids) /\ Range(ids) \subseteq StreamIds' \cup Asked("news")'
           /\ IsInjective(call'["news"].ids) /\ call'["news"].got = {} /\ call'["news"].pc # "served"
           /\ call'["news"].wanted = Asked("news")' \ imap
           /\ call'["news"].pc = "idle" => Asked("news")' = {}
           /\ \A d \in Calls \ {"news"} : call'[d] = call[d] /\ Asked(d)' = Asked(d)
           /\ Staged \in PostIds' => Staged \in StreamIds' /\ \A y \in StreamIds' : Before(stream', Staged, y) => y \in PostIds'
<1> DEFINE N == Range(ids) \ StreamIds
<1>0. /\ Staged \notin Ids /\ posts \in Seq(AllIds) /\ stream \in Seq(AllIds) /\ IsInjective(posts) /\ IsInjective(stream)
      /\ "news" \in Calls /\ Range(ids) \subseteq Ids /\ CallTypes /\ PostIds \subseteq imap
  BY IdTypes, Elements DEF Typed, Distinct, Calls, StagedAside
<1>1. call["news"].got = {} /\ call["news"].wanted = {} /\ Asked("news") = {} /\ IsInjective(call["news"].ids)
  BY <1>0 DEF Settled, Distinct
<1>2. \A x, y : Before(ids, x, y) => x \in Range(ids)
  BY Elements
<1>3. \A y : Before(stream, Staged, y) => y \in StreamIds
  BY <1>0, Elements DEF StreamIds
<1>4. \/ N = {} /\ posts' = posts /\ stream' = stream /\ imap' = imap /\ call' = call
      \/ /\ N # {} /\ LoadedAllPosts /\ N \subseteq imap /\ imap' = imap /\ call' = call
         /\ Added(stream, stream', N, ids)
         /\ Appended(posts, posts', ids, N)
      \/ /\ N # {} /\ LoadedAllPosts /\ ~(N \subseteq imap)
         /\ posts' = posts /\ stream' = stream /\ imap' = imap
         /\ \E m \in Seq(Ids) : /\ IsInjective(m) /\ Range(m) = N /\ Goes("news", m)
                                /\ \A x, y : Before(m, x, y) <=> Before(ids, x, y) /\ {x, y} \subseteq N
      \/ /\ N # {} /\ ~LoadedAllPosts
         /\ posts' = posts /\ imap' = imap /\ call' = call
         /\ Added(stream, stream', N, ids)
  BY <1>0, TriggerEffect
<1> HIDE DEF N
<1>5. N \subseteq Range(ids) /\ N \cap StreamIds = {} /\ Range(ids) \subseteq N \cup StreamIds
  BY DEF N
<1>6. CASE N = {} /\ posts' = posts /\ stream' = stream /\ imap' = imap /\ call' = call
  <2>1. PostIds' = PostIds /\ StreamIds' = StreamIds /\ \A d : Asked(d)' = Asked(d)
    BY <1>6 DEF PostIds, StreamIds, Asked
  <2>2. CallTypes' BY <1>0, <1>6 DEF CallTypes
  <2> QED BY <2>1, <2>2, <1>0, <1>1, <1>5, <1>6 DEF StagedAside
<1>7. CASE /\ N # {} /\ LoadedAllPosts /\ N \subseteq imap /\ imap' = imap /\ call' = call
           /\ Added(stream, stream', N, ids)
           /\ Appended(posts, posts', ids, N)
  <2>1. /\ posts' \in Seq(AllIds) /\ IsInjective(posts') /\ PostIds' = PostIds \cup N
    BY <1>0, <1>5, <1>7 DEF Appended, PostIds
  <2>2. /\ stream' \in Seq(AllIds) /\ IsInjective(stream') /\ StreamIds' = StreamIds \cup N
        /\ \A y : Before(stream', Staged, y) => Before(stream, Staged, y) \/ y \in N
    BY <1>0, <1>2, <1>5, <1>7 DEF Added, StreamIds
  <2>3. CallTypes' /\ \A d : Asked(d)' = Asked(d) BY <1>0, <1>7 DEF CallTypes, Asked
  <2>4. Staged \in PostIds' => Staged \in StreamIds' /\ \A y \in StreamIds' : Before(stream', Staged, y) => y \in PostIds'
    <3>1. Staged \in PostIds' => Staged \in PostIds BY <2>1, <1>0, <1>5
    <3> QED BY <3>1, <2>1, <2>2, <1>3 DEF StagedAside
  <2> QED BY <2>1, <2>2, <2>3, <2>4, <1>0, <1>1, <1>5, <1>7
<1>8. CASE /\ posts' = posts /\ stream' = stream /\ imap' = imap
           /\ \E m \in Seq(Ids) : IsInjective(m) /\ Range(m) = N /\ Goes("news", m)
  <2>1. PICK m \in Seq(Ids) : IsInjective(m) /\ Range(m) = N /\ Goes("news", m)
    BY <1>8
  <2>2. PostIds' = PostIds /\ StreamIds' = StreamIds
    BY <1>8 DEF PostIds, StreamIds
  <2>3. /\ CallTypes' /\ call'["news"].pc = "sent" /\ call'["news"].ids = m /\ call'["news"].got = {} /\ Asked("news")' = N
        /\ call'["news"].wanted = N \ imap
        /\ \A d \in Calls \ {"news"} : call'[d] = call[d] /\ Asked(d)' = Asked(d)
    BY <2>1 DEF Goes, Asked
  <2> QED BY <2>1, <2>2, <2>3, <1>0, <1>5, <1>8 DEF StagedAside
<1>9. CASE /\ N # {} /\ ~LoadedAllPosts
           /\ posts' = posts /\ imap' = imap /\ call' = call
           /\ Added(stream, stream', N, ids)
  <2>1. PostIds' = PostIds BY <1>9 DEF PostIds
  <2>2. /\ stream' \in Seq(AllIds) /\ IsInjective(stream') /\ StreamIds' = StreamIds \cup N
    BY <1>0, <1>9 DEF Added, StreamIds
  <2>3. CallTypes' /\ \A d : Asked(d)' = Asked(d) BY <1>0, <1>9 DEF CallTypes, Asked
  <2>4. Staged \notin PostIds BY <1>9, StagedAtEnd
  <2> QED BY <2>1, <2>2, <2>3, <2>4, <1>0, <1>1, <1>5, <1>9
<1> QED BY <1>4, <1>6, <1>7, <1>8, <1>9

\* A message about a new post (onMessage, retryOnRateLimit) preserves the
\* invariant, if it asks for new posts or leaves them to the timer.
LEMMA NewsKeeps ==
    ASSUME StreamInv, NEW ids \in Seq(Ids), IsInjective(ids), TriggerNewPosts(ids), call["news"].pc = "idle",
           Range(new_posts) \subseteq Range(ids),
           \A j \in Range(ids) : j <= last_post /\ ~Told("created", j)',
           bus' \subseteq Messages, new_posts' = <<>>,
           \A j : Gone(j)' <=> Gone(j),
           \A j : Told("created", j)' => Told("created", j),
           \A j : Told("created", j) => Told("created", j)' \/ j \in Range(ids),
           \A j : Told("created", j) /\ ~Told("created", j)' => create.id = 0 /\ (refresh.pc = "served" => "outdated" \in upset'),
           upset \subseteq upset', upset' \subseteq upset \cup {"outdated", "disordered"},
           UNCHANGED <<server, staging, create, refresh, checking>>
    PROVE  StreamInv'
<1> USE DEF StreamInv
<1>0. /\ last_post \in Nat /\ Staged \notin Ids /\ visible \subseteq Ids /\ Ids \subseteq AllIds /\ 0 \notin Ids
      /\ (\A d \in Calls : Asked(d) \subseteq Ids) /\ "news" \in Calls /\ Range(ids) \subseteq Ids
  BY IdTypes, Elements DEF Calls
<1>2. UNCHANGED <<visible, last_post, deletions, staging, create, refresh, checking>>
  BY DEF server
<1>3. Range(<<>>) = {} /\ IsInjective(<<>>) /\ <<>> \in Seq(Ids)
  BY EmptySeq DEF Range, IsInjective
<1>4. /\ posts' \in Seq(AllIds) /\ IsInjective(posts') /\ stream' \in Seq(AllIds) /\ IsInjective(stream') /\ imap' = imap
      /\ PostIds \subseteq PostIds' /\ PostIds' \subseteq imap /\ PostIds' \subseteq PostIds \cup Range(ids)
      /\ StreamIds \subseteq StreamIds' /\ StreamIds' \subseteq StreamIds \cup Range(ids)
      /\ CallTypes' /\ Asked("news")' \subseteq Range(ids) /\ Range(ids) \subseteq StreamIds' \cup Asked("news")'
      /\ IsInjective(call'["news"].ids) /\ call'["news"].got = {} /\ call'["news"].pc # "served"
      /\ call'["news"].wanted = Asked("news")' \ imap
      /\ call'["news"].pc = "idle" => Asked("news")' = {}
      /\ \A d \in Calls \ {"news"} : call'[d] = call[d] /\ Asked(d)' = Asked(d)
      /\ Staged \in PostIds' => Staged \in StreamIds' /\ \A y \in StreamIds' : Before(stream', Staged, y) => y \in PostIds'
  BY TriggerResult
<1>5. Asked("news") = {} /\ call["news"].got = {}
  BY <1>0 DEF Settled
<1>9. Typed'
  <2>1. upset' \subseteq {"failed", "disordered", "outdated"} BY DEF Typed
  <2> QED BY <2>1, <1>2, <1>3, <1>4 DEF Typed
<1>10. Numbered'
  BY <1>0, <1>2, <1>3, <1>4 DEF Numbered
<1>11. Settled'
  BY <1>2, <1>4 DEF Settled
<1>17. Requested'
  BY <1>0, <1>2, <1>3, <1>4, <1>5 DEF Requested
<1>12. StagedAside'
  <2>1. PostIds' \subseteq imap' /\ (Staged \in StreamIds' \cup imap' => staging') /\ (staging' => create'.pc # "idle")
    BY <1>0, <1>2, <1>4 DEF StagedAside
  <2>2. create.id # 0 => <<"created", create.id>> \in bus'
    <3>1. \A j : Told("created", j) /\ ~(<<"created", j>> \in bus') => create.id = 0 BY DEF Told
    <3> QED BY <3>1 DEF StagedAside
  <2>3. ASSUME Staged \in PostIds', create'.id # 0 PROVE create'.id \notin imap' /\ \A c \in Calls : create'.id \notin Asked(c)'
    <3>1. Staged \in PostIds BY <2>3, <1>0, <1>4
    <3>2. create.id \notin imap /\ \A c \in Calls : create.id \notin Asked(c) BY <3>1, <2>3, <1>2 DEF StagedAside
    <3>3. create.id \notin Range(ids)
      <4>1. \A j \in Range(ids) : ~(<<"created", j>> \in bus') BY DEF Told
      <4> QED BY <4>1, <2>2, <2>3, <1>2
    <3> QED BY <3>2, <3>3, <1>2, <1>4
  <2> QED BY <2>1, <2>2, <2>3, <1>2, <1>4 DEF StagedAside, Told
<1>13. MailOnce'
  BY <1>2, <1>3 DEF MailOnce
<1>14. Distinct'
  BY <1>4 DEF Distinct
<1>15. GhostsAnnounced'
  BY <1>2, <1>4 DEF GhostsAnnounced
<1>16. MissingAnnounced'
  <2> SUFFICES ASSUME upset' \cap {"failed", "outdated"} = {}
      PROVE  /\ \A i \in visible : i \in StreamIds' \/ Told("created", i)' \/ i \in Asked("news")'
             /\ refresh.pc = "served" => \A i \in visible : i \in refresh.got \/ Told("created", i)'
    BY <1>2, <1>4 DEF MissingAnnounced
  <2>1. /\ \A i \in visible : i \in StreamIds \/ Told("created", i) \/ i \in Range(new_posts)
        /\ refresh.pc = "served" => \A i \in visible : i \in refresh.got \/ Told("created", i)
    BY <1>5 DEF MissingAnnounced
  <2>2. \A i \in visible : i \in StreamIds' \/ Told("created", i)' \/ i \in Asked("news")'
    BY <2>1, <1>4
  <2>3. refresh.pc = "served" => \A j : Told("created", j) => Told("created", j)'
    OBVIOUS
  <2> QED BY <2>1, <2>2, <2>3
<1> QED BY <1>9, <1>10, <1>11, <1>17, <1>12, <1>13, <1>14, <1>15, <1>16

\* The timer of retryOnRateLimit preserves the invariant.
LEMMA RetryKeeps == ASSUME StreamInv, Retry PROVE StreamInv'
<1>1. (\A t, j : Told(t, j)' <=> Told(t, j)) /\ \A j : Gone(j)' <=> Gone(j)
  BY DEF Retry, Told, Gone
<1>2. /\ new_posts \in Seq(Ids) /\ IsInjective(new_posts) /\ bus' \subseteq Messages
      /\ \A j \in Range(new_posts) : j <= last_post /\ ~Told("created", j)
  BY DEF StreamInv, Typed, MailOnce, Numbered, Retry
<1>3. TriggerNewPosts(new_posts) /\ call["news"].pc = "idle" /\ new_posts' = <<>> /\ UNCHANGED <<server, staging, create, refresh, checking, upset>>
  BY DEF Retry
<1> QED BY <1>1, <1>2, <1>3, NewsKeeps

\* The message about a new post preserves the invariant.
LEMMA CreatedKeeps == ASSUME StreamInv, NEW i \in Ids, Created(i) PROVE StreamInv'
<1> USE DEF StreamInv
<1>1. /\ bus' \subseteq Messages
      /\ \A t, j : Told(t, j) <=> Told(t, j)' \/ (t = "created" /\ j = i)
      /\ Told("created", i) /\ ~Told("created", i)'
  BY HandledEffect DEF Created, Typed, MailOnce
<1>2. \A j : Gone(j)' <=> Gone(j)
  BY <1>1 DEF Gone
<1>3. UNCHANGED <<server, staging, create, refresh, checking>> /\ create.pc = "idle" /\ create.id = 0
  BY DEF Created, BusPaused, Settled
<1>4. /\ upset' = upset \cup Outdated \cup Reversed(i) /\ Reversed(i) \subseteq {"disordered"}
      /\ Outdated \subseteq {"outdated"} /\ (refresh.pc = "served" => Outdated = {"outdated"})
  BY DEF Created, Outdated, Reversed
<1>5. i \notin Range(new_posts) /\ i <= last_post /\ IsInjective(new_posts) /\ new_posts \in Seq(Ids)
  BY <1>1 DEF MailOnce, Numbered, Typed
<1> DEFINE ids == Append(new_posts, i)
<1>6. ids \in Seq(Ids) /\ Range(ids) = Range(new_posts) \cup {i} /\ IsInjective(ids)
  <2>1. /\ ids \in Seq(Ids) /\ Range(ids) = Range(new_posts) \cup {i}
        /\ \A x, y : Before(ids, x, y) <=> Before(new_posts, x, y) \/ (x \in Range(new_posts) /\ y = i)
    BY <1>5, AppendElements
  <2>2. \A x : ~Before(new_posts, x, x) BY <1>5, Elements
  <2>3. \A x : ~Before(ids, x, x) BY <2>1, <2>2, <1>5
  <2> HIDE DEF ids
  <2> QED BY <2>1, <2>3, Elements
<1>7. \A j \in Range(ids) : j <= last_post /\ ~Told("created", j)'
  BY <1>1, <1>5, <1>6 DEF Numbered, MailOnce
<1>8. CASE call["news"].pc = "idle" /\ TriggerNewPosts(ids) /\ new_posts' = <<>>
  <2>2. /\ \A j : Told("created", j)' => Told("created", j)
        /\ \A j : Told("created", j) => Told("created", j)' \/ j \in Range(ids)
        /\ \A j : Told("created", j) /\ ~Told("created", j)' => create.id = 0 /\ (refresh.pc = "served" => "outdated" \in upset')
        /\ Range(new_posts) \subseteq Range(ids) /\ upset \subseteq upset' /\ upset' \subseteq upset \cup {"outdated", "disordered"}
    <3> HIDE DEF ids
    <3> QED BY <1>1, <1>3, <1>4, <1>6
  <2> HIDE DEF ids
  <2> QED BY <2>2, <1>1, <1>2, <1>3, <1>6, <1>7, <1>8, NewsKeeps
<1>9. CASE new_posts' = ids /\ UNCHANGED <<shown, call>>
  <2>1. new_posts' = ids /\ posts' = posts /\ stream' = stream /\ imap' = imap /\ call' = call
    BY <1>9 DEF shown
  <2> HIDE DEF ids
  <2>2. PostIds' = PostIds /\ StreamIds' = StreamIds /\ \A d : Asked(d)' = Asked(d)
    BY <2>1 DEF PostIds, StreamIds, Asked
  <2>3. UNCHANGED <<visible, last_post, deletions>>
    BY <1>3 DEF server
  <2>4. Typed'
    <3>1. upset' \subseteq {"failed", "disordered", "outdated"} BY <1>4 DEF Typed
    <3> QED BY <3>1, <2>1, <2>3, <1>1, <1>3, <1>6 DEF Typed, CallTypes
  <2>5. Numbered'
    BY <2>1, <2>2, <2>3, <1>1, <1>2, <1>3, <1>7 DEF Numbered
  <2>6. Settled'
    BY <2>1, <2>2, <1>3 DEF Settled
  <2>12. Requested'
    BY <2>1, <2>2, <2>3 DEF Requested
  <2>7. StagedAside'
    BY <2>1, <2>2, <1>3 DEF StagedAside
  <2>8. MailOnce'
    BY <2>1, <2>3, <1>1, <1>2, <1>3, <1>6, <1>7 DEF MailOnce
  <2>9. Distinct'
    BY <2>1 DEF Distinct
  <2>10. GhostsAnnounced'
    BY <2>1, <2>3, <1>2, <1>3, <1>4 DEF GhostsAnnounced
  <2>11. MissingAnnounced'
    BY <2>1, <2>2, <2>3, <1>1, <1>3, <1>4, <1>6 DEF MissingAnnounced
  <2> QED BY <2>4, <2>5, <2>6, <2>12, <2>7, <2>8, <2>9, <2>10, <2>11
<1> QED BY <1>8, <1>9 DEF Created

\* removePosts takes a post out of both lists and leaves the others as they
\* are.
LEMMA RemoveEffect ==
    ASSUME Typed, Distinct, StagedAside, NEW i \in Ids, RemovePost(i)
    PROVE  /\ posts' \in Seq(AllIds) /\ IsInjective(posts') /\ stream' \in Seq(AllIds) /\ IsInjective(stream')
           /\ PostIds' = PostIds \ {i} /\ StreamIds' = StreamIds \ {i} /\ imap' = imap \ {i}
           /\ \A x, y : Before(posts', x, y) <=> Before(posts, x, y) /\ x # i /\ y # i
           /\ \A x, y : Before(stream', x, y) <=> Before(stream, x, y) /\ x # i /\ y # i
           /\ Staged \in PostIds' => Staged \in StreamIds' /\ \A y \in StreamIds' : Before(stream', Staged, y) => y \in PostIds'
<1>0. posts' = Drop(posts, {i}) /\ stream' = Drop(stream, {i}) /\ posts \in Seq(AllIds) /\ stream \in Seq(AllIds)
  BY DEF RemovePost, Typed
<1>1. /\ posts' \in Seq(AllIds) /\ IsInjective(posts') /\ Range(posts') = Range(posts) \ {i}
      /\ \A x, y : Before(posts', x, y) <=> Before(posts, x, y) /\ x \notin {i} /\ y \notin {i}
  <2> DEFINE r == Drop(posts, {i})
  <2>1. /\ r \in Seq(AllIds) /\ Range(r) = Range(posts) \ {i}
        /\ IsInjective(posts) => IsInjective(r)
        /\ \A x, y : Before(r, x, y) <=> Before(posts, x, y) /\ x \notin {i} /\ y \notin {i}
    BY <1>0, DropElements
  <2>2. posts' = r BY <1>0
  <2> HIDE DEF r
  <2> QED BY <2>1, <2>2 DEF Distinct
<1>2. /\ stream' \in Seq(AllIds) /\ IsInjective(stream') /\ Range(stream') = Range(stream) \ {i}
      /\ \A x, y : Before(stream', x, y) <=> Before(stream, x, y) /\ x \notin {i} /\ y \notin {i}
  <2> DEFINE r == Drop(stream, {i})
  <2>1. /\ r \in Seq(AllIds) /\ Range(r) = Range(stream) \ {i}
        /\ IsInjective(stream) => IsInjective(r)
        /\ \A x, y : Before(r, x, y) <=> Before(stream, x, y) /\ x \notin {i} /\ y \notin {i}
    BY <1>0, DropElements
  <2>2. stream' = r BY <1>0
  <2> HIDE DEF r
  <2> QED BY <2>1, <2>2 DEF Distinct
<1>3. PostIds' = PostIds \ {i} /\ StreamIds' = StreamIds \ {i} /\ imap' = imap \ {i}
  BY <1>1, <1>2 DEF PostIds, StreamIds, RemovePost
<1>4. Staged \in PostIds' => Staged \in StreamIds' /\ \A y \in StreamIds' : Before(stream', Staged, y) => y \in PostIds'
  <2>1. Staged # i BY IdTypes
  <2> QED BY <2>1, <1>2, <1>3 DEF StagedAside
<1> QED BY <1>1, <1>2, <1>3, <1>4

\* The lookup of a deleted post, which removes it, preserves the invariant.
LEMMA CheckedKeeps == ASSUME StreamInv, NEW i \in Ids, Checked(i) PROVE StreamInv'
<1> USE DEF StreamInv
<1>1. (\A c : Asked(c)' = Asked(c)) /\ (\A t, j : Told(t, j)' <=> Told(t, j)) /\ \A j : Gone(j)' <=> Gone(j)
  BY DEF Checked, Told, Gone, Asked
<1>2. UNCHANGED <<visible, last_post, deletions, bus, staging, create, refresh, call, new_posts, upset>> /\ checking' = checking \ {i} /\ i \in checking
  BY DEF Checked, server
<1>3. /\ posts' \in Seq(AllIds) /\ IsInjective(posts') /\ stream' \in Seq(AllIds) /\ IsInjective(stream')
      /\ PostIds' = PostIds \ {i} /\ StreamIds' = StreamIds \ {i} /\ imap' = imap \ {i}
      /\ Staged \in PostIds' => Staged \in StreamIds' /\ \A y \in StreamIds' : Before(stream', Staged, y) => y \in PostIds'
  BY RemoveEffect DEF Checked
<1>4. i \notin visible
  BY <1>2 DEF MailOnce
<1>9. Typed'
  BY <1>2, <1>3 DEF Typed, CallTypes
<1>10. Numbered'
  BY <1>1, <1>2, <1>3 DEF Numbered
<1>11. Settled'
  BY <1>1, <1>2 DEF Settled
<1>17. Requested'
  BY <1>1, <1>2, <1>3, <1>4 DEF Requested
<1>12. StagedAside'
  BY <1>1, <1>2, <1>3 DEF StagedAside
<1>13. MailOnce'
  BY <1>1, <1>2 DEF MailOnce
<1>14. Distinct'
  BY <1>2, <1>3 DEF Distinct
<1>15. GhostsAnnounced'
  BY <1>1, <1>2, <1>3 DEF GhostsAnnounced
<1>16. MissingAnnounced'
  BY <1>1, <1>2, <1>3, <1>4 DEF MissingAnnounced
<1> QED BY <1>9, <1>10, <1>11, <1>17, <1>12, <1>13, <1>14, <1>15, <1>16

\* A message about a post that is gone is handled while nothing is posted; an
\* answer that is on its way is outdated from then on.
LEMMA GoneHandled ==
    ASSUME StreamInv, NEW type \in {"deleted", "destroyed"}, NEW i \in Ids,
           ~BusPaused, <<type, i>> \in bus, bus' = bus \ {<<type, i>>}, upset' = upset \cup Outdated
    PROVE  /\ bus' \subseteq Messages
           /\ \A j : Told("created", j)' <=> Told("created", j)
           /\ \A j : Gone(j)' => Gone(j)
           /\ \A j : Gone(j) => Gone(j)' \/ j = i
           /\ i \notin visible /\ i <= last_post
           /\ create.pc = "idle" /\ create.id = 0
           /\ upset \subseteq upset' /\ upset' \subseteq {"failed", "disordered", "outdated"} /\ upset' \subseteq upset \cup {"outdated"}
           /\ "outdated" \notin upset' => /\ refresh.got = {} /\ refresh.pc # "served"
                                          /\ \A c \in Calls : call[c].got = {} /\ call[c].pc # "served"
<1> USE DEF StreamInv
<1>1. /\ bus' \subseteq Messages
      /\ \A t, j : Told(t, j) <=> Told(t, j)' \/ (t = type /\ j = i)
      /\ Told(type, i)
  BY HandledEffect DEF Typed, MailOnce
<1>2. type # "created"
  OBVIOUS
<1>3. (\A j : Told("created", j)' <=> Told("created", j)) /\ (\A j : Gone(j)' => Gone(j)) /\ (\A j : Gone(j) => Gone(j)' \/ j = i) /\ Gone(i)
  BY <1>1, <1>2 DEF Gone
<1>4. i \notin visible /\ i <= last_post
  BY <1>3 DEF MailOnce, Numbered
<1>5. create.pc = "idle" /\ create.id = 0
  BY DEF BusPaused, Settled
<1>6. Outdated \subseteq {"outdated"} /\ (refresh.pc = "served" \/ (\E c \in Calls : call[c].pc = "served") => Outdated = {"outdated"})
  BY DEF Outdated
<1>7. /\ upset \subseteq upset' /\ upset' \subseteq {"failed", "disordered", "outdated"} /\ upset' \subseteq upset \cup {"outdated"}
      /\ "outdated" \notin upset' => refresh.pc # "served" /\ \A c \in Calls : call[c].pc # "served"
  BY <1>6 DEF Typed
<1> QED BY <1>1, <1>3, <1>4, <1>5, <1>7 DEF Settled

\* triggerDeletedPost preserves the invariant: a loaded post is going to be
\* looked up.
LEMMA DeletedKeeps == ASSUME StreamInv, NEW i \in Ids, Deleted(i) PROVE StreamInv'
<1> USE DEF StreamInv
<1>1. /\ bus' \subseteq Messages
      /\ \A j : Told("created", j)' <=> Told("created", j)
      /\ \A j : Gone(j)' => Gone(j)
      /\ \A j : Gone(j) => Gone(j)' \/ j = i
      /\ i \notin visible /\ i <= last_post
      /\ create.pc = "idle" /\ create.id = 0
      /\ upset \subseteq upset' /\ upset' \subseteq {"failed", "disordered", "outdated"} /\ upset' \subseteq upset \cup {"outdated"}
      /\ "outdated" \notin upset' => /\ refresh.got = {} /\ refresh.pc # "served"
                                     /\ \A c \in Calls : call[c].got = {} /\ call[c].pc # "served"
  BY GoneHandled DEF Deleted
<1>2. UNCHANGED <<visible, last_post, deletions, staging, create, refresh, call, new_posts>>
  BY DEF Deleted, server
<1>3. /\ posts' = posts /\ stream' = stream /\ imap' = imap /\ PostIds' = PostIds /\ StreamIds' = StreamIds
      /\ \A c : Asked(c)' = Asked(c)
  BY DEF Deleted, shown, PostIds, StreamIds, Asked
<1>4. checking' = IF i \in imap THEN checking \cup {i} ELSE checking
  BY DEF Deleted, Loaded
<1>9. Typed'
  BY <1>1, <1>2, <1>3, <1>4 DEF Typed, CallTypes
<1>10. Numbered'
  BY <1>1, <1>2, <1>3, <1>4 DEF Numbered
<1>11. Settled'
  BY <1>2, <1>3 DEF Settled
<1>17. Requested'
  BY <1>1, <1>2, <1>3, <1>4 DEF Requested
<1>12. StagedAside'
  BY <1>1, <1>2, <1>3 DEF StagedAside
<1>13. MailOnce'
  BY <1>1, <1>2, <1>4 DEF MailOnce
<1>14. Distinct'
  BY <1>2, <1>3 DEF Distinct
<1>15. GhostsAnnounced'
  BY <1>1, <1>2, <1>3, <1>4 DEF GhostsAnnounced
<1>16. MissingAnnounced'
  BY <1>1, <1>2, <1>3 DEF MissingAnnounced
<1> QED BY <1>9, <1>10, <1>11, <1>17, <1>12, <1>13, <1>14, <1>15, <1>16

\* triggerDestroyedPost preserves the invariant: a loaded post is removed.
LEMMA DestroyedKeeps == ASSUME StreamInv, NEW i \in Ids, Destroyed(i) PROVE StreamInv'
<1> USE DEF StreamInv
<1>1. /\ bus' \subseteq Messages
      /\ \A j : Told("created", j)' <=> Told("created", j)
      /\ \A j : Gone(j)' => Gone(j)
      /\ \A j : Gone(j) => Gone(j)' \/ j = i
      /\ i \notin visible /\ i <= last_post
      /\ create.pc = "idle" /\ create.id = 0
      /\ upset \subseteq upset' /\ upset' \subseteq {"failed", "disordered", "outdated"} /\ upset' \subseteq upset \cup {"outdated"}
      /\ "outdated" \notin upset' => /\ refresh.got = {} /\ refresh.pc # "served"
                                     /\ \A c \in Calls : call[c].got = {} /\ call[c].pc # "served"
  BY GoneHandled DEF Destroyed
<1>2. UNCHANGED <<visible, last_post, deletions, staging, create, refresh, call, new_posts, checking>> /\ \A c : Asked(c)' = Asked(c)
  BY DEF Destroyed, server, Asked
<1>3. /\ posts' \in Seq(AllIds) /\ IsInjective(posts') /\ stream' \in Seq(AllIds) /\ IsInjective(stream')
      /\ PostIds' \subseteq PostIds /\ StreamIds \ {i} \subseteq StreamIds' /\ StreamIds' \subseteq StreamIds
      /\ imap' = imap \ {i} /\ PostIds' \subseteq imap'
      /\ Staged \in PostIds' => Staged \in StreamIds' /\ \A y \in StreamIds' : Before(stream', Staged, y) => y \in PostIds'
      /\ Staged \in PostIds' => Staged \in PostIds
  <2>1. CASE i \in imap
    <3>1. RemovePost(i) BY <2>1 DEF Destroyed, Loaded
    <3> QED BY <3>1, RemoveEffect DEF StagedAside
  <2>2. CASE i \notin imap
    <3>1. posts' = posts /\ stream' = stream /\ imap' = imap /\ PostIds' = PostIds /\ StreamIds' = StreamIds
      BY <2>2 DEF Destroyed, Loaded, shown, PostIds, StreamIds
    <3> QED BY <2>2, <3>1 DEF Typed, Distinct, StagedAside
  <2> QED BY <2>1, <2>2
<1>9. Typed'
  BY <1>1, <1>2, <1>3 DEF Typed, CallTypes
<1>10. Numbered'
  BY <1>1, <1>2, <1>3 DEF Numbered
<1>11. Settled'
  BY <1>2 DEF Settled
<1>17. Requested'
  BY <1>1, <1>2, <1>3 DEF Requested
<1>12. StagedAside'
  BY <1>1, <1>2, <1>3 DEF StagedAside
<1>13. MailOnce'
  BY <1>1, <1>2 DEF MailOnce
<1>14. Distinct'
  BY <1>2, <1>3 DEF Distinct
<1>15. GhostsAnnounced'
  BY <1>1, <1>2, <1>3 DEF GhostsAnnounced
<1>16. MissingAnnounced'
  BY <1>1, <1>2, <1>3 DEF MissingAnnounced
<1> QED BY <1>9, <1>10, <1>11, <1>17, <1>12, <1>13, <1>14, <1>15, <1>16

\* The invariant holds when the page is loaded.
LEMMA StreamInvInit == Init => StreamInv
<1> SUFFICES ASSUME Init PROVE StreamInv
  OBVIOUS
<1>0. {Chunk, First} \subseteq Nat \ {0} /\ {MaxPost, MaxDeletions} \subseteq Nat /\ First <= MaxPost /\ Ids = 1..MaxPost /\ Staged = -1
  BY PostStreamAssumption DEF Ids, Staged
<1>1. visible \in SUBSET Ids /\ visible = 1..last_post /\ last_post = First /\ visible \subseteq AllIds
  BY <1>0 DEF Init, AllIds
<1>2. PICK near \in visible : posts = FilterPostsNear(near, visible)
  BY DEF Init
<1>3. posts \in Seq(Ids) /\ Range(posts) \subseteq visible /\ IsInjective(posts)
  <2>1. near \in Int BY <1>0, <1>1
  <2> QED BY <2>1, <1>1, <1>2, FilterElements
<1>4. stream \in Seq(Ids) /\ Range(stream) = visible /\ IsInjective(stream)
  <2>1. visible \cap Ids = visible BY <1>1
  <2> QED BY <2>1, SortedElements DEF Init
<1>5. Range(<<>>) = {} /\ IsInjective(<<>>) /\ <<>> \in Seq(Ids)
  BY EmptySeq DEF Range, IsInjective
<1>6. PostIds \subseteq visible /\ StreamIds = visible /\ imap = PostIds
  BY <1>3, <1>4 DEF PostIds, StreamIds, Init
<1>7. (\A t, j : ~Told(t, j)) /\ \A j : ~Gone(j)
  BY <1>5 DEF Init, Told, Gone
<1>8. Idle \in [pc : {"idle", "sent", "served"}, ids : Seq(Ids), wanted : SUBSET Ids, got : SUBSET Ids] /\ Idle.pc = "idle" /\ Idle.ids = <<>> /\ Idle.wanted = {} /\ Idle.got = {}
  BY <1>5 DEF Idle
<1>9. CallTypes /\ \A c \in Calls : call[c] = Idle
  <2> HIDE DEF Idle
  <2> QED BY <1>8 DEF CallTypes, Init
<1>10. \A c \in Calls : Asked(c) = {} /\ IsInjective(call[c].ids) /\ call[c].wanted = {} /\ call[c].got = {} /\ call[c].pc = "idle"
  BY <1>5, <1>8, <1>9 DEF Asked
<1>11. create \in [pc : {"idle", "sent", "served"}, id : 0..MaxPost] /\ create.pc = "idle" /\ create.id = 0
  BY <1>0 DEF Init, NoCreate
<1>12. refresh \in [pc : {"idle", "sent", "served"}, near : 0..MaxPost, got : SUBSET Ids] /\ refresh.pc = "idle" /\ refresh.got = {}
  BY <1>0 DEF Init, NoRefresh
<1>13. staging = FALSE /\ new_posts = <<>> /\ checking = {} /\ upset = {} /\ deletions = 0 /\ bus = {}
  BY DEF Init
<1>14. Staged \notin visible /\ \A i \in visible : i <= last_post
  BY <1>0, <1>1
<1>15. Typed
  <2>1. last_post \in First..MaxPost /\ deletions \in 0..MaxDeletions BY <1>0, <1>1, <1>13
  <2>2. posts \in Seq(AllIds) /\ stream \in Seq(AllIds) BY <1>3, <1>4 DEF AllIds
  <2> QED BY <2>1, <2>2, <1>1, <1>5, <1>6, <1>9, <1>11, <1>12, <1>13 DEF Typed
<1>16. Numbered
  <2>1. create.id <= last_post BY <1>0, <1>1, <1>11
  <2> QED BY <2>1, <1>5, <1>6, <1>7, <1>10, <1>12, <1>13, <1>14 DEF Numbered
<1>17. Settled
  BY <1>10, <1>11, <1>12 DEF Settled
<1>23. Requested
  BY <1>10 DEF Requested
<1>18. StagedAside
  <2>1. Staged \notin StreamIds /\ Staged \notin PostIds /\ Staged \notin imap /\ PostIds \subseteq imap BY <1>6, <1>14
  <2> QED BY <2>1, <1>11, <1>13 DEF StagedAside
<1>19. MailOnce
  BY <1>5, <1>7, <1>13 DEF MailOnce
<1>20. Distinct
  BY <1>3, <1>4, <1>10 DEF Distinct
<1>21. GhostsAnnounced
  BY <1>6, <1>10, <1>11, <1>12 DEF GhostsAnnounced
<1>22. MissingAnnounced
  <2>1. "news" \in Calls BY DEF Calls
  <2> QED BY <2>1, <1>6, <1>10, <1>12 DEF MissingAnnounced
<1> QED BY <1>15, <1>16, <1>17, <1>23, <1>18, <1>19, <1>20, <1>21, <1>22 DEF StreamInv

\* The invariant holds when nothing changes.
LEMMA StutterKeeps == ASSUME StreamInv, UNCHANGED vars PROVE StreamInv'
BY DEF StreamInv, vars, server, shown, Typed, CallTypes, Numbered, Settled, StagedAside, Requested, MailOnce, Distinct, GhostsAnnounced, MissingAnnounced,
       PostIds, StreamIds, Asked, Told, Gone

\* Every step preserves the invariant.
LEMMA StreamInvNext == ASSUME StreamInv, [Next]_vars PROVE StreamInv'
<1>1. ASSUME Post PROVE StreamInv'
  <2>1. NewPost /\ UNCHANGED <<deletions, shown, staging, create, refresh, call, new_posts, checking, upset>>
    BY <1>1 DEF Post, NewPost
  <2> QED BY <2>1, PostKeeps
<1>2. ASSUME NEW i \in Ids, Delete(i) PROVE StreamInv'
  BY <1>2, DeleteKeeps
<1>3. ASSUME NEW staged \in BOOLEAN, CreatePost(staged) PROVE StreamInv'
  BY <1>3, CreatePostKeeps
<1>4. ASSUME ServeCreate \/ CommitPost \/ UndoPost PROVE StreamInv'
  BY <1>4, ServeCreateKeeps, CommitPostKeeps, UndoPostKeeps
<1>5. ASSUME AppendMore \/ PrependMore PROVE StreamInv'
  BY <1>5, AppendMoreKeeps, PrependMoreKeeps
<1>6. ASSUME NEW c \in Calls, Serve(c) \/ Arrive(c) \/ Fail(c) PROVE StreamInv'
  BY <1>6, ServeKeeps, ArriveKeeps, FailKeeps
<1>7. ASSUME (\E near \in Ids : Refresh(near)) \/ ServeRefresh \/ ErrorLoading PROVE StreamInv'
  BY <1>7, RefreshesKeep
<1>8. ASSUME UpdateFromJson PROVE StreamInv'
  BY <1>8, UpdateFromJsonKeeps
<1>9. ASSUME Retry PROVE StreamInv'
  BY <1>9, RetryKeeps
<1>10. ASSUME NEW i \in Ids, Created(i) \/ Deleted(i) \/ Checked(i) \/ Destroyed(i) PROVE StreamInv'
  BY <1>10, CreatedKeeps, DeletedKeeps, CheckedKeeps, DestroyedKeeps
<1>11. ASSUME UNCHANGED vars PROVE StreamInv'
  BY <1>11, StutterKeeps
<1> QED BY <1>1, <1>2, <1>3, <1>4, <1>5, <1>6, <1>7, <1>8, <1>9, <1>10, <1>11 DEF Next

\* The invariant holds in every reachable state.
LEMMA StreamInvariance == Spec => []StreamInv
BY StreamInvInit, StreamInvNext, PTL DEF Spec

\* TypeOK: the lists hold ids, and every post shown is in the identity map
\* (post-stream.js storePost), for any number of posts.
THEOREM StreamTypes == Spec => []TypeOK
<1>1. StreamInv => TypeOK
  <2> SUFFICES ASSUME StreamInv PROVE TypeOK OBVIOUS
  <2> QED BY DEF StreamInv, Typed, StagedAside, CallTypes, PostIds, AllIds, TypeOK
<1> QED BY <1>1, StreamInvariance, PTL

\* NoTwins: no post is listed or shown twice, whatever the order of the
\* answer of a creation (commitPost), the message about it
\* (triggerNewPostsInStream), jumps and windows.
THEOREM NoPostTwice == Spec => []NoTwins
<1>1. StreamInv => NoTwins
  BY DEF StreamInv, Distinct, NoTwins
<1> QED BY <1>1, StreamInvariance, PTL

\* StagedIsResolved: when no post is being created, nothing staged is listed,
\* shown or known (commitPost, undoPost).
THEOREM NothingStagedStays == Spec => []StagedIsResolved
<1>1. StreamInv => StagedIsResolved
  BY DEF StreamInv, StagedAside, StagedIsResolved, PostIds, StreamIds
<1> QED BY <1>1, StreamInvariance, PTL

\* NothingMissed: when everything has arrived the stream has every post,
\* unless a request failed or an answer was older than a message handled
\* before it (triggerNewPostsInStream, refresh).
THEOREM NothingIsMissed == Spec => []NothingMissed
<1>1. ASSUME StreamInv PROVE NothingMissed
  <2> SUFFICES ASSUME AtRest, upset \cap {"failed", "outdated"} = {} PROVE visible \subseteq StreamIds
    BY DEF NothingMissed, StreamIds
  <2>1. (\A j : ~Told("created", j)) /\ Range(new_posts) = {} /\ Asked("news") = {}
    <3>1. Range(<<>>) = {} /\ "news" \in Calls BY DEF Range, Calls
    <3> QED BY <1>1, <3>1 DEF AtRest, Told, StreamInv, Settled
  <2> QED BY <1>1, <2>1 DEF StreamInv, MissingAnnounced
<1> QED BY <1>1, StreamInvariance, PTL

\* NoGhosts: when everything has arrived no deleted post is shown, unless an
\* answer was older than a message handled before it (triggerDeletedPost,
\* triggerDestroyedPost).
THEOREM NoGhostStays == Spec => []NoGhosts
<1>1. ASSUME StreamInv PROVE NoGhosts
  <2> SUFFICES ASSUME AtRest, "outdated" \notin upset PROVE PostIds \subseteq visible
    BY DEF NoGhosts, PostIds
  <2>1. (\A j : ~Gone(j)) /\ checking = {} /\ Staged \notin PostIds
    <3> QED BY <1>1 DEF AtRest, Told, Gone, StreamInv, StagedAside
  <2> QED BY <1>1, <2>1 DEF StreamInv, StagedAside, GhostsAnnounced
<1> QED BY <1>1, StreamInvariance, PTL

-----------------------------------------------------------------------------
(* The window: what is loaded and what is on its way, and its order *)

\* Nothing failed, no jump overtook a request, the reader did not post while a
\* new post was on its way, and no post was told of before an older one
Steady == upset \subseteq {"outdated"}

Own == create.id

\* The posts that the request for a window can still bring
Here(w) == Asked(w) \cap (visible \cup imap \cup call[w].got)

\* The posts that are loaded, once the requests for windows are answered
Held == PostIds \cup Here("append") \cup Here("prepend")

\* The posts of the stream that a request can bring
Alive == StreamIds \cap (visible \cup imap)

\* The stream has the reader's own post before commitPost, by a jump
OwnListed == Own # 0 /\ Own = last_post /\ Own \in StreamIds
AfterOwn(z) == z = Own \/ Before(stream, Own, z)

\* New posts are kept and asked for in the order of their numbers
InSequence ==
    /\ \A x, y \in Ids : Before(new_posts, x, y) => x < y
    /\ \A x, y \in Ids : Before(call["news"].ids, x, y) => x < y
    /\ \A x \in Asked("news") : (\A y \in Range(new_posts) : x < y) /\ \A y \in Ids : Told("created", y) => x < y
    /\ \A x \in Range(new_posts) : \A y \in Ids : Told("created", y) => x < y

\* So they are until posts are disordered; the posts after the
\* reader's own stay on the bus
NewsInOrder ==
    /\ "disordered" \notin upset => InSequence
    /\ Own # 0 => \A y \in Ids : Own < y /\ y <= last_post => Told("created", y)

\* A topic view lacks only posts that are newer than all of its own
ViewIsPrefix ==
    refresh.pc = "served" => \A x \in refresh.got : \A y \in visible \ refresh.got : x < y

\* A deletion is told of once, and a post that is looked up is loaded
GoneOnce ==
    /\ \A i \in Ids : Gone(i) => i \notin checking /\ ~(Told("deleted", i) /\ Told("destroyed", i))
    /\ checking \subseteq imap

\* One window at a time, and news are asked for when there are any
OneAtATime ==
    /\ call["append"].pc = "idle" \/ call["prepend"].pc = "idle"
    /\ call["news"].pc # "idle" => Asked("news") # {}
    /\ Staged \in StreamIds => Staged \in PostIds

MailInv == NewsInOrder /\ ViewIsPrefix /\ GoneOnce /\ OneAtATime

\* What is staged is last in both lists, and no news are on their way then
StagedLast ==
    /\ staging => Asked("news") = {} /\ new_posts = <<>>
    /\ Staged \in StreamIds => \A x \in StreamIds : ~Before(stream, Staged, x)
    /\ Staged \in PostIds => \A x \in PostIds : ~Before(posts, Staged, x)
    /\ Staged \in PostIds /\ Own # 0 => Own \notin StreamIds

\* The posts that the answer to the request for a window brings or may bring
Coming(w) == call[w].got \cup (call[w].wanted \cap visible)

\* What is shown or can be shown is in the stream, what is news is not
Listed ==
    /\ PostIds \subseteq StreamIds
    /\ Asked("news") \cap StreamIds = {}
    /\ \A w \in Windows : /\ Here(w) \subseteq StreamIds
                          /\ call["news"].got \cap Asked(w) = {}
                          /\ Coming(w) \cap imap = {}
                          /\ call[w].pc = "served" => Asked(w) \cap visible \subseteq imap \cup call[w].got

Pending(m) == Told("created", m) \/ m \in Range(new_posts) \/ m \in Asked("news")

\* Before a visible post there are only older ones, in the stream and so in
\* what is shown; a new post is newer than all of the stream
InOrder ==
    /\ \A y \in visible : \A x \in Ids : Before(stream, x, y) => x < y
    /\ \A m \in visible \ StreamIds : Pending(m) => \A x \in StreamIds : x < m
    /\ \A x \in visible : \A y \in PostIds : Before(posts, x, y) => Before(stream, x, y)

\* What is loaded is a window of the stream, and the posts of a request go to
\* one end of it in the right order
Windowed ==
    /\ \A z \in Alive \ Held : (\A p \in Held : Before(stream, z, p)) \/ (\A p \in Held : Before(stream, p, z))
    /\ \A z \in Here("append") \ PostIds : \A p \in PostIds : Before(stream, p, z)
    /\ \A z \in Here("prepend") \ PostIds : \A p \in PostIds : Before(stream, z, p)
    /\ \A x, y \in Here("append") \ PostIds : Before(call["append"].ids, x, y) => Before(stream, x, y)
    /\ \A x, y \in Here("prepend") \ PostIds : Before(call["prepend"].ids, x, y) => Before(stream, y, x)

\* While news are asked for, the end of the stream is loaded
NewsAtEnd ==
    Asked("news") # {} =>
        /\ \A z \in Alive \ Held : \A p \in Held : Before(stream, z, p)
        /\ Here("append") \subseteq PostIds

\* Nothing from the reader's own post on is missing at the end of what is loaded
OwnAtEnd ==
    OwnListed =>
        /\ \A z \in Alive \ Held : AfterOwn(z) => \A p \in Held : Before(stream, p, z)
        /\ \A z \in Here("prepend") \ PostIds : ~AfterOwn(z)
        /\ Asked("news") # {} => \A z \in (Alive \cup Here("append") \cup Here("prepend")) \ PostIds : ~AfterOwn(z)

SteadyInv == StagedLast /\ Listed /\ InOrder /\ Windowed /\ NewsAtEnd /\ OwnAtEnd

WindowInv == MailInv /\ (Steady => SteadyInv)

-----------------------------------------------------------------------------

\* In a list without duplicates what comes before what is a strict order of
\* its elements.
LEMMA OrderFacts ==
    ASSUME NEW U, NEW s \in Seq(U), IsInjective(s)
    PROVE  /\ \A x, y : Before(s, x, y) => x \in Range(s) /\ y \in Range(s) /\ x # y /\ ~Before(s, y, x)
           /\ \A x, y, z : Before(s, x, y) /\ Before(s, y, z) => Before(s, x, z)
           /\ \A x, y \in Range(s) : x # y => Before(s, x, y) \/ Before(s, y, x)
<1>0. Len(s) \in Nat /\ DOMAIN s = 1..Len(s)
  OBVIOUS
<1>1. \A j, k \in 1..Len(s) : s[j] = s[k] => j = k
  BY <1>0 DEF IsInjective
<1>2. \A x, y : Before(s, x, y) => x \in Range(s) /\ y \in Range(s) /\ x # y
  BY Elements
<1>3. ASSUME NEW x, NEW y, Before(s, x, y), Before(s, y, x) PROVE FALSE
  <2>1. PICK j \in 1..Len(s), k \in 1..Len(s) : j < k /\ s[j] = x /\ s[k] = y
    BY <1>0, <1>3 DEF Before
  <2>2. PICK a \in 1..Len(s), b \in 1..Len(s) : a < b /\ s[a] = y /\ s[b] = x
    BY <1>0, <1>3 DEF Before
  <2>3. a = k /\ b = j
    BY <2>1, <2>2, <1>1
  <2> QED BY <2>1, <2>2, <2>3
<1>4. ASSUME NEW x, NEW y, NEW z, Before(s, x, y), Before(s, y, z) PROVE Before(s, x, z)
  <2>1. PICK j \in 1..Len(s), k \in 1..Len(s) : j < k /\ s[j] = x /\ s[k] = y
    BY <1>0, <1>4 DEF Before
  <2>2. PICK a \in 1..Len(s), b \in 1..Len(s) : a < b /\ s[a] = y /\ s[b] = z
    BY <1>0, <1>4 DEF Before
  <2>3. a = k
    BY <2>1, <2>2, <1>1
  <2>4. j < b
    BY <2>1, <2>2, <2>3
  <2> QED BY <2>1, <2>2, <2>4, <1>0 DEF Before
<1> QED BY <1>2, <1>3, <1>4, Elements

\* stream and posts are ordered: the reader sees every post in one place.
LEMMA Orders ==
    ASSUME StreamInv
    PROVE  /\ \A x, y : Before(stream, x, y) => x \in StreamIds /\ y \in StreamIds /\ x # y /\ ~Before(stream, y, x)
           /\ \A x, y, z : Before(stream, x, y) /\ Before(stream, y, z) => Before(stream, x, z)
           /\ \A x, y \in StreamIds : x # y => Before(stream, x, y) \/ Before(stream, y, x)
           /\ \A x, y : Before(posts, x, y) => x \in PostIds /\ y \in PostIds /\ x # y /\ ~Before(posts, y, x)
           /\ \A x, y \in PostIds : x # y => Before(posts, x, y) \/ Before(posts, y, x)
BY OrderFacts DEF StreamInv, Typed, Distinct, StreamIds, PostIds

\* What is loaded or can still be loaded by a request for a window is in the
\* stream.
LEMMA HeldListed ==
    ASSUME Listed
    PROVE  Held \subseteq StreamIds /\ PostIds \subseteq Held /\ Here("append") \subseteq Held /\ Here("prepend") \subseteq Held
<1>1. "append" \in Windows /\ "prepend" \in Windows
  BY DEF Windows
<1> QED BY <1>1 DEF Listed, Held

-----------------------------------------------------------------------------
(* News and deletions are told of in order *)

\* The posts of ids are new to the stream, or have to be looked at again
NewsCome(ids) ==
    /\ ids \in Seq(Ids) /\ IsInjective(ids) /\ TriggerNewPosts(ids) /\ call["news"].pc = "idle" /\ new_posts' = <<>>
    /\ UNCHANGED <<server, staging, create, refresh, checking>>
    /\ create.pc = "idle" \/ new_posts # <<>>
    /\ \A j \in Range(ids) : j \in Ids /\ j <= last_post /\ j # Own /\ Pending(j) /\ ~Told("created", j)'
    /\ \A j : (Gone(j)' <=> Gone(j)) /\ (Told("deleted", j)' <=> Told("deleted", j)) /\ (Told("destroyed", j)' <=> Told("destroyed", j))
    /\ \A j : Told("created", j)' => Told("created", j)
    /\ Own # 0 => \A j : Told("created", j) => Told("created", j)'
    /\ upset \subseteq upset'
    /\ "disordered" \notin upset' => /\ \A x, y \in Ids : Before(ids, x, y) => x < y
                                   /\ \A x \in Range(ids) : \A y \in Ids : Told("created", y)' => x < y

\* The timer of retryOnRateLimit hands over the ids that were kept, in order.
LEMMA RetryCome == ASSUME StreamInv, NewsInOrder, Retry PROVE NewsCome(new_posts)
<1>1. (\A t, j : Told(t, j)' <=> Told(t, j)) /\ \A j : Gone(j)' <=> Gone(j)
  BY DEF Retry, Told, Gone
<1>2. /\ new_posts \in Seq(Ids) /\ IsInjective(new_posts) /\ bus' = bus /\ Range(new_posts) \subseteq Ids
      /\ \A j \in Range(new_posts) : j <= last_post /\ ~Told("created", j)
      /\ create.id # 0 => Told("created", create.id)
  BY Elements DEF StreamInv, Typed, MailOnce, Numbered, Retry, StagedAside
<1>3. TriggerNewPosts(new_posts) /\ call["news"].pc = "idle" /\ new_posts # <<>> /\ new_posts' = <<>> /\ UNCHANGED <<server, staging, create, refresh, checking, upset>>
  BY DEF Retry
<1>4. \A j \in Range(new_posts) : j # Own
  BY <1>2, IdTypes DEF Own, StreamInv
<1> QED BY <1>1, <1>2, <1>3, <1>4 DEF NewsCome, NewsInOrder, InSequence, Pending

\* The message about a new post is handled before that of an older one only
\* when it is said so.
LEMMA UnlessReversed ==
    ASSUME NEW i \in Ids, Created(i)
    PROVE  upset \subseteq upset' /\ ("disordered" \notin upset' => \A y \in Ids : y < i => ~Told("created", y))
<1>1. upset' = upset \cup Outdated \cup Reversed(i)
  BY DEF Created
<1>2. \A y \in Ids : y < i => y \in 1..(i - 1)
  BY PostStreamAssumption DEF Ids
<1> QED BY <1>1, <1>2 DEF Reversed, Told

\* The message about a new post hands over its id behind those that were
\* kept.
LEMMA CreatedCome ==
    ASSUME StreamInv, NewsInOrder, NEW i \in Ids, Created(i), call["news"].pc = "idle",
           TriggerNewPosts(Append(new_posts, i)), new_posts' = <<>>
    PROVE  NewsCome(Append(new_posts, i))
<1> USE DEF StreamInv
<1> DEFINE ids == Append(new_posts, i)
<1>1. /\ \A t, j : Told(t, j) <=> Told(t, j)' \/ (t = "created" /\ j = i)
      /\ Told("created", i) /\ ~Told("created", i)'
  BY HandledEffect DEF Created, Typed, MailOnce
<1>2. \A j : (Gone(j)' <=> Gone(j)) /\ (Told("deleted", j)' <=> Told("deleted", j)) /\ (Told("destroyed", j)' <=> Told("destroyed", j))
  BY <1>1 DEF Gone
<1>3. UNCHANGED <<server, staging, create, refresh, checking>> /\ create.pc = "idle" /\ Own = 0 /\ 0 \notin Ids
  BY IdTypes DEF Created, BusPaused, Settled, Own
<1>5. i \notin Range(new_posts) /\ i <= last_post /\ IsInjective(new_posts) /\ new_posts \in Seq(Ids) /\ Range(new_posts) \subseteq Ids
  BY <1>1, Elements DEF MailOnce, Numbered, Typed
<1>6. /\ ids \in Seq(Ids) /\ Range(ids) = Range(new_posts) \cup {i}
      /\ \A x, y : Before(ids, x, y) <=> Before(new_posts, x, y) \/ (x \in Range(new_posts) /\ y = i)
  BY <1>5, AppendElements
<1>7. TriggerNewPosts(ids) /\ new_posts' = <<>>
  OBVIOUS
<1> HIDE DEF ids
<1>8. IsInjective(ids)
  <2>1. \A x : ~Before(new_posts, x, x) BY <1>5, Elements
  <2>2. \A x : ~Before(ids, x, x) BY <2>1, <1>6, <1>5
  <2> QED BY <2>2, <1>6, Elements
<1>9. \A j \in Range(ids) : j \in Ids /\ j <= last_post /\ j # Own /\ Pending(j) /\ ~Told("created", j)'
  BY <1>1, <1>3, <1>5, <1>6 DEF Numbered, MailOnce, Pending
<1>10. upset \subseteq upset' /\ ("disordered" \notin upset' => \A y \in Ids : y < i => ~Told("created", y))
  BY UnlessReversed
<1>11. ASSUME "disordered" \notin upset'
       PROVE  /\ \A x, y \in Ids : Before(ids, x, y) => x < y
              /\ \A x \in Range(ids) : \A y \in Ids : Told("created", y)' => x < y
  <2>1. InSequence
    BY <1>10, <1>11 DEF NewsInOrder
  <2>2. ASSUME NEW y \in Ids, Told("created", y)' PROVE i < y
    <3>1. Told("created", y) /\ y # i BY <1>1, <2>2
    <3>2. ~(y < i) BY <3>1, <1>10, <1>11
    <3> QED BY <3>1, <3>2, IdTypes
  <2> QED BY <2>1, <2>2, <1>1, <1>6 DEF InSequence
<1>12. NewsCome(ids)
  BY <1>1, <1>2, <1>3, <1>6, <1>7, <1>8, <1>9, <1>10, <1>11 DEF NewsCome
<1> QED BY <1>12 DEF ids

\* triggerNewPostsInStream asks for posts in the order of the ids it was
\* given, and only when there are any.
LEMMA TriggerAsks ==
    ASSUME StreamInv, NEW ids, NewsCome(ids)
    PROVE  /\ \A x, y : Before(call'["news"].ids, x, y) => Before(ids, x, y)
           /\ Asked("news")' \subseteq Range(ids)
           /\ call'["news"].pc # "idle" => Asked("news")' # {}
           /\ \A d \in Calls \ {"news"} : call'[d] = call[d]
           /\ Staged \in StreamIds' => Staged \in StreamIds
           /\ PostIds \subseteq PostIds' /\ imap' = imap
<1> DEFINE N == Range(ids) \ StreamIds
<1>0. /\ posts \in Seq(AllIds) /\ stream \in Seq(AllIds) /\ CallTypes /\ "news" \in Calls /\ ids \in Seq(Ids) /\ IsInjective(ids)
      /\ TriggerNewPosts(ids) /\ call["news"].pc = "idle" /\ Staged \notin Ids /\ Range(ids) \subseteq Ids
  BY IdTypes, Elements DEF StreamInv, Typed, NewsCome, Calls
<1>1. call["news"].ids \in Seq(Ids) /\ Range(call["news"].ids) = {}
  BY <1>0 DEF StreamInv, Settled, Asked, CallTypes
<1>2. \A x, y : ~Before(call["news"].ids, x, y)
  BY <1>1, Elements
<1>4. \/ N = {} /\ posts' = posts /\ stream' = stream /\ imap' = imap /\ call' = call
      \/ /\ N # {} /\ LoadedAllPosts /\ N \subseteq imap /\ imap' = imap /\ call' = call
         /\ Added(stream, stream', N, ids)
         /\ Appended(posts, posts', ids, N)
      \/ /\ N # {} /\ LoadedAllPosts /\ ~(N \subseteq imap)
         /\ posts' = posts /\ stream' = stream /\ imap' = imap
         /\ \E m \in Seq(Ids) : /\ IsInjective(m) /\ Range(m) = N /\ Goes("news", m)
                                /\ \A x, y : Before(m, x, y) <=> Before(ids, x, y) /\ {x, y} \subseteq N
      \/ /\ N # {} /\ ~LoadedAllPosts
         /\ posts' = posts /\ imap' = imap /\ call' = call
         /\ Added(stream, stream', N, ids)
  BY <1>0, TriggerEffect
<1> HIDE DEF N
<1>5. N \subseteq Range(ids)
  BY DEF N
<1>6. CASE call' = call
  <2>1. \A x, y : Before(call'["news"].ids, x, y) => Before(ids, x, y)
    BY <1>2, <1>6
  <2>2. Asked("news")' = {}
    BY <1>1, <1>6 DEF Asked
  <2>3. \/ stream' = stream /\ posts' = posts
        \/ Range(stream') = StreamIds \cup N /\ posts' = posts
        \/ Range(stream') = StreamIds \cup N /\ Range(posts') = Range(posts) \cup (Range(ids) \cap N)
    BY <1>4 DEF Added, Appended, StreamIds
  <2>4. (Staged \in StreamIds' => Staged \in StreamIds) /\ PostIds \subseteq PostIds'
    BY <2>3, <1>0, <1>5 DEF StreamIds, PostIds
  <2> QED BY <2>1, <2>2, <2>4, <1>0, <1>4, <1>6
<1>7. CASE /\ N # {} /\ posts' = posts /\ stream' = stream /\ imap' = imap
           /\ \E m \in Seq(Ids) : /\ IsInjective(m) /\ Range(m) = N /\ Goes("news", m)
                                  /\ \A x, y : Before(m, x, y) <=> Before(ids, x, y) /\ {x, y} \subseteq N
  <2>1. PICK m \in Seq(Ids) : /\ IsInjective(m) /\ Range(m) = N /\ Goes("news", m)
                              /\ \A x, y : Before(m, x, y) <=> Before(ids, x, y) /\ {x, y} \subseteq N
    BY <1>7
  <2>2. call'["news"].ids = m /\ Asked("news")' = N /\ \A d \in Calls \ {"news"} : call'[d] = call[d]
    BY <2>1 DEF Goes, Asked
  <2> QED BY <2>1, <2>2, <1>5, <1>7 DEF StreamIds, PostIds
<1> QED BY <1>4, <1>6, <1>7

\* A step that tells of no post and of no deletion keeps MailInv.
LEMMA MailKept ==
    ASSUME StreamInv, MailInv, UNCHANGED <<new_posts, last_post>>, visible' = visible,
           \A x, y : Before(call'["news"].ids, x, y) => Before(call["news"].ids, x, y),
           Asked("news")' \subseteq Asked("news"),
           upset \subseteq upset',
           \A j : Told("created", j)' => Told("created", j),
           Own' = 0 \/ (Own' = Own /\ \A j : Told("created", j) => Told("created", j)'),
           refresh' = refresh \/ refresh'.pc # "served" \/ refresh'.got = visible,
           \A j : Told("deleted", j)' => Told("deleted", j),
           \A j : Told("destroyed", j)' => Told("destroyed", j),
           checking' \subseteq imap',
           \A i \in checking' : i \in checking \/ (Told("deleted", i) /\ ~Told("deleted", i)'),
           call'["append"].pc = "idle" \/ call'["prepend"].pc = "idle",
           call'["news"].pc # "idle" => Asked("news")' # {},
           Staged \in StreamIds' => Staged \in PostIds'
    PROVE  MailInv'
<1>1. NewsInOrder'
  BY DEF MailInv, NewsInOrder, InSequence
<1>2. ViewIsPrefix'
  BY DEF MailInv, ViewIsPrefix
<1>3. GoneOnce'
  BY DEF MailInv, GoneOnce, Gone
<1>4. OneAtATime'
  BY DEF MailInv, OneAtATime
<1> QED BY <1>1, <1>2, <1>3, <1>4 DEF MailInv

\* A new post is told of behind the older ones (PostCreator).
LEMMA PostMail ==
    ASSUME StreamInv, MailInv, NewPost, UNCHANGED <<deletions, shown, staging, refresh, call, new_posts, checking, upset>>,
           create' = create \/ create'.id \in {last_post + 1, 0}
    PROVE  MailInv'
<1> USE DEF StreamInv
<1> DEFINE n == last_post + 1
<1>1. /\ imap' = imap /\ StreamIds' = StreamIds /\ PostIds' = PostIds
      /\ (\A c : Asked(c)' = Asked(c)) /\ visible' = visible \cup {n} /\ last_post' = n
  BY DEF shown, PostIds, StreamIds, Asked, NewPost
<1>2. /\ Range(new_posts) \subseteq Ids /\ Asked("news") \subseteq Ids /\ last_post \in Nat /\ MaxPost \in Nat
      /\ \A i \in Ids : i \in Nat /\ i > 0
      /\ "news" \in Calls
  BY IdTypes DEF Calls
<1>3. n \in Ids /\ last_post < n
  BY <1>2 DEF NewPost, Ids
<1>4. ~Told("created", n) /\ ~Gone(n)
  BY <1>2, <1>3 DEF Numbered
<1>5. /\ \A t, j : Told(t, j)' <=> Told(t, j) \/ (t = "created" /\ j = n)
  BY <1>3, <1>4, SentEffect DEF Typed, MailOnce, NewPost
<1> HIDE DEF n
<1>6. /\ \A x \in Ids : Told("created", x) => x < n
      /\ \A x \in Range(new_posts) \cup Asked("news") \cup refresh.got : x < n
  BY <1>2, <1>3 DEF Numbered, Typed
<1>7. NewsInOrder'
  <2>1. InSequence => InSequence'
    BY <1>1, <1>5, <1>6 DEF InSequence
  <2>2. ASSUME Own' # 0, NEW y \in Ids, Own' < y, y <= n PROVE Told("created", y)'
    <3>1. Own' = Own \/ Own' = n \/ Own' = 0 BY DEF Own, n
    <3>2. CASE Own' = n BY <3>2, <2>2, <1>2, <1>3
    <3>3. CASE Own' = Own
      <4>1. y = n \/ y <= last_post BY <2>2, <1>2 DEF n
      <4> QED BY <4>1, <3>3, <2>2, <1>5 DEF MailInv, NewsInOrder
    <3> QED BY <3>1, <3>2, <3>3, <2>2
  <2> QED BY <2>1, <2>2, <1>1 DEF MailInv, NewsInOrder
<1>8. ViewIsPrefix'
  BY <1>1, <1>6 DEF MailInv, ViewIsPrefix
<1>9. GoneOnce'
  BY <1>1, <1>5 DEF MailInv, GoneOnce, Gone
<1>10. OneAtATime'
  BY <1>1 DEF MailInv, OneAtATime
<1> QED BY <1>7, <1>8, <1>9, <1>10 DEF MailInv

\* A deletion is told of once (PostDestroyer).
LEMMA DeleteMail == ASSUME StreamInv, MailInv, NEW i \in Ids, Delete(i) PROVE MailInv'
<1> USE DEF StreamInv
<1>1. /\ UNCHANGED <<last_post, posts, stream, imap, create, refresh, call, new_posts, checking>> /\ PostIds' = PostIds /\ StreamIds' = StreamIds
      /\ \A c : Asked(c)' = Asked(c)
  BY DEF Delete, shown, PostIds, StreamIds, Asked
<1>2. PICK type \in {"deleted", "destroyed"} : bus' = bus \cup {<<type, i>>}
  BY DEF Delete
<1>3. i \in visible /\ ~Gone(i) /\ i \notin checking
  BY DEF Delete, MailOnce
<1>4. /\ \A t, j : Told(t, j)' <=> Told(t, j) \/ (t = type /\ j = i)
  BY <1>2, SentEffect DEF Typed
<1>5. NewsInOrder'
  <2>2. \A j : Told("created", j)' <=> Told("created", j)
    BY <1>4
  <2> QED BY <2>2, <1>1 DEF MailInv, NewsInOrder, InSequence, Own, Delete
<1>6. ViewIsPrefix'
  BY <1>1 DEF MailInv, ViewIsPrefix, Delete
<1>7. GoneOnce'
  BY <1>1, <1>3, <1>4 DEF MailInv, GoneOnce, Gone
<1>8. OneAtATime'
  BY <1>1 DEF MailInv, OneAtATime
<1> QED BY <1>5, <1>6, <1>7, <1>8 DEF MailInv

\* triggerNewPostsInStream keeps the order of what is asked for and of what
\* is still to be told.
LEMMA NewsMail == ASSUME StreamInv, StreamInv', MailInv, NEW ids, NewsCome(ids) PROVE MailInv'
<1> USE DEF StreamInv
<1>1. /\ \A x, y : Before(call'["news"].ids, x, y) => Before(ids, x, y)
      /\ Asked("news")' \subseteq Range(ids)
      /\ call'["news"].pc # "idle" => Asked("news")' # {}
      /\ \A d \in Calls \ {"news"} : call'[d] = call[d]
      /\ Staged \in StreamIds' => Staged \in StreamIds
      /\ PostIds \subseteq PostIds' /\ imap' = imap
  BY TriggerAsks
<1>2. UNCHANGED <<last_post, visible, create, refresh, checking>> /\ Range(new_posts') = {} /\ \A x, y : ~Before(new_posts', x, y)
  BY Elements DEF NewsCome, server, Typed
<1>3. NewsInOrder'
  <2>1. \A y \in Ids : Own' # 0 /\ Own' < y /\ y <= last_post' => Told("created", y)'
    BY <1>2 DEF NewsCome, MailInv, NewsInOrder, Own
  <2>2. ASSUME "disordered" \notin upset' PROVE InSequence'
    <3>1. \A x \in Asked("news")' : \A y \in Ids : Told("created", y)' => x < y
      BY <2>2, <1>1 DEF NewsCome
    <3>2. \A x, y \in Ids : Before(call'["news"].ids, x, y) => x < y
      BY <2>2, <1>1 DEF NewsCome
    <3> QED BY <3>1, <3>2, <1>2 DEF InSequence
  <2> QED BY <2>1, <2>2 DEF NewsInOrder
<1>4. ViewIsPrefix'
  BY <1>2 DEF MailInv, ViewIsPrefix
<1>5. GoneOnce'
  BY <1>1, <1>2 DEF MailInv, GoneOnce, NewsCome
<1>6. OneAtATime'
  <2>1. "append" \in Calls \ {"news"} /\ "prepend" \in Calls \ {"news"} BY DEF Calls, Windows
  <2> QED BY <2>1, <1>1 DEF MailInv, OneAtATime
<1> QED BY <1>3, <1>4, <1>5, <1>6 DEF MailInv

\* retryOnRateLimit leaves the id to its timer: it is kept, and nothing else
\* changes.
LEMMA CreatedLater ==
    ASSUME StreamInv, NEW i \in Ids, Created(i), new_posts' = Append(new_posts, i), UNCHANGED <<shown, call>>
    PROVE  /\ UNCHANGED <<last_post, visible, posts, stream, imap, staging, create, refresh, call, checking>> /\ create.pc = "idle" /\ Own = 0
           /\ \A t, j : Told(t, j) <=> Told(t, j)' \/ (t = "created" /\ j = i)
           /\ ~Told("created", i)'
           /\ Range(new_posts') = Range(new_posts) \cup {i}
           /\ \A x, y : Before(new_posts', x, y) <=> Before(new_posts, x, y) \/ (x \in Range(new_posts) /\ y = i)
           /\ StreamIds' = StreamIds /\ PostIds' = PostIds /\ \A c : Asked(c)' = Asked(c)
<1> USE DEF StreamInv
<1>1. /\ \A t, j : Told(t, j) <=> Told(t, j)' \/ (t = "created" /\ j = i)
      /\ ~Told("created", i)'
  BY HandledEffect DEF Created, Typed, MailOnce
<1>2. UNCHANGED <<last_post, visible, posts, stream, imap, staging, create, refresh, call, checking>> /\ create.pc = "idle" /\ Own = 0
  BY DEF Created, BusPaused, Settled, Own, server, shown
<1>3. /\ Range(new_posts') = Range(new_posts) \cup {i}
      /\ \A x, y : Before(new_posts', x, y) <=> Before(new_posts, x, y) \/ (x \in Range(new_posts) /\ y = i)
  BY AppendElements DEF Typed
<1>4. StreamIds' = StreamIds /\ PostIds' = PostIds /\ \A c : Asked(c)' = Asked(c)
  BY <1>2 DEF StreamIds, PostIds, Asked
<1> QED BY <1>1, <1>2, <1>3, <1>4

\* The message about a new post keeps MailInv.
LEMMA CreatedMail == ASSUME StreamInv, StreamInv', MailInv, NEW i \in Ids, Created(i) PROVE MailInv'
<1>1. CASE call["news"].pc = "idle" /\ TriggerNewPosts(Append(new_posts, i)) /\ new_posts' = <<>>
  BY <1>1, CreatedCome, NewsMail DEF MailInv
<1>2. CASE new_posts' = Append(new_posts, i) /\ UNCHANGED <<shown, call>>
  <2>1. /\ UNCHANGED <<last_post, visible, posts, stream, imap, staging, create, refresh, call, checking>> /\ create.pc = "idle" /\ Own = 0
        /\ \A t, j : Told(t, j) <=> Told(t, j)' \/ (t = "created" /\ j = i)
        /\ ~Told("created", i)'
        /\ Range(new_posts') = Range(new_posts) \cup {i}
        /\ \A x, y : Before(new_posts', x, y) <=> Before(new_posts, x, y) \/ (x \in Range(new_posts) /\ y = i)
        /\ StreamIds' = StreamIds /\ PostIds' = PostIds /\ \A c : Asked(c)' = Asked(c)
    BY <1>2, CreatedLater
  <2>2. Told("created", i)
    BY <2>1
  <2>3. upset \subseteq upset' /\ ("disordered" \notin upset' => \A y \in Ids : y < i => ~Told("created", y))
    BY UnlessReversed
  <2>4. NewsInOrder'
    <3>1. ASSUME "disordered" \notin upset' PROVE InSequence'
      <4>1. InSequence
        BY <2>3, <3>1 DEF MailInv, NewsInOrder
      <4>2. ASSUME NEW y \in Ids, Told("created", y)' PROVE i < y
        <5>1. Told("created", y) /\ y # i BY <2>1, <4>2
        <5>2. ~(y < i) BY <5>1, <2>3, <3>1
        <5> QED BY <5>1, <5>2, IdTypes DEF StreamInv
      <4> QED BY <4>1, <4>2, <2>1, <2>2 DEF InSequence
    <3> QED BY <3>1, <2>1 DEF NewsInOrder, Own
  <2>5. ViewIsPrefix'
    BY <2>1 DEF MailInv, ViewIsPrefix
  <2>6. GoneOnce'
    BY <2>1 DEF MailInv, GoneOnce, Gone
  <2>7. OneAtATime'
    BY <2>1 DEF MailInv, OneAtATime
  <2> QED BY <2>4, <2>5, <2>6, <2>7 DEF MailInv
<1> QED BY <1>1, <1>2 DEF Created

\* createPost keeps MailInv: what it stages is listed and shown.
LEMMA CreatePostMail == ASSUME StreamInv, MailInv, NEW staged \in BOOLEAN, CreatePost(staged) PROVE MailInv'
<1> USE DEF StreamInv
<1>1. UNCHANGED <<new_posts, last_post, visible, bus, refresh, call, checking>> /\ Own' = 0 /\ ~staging /\ upset \subseteq upset'
  BY DEF CreatePost, NoCreate, server, Own
<1>2. (\A c : Asked(c)' = Asked(c)) /\ (\A t, j : Told(t, j)' <=> Told(t, j))
  BY <1>1 DEF Asked, Told
<1>3. Staged \notin StreamIds /\ Staged \in AllIds
  BY <1>1, NotStaged DEF AllIds
<1>4. imap \subseteq imap' /\ (Staged \in StreamIds' => Staged \in PostIds')
  <2>1. CASE staged /\ LoadedAllPosts
    <3>1. posts' = AppendPosts(posts, <<Staged>>) /\ imap' = imap \cup {Staged}
      BY <2>1 DEF CreatePost
    <3>2. PostIds' = PostIds \cup {Staged}
      BY <3>1, <1>3, AppendOne DEF Typed, PostIds
    <3> QED BY <3>1, <3>2
  <2>2. CASE ~(staged /\ LoadedAllPosts)
    <3>1. stream' = stream /\ imap' = imap
      BY <2>2 DEF CreatePost, shown
    <3> QED BY <3>1, <1>3 DEF StreamIds
  <2> QED BY <2>1, <2>2
<1>5. checking' \subseteq imap'
  BY <1>1, <1>4 DEF MailInv, GoneOnce
<1>6. (call'["append"].pc = "idle" \/ call'["prepend"].pc = "idle") /\ (call'["news"].pc # "idle" => Asked("news")' # {})
  BY <1>1, <1>2 DEF MailInv, OneAtATime
<1> QED BY <1>1, <1>2, <1>4, <1>5, <1>6, MailKept

\* The answer of the creation keeps MailInv: the reader's own post is the
\* newest.
LEMMA ServeCreateMail == ASSUME StreamInv, MailInv, ServeCreate PROVE MailInv'
<1>1. UNCHANGED <<deletions, shown, staging, refresh, call, new_posts, checking, upset>>
  BY DEF ServeCreate
<1>2. CASE NewPost /\ \E id \in {last_post + 1, 0} : create' = [pc |-> "served", id |-> id]
  <2>1. create'.id \in {last_post + 1, 0} BY <1>2
  <2>2. NewPost BY <1>2
  <2> QED BY <1>1, <2>1, <2>2, PostMail
<1>3. CASE create' = [pc |-> "served", id |-> 0] /\ UNCHANGED <<visible, last_post, bus>>
  <2>1. UNCHANGED <<new_posts, last_post, visible, bus, refresh, call, checking, stream, posts, imap, upset>> /\ Own' = 0
    BY <1>1, <1>3 DEF Own, shown
  <2>2. (\A c : Asked(c)' = Asked(c)) /\ (\A t, j : Told(t, j)' <=> Told(t, j)) /\ StreamIds' = StreamIds /\ PostIds' = PostIds
    BY <2>1 DEF Asked, Told, StreamIds, PostIds
  <2>3. checking' \subseteq imap' /\ (Staged \in StreamIds' => Staged \in PostIds')
    BY <2>1, <2>2 DEF MailInv, GoneOnce, OneAtATime
  <2>4. (call'["append"].pc = "idle" \/ call'["prepend"].pc = "idle") /\ (call'["news"].pc # "idle" => Asked("news")' # {})
    BY <2>1, <2>2 DEF MailInv, OneAtATime
  <2> QED BY <2>1, <2>2, <2>3, <2>4, MailKept
<1> QED BY <1>2, <1>3 DEF ServeCreate, NewPost

\* What commitPost and undoPost have in common keeps MailInv: nothing staged
\* is left.
LEMMA ResolveMail ==
    ASSUME StreamInv, MailInv, UNCHANGED <<server, bus, refresh, call, new_posts, checking>>, create' = NoCreate,
           Staged \notin StreamIds', imap \ {Staged} \subseteq imap', upset \subseteq upset'
    PROVE  MailInv'
<1> USE DEF StreamInv
<1>1. UNCHANGED <<new_posts, last_post, visible, bus, refresh, call, checking>> /\ Own' = 0
  BY DEF NoCreate, server, Own
<1>2. (\A c : Asked(c)' = Asked(c)) /\ (\A t, j : Told(t, j)' <=> Told(t, j))
  BY <1>1 DEF Asked, Told
<1>3. checking' \subseteq imap'
  BY <1>1, IdTypes DEF MailInv, GoneOnce, Typed
<1>4. (call'["append"].pc = "idle" \/ call'["prepend"].pc = "idle") /\ (call'["news"].pc # "idle" => Asked("news")' # {})
  BY <1>1, <1>2 DEF MailInv, OneAtATime
<1> QED BY <1>1, <1>2, <1>3, <1>4, MailKept

\* commitPost keeps MailInv.
LEMMA CommitPostMail == ASSUME StreamInv, MailInv, CommitPost PROVE MailInv'
<1>1. /\ StreamIds' = (StreamIds \cup IF LoadedAllPosts THEN {create.id} ELSE {}) \ {Staged}
      /\ imap' = (imap \cup IF LoadedAllPosts THEN {create.id} ELSE {}) \ {Staged}
  BY CommitEffect DEF StreamInv
<1>2. Staged \notin StreamIds' /\ imap \ {Staged} \subseteq imap'
  BY <1>1
<1>3. UNCHANGED <<server, bus, refresh, call, new_posts, checking>> /\ create' = NoCreate /\ upset \subseteq upset'
  BY DEF CommitPost
<1> QED BY <1>2, <1>3, ResolveMail

\* undoPost keeps MailInv.
LEMMA UndoPostMail == ASSUME StreamInv, MailInv, UndoPost PROVE MailInv'
<1>1. stream' = Drop(stream, {Staged}) /\ imap' = imap \ {Staged}
  BY DEF UndoPost
<1>2. StreamIds' = StreamIds \ {Staged}
  BY <1>1, DropElements DEF StreamInv, Typed, StreamIds
<1>3. UNCHANGED <<server, bus, refresh, call, new_posts, checking>> /\ create' = NoCreate /\ upset \subseteq upset'
  BY DEF UndoPost
<1> QED BY <1>1, <1>2, <1>3, ResolveMail

\* A step of the requests for posts keeps MailInv.
LEMMA CallMail ==
    ASSUME StreamInv, MailInv, UNCHANGED <<server, bus, create, refresh, new_posts, checking>>, imap \subseteq imap', upset \subseteq upset',
           \A x, y : Before(call'["news"].ids, x, y) => Before(call["news"].ids, x, y),
           Asked("news")' \subseteq Asked("news"),
           call'["append"].pc = "idle" \/ call'["prepend"].pc = "idle",
           call'["news"].pc # "idle" => Asked("news")' # {},
           Staged \in StreamIds' => Staged \in StreamIds, PostIds \subseteq PostIds'
    PROVE  MailInv'
<1>1. UNCHANGED <<new_posts, last_post, visible, bus, refresh, checking>> /\ Own' = Own
  BY DEF server, Own
<1>2. \A t, j : Told(t, j)' <=> Told(t, j)
  BY <1>1 DEF Told
<1>3. checking' \subseteq imap'
  BY <1>1 DEF MailInv, GoneOnce
<1>4. Staged \in StreamIds' => Staged \in PostIds'
  BY DEF MailInv, OneAtATime
<1> QED BY <1>1, <1>2, <1>3, <1>4, MailKept

\* The request for a window keeps MailInv: there was no other one.
LEMMA FindWindowMail ==
    ASSUME StreamInv, MailInv, NEW c \in Windows, NEW ids \in Seq(Ids), IsInjective(ids),
           \A w \in Windows : call[w].pc = "idle", Find(c, ids),
           UNCHANGED <<server, bus, staging, create, refresh, new_posts, checking, upset>>
    PROVE  MailInv'
<1> USE DEF StreamInv
<1>0. c \in Calls /\ "news" \in Calls /\ c # "news" /\ posts \in Seq(AllIds) /\ stream \in Seq(AllIds) /\ CallTypes /\ {"append", "prepend"} = Windows
  BY DEF Typed, Calls, Windows
<1>2. \/ Shown(c, ids, imap) /\ imap' = imap /\ call' = call
      \/ posts' = posts /\ stream' = stream /\ imap' = imap /\ Goes(c, ids)
  BY <1>0, FindEffect
<1>3. stream' = stream /\ PostIds \subseteq PostIds'
  <2>1. CASE Shown(c, ids, imap)
    BY <2>1, <1>0, ShownEffect DEF Appended, Prepended, PostIds
  <2> QED BY <2>1, <1>2 DEF PostIds
<1>4. call'["news"] = call["news"] /\ (call'["append"].pc = "idle" \/ call'["prepend"].pc = "idle")
  BY <1>0, <1>2 DEF Goes, Calls, Windows
<1>5. Asked("news")' = Asked("news") /\ StreamIds' = StreamIds
  BY <1>3, <1>4 DEF Asked, StreamIds
<1>6. call["news"].pc # "idle" => Asked("news") # {}
  BY DEF MailInv, OneAtATime
<1> QED BY <1>2, <1>3, <1>4, <1>5, <1>6, CallMail

\* appendMore keeps MailInv.
LEMMA AppendMoreMail == ASSUME StreamInv, MailInv, AppendMore PROVE MailInv'
<1>1. ~staging /\ \A w \in Windows : call[w].pc = "idle"
  BY DEF AppendMore, CanAppendMore, Loading
<1>2. NextWindow \in Seq(Ids) /\ IsInjective(NextWindow) /\ "append" \in Windows
  BY <1>1, WindowElements DEF StreamInv, Windows
<1>3. Find("append", NextWindow) /\ UNCHANGED <<server, bus, staging, create, refresh, new_posts, checking, upset>>
  BY DEF AppendMore
<1> QED BY <1>1, <1>2, <1>3, FindWindowMail

\* prependMore keeps MailInv.
LEMMA PrependMoreMail == ASSUME StreamInv, MailInv, PrependMore PROVE MailInv'
<1>1. ~staging /\ \A w \in Windows : call[w].pc = "idle"
  BY DEF PrependMore, CanPrependMore, Loading
<1>2. Reverse(PreviousWindow) \in Seq(Ids) /\ IsInjective(Reverse(PreviousWindow)) /\ "prepend" \in Windows
  BY <1>1, WindowElements DEF StreamInv, Windows
<1>3. Find("prepend", Reverse(PreviousWindow)) /\ UNCHANGED <<server, bus, staging, create, refresh, new_posts, checking, upset>>
  BY DEF PrependMore
<1> QED BY <1>1, <1>2, <1>3, FindWindowMail

\* An answer of posts.json keeps MailInv.
LEMMA ServeMail == ASSUME StreamInv, MailInv, NEW c \in Calls, Serve(c) PROVE MailInv'
<1>1. /\ \A d \in Calls : Asked(d)' = Asked(d)
      /\ call[c].pc = "sent" /\ call'[c].pc = "served" /\ call'[c].ids = call[c].ids
      /\ \A d \in Calls \ {c} : call'[d] = call[d]
  BY ServeEffect DEF StreamInv
<1>2. UNCHANGED <<server, bus, create, refresh, new_posts, checking, posts, stream, imap, upset>> /\ PostIds' = PostIds /\ StreamIds' = StreamIds
  BY DEF Serve, shown, PostIds, StreamIds
<1>3. {"append", "prepend", "news"} \subseteq Calls
  BY DEF Calls, Windows
<1>4. \A d \in Calls : call'[d].ids = call[d].ids /\ (call'[d].pc = "idle" <=> call[d].pc = "idle")
  BY <1>1
<1>5. /\ call'["append"].pc = "idle" \/ call'["prepend"].pc = "idle"
      /\ call'["news"].pc # "idle" => Asked("news")' # {}
  BY <1>1, <1>3, <1>4 DEF MailInv, OneAtATime
<1> QED BY <1>1, <1>2, <1>3, <1>4, <1>5, CallMail

\* The end of a request for posts keeps MailInv.
LEMMA EndMail ==
    ASSUME StreamInv, MailInv, NEW c \in Calls, Shown(c, call[c].ids, imap'), imap \subseteq imap', upset \subseteq upset',
           call' = [call EXCEPT ![c] = Idle],
           UNCHANGED <<server, bus, create, refresh, new_posts, checking>>
    PROVE  MailInv'
<1> USE DEF StreamInv
<1>1. /\ CallTypes' /\ call'[c].pc = "idle" /\ Asked(c)' = {}
      /\ \A d \in Calls \ {c} : call'[d] = call[d] /\ Asked(d)' = Asked(d)
  BY Closed DEF Typed
<1>2. call[c].ids \in Seq(Ids) /\ IsInjective(call[c].ids)
  BY DEF Typed, CallTypes, Distinct
<1>3. /\ PostIds' = PostIds \cup (Range(call[c].ids) \cap imap')
      /\ StreamIds' = StreamIds \cup IF c = "news" THEN Range(call[c].ids) \cap imap' ELSE {}
  BY <1>2, ArrivalEffect
<1>4. PostIds \subseteq PostIds' /\ (Staged \in StreamIds' => Staged \in StreamIds)
  BY <1>2, <1>3, IdTypes, Elements
<1>5. {"append", "prepend", "news"} \subseteq Calls
  BY DEF Calls, Windows
<1>6. Asked("news")' \subseteq Asked("news") /\ (\A x, y : Before(call'["news"].ids, x, y) => Before(call["news"].ids, x, y))
  <2>1. CASE c = "news"
    <3>1. call'["news"].ids \in Seq(Ids) /\ Range(call'["news"].ids) = {} BY <1>1, <2>1 DEF CallTypes, Asked
    <3> QED BY <3>1, Elements DEF Asked
  <2> QED BY <2>1, <1>1, <1>5
<1>7. call'["news"].pc # "idle" => Asked("news")' # {}
  BY <1>1, <1>5 DEF MailInv, OneAtATime
<1>8. call'["append"].pc = "idle" \/ call'["prepend"].pc = "idle"
  BY <1>1, <1>5 DEF MailInv, OneAtATime
<1> QED BY <1>4, <1>6, <1>7, <1>8, CallMail

\* The arrival of posts keeps MailInv.
LEMMA ArriveMail == ASSUME StreamInv, MailInv, NEW c \in Calls, Arrive(c) PROVE MailInv'
BY EndMail DEF Arrive

\* A request that fails keeps MailInv.
LEMMA FailMail == ASSUME StreamInv, MailInv, NEW c \in Calls, Fail(c) PROVE MailInv'
<1>1. Shown(c, call[c].ids, imap') /\ imap \subseteq imap' /\ upset \subseteq upset'
  BY DEF Fail
<1> QED BY <1>1, EndMail DEF Fail

\* refresh, its answer and its failure keep MailInv: an answer has all posts
\* there are.
LEMMA RefreshMail ==
    ASSUME StreamInv, MailInv, (\E near \in Ids : Refresh(near)) \/ ServeRefresh \/ ErrorLoading
    PROVE  MailInv'
<1>1. UNCHANGED <<visible, last_post, bus, stream, posts, imap, create, call, new_posts, checking, upset>>
  BY DEF Refresh, ServeRefresh, ErrorLoading, server, shown
<1>2. refresh'.pc # "served" \/ refresh'.got = visible
  <2>1. ASSUME NEW near \in Ids, Refresh(near) PROVE refresh'.pc = "sent"
    BY <2>1 DEF Refresh, NoRefresh
  <2>2. ASSUME ServeRefresh PROVE refresh'.got = visible
    <3>1. refresh \in [pc : {"idle", "sent", "served"}, near : 0..MaxPost, got : SUBSET Ids]
      BY DEF StreamInv, Typed
    <3> QED BY <2>2, <3>1 DEF ServeRefresh
  <2>3. ASSUME ErrorLoading PROVE refresh'.pc = "idle"
    BY <2>3 DEF ErrorLoading, NoRefresh
  <2> QED BY <2>1, <2>2, <2>3
<1>3. (\A c : Asked(c)' = Asked(c)) /\ (\A t, j : Told(t, j)' <=> Told(t, j)) /\ StreamIds' = StreamIds /\ PostIds' = PostIds /\ Own' = Own
  BY <1>1 DEF Asked, Told, StreamIds, PostIds, Own
<1>4. /\ checking' \subseteq imap' /\ (Staged \in StreamIds' => Staged \in PostIds')
      /\ (call'["append"].pc = "idle" \/ call'["prepend"].pc = "idle") /\ (call'["news"].pc # "idle" => Asked("news")' # {})
  BY <1>1, <1>3 DEF MailInv, GoneOnce, OneAtATime
<1> QED BY <1>1, <1>2, <1>3, <1>4, MailKept

\* updateFromJson keeps MailInv.
LEMMA UpdateFromJsonMail == ASSUME StreamInv, MailInv, UpdateFromJson PROVE MailInv'
<1> USE DEF StreamInv
<1>1. UNCHANGED <<visible, last_post, bus, create, call, new_posts, checking>> /\ imap \subseteq imap' /\ stream' = Sorted(refresh.got) /\ refresh'.pc # "served" /\ upset \subseteq upset'
  BY DEF UpdateFromJson, server, NoRefresh
<1>2. Staged \notin StreamIds'
  BY <1>1, SortedElements, IdTypes DEF StreamIds
<1>3. (\A c : Asked(c)' = Asked(c)) /\ (\A t, j : Told(t, j)' <=> Told(t, j)) /\ Own' = Own
  BY <1>1 DEF Asked, Told, Own
<1>4. /\ checking' \subseteq imap'
      /\ (call'["append"].pc = "idle" \/ call'["prepend"].pc = "idle") /\ (call'["news"].pc # "idle" => Asked("news")' # {})
  BY <1>1, <1>3 DEF MailInv, GoneOnce, OneAtATime
<1> QED BY <1>1, <1>2, <1>3, <1>4, MailKept

\* A message about a post that is gone keeps MailInv.
LEMMA GoneMail ==
    ASSUME StreamInv, MailInv, NEW type \in {"deleted", "destroyed"}, NEW i \in Ids,
           <<type, i>> \in bus, bus' = bus \ {<<type, i>>}, upset \subseteq upset',
           UNCHANGED <<server, create, refresh, call, new_posts>>,
           checking' \subseteq imap',
           \A j \in checking' : j \in checking \/ (type = "deleted" /\ j = i),
           Staged \in StreamIds' => Staged \in StreamIds, Staged \in PostIds => Staged \in PostIds'
    PROVE  MailInv'
<1> USE DEF StreamInv
<1>1. UNCHANGED <<visible, last_post, create, refresh, call, new_posts>> /\ Own' = Own /\ \A c : Asked(c)' = Asked(c)
  BY DEF server, Own, Asked
<1>2. /\ \A t, j : Told(t, j) <=> Told(t, j)' \/ (t = type /\ j = i)
      /\ Told(type, i) /\ ~Told(type, i)'
  BY HandledEffect DEF Typed, MailOnce
<1>3. \A j : Told("created", j)' <=> Told("created", j)
  BY <1>2
<1>4. \A j \in checking' : j \in checking \/ (Told("deleted", j) /\ ~Told("deleted", j)')
  BY <1>2
<1>5. /\ Staged \in StreamIds' => Staged \in PostIds'
      /\ (call'["append"].pc = "idle" \/ call'["prepend"].pc = "idle") /\ (call'["news"].pc # "idle" => Asked("news")' # {})
  BY <1>1 DEF MailInv, OneAtATime
<1> QED BY <1>1, <1>2, <1>3, <1>4, <1>5, MailKept

\* triggerDeletedPost keeps MailInv: it looks up a post that is loaded.
LEMMA DeletedMail == ASSUME StreamInv, MailInv, NEW i \in Ids, Deleted(i) PROVE MailInv'
<1>1. /\ <<"deleted", i>> \in bus /\ bus' = bus \ {<<"deleted", i>>} /\ upset \subseteq upset'
      /\ UNCHANGED <<server, create, refresh, call, new_posts, stream, posts, imap>>
      /\ checking' = IF Loaded(i) THEN checking \cup {i} ELSE checking
  BY DEF Deleted, shown
<1>2. checking' \subseteq imap' /\ \A j \in checking' : j \in checking \/ j = i
  BY <1>1 DEF MailInv, GoneOnce, Loaded
<1>3. StreamIds' = StreamIds /\ PostIds' = PostIds
  BY <1>1 DEF StreamIds, PostIds
<1> QED BY <1>1, <1>2, <1>3, GoneMail

\* triggerDestroyedPost keeps MailInv: the post it removes is not looked up.
LEMMA DestroyedMail == ASSUME StreamInv, MailInv, NEW i \in Ids, Destroyed(i) PROVE MailInv'
<1> USE DEF StreamInv
<1>1. /\ <<"destroyed", i>> \in bus /\ bus' = bus \ {<<"destroyed", i>>} /\ upset \subseteq upset'
      /\ UNCHANGED <<server, create, refresh, call, new_posts, checking>>
      /\ IF Loaded(i) THEN RemovePost(i) ELSE UNCHANGED shown
  BY DEF Destroyed
<1>2. Gone(i)
  BY <1>1 DEF Gone, Told
<1>3. i \notin checking /\ i # Staged
  BY <1>2, IdTypes DEF MailInv, GoneOnce
<1>4. imap \ {i} \subseteq imap' /\ StreamIds' \subseteq StreamIds /\ PostIds \ {i} \subseteq PostIds'
  <2>1. CASE Loaded(i)
    BY <2>1, <1>1, RemoveEffect
  <2>2. CASE ~Loaded(i)
    BY <2>2, <1>1 DEF shown, StreamIds, PostIds
  <2> QED BY <2>1, <2>2
<1>5. checking' \subseteq imap'
  BY <1>1, <1>3, <1>4 DEF MailInv, GoneOnce
<1> QED BY <1>1, <1>3, <1>4, <1>5, GoneMail

\* The lookup of a deleted post keeps MailInv.
LEMMA CheckedMail == ASSUME StreamInv, MailInv, NEW i \in Ids, Checked(i) PROVE MailInv'
<1> USE DEF StreamInv
<1>1. UNCHANGED <<visible, last_post, bus, create, refresh, call, new_posts, upset>> /\ checking' = checking \ {i} /\ RemovePost(i)
  BY DEF Checked, server
<1>2. imap' = imap \ {i} /\ StreamIds' = StreamIds \ {i} /\ PostIds' = PostIds \ {i} /\ i # Staged
  BY <1>1, RemoveEffect, IdTypes
<1>3. (\A c : Asked(c)' = Asked(c)) /\ (\A t, j : Told(t, j)' <=> Told(t, j)) /\ Own' = Own
  BY <1>1 DEF Asked, Told, Own
<1>4. /\ checking' \subseteq imap' /\ (Staged \in StreamIds' => Staged \in PostIds')
      /\ (call'["append"].pc = "idle" \/ call'["prepend"].pc = "idle") /\ (call'["news"].pc # "idle" => Asked("news")' # {})
  BY <1>1, <1>2, <1>3 DEF MailInv, GoneOnce, OneAtATime
<1> QED BY <1>1, <1>3, <1>4, MailKept

\* MailInv holds when the page is loaded.
LEMMA MailInvInit == Init => MailInv
<1> SUFFICES ASSUME Init PROVE MailInv
  OBVIOUS
<1>1. /\ bus = {} /\ new_posts = <<>> /\ create = NoCreate /\ refresh = NoRefresh /\ call = [c \in Calls |-> Idle] /\ checking = {}
      /\ stream = Sorted(visible)
  BY DEF Init
<1>2. {"append", "prepend", "news"} \subseteq Calls
  BY DEF Calls, Windows
<1>3. (\A t, j : ~Told(t, j)) /\ Range(new_posts) = {} /\ (\A x, y : ~Before(new_posts, x, y))
  <2>1. Range(new_posts) = {} BY <1>1 DEF Range
  <2>2. new_posts \in Seq({}) BY <1>1
  <2> QED BY <2>1, <2>2, <1>1, Elements DEF Told
<1>4. \A c \in Calls : call[c].pc = "idle" /\ call[c].ids = <<>> /\ Asked(c) = {} /\ \A x, y : ~Before(call[c].ids, x, y)
  <2>1. \A c \in Calls : call[c].pc = "idle" /\ call[c].ids = <<>> BY <1>1 DEF Idle
  <2>2. Range(<<>>) = {} /\ \A x, y : ~Before(<<>>, x, y) BY DEF Range, Before
  <2> QED BY <2>1, <2>2 DEF Asked
<1>5. Own = 0 /\ refresh.pc # "served"
  BY <1>1 DEF Own, NoCreate, NoRefresh
<1>6. Staged \notin StreamIds
  BY <1>1, StreamInvInit, IdTypes, SortedElements DEF StreamIds, StreamInv
<1>7. NewsInOrder
  BY <1>2, <1>3, <1>4, <1>5 DEF NewsInOrder, InSequence
<1>8. ViewIsPrefix /\ GoneOnce
  BY <1>1, <1>3, <1>5 DEF ViewIsPrefix, GoneOnce, Gone
<1>9. OneAtATime
  BY <1>2, <1>4, <1>6 DEF OneAtATime
<1> QED BY <1>7, <1>8, <1>9 DEF MailInv

\* MailInv holds when nothing changes.
LEMMA StutterMail == ASSUME StreamInv, MailInv, UNCHANGED vars PROVE MailInv'
<1>1. UNCHANGED <<visible, last_post, bus, stream, posts, imap, create, refresh, call, new_posts, checking, upset>>
  BY DEF vars, server, shown
<1>2. (\A c : Asked(c)' = Asked(c)) /\ (\A t, j : Told(t, j)' <=> Told(t, j)) /\ StreamIds' = StreamIds /\ PostIds' = PostIds /\ Own' = Own
  BY <1>1 DEF Asked, Told, StreamIds, PostIds, Own
<1> QED BY <1>1, <1>2, MailKept DEF MailInv, GoneOnce, OneAtATime

\* Every step keeps MailInv, also when requests fail and jumps overtake them.
LEMMA MailInvNext == ASSUME StreamInv, StreamInv', MailInv, [Next]_vars PROVE MailInv'
<1>1. CASE UNCHANGED vars
  BY <1>1, StutterMail
<1>2. CASE Post
  <2>1. NewPost /\ UNCHANGED <<deletions, shown, staging, refresh, call, new_posts, checking, upset>> /\ create' = create
    BY <1>2 DEF Post, NewPost
  <2> QED BY <2>1, PostMail
<1>3. CASE \E i \in Ids : Delete(i)
  BY <1>3, DeleteMail
<1>4. CASE \E staged \in BOOLEAN : CreatePost(staged)
  BY <1>4, CreatePostMail
<1>5. CASE ServeCreate \/ CommitPost \/ UndoPost
  BY <1>5, ServeCreateMail, CommitPostMail, UndoPostMail
<1>6. CASE AppendMore \/ PrependMore
  BY <1>6, AppendMoreMail, PrependMoreMail
<1>7. CASE \E c \in Calls : Serve(c) \/ Arrive(c) \/ Fail(c)
  BY <1>7, ServeMail, ArriveMail, FailMail
<1>8. CASE (\E near \in Ids : Refresh(near)) \/ ServeRefresh \/ ErrorLoading
  BY <1>8, RefreshMail
<1>9. CASE UpdateFromJson
  BY <1>9, UpdateFromJsonMail
<1>10. CASE Retry
  BY <1>10, RetryCome, NewsMail DEF MailInv
<1>11. CASE \E i \in Ids : Created(i) \/ Deleted(i) \/ Checked(i) \/ Destroyed(i)
  BY <1>11, CreatedMail, DeletedMail, CheckedMail, DestroyedMail
<1> QED BY <1>1, <1>2, <1>3, <1>4, <1>5, <1>6, <1>7, <1>8, <1>9, <1>10, <1>11 DEF Next

-----------------------------------------------------------------------------
(* The window is kept: what is taken away and what changes no list *)

\* stream and posts are ordered after a step.
LEMMA OrdersNext ==
    ASSUME StreamInv'
    PROVE  /\ \A x, y : Before(stream', x, y) => x \in StreamIds' /\ y \in StreamIds' /\ x # y /\ ~Before(stream', y, x)
           /\ \A x, y, z : Before(stream', x, y) /\ Before(stream', y, z) => Before(stream', x, z)
           /\ \A x, y \in StreamIds' : x # y => Before(stream', x, y) \/ Before(stream', y, x)
           /\ \A x, y : Before(posts', x, y) => x \in PostIds' /\ y \in PostIds' /\ x # y /\ ~Before(posts', y, x)
           /\ \A x, y \in PostIds' : x # y => Before(posts', x, y) \/ Before(posts', y, x)
BY OrderFacts DEF StreamInv, Typed, Distinct, StreamIds, PostIds

\* A step after which nothing is listed, shown or to come that was not before
\* keeps the window.
LEMMA Shrink ==
    ASSUME StreamInv, StreamInv', SteadyInv, Listed',
           StreamIds' \subseteq StreamIds, PostIds' \subseteq PostIds,
           \A x, y \in StreamIds' : Before(stream', x, y) <=> Before(stream, x, y),
           \A x, y \in PostIds' : Before(posts', x, y) <=> Before(posts, x, y),
           \A w \in Windows : call'[w].ids = call[w].ids /\ Here(w)' \subseteq Here(w) /\ Here(w)' \cap PostIds \subseteq PostIds',
           Asked("news")' = Asked("news"),
           Alive' \subseteq Alive, Alive' \cap Held \subseteq Held', visible' \cap StreamIds' \subseteq visible,
           OwnListed' => OwnListed /\ Own' = Own,
           \A m \in visible' \ StreamIds' : Pending(m)' => (m \in visible \ StreamIds /\ Pending(m)) \/ \A x \in StreamIds' : x < m
    PROVE  InOrder' /\ Windowed' /\ NewsAtEnd' /\ OwnAtEnd'
<1>0. InOrder /\ Windowed /\ NewsAtEnd /\ OwnAtEnd /\ Listed
  BY DEF SteadyInv
<1>1. /\ \A x, y : Before(stream', x, y) => x \in StreamIds' /\ y \in StreamIds' /\ Before(stream, x, y)
      /\ \A x, y : Before(posts', x, y) => x \in PostIds' /\ y \in PostIds' /\ Before(posts, x, y)
  BY OrdersNext
<1>2. "append" \in Windows /\ "prepend" \in Windows
  BY DEF Windows
<1>3. Held' \subseteq StreamIds' /\ PostIds' \subseteq Held' /\ PostIds' \subseteq StreamIds' /\ \A w \in Windows : Here(w)' \subseteq StreamIds'
  BY <1>2 DEF Listed, Held
<1>4. Held' \subseteq Held
  BY <1>2 DEF Held
<1>5. Alive' \subseteq StreamIds' /\ Alive' \ Held' \subseteq Alive \ Held /\ \A w \in Windows : Here(w)' \ PostIds' \subseteq Here(w) \ PostIds
  BY DEF Alive
<1>6. InOrder'
  <2>1. \A y \in visible' : \A x \in Ids : Before(stream', x, y) => x < y
    BY <1>0, <1>1 DEF InOrder
  <2>2. \A m \in visible' \ StreamIds' : Pending(m)' => \A x \in StreamIds' : x < m
    BY <1>0 DEF InOrder
  <2>3. ASSUME NEW x \in visible', NEW y \in PostIds', Before(posts', x, y) PROVE Before(stream', x, y)
    <3>1. x \in StreamIds' /\ y \in StreamIds' /\ x \in visible /\ Before(posts, x, y) /\ y \in PostIds
      BY <2>3, <1>1, <1>3
    <3> QED BY <3>1, <1>0 DEF InOrder
  <2> QED BY <2>1, <2>2, <2>3 DEF InOrder
<1>7. Windowed'
  <2>1. ASSUME NEW z \in Alive' \ Held' PROVE (\A p \in Held' : Before(stream', z, p)) \/ (\A p \in Held' : Before(stream', p, z))
    <3>1. (\A p \in Held : Before(stream, z, p)) \/ (\A p \in Held : Before(stream, p, z))
      BY <2>1, <1>0, <1>5 DEF Windowed
    <3>2. z \in StreamIds' BY <2>1, <1>5
    <3> QED BY <3>1, <3>2, <1>3, <1>4
  <2>2. ASSUME NEW z \in Here("append")' \ PostIds', NEW p \in PostIds' PROVE Before(stream', p, z)
    BY <1>0, <1>2, <1>3, <1>5 DEF Windowed
  <2>3. ASSUME NEW z \in Here("prepend")' \ PostIds', NEW p \in PostIds' PROVE Before(stream', z, p)
    BY <1>0, <1>2, <1>3, <1>5 DEF Windowed
  <2>4. ASSUME NEW x \in Here("append")' \ PostIds', NEW y \in Here("append")' \ PostIds', Before(call'["append"].ids, x, y) PROVE Before(stream', x, y)
    <3>1. Before(stream, x, y) BY <2>4, <1>0, <1>2, <1>5 DEF Windowed
    <3> QED BY <3>1, <1>2, <1>3
  <2>5. ASSUME NEW x \in Here("prepend")' \ PostIds', NEW y \in Here("prepend")' \ PostIds', Before(call'["prepend"].ids, x, y) PROVE Before(stream', y, x)
    <3>1. Before(stream, y, x) BY <2>5, <1>0, <1>2, <1>5 DEF Windowed
    <3> QED BY <3>1, <1>2, <1>3
  <2> QED BY <2>1, <2>2, <2>3, <2>4, <2>5 DEF Windowed
<1>8. NewsAtEnd'
  <2> SUFFICES ASSUME Asked("news")' # {}
               PROVE  (\A z \in Alive' \ Held' : \A p \in Held' : Before(stream', z, p)) /\ Here("append")' \subseteq PostIds'
    BY DEF NewsAtEnd
  <2>1. (\A z \in Alive \ Held : \A p \in Held : Before(stream, z, p)) /\ Here("append") \subseteq PostIds
    BY <1>0 DEF NewsAtEnd
  <2> QED BY <2>1, <1>2, <1>3, <1>4, <1>5
<1>9. OwnAtEnd'
  <2> SUFFICES ASSUME OwnListed' PROVE OwnAtEnd'
    BY DEF OwnAtEnd
  <2>1. OwnListed /\ Own' = Own /\ Own \in StreamIds'
    BY DEF OwnListed
  <2>2. \A z \in StreamIds' : AfterOwn(z)' => AfterOwn(z)
    BY <2>1, <1>1 DEF AfterOwn
  <2>3. ASSUME NEW z \in Alive' \ Held', AfterOwn(z)', NEW p \in Held' PROVE Before(stream', p, z)
    <3>1. Before(stream, p, z) BY <2>1, <2>2, <2>3, <1>0, <1>4, <1>5 DEF OwnAtEnd
    <3> QED BY <3>1, <1>3, <1>5
  <2>4. ASSUME NEW z \in Here("prepend")' \ PostIds' PROVE ~AfterOwn(z)'
    BY <2>1, <2>2, <1>0, <1>2, <1>3, <1>5 DEF OwnAtEnd
  <2>5. ASSUME Asked("news")' # {}, NEW z \in (Alive' \cup Here("append")' \cup Here("prepend")') \ PostIds' PROVE ~AfterOwn(z)'
    <3>1. z \in StreamIds' /\ z \in Alive \cup Here("append") \cup Here("prepend")
      BY <1>2, <1>3, <1>5
    <3>2. z \notin PostIds
      <4>1. CASE z \in Alive'
        <5>1. z \in PostIds => z \in Held BY DEF Held
        <5> QED BY <5>1, <4>1, <1>2 DEF Held
      <4>2. CASE z \in Here("append")' \cup Here("prepend")'
        BY <4>2, <1>2
      <4> QED BY <4>1, <4>2
    <3> QED BY <3>1, <3>2, <2>1, <2>2, <2>5, <1>0 DEF OwnAtEnd
  <2> QED BY <2>3, <2>4, <2>5 DEF OwnAtEnd
<1> QED BY <1>6, <1>7, <1>8, <1>9

\* A step that changes no list and no request keeps the window.
LEMMA QuietSteady ==
    ASSUME StreamInv, StreamInv', SteadyInv, UNCHANGED <<stream, posts, imap, call, last_post>>, visible' \subseteq visible,
           Own' = 0 \/ Own' = Own, \A m : Pending(m)' => Pending(m),
           staging' => Asked("news") = {} /\ new_posts' = <<>>
    PROVE  SteadyInv'
<1>1. StreamIds' = StreamIds /\ PostIds' = PostIds /\ \A c : Asked(c)' = Asked(c)
  BY DEF StreamIds, PostIds, Asked
<1>2. {"append", "prepend"} = Windows
  BY DEF Windows
<1>3. StagedLast'
  BY <1>1 DEF SteadyInv, StagedLast
<1>4. \A w \in Windows : Here(w)' \subseteq Here(w) /\ Asked(w) \cap (visible' \cup imap) \subseteq Here(w)'
  BY <1>1 DEF Here
<1>5. Listed'
  BY <1>1, <1>4 DEF SteadyInv, Listed, Coming
<1>6. Alive' \subseteq Alive /\ Alive' \cap Held \subseteq Held'
  <2>1. \A z \in Alive' : \A w \in Windows : z \in Here(w) => z \in Here(w)'
    BY <1>4 DEF Here, Alive
  <2> QED BY <1>1, <1>2, <2>1 DEF Alive, Held
<1>7. OwnListed' => OwnListed /\ Own' = Own
  BY <1>1 DEF OwnListed
<1>8. InOrder' /\ Windowed' /\ NewsAtEnd' /\ OwnAtEnd'
  BY <1>1, <1>4, <1>5, <1>6, <1>7, Shrink
<1> QED BY <1>3, <1>5, <1>8 DEF SteadyInv

\* A step that removes what the reader cannot see keeps the window.
LEMMA RemoveSteady ==
    ASSUME StreamInv, StreamInv', SteadyInv, NEW i,
           PostIds' = PostIds \ {i}, StreamIds' = StreamIds \ {i}, imap' = imap \ {i},
           \A x, y : Before(posts', x, y) => Before(posts, x, y),
           \A x, y : Before(stream', x, y) => Before(stream, x, y),
           UNCHANGED <<call, last_post, visible>>,
           i \notin visible, \A w \in Windows : i \notin call[w].got,
           Own' = 0 \/ Own' = Own, \A m : Pending(m)' => Pending(m),
           staging' => Asked("news") = {} /\ new_posts' = <<>>
    PROVE  SteadyInv'
<1>1. \A c : Asked(c)' = Asked(c)
  BY DEF Asked
<1>2. {"append", "prepend"} = Windows
  BY DEF Windows
<1>3. StagedLast'
  BY <1>1 DEF SteadyInv, StagedLast
<1>4. \A w \in Windows : Here(w)' = Here(w) \ {i}
  BY <1>1 DEF Here
<1>5. Listed'
  BY <1>1, <1>4 DEF SteadyInv, Listed, Coming
<1>6. Alive' \subseteq Alive /\ Alive' \cap Held \subseteq Held'
  BY <1>2, <1>4 DEF Alive, Held
<1>7. OwnListed' => OwnListed /\ Own' = Own
  BY DEF OwnListed
<1>8. /\ \A x, y \in StreamIds' : Before(stream', x, y) <=> Before(stream, x, y)
      /\ \A x, y \in PostIds' : Before(posts', x, y) <=> Before(posts, x, y)
  BY Orders, OrdersNext
<1>9. InOrder' /\ Windowed' /\ NewsAtEnd' /\ OwnAtEnd'
  BY <1>1, <1>4, <1>5, <1>6, <1>7, <1>8, Shrink
<1> QED BY <1>3, <1>5, <1>9 DEF SteadyInv

\* A new post keeps the window: it is newer than all of the stream.
LEMMA PostSteady ==
    ASSUME StreamInv, StreamInv', SteadyInv, NewPost, UNCHANGED <<deletions, shown, staging, refresh, call, new_posts, checking, upset>>,
           create' = create \/ create'.id \in {last_post + 1, 0}
    PROVE  SteadyInv'
<1> USE DEF StreamInv
<1> DEFINE n == last_post + 1
<1>1. /\ UNCHANGED <<stream, posts, imap, call, staging, new_posts>> /\ StreamIds' = StreamIds /\ PostIds' = PostIds
      /\ (\A c : Asked(c)' = Asked(c)) /\ visible' = visible \cup {n} /\ last_post' = n
  BY DEF shown, PostIds, StreamIds, Asked, NewPost
<1>2. last_post \in Nat /\ n \in Nat /\ n \in Ids /\ last_post < n /\ n # 0 /\ n # Staged /\ Staged < n /\ Windows \subseteq Calls
  BY IdTypes DEF NewPost, Ids, Calls, Staged
<1>3. \A t, j : Told(t, j)' <=> Told(t, j) \/ (t = "created" /\ j = n)
  BY <1>2, SentEffect DEF Typed, NewPost
<1> HIDE DEF n
<1>4. /\ n \notin StreamIds \cup PostIds \cup imap /\ (\A c \in Calls : n \notin Asked(c)) /\ (\A x \in StreamIds : x < n)
      /\ Own # n /\ Own <= last_post
  <2>1. \A x \in AllIds : x = Staged \/ x <= last_post => x < n
    BY <1>2, IdTypes DEF AllIds
  <2>2. StreamIds \cup PostIds \cup imap \subseteq AllIds /\ \A c \in Calls : Asked(c) \subseteq AllIds
    BY IdTypes DEF Typed
  <2>3. (\A x \in StreamIds \cup PostIds \cup imap : x < n) /\ \A c \in Calls : \A x \in Asked(c) : x < n
    BY <2>1, <2>2 DEF Numbered
  <2>4. Own \in Nat /\ Own <= last_post
    BY IdTypes DEF Numbered, Own, Typed
  <2> QED BY <2>3, <2>4, <1>2
<1>5. Own' = Own \/ Own' = n \/ Own' = 0
  BY DEF Own, n
<1>6. StagedLast'
  BY <1>1, <1>4, <1>5 DEF SteadyInv, StagedLast
<1>7. \A w \in Windows : Here(w)' = Here(w)
  BY <1>1, <1>2, <1>4 DEF Here
<1>8. Listed'
  <2>1. \A w \in Windows : Coming(w)' = Coming(w)
    BY <1>1, <1>2, <1>4 DEF Settled, Coming
  <2> QED BY <2>1, <1>1, <1>2, <1>4, <1>7 DEF SteadyInv, Listed
<1>9. Alive' = Alive /\ Held' = Held
  BY <1>1, <1>4, <1>7 DEF Alive, Held, Windows
<1>10. ~OwnListed'
  BY <1>1, <1>2, <1>4, <1>5 DEF OwnListed
<1>11. ASSUME NEW m \in visible' \ StreamIds', Pending(m)' PROVE (m \in visible \ StreamIds /\ Pending(m)) \/ \A x \in StreamIds' : x < m
  BY <1>11, <1>1, <1>3, <1>4 DEF Pending
<1>12. InOrder' /\ Windowed' /\ NewsAtEnd' /\ OwnAtEnd'
  <2>1. \A w \in Windows : call'[w].ids = call[w].ids /\ Here(w)' \subseteq Here(w) /\ Here(w)' \cap PostIds \subseteq PostIds'
    BY <1>1, <1>7
  <2>2. "news" \in Calls BY DEF Calls
  <2> QED BY <1>1, <1>4, <1>8, <1>9, <1>10, <1>11, <2>1, <2>2, Shrink
<1> QED BY <1>6, <1>8, <1>12 DEF SteadyInv

\* The answer of the creation keeps the window, with a post or without.
LEMMA ServeCreateSteady == ASSUME StreamInv, StreamInv', SteadyInv, ServeCreate PROVE SteadyInv'
<1>1. UNCHANGED <<deletions, shown, staging, refresh, call, new_posts, checking, upset>>
  BY DEF ServeCreate
<1>2. CASE NewPost /\ \E id \in {last_post + 1, 0} : create' = [pc |-> "served", id |-> id]
  <2>1. create'.id \in {last_post + 1, 0} /\ NewPost BY <1>2
  <2> QED BY <1>1, <2>1, PostSteady
<1>3. CASE create' = [pc |-> "served", id |-> 0] /\ UNCHANGED <<visible, last_post, bus>>
  <2>1. UNCHANGED <<new_posts, last_post, visible, bus, staging, call, stream, posts, imap>> /\ Own' = 0
    BY <1>1, <1>3 DEF Own, shown
  <2>2. \A m : Pending(m)' <=> Pending(m)
    BY <2>1 DEF Asked, Told, Pending
  <2> QED BY <2>1, <2>2, QuietSteady DEF SteadyInv, StagedLast
<1> QED BY <1>2, <1>3 DEF ServeCreate, NewPost

\* A deletion on the server keeps the window: less has to be shown.
LEMMA DeleteSteady == ASSUME StreamInv, StreamInv', SteadyInv, NEW i \in Ids, Delete(i) PROVE SteadyInv'
<1> USE DEF StreamInv
<1>1. /\ UNCHANGED <<last_post, posts, stream, imap, staging, create, call, new_posts>> /\ visible' \subseteq visible /\ Own' = Own
  BY DEF Delete, shown, Own
<1>2. PICK type \in {"deleted", "destroyed"} : bus' = bus \cup {<<type, i>>}
  BY DEF Delete
<1>3. \A t, j : Told(t, j)' <=> Told(t, j) \/ (t = type /\ j = i)
  BY <1>2, SentEffect DEF Typed
<1>4. \A m : Pending(m)' <=> Pending(m)
  BY <1>1, <1>3 DEF Pending, Asked
<1> QED BY <1>1, <1>4, QuietSteady DEF SteadyInv, StagedLast

\* The steps of the request for a topic view but its last keep the window.
LEMMA RefreshSteady ==
    ASSUME StreamInv, StreamInv', SteadyInv, (\E near \in Ids : Refresh(near)) \/ ServeRefresh \/ ErrorLoading
    PROVE  SteadyInv'
<1>1. UNCHANGED <<visible, last_post, bus, stream, posts, imap, staging, create, call, new_posts>>
  BY DEF Refresh, ServeRefresh, ErrorLoading, server, shown
<1>2. (\A m : Pending(m)' <=> Pending(m)) /\ Own' = Own
  BY <1>1 DEF Pending, Asked, Told, Own
<1> QED BY <1>1, <1>2, QuietSteady DEF SteadyInv, StagedLast

\* The window is kept when nothing changes.
LEMMA StutterSteady == ASSUME StreamInv, StreamInv', SteadyInv, UNCHANGED vars PROVE SteadyInv'
<1>1. UNCHANGED <<visible, last_post, bus, stream, posts, imap, staging, create, call, new_posts>>
  BY DEF vars, server, shown
<1>2. (\A m : Pending(m)' <=> Pending(m)) /\ Own' = Own
  BY <1>1 DEF Pending, Asked, Told, Own
<1> QED BY <1>1, <1>2, QuietSteady DEF SteadyInv, StagedLast

\* An answer of posts.json keeps the window: it has what was asked for and is
\* not deleted.
LEMMA ServeSteady == ASSUME StreamInv, StreamInv', SteadyInv, NEW c \in Calls, Serve(c) PROVE SteadyInv'
<1> USE DEF StreamInv
<1>1. /\ \A d \in Calls : Asked(d)' = Asked(d)
      /\ call[c].pc = "sent" /\ call'[c].pc = "served" /\ call'[c].got = call[c].wanted \cap visible
      /\ call'[c].ids = call[c].ids /\ call'[c].wanted = call[c].wanted
      /\ \A d \in Calls \ {c} : call'[d] = call[d]
  BY ServeEffect
<1>2. UNCHANGED <<visible, last_post, bus, staging, create, new_posts, posts, stream, imap>> /\ PostIds' = PostIds /\ StreamIds' = StreamIds /\ Own' = Own
  BY DEF Serve, shown, PostIds, StreamIds, server, Own
<1>3. {"append", "prepend"} = Windows /\ Windows \subseteq Calls /\ "news" \in Calls /\ "news" \notin Windows
  BY DEF Calls, Windows
<1>4. \A d \in Calls : call'[d].ids = call[d].ids
  BY <1>1
<1>5. (\A m : Pending(m)' <=> Pending(m))
  BY <1>1, <1>2, <1>3 DEF Pending, Told
<1>6. StagedLast'
  BY <1>1, <1>2, <1>3 DEF SteadyInv, StagedLast
<1>7. call[c].got = {}
  BY <1>1 DEF Settled
<1>8. \A w \in Windows : Here(w)' = Here(w)
  <2> SUFFICES ASSUME NEW w \in Windows PROVE Here(w)' = Here(w) OBVIOUS
  <2>1. CASE w = c
    BY <2>1, <1>1, <1>2, <1>3, <1>7 DEF Here
  <2>2. CASE w # c
    BY <2>2, <1>1, <1>2, <1>3 DEF Here
  <2> QED BY <2>1, <2>2
<1>9. Listed'
  <2>0. Listed BY DEF SteadyInv
  <2>1. PostIds' \subseteq StreamIds' /\ Asked("news")' \cap StreamIds' = {} /\ \A w \in Windows : Here(w)' \subseteq StreamIds'
    BY <2>0, <1>1, <1>2, <1>3, <1>8 DEF Listed
  <2>2. ASSUME NEW w \in Windows PROVE call'["news"].got \cap Asked(w)' = {}
    <3>1. CASE c = "news"
      <4>1. Asked(w) \cap visible \subseteq StreamIds BY <2>0 DEF Listed, Here
      <4> QED BY <4>1, <3>1, <2>0, <1>1, <1>3 DEF Listed, Settled
    <3>2. CASE c # "news"
      BY <3>2, <2>0, <1>1, <1>3 DEF Listed
    <3> QED BY <3>1, <3>2
  <2>3. ASSUME NEW w \in Windows PROVE Coming(w)' \cap imap' = {} /\ (call'[w].pc = "served" => Asked(w)' \cap visible' \subseteq imap' \cup call'[w].got)
    <3>1. CASE c = w
      BY <3>1, <2>0, <1>1, <1>2, <1>3, <1>7 DEF Listed, Requested, Coming
    <3>2. CASE c # w
      BY <3>2, <2>0, <1>1, <1>2, <1>3 DEF Listed, Coming
    <3> QED BY <3>1, <3>2
  <2> QED BY <2>1, <2>2, <2>3 DEF Listed
<1>10. Alive' = Alive /\ Held' = Held
  BY <1>2, <1>3, <1>8 DEF Alive, Held
<1>11. OwnListed' => OwnListed /\ Own' = Own
  BY <1>2 DEF OwnListed
<1>12. InOrder' /\ Windowed' /\ NewsAtEnd' /\ OwnAtEnd'
  <2>1. \A w \in Windows : call'[w].ids = call[w].ids /\ Here(w)' \subseteq Here(w) /\ Here(w)' \cap PostIds \subseteq PostIds'
    BY <1>2, <1>3, <1>4, <1>8
  <2>2. \A x, y \in StreamIds' : Before(stream', x, y) <=> Before(stream, x, y)
    BY <1>2
  <2>3. \A x, y \in PostIds' : Before(posts', x, y) <=> Before(posts, x, y)
    BY <1>2
  <2> QED BY <1>1, <1>2, <1>3, <1>5, <1>9, <1>10, <1>11, <2>1, <2>2, <2>3, Shrink
<1> QED BY <1>6, <1>9, <1>12 DEF SteadyInv

\* createPost that stages nothing in the lists keeps the window.
LEMMA CreatePostQuiet ==
    ASSUME StreamInv, StreamInv', SteadyInv, Steady', NEW staged \in BOOLEAN, CreatePost(staged), ~(staged /\ LoadedAllPosts)
    PROVE  SteadyInv'
<1> USE DEF StreamInv
<1>1. UNCHANGED <<visible, last_post, bus, call, new_posts, stream, posts, imap>> /\ Own' = 0 /\ staging' = staged
  BY DEF CreatePost, NoCreate, server, shown, Own
<1>2. \A m : Pending(m)' <=> Pending(m)
  BY <1>1 DEF Pending, Asked, Told
<1>3. staged => call["news"].pc = "idle" /\ new_posts = <<>>
  BY DEF CreatePost, Steady
<1>4. "news" \in Calls
  BY DEF Calls
<1>5. staging' => Asked("news") = {} /\ new_posts' = <<>>
  BY <1>1, <1>3, <1>4 DEF Settled
<1> QED BY <1>1, <1>2, <1>5, QuietSteady

\* A message about a post that is gone announces no new one.
LEMMA GonePending ==
    ASSUME StreamInv, NEW type \in {"deleted", "destroyed"}, NEW i \in Ids,
           <<type, i>> \in bus, bus' = bus \ {<<type, i>>}, UNCHANGED <<call, new_posts>>
    PROVE  (\A m : Pending(m)' <=> Pending(m)) /\ i \notin visible
<1>1. (\A t, j : Told(t, j) <=> Told(t, j)' \/ (t = type /\ j = i)) /\ Told(type, i)
  BY HandledEffect DEF StreamInv, Typed, MailOnce
<1> QED BY <1>1 DEF Pending, Asked, StreamInv, MailOnce, Gone

\* triggerDeletedPost keeps the window.
LEMMA DeletedSteady == ASSUME StreamInv, StreamInv', SteadyInv, NEW i \in Ids, Deleted(i) PROVE SteadyInv'
<1>1. /\ <<"deleted", i>> \in bus /\ bus' = bus \ {<<"deleted", i>>}
      /\ UNCHANGED <<visible, last_post, staging, create, call, new_posts, stream, posts, imap>>
  BY DEF Deleted, shown, server
<1>2. (\A m : Pending(m)' <=> Pending(m)) /\ Own' = Own
  BY <1>1, GonePending DEF Own
<1> QED BY <1>1, <1>2, QuietSteady DEF SteadyInv, StagedLast

\* removePosts of a post that is gone keeps the window: no answer on its way
\* has it.
LEMMA RemoveGoneSteady ==
    ASSUME StreamInv, StreamInv', SteadyInv, NEW i \in Ids, RemovePost(i), i \in imap, i \notin visible,
           UNCHANGED <<visible, last_post, staging, create, call, new_posts>>, \A m : Pending(m)' <=> Pending(m)
    PROVE  SteadyInv'
<1> USE DEF StreamInv
<1>1. /\ PostIds' = PostIds \ {i} /\ StreamIds' = StreamIds \ {i} /\ imap' = imap \ {i}
      /\ \A x, y : Before(posts', x, y) => Before(posts, x, y)
      /\ \A x, y : Before(stream', x, y) => Before(stream, x, y)
  BY RemoveEffect
<1>2. \A w \in Windows : i \notin call[w].got
  BY DEF SteadyInv, Listed, Coming
<1>3. staging' => Asked("news") = {} /\ new_posts' = <<>>
  BY DEF SteadyInv, StagedLast
<1>4. Own' = Own
  BY DEF Own
<1> QED BY <1>1, <1>2, <1>3, <1>4, RemoveSteady

\* The lookup of a deleted post, which removes it, keeps the window.
LEMMA CheckedSteady == ASSUME StreamInv, StreamInv', MailInv, SteadyInv, NEW i \in Ids, Checked(i) PROVE SteadyInv'
<1>1. UNCHANGED <<visible, last_post, bus, staging, create, call, new_posts>> /\ RemovePost(i) /\ i \in checking
  BY DEF Checked, server
<1>2. i \in imap /\ i \notin visible
  BY <1>1 DEF MailInv, GoneOnce, StreamInv, MailOnce
<1>3. \A m : Pending(m)' <=> Pending(m)
  BY <1>1 DEF Pending, Asked, Told
<1> QED BY <1>1, <1>2, <1>3, RemoveGoneSteady

\* triggerDestroyedPost keeps the window.
LEMMA DestroyedSteady == ASSUME StreamInv, StreamInv', SteadyInv, NEW i \in Ids, Destroyed(i) PROVE SteadyInv'
<1>1. /\ <<"destroyed", i>> \in bus /\ bus' = bus \ {<<"destroyed", i>>}
      /\ UNCHANGED <<visible, last_post, staging, create, call, new_posts>>
      /\ IF Loaded(i) THEN RemovePost(i) ELSE UNCHANGED shown
  BY DEF Destroyed, server
<1>2. (\A m : Pending(m)' <=> Pending(m)) /\ i \notin visible /\ Own' = Own
  BY <1>1, GonePending DEF Own
<1>3. CASE Loaded(i)
  BY <1>1, <1>2, <1>3, RemoveGoneSteady DEF Loaded
<1>4. CASE ~Loaded(i)
  BY <1>1, <1>2, <1>4, QuietSteady DEF SteadyInv, StagedLast, shown
<1> QED BY <1>3, <1>4

\* A message that retryOnRateLimit keeps for later keeps the window.
LEMMA CreatedLaterSteady ==
    ASSUME StreamInv, StreamInv', SteadyInv, NEW i \in Ids, Created(i),
           new_posts' = Append(new_posts, i), UNCHANGED <<shown, call>>
    PROVE  SteadyInv'
<1>1. /\ UNCHANGED <<last_post, visible, posts, stream, imap, staging, create, refresh, call, checking>> /\ create.pc = "idle" /\ Own = 0
      /\ \A t, j : Told(t, j) <=> Told(t, j)' \/ (t = "created" /\ j = i)
      /\ Range(new_posts') = Range(new_posts) \cup {i}
      /\ \A c : Asked(c)' = Asked(c)
  BY CreatedLater
<1>2. (\A m : Pending(m)' <=> Pending(m)) /\ Own' = Own
  BY <1>1 DEF Pending, Own
<1>3. ~staging'
  BY <1>1 DEF StreamInv, StagedAside
<1> QED BY <1>1, <1>2, <1>3, QuietSteady

\* undoPost keeps the window.
LEMMA UndoPostSteady == ASSUME StreamInv, StreamInv', SteadyInv, UndoPost PROVE SteadyInv'
<1> USE DEF StreamInv
<1>1. /\ stream' = Drop(stream, {Staged}) /\ posts' = Drop(posts, {Staged}) /\ imap' = imap \ {Staged} /\ ~staging'
      /\ UNCHANGED <<visible, last_post, bus, call, new_posts>> /\ Own' = 0
  BY DEF UndoPost, server, NoCreate, Own
<1>2. StreamIds' = StreamIds \ {Staged} /\ PostIds' = PostIds \ {Staged}
  BY <1>1, DropElements DEF Typed, StreamIds, PostIds
<1>3. (\A x, y : Before(posts', x, y) => Before(posts, x, y)) /\ \A x, y : Before(stream', x, y) => Before(stream, x, y)
  BY <1>1, DropElements DEF Typed
<1>4. Staged \notin visible /\ \A w \in Windows : Staged \notin call[w].got
  <2>1. \A w \in Windows : call[w].got \subseteq Ids BY DEF Typed, CallTypes, Calls
  <2> QED BY <2>1, IdTypes
<1>5. \A m : Pending(m)' <=> Pending(m)
  BY <1>1 DEF Pending, Asked, Told
<1> QED BY <1>1, <1>2, <1>3, <1>4, <1>5, RemoveSteady

\* commitPost when the end of the stream is not loaded keeps the window: only
\* the id is known from then on.
LEMMA CommitAside ==
    ASSUME StreamInv, StreamInv', MailInv, SteadyInv, CommitPost, ~LoadedAllPosts
    PROVE  SteadyInv'
<1> USE DEF StreamInv
<1>1. ~staging' /\ UNCHANGED <<visible, last_post, bus, call, new_posts>> /\ Own' = 0
  BY DEF CommitPost, server, NoCreate, Own
<1>2. Staged \notin PostIds
  BY StagedAtEnd
<1>3. /\ StreamIds' = StreamIds \ {Staged} /\ PostIds' = PostIds \ {Staged} /\ imap' = imap \ {Staged}
      /\ \A x, y : Before(stream', x, y) => Before(stream, x, y)
      /\ \A x, y : Before(posts', x, y) => Before(posts, x, y)
  BY <1>2, CommitEffect
<1>4. Staged \notin visible /\ \A w \in Windows : Staged \notin call[w].got
  <2>1. \A w \in Windows : call[w].got \subseteq Ids BY DEF Typed, CallTypes, Calls
  <2> QED BY <2>1, IdTypes
<1>5. \A m : Pending(m)' <=> Pending(m)
  BY <1>1 DEF Pending, Asked, Told
<1> QED BY <1>1, <1>3, <1>4, <1>5, RemoveSteady

-----------------------------------------------------------------------------
(* The window is kept: requests for windows *)

\* What comes before a part of a list, in it and after it.
LEMMA SliceOrder ==
    ASSUME NEW U, NEW s \in Seq(U), NEW from \in Int, NEW til \in Int
    PROVE  /\ \A x, y : Before(Slice(s, from, til), x, y) => Before(s, x, y)
           /\ \A z \in Range(s) : \/ z \in Range(Slice(s, from, til))
                                  \/ \E k \in 1..Len(s) : s[k] = z /\ (k < from \/ k > til)
           /\ \A k \in 1..Len(s) : \A x \in Range(Slice(s, from, til)) :
                (k < from => Before(s, s[k], x)) /\ (k > til => Before(s, x, s[k]))
<1>0. Len(s) \in Nat /\ DOMAIN s = 1..Len(s)
  OBVIOUS
<1> DEFINE r == Slice(s, from, til)
<1>r. r = Slice(s, from, til)
  OBVIOUS
<1> HIDE DEF r
<1>1. /\ Range(r) = {s[k] : k \in from..til \cap 1..Len(s)}
      /\ \A x, y : Before(r, x, y) <=>
           \E j \in from..til \cap 1..Len(s) : \E k \in from..til \cap 1..Len(s) : j < k /\ s[j] = x /\ s[k] = y
  <2>1. Range(r) = {s[k] : k \in from..til \cap 1..Len(s)}
    BY <1>r, SliceElements, SMTT(60)
  <2>2. \A x, y : Before(r, x, y) <=>
           \E j \in from..til \cap 1..Len(s) : \E k \in from..til \cap 1..Len(s) : j < k /\ s[j] = x /\ s[k] = y
    BY <1>r, SliceElements, SMTT(60)
  <2> QED BY <2>1, <2>2
<1>2. ASSUME NEW x, NEW y, Before(r, x, y) PROVE Before(s, x, y)
  <2>1. PICK j \in from..til \cap 1..Len(s), k \in from..til \cap 1..Len(s) : j < k /\ s[j] = x /\ s[k] = y
    BY <1>1, <1>2
  <2> QED BY <2>1, <1>0 DEF Before
<1>3. ASSUME NEW z \in Range(s) PROVE z \in Range(r) \/ \E k \in 1..Len(s) : s[k] = z /\ (k < from \/ k > til)
  <2>1. PICK k \in 1..Len(s) : s[k] = z BY <1>0 DEF Range
  <2>2. CASE k \in from..til BY <2>1, <2>2, <1>1
  <2>3. CASE k \notin from..til
    <3>1. k < from \/ k > til BY <2>3, <1>0
    <3> QED BY <2>1, <3>1
  <2> QED BY <2>2, <2>3
<1>4. ASSUME NEW k \in 1..Len(s), NEW x \in Range(r) PROVE (k < from => Before(s, s[k], x)) /\ (k > til => Before(s, x, s[k]))
  <2>1. PICK j \in from..til \cap 1..Len(s) : s[j] = x BY <1>1
  <2>2. (k < from => k < j) /\ (k > til => j < k) /\ j \in 1..Len(s) BY <2>1, <1>0
  <2> QED BY <2>1, <2>2, <1>0 DEF Before
<1> QED BY <1>2, <1>3, <1>4 DEF r

\* The next n elements after e: they follow e, and what follows e otherwise
\* follows them.
LEMMA SliceAfter ==
    ASSUME NEW U, NEW s \in Seq(U), IsInjective(s), NEW e \in Range(s), NEW n \in Nat
    PROVE  LET w == Slice(s, Index(s, e) + 1, Index(s, e) + n)
           IN  /\ \A x \in Range(w) : Before(s, e, x)
               /\ \A x, y : Before(w, x, y) => Before(s, x, y)
               /\ \A z \in Range(s) \ Range(w) : Before(s, e, z) => \A x \in Range(w) : Before(s, x, z)
<1> DEFINE i == Index(s, e)
           w == Slice(s, i + 1, i + n)
<1>0. Len(s) \in Nat /\ DOMAIN s = 1..Len(s)
  OBVIOUS
<1>1. i \in 1..Len(s) /\ s[i] = e
  BY <1>0, IndexElements
<1> HIDE DEF i
<1>2. i + 1 \in Int /\ i + n \in Int
  BY <1>1
<1>3. /\ \A x, y : Before(w, x, y) => Before(s, x, y)
      /\ \A z \in Range(s) : \/ z \in Range(w)
                             \/ \E k \in 1..Len(s) : s[k] = z /\ (k < i + 1 \/ k > i + n)
      /\ \A k \in 1..Len(s) : \A x \in Range(w) :
                (k < i + 1 => Before(s, s[k], x)) /\ (k > i + n => Before(s, x, s[k]))
  BY <1>2, SliceOrder
<1> HIDE DEF w
<1>4. \A x \in Range(w) : Before(s, e, x)
  BY <1>1, <1>3
<1>5. ASSUME NEW z \in Range(s) \ Range(w), Before(s, e, z), NEW x \in Range(w) PROVE Before(s, x, z)
  <2>1. PICK k \in 1..Len(s) : s[k] = z /\ (k < i + 1 \/ k > i + n)
    BY <1>3
  <2>2. CASE k > i + n
    BY <2>1, <2>2, <1>3
  <2>3. CASE k < i + 1
    <3>1. PICK a \in 1..Len(s), b \in 1..Len(s) : a < b /\ s[a] = e /\ s[b] = z
      BY <1>0, <1>5 DEF Before
    <3>2. a = i /\ b = k
      BY <3>1, <2>1, <1>0, <1>1 DEF IsInjective
    <3> QED BY <3>1, <3>2, <2>3, <1>0, <1>1
  <2> QED BY <2>1, <2>2, <2>3
<1> QED BY <1>3, <1>4, <1>5 DEF w, i

\* The n elements before e: they precede e, and what precedes e otherwise
\* precedes them.
LEMMA SliceBefore ==
    ASSUME NEW U, NEW s \in Seq(U), IsInjective(s), NEW e \in Range(s), NEW n \in Nat
    PROVE  LET w == Slice(s, Index(s, e) - n, Index(s, e) - 1)
           IN  /\ \A x \in Range(w) : Before(s, x, e)
               /\ \A x, y : Before(w, x, y) => Before(s, x, y)
               /\ \A z \in Range(s) \ Range(w) : Before(s, z, e) => \A x \in Range(w) : Before(s, z, x)
<1> DEFINE i == Index(s, e)
           w == Slice(s, i - n, i - 1)
<1>0. Len(s) \in Nat /\ DOMAIN s = 1..Len(s)
  OBVIOUS
<1>1. i \in 1..Len(s) /\ s[i] = e
  BY <1>0, IndexElements
<1> HIDE DEF i
<1>2. i - n \in Int /\ i - 1 \in Int
  BY <1>1
<1>3. /\ \A x, y : Before(w, x, y) => Before(s, x, y)
      /\ \A z \in Range(s) : \/ z \in Range(w)
                             \/ \E k \in 1..Len(s) : s[k] = z /\ (k < i - n \/ k > i - 1)
      /\ \A k \in 1..Len(s) : \A x \in Range(w) :
                (k < i - n => Before(s, s[k], x)) /\ (k > i - 1 => Before(s, x, s[k]))
  BY <1>2, SliceOrder
<1> HIDE DEF w
<1>4. \A x \in Range(w) : Before(s, x, e)
  BY <1>1, <1>3
<1>5. ASSUME NEW z \in Range(s) \ Range(w), Before(s, z, e), NEW x \in Range(w) PROVE Before(s, z, x)
  <2>1. PICK k \in 1..Len(s) : s[k] = z /\ (k < i - n \/ k > i - 1)
    BY <1>3
  <2>2. CASE k < i - n
    BY <2>1, <2>2, <1>3
  <2>3. CASE k > i - 1
    <3>1. PICK a \in 1..Len(s), b \in 1..Len(s) : a < b /\ s[a] = z /\ s[b] = e
      BY <1>0, <1>5 DEF Before
    <3>2. b = i /\ a = k
      BY <3>1, <2>1, <1>0, <1>1 DEF IsInjective
    <3> QED BY <3>1, <3>2, <2>3, <1>0, <1>1
  <2> QED BY <2>1, <2>2, <2>3
<1> QED BY <1>3, <1>4, <1>5 DEF w, i

\* nextWindow: the posts of the stream that follow the last post shown, none
\* left out.
LEMMA NextFacts ==
    ASSUME StreamInv, Listed, ~staging, posts # <<>>
    PROVE  /\ NextWindow \in Seq(Ids) /\ IsInjective(NextWindow) /\ Range(NextWindow) \subseteq StreamIds /\ Range(NextWindow) \subseteq Ids
           /\ Last(posts) \in PostIds
           /\ \A x \in Range(NextWindow) : Before(stream, Last(posts), x)
           /\ \A x, y : Before(NextWindow, x, y) => Before(stream, x, y)
           /\ \A z \in StreamIds \ Range(NextWindow) : Before(stream, Last(posts), z) => \A x \in Range(NextWindow) : Before(stream, x, z)
<1>1. NextWindow \in Seq(Ids) /\ IsInjective(NextWindow) /\ Range(NextWindow) \subseteq StreamIds
  BY WindowElements DEF StreamInv
<1>2. Last(posts) \in PostIds
  BY LastElement DEF StreamInv, Typed, PostIds
<1>3. Last(posts) \in Range(stream) /\ stream \in Seq(AllIds) /\ IsInjective(stream) /\ Chunk \in Nat
  BY <1>2, PostStreamAssumption DEF Listed, StreamIds, StreamInv, Typed, Distinct
<1>4. NextWindow = Slice(stream, Index(stream, Last(posts)) + 1, Index(stream, Last(posts)) + Chunk)
  <2>1. Index(stream, Last(posts)) # 0 BY <1>3, IndexElements
  <2> QED BY <2>1 DEF NextWindow
<1>5. Range(NextWindow) \subseteq Ids
  BY <1>1, Elements
<1> QED BY <1>1, <1>2, <1>3, <1>4, <1>5, SliceAfter DEF StreamIds

\* previousWindow, reversed: the posts of the stream that precede the first
\* post shown, none left out.
LEMMA PreviousFacts ==
    ASSUME StreamInv, Listed, ~staging, posts # <<>>
    PROVE  LET w == Reverse(PreviousWindow)
           IN  /\ w \in Seq(Ids) /\ IsInjective(w) /\ Range(w) \subseteq StreamIds /\ Range(w) \subseteq Ids
               /\ Head(posts) \in PostIds
               /\ \A x \in Range(w) : Before(stream, x, Head(posts))
               /\ \A x, y : Before(w, x, y) => Before(stream, y, x)
               /\ \A z \in StreamIds \ Range(w) : Before(stream, z, Head(posts)) => \A x \in Range(w) : Before(stream, z, x)
<1> DEFINE w == Reverse(PreviousWindow)
<1>1. w \in Seq(Ids) /\ IsInjective(w) /\ Range(w) \subseteq StreamIds
  BY WindowElements DEF StreamInv
<1>2. Head(posts) \in PostIds
  BY HeadElement DEF StreamInv, Typed, PostIds
<1>3. Head(posts) \in Range(stream) /\ stream \in Seq(AllIds) /\ IsInjective(stream) /\ Chunk \in Nat
  BY <1>2, PostStreamAssumption DEF Listed, StreamIds, StreamInv, Typed, Distinct
<1> DEFINE i == Index(stream, Head(posts))
<1>4. PreviousWindow = Slice(stream, i - Chunk, i - 1) /\ i \in Nat
  <2>1. i # 0 /\ i \in Nat BY <1>3, IndexElements
  <2> QED BY <2>1 DEF PreviousWindow
<1> DEFINE v == PreviousWindow
<1>5. v \in Seq(AllIds)
  <2>1. i - Chunk \in Int /\ i - 1 \in Int BY <1>3, <1>4
  <2> HIDE DEF i
  <2> QED BY <2>1, <1>3, <1>4, SliceElements
<1>6. /\ \A x \in Range(v) : Before(stream, x, Head(posts))
      /\ \A x, y : Before(v, x, y) => Before(stream, x, y)
      /\ \A z \in Range(stream) \ Range(v) : Before(stream, z, Head(posts)) => \A x \in Range(v) : Before(stream, z, x)
  BY <1>3, <1>4, SliceBefore
<1>7. Range(w) = Range(v) /\ \A x, y : Before(w, x, y) <=> Before(v, y, x)
  BY <1>5, ReverseElements
<1>8. Range(w) \subseteq Ids
  BY <1>1, Elements
<1> HIDE DEF w, v
<1>9. /\ \A x \in Range(w) : Before(stream, x, Head(posts))
      /\ \A x, y : Before(w, x, y) => Before(stream, y, x)
      /\ \A z \in StreamIds \ Range(w) : Before(stream, z, Head(posts)) => \A x \in Range(w) : Before(stream, z, x)
  BY <1>6, <1>7 DEF StreamIds
<1> QED BY <1>1, <1>2, <1>8, <1>9 DEF w

\* The posts of ids that a request can bring
Live(ids) == Range(ids) \cap (visible \cup imap)

\* What appendMore and prependMore change, whether their request goes out or
\* the identity map has all of the posts.
LEMMA WindowAsked ==
    ASSUME StreamInv, StreamInv', SteadyInv, NEW c \in Windows, NEW d \in Windows, c # d, NEW ids \in Seq(Ids), IsInjective(ids),
           Range(ids) \subseteq StreamIds, Range(ids) \subseteq Ids,
           ~staging, \A w \in Windows : call[w].pc = "idle", Find(c, ids),
           UNCHANGED <<server, bus, staging, create, refresh, new_posts, checking, upset>>
    PROVE  /\ UNCHANGED <<stream, imap, visible, last_post>> /\ StreamIds' = StreamIds /\ Alive' = Alive /\ Own' = Own
           /\ Held = PostIds /\ Held' = PostIds \cup Live(ids) /\ PostIds \subseteq PostIds'
           /\ Live(ids) \subseteq Alive /\ Asked("news")' = Asked("news") /\ call'["news"] = call["news"]
           /\ Here(d)' = {}
           /\ \/ posts' = posts /\ PostIds' = PostIds /\ Here(c)' = Live(ids) /\ call'[c].ids = ids
              \/ /\ Here(c)' = {} /\ PostIds' = PostIds \cup Live(ids) /\ Live(ids) = Range(ids)
                 /\ IF c = "prepend" THEN Prepended(posts, posts', ids, imap) ELSE Appended(posts, posts', ids, imap)
           /\ StagedLast' /\ Listed'
           /\ \A m : Pending(m)' <=> Pending(m)
<1> USE DEF StreamInv
<1>0. /\ {c, d} = Windows /\ Windows = {"append", "prepend"} /\ Windows \subseteq Calls /\ "news" \in Calls /\ "news" \notin Windows
      /\ posts \in Seq(AllIds) /\ stream \in Seq(AllIds) /\ CallTypes
      /\ Staged \notin StreamIds /\ Staged \notin PostIds /\ Staged \notin Ids
  BY NotStaged, IdTypes DEF Typed, Calls, Windows
<1>1. UNCHANGED <<visible, last_post, staging, create, new_posts, bus>> /\ Own' = Own
  BY DEF server, Own
<1>2. \A w \in Windows : Asked(w) = {} /\ Here(w) = {}
  BY <1>0 DEF Settled, Here
<1>3. Held = PostIds
  BY <1>0, <1>2 DEF Held
<1>4. \/ Range(ids) \subseteq imap /\ Shown(c, ids, imap) /\ imap' = imap /\ call' = call
      \/ posts' = posts /\ stream' = stream /\ imap' = imap /\ Goes(c, ids)
  BY <1>0, FindEffect
<1>5. CASE Range(ids) \subseteq imap /\ Shown(c, ids, imap) /\ imap' = imap /\ call' = call
  <2>1. /\ IF c = "prepend" THEN Prepended(posts, posts', ids, imap) ELSE Appended(posts, posts', ids, imap)
        /\ stream' = stream
    BY <1>0, <1>5, ShownEffect
  <2>2. PostIds' = PostIds \cup (Range(ids) \cap imap)
    BY <2>1 DEF Appended, Prepended, PostIds
  <2>3. Live(ids) = Range(ids) /\ PostIds' = PostIds \cup Live(ids)
    BY <2>2, <1>5 DEF Live
  <2>4. StreamIds' = StreamIds /\ (\A e : Asked(e)' = Asked(e)) /\ Alive' = Alive
    BY <2>1, <1>1, <1>5 DEF StreamIds, Asked, Alive
  <2>5. \A w \in Windows : Here(w)' = {}
    BY <2>4, <1>2 DEF Here
  <2>6. Held' = PostIds \cup Live(ids)
    BY <2>3, <2>5, <1>0 DEF Held
  <2>7. StagedLast'
    BY <2>3, <2>4, <1>0, <1>1, <1>5 DEF SteadyInv, StagedLast
  <2>8. Listed'
    BY <2>3, <2>4, <2>5, <1>0, <1>1, <1>5 DEF SteadyInv, Listed, Coming
  <2>9. \A m : Pending(m)' <=> Pending(m)
    BY <2>4, <1>1 DEF Pending, Told
  <2>10. Live(ids) \subseteq Alive
    BY DEF Live, Alive
  <2> QED BY <2>1, <2>3, <2>4, <2>5, <2>6, <2>7, <2>8, <2>9, <2>10, <1>1, <1>3, <1>5
<1>6. CASE posts' = posts /\ stream' = stream /\ imap' = imap /\ Goes(c, ids)
  <2>1. /\ call'[c].ids = ids /\ call'[c].got = {} /\ call'[c].pc = "sent" /\ call'[c].wanted \cap imap = {} /\ Asked(c)' = Range(ids)
        /\ \A e \in Calls \ {c} : call'[e] = call[e] /\ Asked(e)' = Asked(e)
    BY <1>6 DEF Goes, Asked
  <2>2. StreamIds' = StreamIds /\ PostIds' = PostIds /\ Alive' = Alive
    BY <1>1, <1>6 DEF StreamIds, PostIds, Alive
  <2>3. Here(c)' = Live(ids) /\ Here(d)' = {}
    BY <2>1, <1>0, <1>1, <1>2, <1>6 DEF Here, Live
  <2>4. Held' = PostIds \cup Live(ids)
    BY <2>2, <2>3, <1>0 DEF Held
  <2>5. Asked("news")' = Asked("news") /\ call'["news"] = call["news"]
    BY <2>1, <1>0
  <2>6. StagedLast'
    BY <2>2, <2>5, <1>0, <1>1, <1>6 DEF SteadyInv, StagedLast
  <2>7. Listed'
    <3>0. Listed /\ call["news"].got \subseteq Asked("news")
      BY <1>0 DEF SteadyInv, Settled
    <3>1. PostIds' \subseteq StreamIds' /\ Asked("news")' \cap StreamIds' = {}
      BY <3>0, <2>2, <2>5 DEF Listed
    <3>2. \A w \in Windows : Here(w)' \subseteq StreamIds'
      BY <2>2, <2>3, <1>0 DEF Live
    <3>3. call'["news"].got \cap Range(ids) = {}
      BY <3>0, <2>5 DEF Listed
    <3>4. \A w \in Windows : call'["news"].got \cap Asked(w)' = {} /\ Coming(w)' \cap imap' = {} /\ call'[w].pc # "served"
      BY <3>0, <3>3, <2>1, <2>5, <1>0, <1>2, <1>6 DEF Settled, Coming
    <3> QED BY <3>1, <3>2, <3>4 DEF Listed
  <2>8. \A m : Pending(m)' <=> Pending(m)
    BY <2>5, <1>1 DEF Pending, Told
  <2>9. Live(ids) \subseteq Alive
    BY DEF Live, Alive
  <2> QED BY <2>1, <2>2, <2>3, <2>4, <2>5, <2>6, <2>7, <2>8, <2>9, <1>1, <1>3, <1>6
<1> QED BY <1>4, <1>5, <1>6

\* appendMore keeps the window: what it asks for follows the last post shown.
LEMMA AppendMoreSteady == ASSUME StreamInv, StreamInv', SteadyInv, AppendMore PROVE SteadyInv'
<1> DEFINE ids == NextWindow
           l == Last(posts)
<1>0. ~staging /\ posts # <<>> /\ (\A w \in Windows : call[w].pc = "idle") /\ {"append", "prepend"} \subseteq Windows /\ "append" # "prepend"
  BY DEF AppendMore, CanAppendMore, Loading, Windows
<1>1. Find("append", ids) /\ UNCHANGED <<server, bus, staging, create, refresh, new_posts, checking, upset>>
  BY DEF AppendMore
<1>2. StagedLast /\ Listed /\ InOrder /\ Windowed /\ NewsAtEnd /\ OwnAtEnd
  BY DEF SteadyInv
<1>3. /\ ids \in Seq(Ids) /\ IsInjective(ids) /\ Range(ids) \subseteq StreamIds /\ Range(ids) \subseteq Ids
      /\ l \in PostIds
      /\ \A x \in Range(ids) : Before(stream, l, x)
      /\ \A x, y : Before(ids, x, y) => Before(stream, x, y)
      /\ \A z \in StreamIds \ Range(ids) : Before(stream, l, z) => \A x \in Range(ids) : Before(stream, x, z)
  BY <1>0, <1>2, NextFacts
<1> HIDE DEF ids, l
<1>4. /\ UNCHANGED <<stream, imap, visible, last_post>> /\ StreamIds' = StreamIds /\ Alive' = Alive /\ Own' = Own
      /\ Held = PostIds /\ Held' = PostIds \cup Live(ids) /\ PostIds \subseteq PostIds'
      /\ Live(ids) \subseteq Alive /\ Asked("news")' = Asked("news") /\ call'["news"] = call["news"]
      /\ Here("prepend")' = {}
      /\ \/ posts' = posts /\ PostIds' = PostIds /\ Here("append")' = Live(ids) /\ call'["append"].ids = ids
         \/ /\ Here("append")' = {} /\ PostIds' = PostIds \cup Live(ids) /\ Live(ids) = Range(ids)
            /\ IF "append" = "prepend" THEN Prepended(posts, posts', ids, imap) ELSE Appended(posts, posts', ids, imap)
      /\ StagedLast' /\ Listed'
      /\ \A m : Pending(m)' <=> Pending(m)
  BY <1>0, <1>1, <1>3, WindowAsked
<1>5. Live(ids) \subseteq Range(ids) /\ \A z \in Alive : z \in Range(ids) => z \in Live(ids)
  BY DEF Live, Alive
<1>6. \A z \in Alive \ PostIds : (\A p \in PostIds : Before(stream, z, p)) \/ (\A p \in PostIds : Before(stream, p, z))
  BY <1>2, <1>4 DEF Windowed
<1>7. \A z \in Live(ids) \ PostIds : \A p \in PostIds : Before(stream, p, z)
  <2> SUFFICES ASSUME NEW z \in Live(ids) \ PostIds PROVE \A p \in PostIds : Before(stream, p, z)
    OBVIOUS
  <2>1. z \in Alive \ PostIds /\ Before(stream, l, z) BY <1>3, <1>4, <1>5
  <2>2. ~Before(stream, z, l) BY <2>1, Orders
  <2> QED BY <2>1, <2>2, <1>3, <1>6
<1>8. ASSUME NEW z \in Alive \ Held'
      PROVE  /\ z \in Alive \ PostIds
             /\ (\A p \in PostIds : Before(stream, z, p)) => \A p \in Held' : Before(stream, z, p)
             /\ (\A p \in PostIds : Before(stream, p, z)) => \A p \in Held' : Before(stream, p, z)
  <2>1. z \in Alive \ PostIds /\ z \notin Range(ids) /\ z \in StreamIds
    BY <1>4, <1>5, <1>8 DEF Alive
  <2>2. Before(stream, z, l) => \A x \in Live(ids) : Before(stream, z, x)
    BY <1>3, <1>5, Orders
  <2>3. Before(stream, l, z) => \A x \in Live(ids) : Before(stream, x, z)
    BY <2>1, <1>3, <1>5
  <2> QED BY <2>1, <2>2, <2>3, <1>3, <1>4
<1>9. InOrder'
  <2>1. ASSUME NEW x \in visible, NEW y \in PostIds', Before(posts', x, y) PROVE Before(stream, x, y)
    <3>1. CASE posts' = posts
      BY <3>1, <2>1, <1>2, <1>4, Orders DEF InOrder
    <3>2. CASE Appended(posts, posts', ids, imap) /\ Live(ids) = Range(ids)
      <4>1. \/ Before(posts, x, y) \/ (x \in PostIds /\ y \in Live(ids) \ PostIds) \/ Before(ids, x, y)
        BY <3>2, <2>1 DEF Appended, PostIds
      <4> QED BY <4>1, <1>2, <1>3, <1>7, Orders DEF InOrder
    <3> QED BY <3>1, <3>2, <1>4
  <2> QED BY <2>1, <1>2, <1>4 DEF InOrder
<1>10. Windowed'
  <2>1. \A z \in Alive' \ Held' : (\A p \in Held' : Before(stream', z, p)) \/ (\A p \in Held' : Before(stream', p, z))
    BY <1>4, <1>6, <1>8
  <2>2. Here("append")' \ PostIds' = {} \/ (posts' = posts /\ PostIds' = PostIds /\ Here("append")' = Live(ids) /\ call'["append"].ids = ids)
    BY <1>4
  <2> QED BY <2>1, <2>2, <1>3, <1>4, <1>7 DEF Windowed
<1>11. NewsAtEnd'
  <2> SUFFICES ASSUME Asked("news")' # {}
               PROVE  (\A z \in Alive' \ Held' : \A p \in Held' : Before(stream', z, p)) /\ Here("append")' \subseteq PostIds'
    BY DEF NewsAtEnd
  <2>1. \A z \in Alive \ PostIds : \A p \in PostIds : Before(stream, z, p)
    BY <1>2, <1>4 DEF NewsAtEnd
  <2>2. Live(ids) \subseteq PostIds
    BY <2>1, <1>3, <1>4, <1>7, Orders
  <2> QED BY <2>1, <2>2, <1>4, <1>8
<1>12. OwnAtEnd'
  <2> SUFFICES ASSUME OwnListed' PROVE OwnAtEnd'
    BY DEF OwnAtEnd
  <2>1. OwnListed /\ \A z : AfterOwn(z)' <=> AfterOwn(z)
    BY <1>4 DEF OwnListed, AfterOwn
  <2>2. \A z \in Alive' \ Held' : AfterOwn(z)' => \A p \in Held' : Before(stream', p, z)
    BY <2>1, <1>2, <1>4, <1>8 DEF OwnAtEnd
  <2>3. Asked("news")' # {} => \A z \in (Alive' \cup Here("append")' \cup Here("prepend")') \ PostIds' : ~AfterOwn(z)'
    BY <2>1, <1>2, <1>4 DEF OwnAtEnd
  <2> QED BY <2>2, <2>3, <1>4 DEF OwnAtEnd
<1> QED BY <1>4, <1>9, <1>10, <1>11, <1>12 DEF SteadyInv

\* prependMore keeps the window: what it asks for precedes the first post
\* shown.
LEMMA PrependMoreSteady == ASSUME StreamInv, StreamInv', SteadyInv, PrependMore PROVE SteadyInv'
<1> DEFINE ids == Reverse(PreviousWindow)
           h == Head(posts)
<1>0. ~staging /\ posts # <<>> /\ (\A w \in Windows : call[w].pc = "idle") /\ {"append", "prepend"} \subseteq Windows /\ "append" # "prepend"
  BY DEF PrependMore, CanPrependMore, Loading, Windows
<1>1. Find("prepend", ids) /\ UNCHANGED <<server, bus, staging, create, refresh, new_posts, checking, upset>>
  BY DEF PrependMore
<1>2. StagedLast /\ Listed /\ InOrder /\ Windowed /\ NewsAtEnd /\ OwnAtEnd
  BY DEF SteadyInv
<1>3. /\ ids \in Seq(Ids) /\ IsInjective(ids) /\ Range(ids) \subseteq StreamIds /\ Range(ids) \subseteq Ids
      /\ h \in PostIds
      /\ \A x \in Range(ids) : Before(stream, x, h)
      /\ \A x, y : Before(ids, x, y) => Before(stream, y, x)
      /\ \A z \in StreamIds \ Range(ids) : Before(stream, z, h) => \A x \in Range(ids) : Before(stream, z, x)
  BY <1>0, <1>2, PreviousFacts
<1> HIDE DEF ids, h
<1>4. /\ UNCHANGED <<stream, imap, visible, last_post>> /\ StreamIds' = StreamIds /\ Alive' = Alive /\ Own' = Own
      /\ Held = PostIds /\ Held' = PostIds \cup Live(ids) /\ PostIds \subseteq PostIds'
      /\ Live(ids) \subseteq Alive /\ Asked("news")' = Asked("news") /\ call'["news"] = call["news"]
      /\ Here("append")' = {}
      /\ \/ posts' = posts /\ PostIds' = PostIds /\ Here("prepend")' = Live(ids) /\ call'["prepend"].ids = ids
         \/ /\ Here("prepend")' = {} /\ PostIds' = PostIds \cup Live(ids) /\ Live(ids) = Range(ids)
            /\ IF "prepend" = "prepend" THEN Prepended(posts, posts', ids, imap) ELSE Appended(posts, posts', ids, imap)
      /\ StagedLast' /\ Listed'
      /\ \A m : Pending(m)' <=> Pending(m)
  BY <1>0, <1>1, <1>3, WindowAsked
<1>5. Live(ids) \subseteq Range(ids) /\ \A z \in Alive : z \in Range(ids) => z \in Live(ids)
  BY DEF Live, Alive
<1>6. \A z \in Alive \ PostIds : (\A p \in PostIds : Before(stream, z, p)) \/ (\A p \in PostIds : Before(stream, p, z))
  BY <1>2, <1>4 DEF Windowed
<1>7. \A z \in Live(ids) \ PostIds : \A p \in PostIds : Before(stream, z, p)
  <2> SUFFICES ASSUME NEW z \in Live(ids) \ PostIds PROVE \A p \in PostIds : Before(stream, z, p)
    OBVIOUS
  <2>1. z \in Alive \ PostIds /\ Before(stream, z, h) BY <1>3, <1>4, <1>5
  <2>2. ~Before(stream, h, z) BY <2>1, Orders
  <2> QED BY <2>1, <2>2, <1>3, <1>6
<1>8. ASSUME NEW z \in Alive \ Held'
      PROVE  /\ z \in Alive \ PostIds
             /\ (\A p \in PostIds : Before(stream, z, p)) => \A p \in Held' : Before(stream, z, p)
             /\ (\A p \in PostIds : Before(stream, p, z)) => \A p \in Held' : Before(stream, p, z)
  <2>1. z \in Alive \ PostIds /\ z \notin Range(ids) /\ z \in StreamIds
    BY <1>4, <1>5, <1>8 DEF Alive
  <2>2. Before(stream, h, z) => \A x \in Live(ids) : Before(stream, x, z)
    BY <1>3, <1>5, Orders
  <2>3. Before(stream, z, h) => \A x \in Live(ids) : Before(stream, z, x)
    BY <2>1, <1>3, <1>5
  <2> QED BY <2>1, <2>2, <2>3, <1>3, <1>4
<1>9. InOrder'
  <2>1. ASSUME NEW x \in visible, NEW y \in PostIds', Before(posts', x, y) PROVE Before(stream, x, y)
    <3>1. CASE posts' = posts
      BY <3>1, <2>1, <1>2, <1>4, Orders DEF InOrder
    <3>2. CASE Prepended(posts, posts', ids, imap) /\ Live(ids) = Range(ids)
      <4>1. \/ Before(posts, x, y) \/ (y \in PostIds /\ x \in Live(ids) \ PostIds) \/ Before(ids, y, x)
        BY <3>2, <2>1 DEF Prepended, PostIds
      <4> QED BY <4>1, <1>2, <1>3, <1>7, Orders DEF InOrder
    <3> QED BY <3>1, <3>2, <1>4
  <2> QED BY <2>1, <1>2, <1>4 DEF InOrder
<1>10. Windowed'
  <2>1. \A z \in Alive' \ Held' : (\A p \in Held' : Before(stream', z, p)) \/ (\A p \in Held' : Before(stream', p, z))
    BY <1>4, <1>6, <1>8
  <2>2. Here("prepend")' \ PostIds' = {} \/ (posts' = posts /\ PostIds' = PostIds /\ Here("prepend")' = Live(ids) /\ call'["prepend"].ids = ids)
    BY <1>4
  <2> QED BY <2>1, <2>2, <1>3, <1>4, <1>7 DEF Windowed
<1>11. NewsAtEnd'
  <2> SUFFICES ASSUME Asked("news")' # {}
               PROVE  (\A z \in Alive' \ Held' : \A p \in Held' : Before(stream', z, p)) /\ Here("append")' \subseteq PostIds'
    BY DEF NewsAtEnd
  <2>1. \A z \in Alive \ PostIds : \A p \in PostIds : Before(stream, z, p)
    BY <1>2, <1>4 DEF NewsAtEnd
  <2> QED BY <2>1, <1>4, <1>8
<1>12. OwnAtEnd'
  <2> SUFFICES ASSUME OwnListed' PROVE OwnAtEnd'
    BY DEF OwnAtEnd
  <2>1. OwnListed /\ \A z : AfterOwn(z)' <=> AfterOwn(z)
    BY <1>4 DEF OwnListed, AfterOwn
  <2>2. \A z \in Alive' \ Held' : AfterOwn(z)' => \A p \in Held' : Before(stream', p, z)
    BY <2>1, <1>2, <1>4, <1>8 DEF OwnAtEnd
  <2>3. Asked("news")' # {} => \A z \in (Alive' \cup Here("prepend")' \cup Here("append")') \ PostIds' : ~AfterOwn(z)'
    BY <2>1, <1>2, <1>4 DEF OwnAtEnd
  <2>4. \A z \in Live(ids) \ PostIds : ~AfterOwn(z)
    <3> SUFFICES ASSUME NEW z \in Live(ids) \ PostIds, AfterOwn(z) PROVE FALSE
      OBVIOUS
    <3>1. Before(stream, h, z) BY <2>1, <1>2, <1>3, <1>4 DEF OwnAtEnd
    <3> QED BY <3>1, <1>3, <1>5, Orders
  <2>5. \A z \in Here("prepend")' \ PostIds' : ~AfterOwn(z)'
    BY <2>1, <2>4, <1>4
  <2> QED BY <2>2, <2>3, <2>5, <1>4 DEF OwnAtEnd
<1> QED BY <1>4, <1>9, <1>10, <1>11, <1>12 DEF SteadyInv

\* The arrival of a window keeps the window, whatever was shown, removed or
\* told of since it was asked for.
LEMMA ArriveWindowSteady ==
    ASSUME StreamInv, StreamInv', MailInv, SteadyInv, NEW w \in Windows, Arrive(w)
    PROVE  SteadyInv'
<1> USE DEF StreamInv
<1> DEFINE ids == call[w].ids
           K == Range(ids) \cap imap'
<1>0. /\ StagedLast /\ Listed /\ InOrder /\ Windowed /\ NewsAtEnd /\ OwnAtEnd
      /\ call[w].pc = "served" /\ imap' = imap \cup call[w].got /\ Shown(w, ids, imap') /\ call' = [call EXCEPT ![w] = Idle]
      /\ UNCHANGED <<visible, last_post, bus, staging, create, new_posts>> /\ Own' = Own
  BY DEF SteadyInv, Arrive, server, Own
<1>1. /\ Windows = {"append", "prepend"} /\ Windows \subseteq Calls /\ "news" \in Calls /\ "news" \notin Windows
      /\ posts \in Seq(AllIds) /\ stream \in Seq(AllIds) /\ CallTypes
      /\ ids \in Seq(Ids) /\ IsInjective(ids) /\ Range(ids) = Asked(w) /\ Asked(w) \subseteq Ids /\ Staged \notin Ids
  BY IdTypes DEF Typed, Calls, Windows, CallTypes, Distinct, Asked
<1>2. PICK d \in Windows : d # w
  BY <1>1
<1>3. Windows = {w, d} /\ call[d].pc = "idle" /\ Asked(d) = {} /\ call[d].got = {} /\ call[d].wanted = {}
  BY <1>0, <1>1, <1>2 DEF MailInv, OneAtATime, Settled
<1>4. /\ CallTypes' /\ call'[w].pc = "idle" /\ call'[w].got = {} /\ call'[w].wanted = {} /\ Asked(w)' = {}
      /\ \A e \in Calls \ {w} : call'[e] = call[e] /\ Asked(e)' = Asked(e)
  BY <1>0, <1>1, Closed
<1>5. /\ IF w = "prepend" THEN Prepended(posts, posts', ids, imap') ELSE Appended(posts, posts', ids, imap')
      /\ stream' = stream
  BY <1>0, <1>1, ShownEffect
<1> HIDE DEF ids
<1>6. K = Here(w) /\ K \subseteq Ids
  BY <1>0, <1>1 DEF Listed, Here
<1>7. PostIds' = PostIds \cup K /\ StreamIds' = StreamIds
  BY <1>5 DEF Appended, Prepended, PostIds, StreamIds
<1>8. \/ /\ w = "append"
         /\ \A x, y : Before(posts', x, y) => \/ Before(posts, x, y)
                                              \/ x \in PostIds /\ y \in K \ PostIds
                                              \/ x \in K \ PostIds /\ y \in K \ PostIds /\ Before(ids, x, y)
      \/ /\ w = "prepend"
         /\ \A x, y : Before(posts', x, y) => \/ Before(posts, x, y)
                                              \/ y \in PostIds /\ x \in K \ PostIds
                                              \/ x \in K \ PostIds /\ y \in K \ PostIds /\ Before(ids, y, x)
  <2>1. \A x, y : Before(ids, x, y) => x \in Range(ids) /\ y \in Range(ids)
    BY <1>1, Elements
  <2>2. CASE w = "append"
    <3>1. Appended(posts, posts', ids, imap') BY <2>2, <1>5
    <3>2. ASSUME NEW x, NEW y, Before(posts', x, y)
          PROVE  \/ Before(posts, x, y)
                 \/ x \in PostIds /\ y \in K \ PostIds
                 \/ x \in K \ PostIds /\ y \in K \ PostIds /\ Before(ids, x, y)
      BY <3>1, <3>2, <2>1 DEF Appended, PostIds
    <3> QED BY <3>2, <2>2
  <2>3. CASE w = "prepend"
    <3>1. Prepended(posts, posts', ids, imap') BY <2>3, <1>5
    <3>2. ASSUME NEW x, NEW y, Before(posts', x, y)
          PROVE  \/ Before(posts, x, y)
                 \/ y \in PostIds /\ x \in K \ PostIds
                 \/ x \in K \ PostIds /\ y \in K \ PostIds /\ Before(ids, y, x)
      BY <3>1, <3>2, <2>1 DEF Prepended, PostIds
    <3> QED BY <3>2, <2>3
  <2> QED BY <2>2, <2>3, <1>1
<1> HIDE DEF K
<1>9. \A v \in Windows : Here(v)' = {}
  <2>1. Asked(d)' = {} BY <1>1, <1>2, <1>3, <1>4
  <2> QED BY <2>1, <1>3, <1>4 DEF Here
<1>10. Held = PostIds \cup K /\ Held' = Held
  <2>1. Here(d) = {} BY <1>3 DEF Here
  <2> QED BY <2>1, <1>1, <1>2, <1>3, <1>6, <1>7, <1>9 DEF Held
<1>11. Alive' \ Held' = Alive \ Held
  <2>1. call[w].got \subseteq Asked(w) BY <1>1 DEF Settled
  <2>2. call[w].got \subseteq K BY <2>1, <1>6 DEF Here
  <2> QED BY <2>2, <1>0, <1>7, <1>10 DEF Alive
<1>12. \A m : Pending(m)' <=> Pending(m)
  BY <1>0, <1>1, <1>4 DEF Pending, Told
<1>13. StagedLast'
  <2>1. Asked("news")' = Asked("news")
    BY <1>1, <1>4
  <2>2. ASSUME Staged \in PostIds', NEW x \in PostIds', Before(posts', Staged, x) PROVE FALSE
    <3>1. Staged \in PostIds /\ Staged \notin K BY <2>2, <1>1, <1>6, <1>7
    <3>2. ~Before(posts, Staged, x) BY <3>1, <1>0, Orders DEF StagedLast
    <3>3. w = "append" /\ x \in K \ PostIds BY <3>1, <3>2, <2>2, <1>8
    <3>4. Before(stream, Staged, x) BY <3>1, <3>3, <1>0, <1>6 DEF Windowed
    <3> QED BY <3>4, <1>0, Orders DEF StagedLast
  <2> QED BY <2>1, <2>2, <1>0, <1>1, <1>5, <1>6, <1>7 DEF StagedLast
<1>14. Listed'
  <2>1. \A v \in Windows : Asked(v)' = {} /\ call'[v].got = {} /\ call'[v].wanted = {} /\ call'[v].pc = "idle"
    BY <1>1, <1>2, <1>3, <1>4
  <2>2. PostIds' \subseteq StreamIds' /\ Asked("news")' \cap StreamIds' = {}
    BY <1>0, <1>1, <1>4, <1>6, <1>7 DEF Listed
  <2> QED BY <2>1, <2>2, <1>9 DEF Listed, Coming
<1>15. InOrder'
  <2>1. ASSUME NEW x \in visible, NEW y \in PostIds', Before(posts', x, y) PROVE Before(stream, x, y)
    <3>1. CASE Before(posts, x, y)
      BY <3>1, <1>0, Orders DEF InOrder
    <3>2. CASE ~Before(posts, x, y)
      BY <3>2, <2>1, <1>0, <1>6, <1>8, <1>1 DEF Windowed, ids
    <3> QED BY <3>1, <3>2
  <2> QED BY <2>1, <1>0, <1>5, <1>7, <1>12 DEF InOrder
<1>16. Windowed'
  BY <1>0, <1>1, <1>5, <1>9, <1>10, <1>11 DEF Windowed
<1>17. NewsAtEnd'
  BY <1>0, <1>1, <1>4, <1>5, <1>9, <1>10, <1>11 DEF NewsAtEnd
<1>18. OwnAtEnd'
  <2> SUFFICES ASSUME OwnListed' PROVE OwnAtEnd'
    BY DEF OwnAtEnd
  <2>1. OwnListed /\ \A z : AfterOwn(z)' <=> AfterOwn(z)
    BY <1>0, <1>5, <1>7 DEF OwnListed, AfterOwn
  <2>2. \A z \in Alive' \ PostIds' : z \in Alive \ PostIds
    BY <1>7, <1>10, <1>11
  <2>3. Asked("news")' = Asked("news")
    BY <1>1, <1>4
  <2> QED BY <2>1, <2>2, <2>3, <1>0, <1>1, <1>5, <1>9, <1>10, <1>11 DEF OwnAtEnd
<1> QED BY <1>13, <1>14, <1>15, <1>16, <1>17, <1>18 DEF SteadyInv

-----------------------------------------------------------------------------
(* The window is kept: news *)

\* What was there comes before what is added at the end
Grown(old, new, N, ids) ==
    \A x, y : Before(new, x, y) <=> Before(old, x, y) \/ (x \in Range(old) /\ y \in N) \/ (Before(ids, x, y) /\ x \in N /\ y \in N)

\* News that are shown at the end of what is loaded, which is the end of the
\* stream, keep the window.
LEMMA NewsShown ==
    ASSUME StreamInv, StreamInv', SteadyInv, NEW N \in SUBSET Ids, NEW ids, N \cap StreamIds = {},
           PostIds' = PostIds \cup N, StreamIds' = StreamIds \cup N, Grown(stream, stream', N, ids), Grown(posts, posts', N, ids),
           \A w \in Windows : call'[w] = call[w] /\ Here(w)' = Here(w) /\ Coming(w) \cap imap' = {},
           N \subseteq imap', imap \subseteq imap', imap' \cap StreamIds \subseteq imap,
           call'["news"].got = {}, Asked("news")' = {},
           UNCHANGED <<visible, last_post>>, Own' = Own, ~staging', Staged \notin StreamIds, Own \notin N,
           \A z \in Alive \ Held : \A p \in Held : Before(stream, z, p), Here("append") \subseteq PostIds,
           OwnListed => \A z \in Alive \ Held : ~AfterOwn(z),
           \A x, y \in Ids : Before(ids, x, y) => x < y,
           \A y \in N \cap visible : \A x \in StreamIds : x < y,
           \A m \in visible : Pending(m)' => Pending(m) /\ \A x \in N : x < m
    PROVE  SteadyInv'
<1>0. /\ StagedLast /\ Listed /\ InOrder /\ Windowed /\ NewsAtEnd /\ OwnAtEnd
      /\ Windows = {"append", "prepend"} /\ Staged \notin Ids
  BY IdTypes DEF SteadyInv, Windows, StreamInv
<1>1. /\ \A x, y : Before(stream', x, y) <=> Before(stream, x, y) \/ (x \in StreamIds /\ y \in N) \/ (Before(ids, x, y) /\ x \in N /\ y \in N)
      /\ \A x, y : Before(posts', x, y) <=> Before(posts, x, y) \/ (x \in PostIds /\ y \in N) \/ (Before(ids, x, y) /\ x \in N /\ y \in N)
  BY DEF Grown, StreamIds, PostIds
<1>2. Alive' \ Held' = Alive \ Held /\ Held' = Held \cup N
  <2>1. Held' = Held \cup N BY <1>0 DEF Held
  <2>2. Held \subseteq StreamIds BY <1>0, HeldListed
  <2> QED BY <2>1, <2>2 DEF Alive
<1>3. Staged \notin StreamIds' /\ Staged \notin PostIds'
  BY <1>0 DEF Listed
<1>4. StagedLast'
  BY <1>3 DEF StagedLast
<1>5. Listed'
  <2>1. PostIds' \subseteq StreamIds' /\ Asked("news")' \cap StreamIds' = {} /\ \A w \in Windows : Here(w)' \subseteq StreamIds'
    BY <1>0 DEF Listed
  <2>2. \A w \in Windows : Asked(w)' = Asked(w) BY DEF Asked
  <2>3. ASSUME NEW w \in Windows
        PROVE  /\ call'["news"].got \cap Asked(w)' = {} /\ Coming(w)' \cap imap' = {}
               /\ call'[w].pc = "served" => Asked(w)' \cap visible' \subseteq imap' \cup call'[w].got
    BY <2>2, <1>0 DEF Listed, Coming
  <2> QED BY <2>1, <2>3 DEF Listed
<1>6. InOrder'
  <2>1. ASSUME NEW y \in visible, NEW x \in Ids, Before(stream', x, y) PROVE x < y
    BY <2>1, <1>0, <1>1 DEF InOrder
  <2>2. ASSUME NEW m \in visible \ StreamIds', Pending(m)', NEW x \in StreamIds' PROVE x < m
    BY <2>2, <1>0 DEF InOrder
  <2>3. ASSUME NEW x \in visible, NEW y \in PostIds', Before(posts', x, y) PROVE Before(stream', x, y)
    <3>1. CASE Before(posts, x, y)
      BY <3>1, <1>0, <1>1, Orders DEF InOrder
    <3>2. CASE ~Before(posts, x, y)
      BY <3>2, <2>3, <1>0, <1>1 DEF Listed
    <3> QED BY <3>1, <3>2
  <2> QED BY <2>1, <2>2, <2>3 DEF InOrder
<1>7. \A z \in Alive \ Held : z \in StreamIds /\ \A p \in Held' : Before(stream', z, p)
  BY <1>1, <1>2 DEF Alive
<1>8. Here("append")' \subseteq PostIds'
  BY <1>0
<1>9. \A z \in Here("prepend")' \ PostIds' : z \in Here("prepend") \ PostIds /\ z \in StreamIds
  BY <1>0 DEF Listed
<1>10. Windowed'
  <2>1. ASSUME NEW z \in Here("prepend")' \ PostIds', NEW p \in PostIds' PROVE Before(stream', z, p)
    BY <1>0, <1>1, <1>9 DEF Windowed
  <2>2. ASSUME NEW x \in Here("prepend")' \ PostIds', NEW y \in Here("prepend")' \ PostIds', Before(call'["prepend"].ids, x, y) PROVE Before(stream', y, x)
    <3>1. Before(call["prepend"].ids, x, y) BY <2>2, <1>0
    <3> QED BY <3>1, <1>0, <1>1, <1>9 DEF Windowed
  <2> QED BY <2>1, <2>2, <1>2, <1>7, <1>8 DEF Windowed
<1>11. NewsAtEnd'
  BY DEF NewsAtEnd
<1>12. OwnAtEnd'
  <2> SUFFICES ASSUME OwnListed' PROVE OwnAtEnd'
    BY DEF OwnAtEnd
  <2>1. OwnListed /\ Own \in StreamIds BY DEF OwnListed
  <2>2. \A z \in StreamIds : AfterOwn(z)' => AfterOwn(z)
    BY <2>1, <1>1 DEF AfterOwn
  <2>3. \A z \in Here("prepend")' \ PostIds' : ~AfterOwn(z)'
    BY <2>1, <2>2, <1>0, <1>9 DEF OwnAtEnd
  <2> QED BY <2>1, <2>2, <2>3, <1>2, <1>7 DEF OwnAtEnd
<1> QED BY <1>4, <1>5, <1>6, <1>10, <1>11, <1>12 DEF SteadyInv

\* The arrival of news keeps the window: the end of the stream is still
\* loaded.
LEMMA ArriveNewsSteady ==
    ASSUME StreamInv, StreamInv', MailInv, SteadyInv, Steady', Arrive("news")
    PROVE  SteadyInv'
<1> USE DEF StreamInv
<1> DEFINE ids == call["news"].ids
           N == Range(ids) \cap imap'
           got == call["news"].got
<1>0. /\ StagedLast /\ Listed /\ InOrder /\ Windowed /\ NewsAtEnd /\ OwnAtEnd /\ InSequence
      /\ call["news"].pc = "served" /\ imap' = imap \cup got /\ Shown("news", ids, imap') /\ call' = [call EXCEPT !["news"] = Idle]
      /\ UNCHANGED <<visible, last_post, bus, staging, create, new_posts>> /\ Own' = Own
  BY DEF SteadyInv, MailInv, NewsInOrder, Steady, Arrive, server, Own
<1>1. /\ Windows = {"append", "prepend"} /\ Windows \subseteq Calls /\ "news" \in Calls /\ "news" \notin Windows
      /\ posts \in Seq(AllIds) /\ stream \in Seq(AllIds) /\ CallTypes
      /\ ids \in Seq(Ids) /\ IsInjective(ids) /\ Range(ids) = Asked("news") /\ Asked("news") \subseteq Ids /\ Staged \notin Ids
      /\ got \subseteq Asked("news") /\ visible \subseteq Ids
  BY IdTypes DEF Typed, Calls, Windows, CallTypes, Distinct, Asked, Settled
<1>2. Asked("news") # {} /\ ~staging /\ Staged \notin StreamIds /\ Staged \notin PostIds
  BY <1>0, NotStaged DEF MailInv, OneAtATime, StagedLast
<1>3. /\ CallTypes' /\ call'["news"].pc = "idle" /\ call'["news"].got = {} /\ Asked("news")' = {}
      /\ \A e \in Windows : call'[e] = call[e] /\ Asked(e)' = Asked(e)
  BY <1>0, <1>1, Closed
<1>4. Appended(posts, posts', ids, imap') /\ Appended(stream, stream', ids, imap')
  BY <1>0, <1>1, ShownEffect
<1>5. \A x, y : Before(ids, x, y) => x \in Range(ids) /\ y \in Range(ids)
  BY <1>1, Elements
<1> HIDE DEF ids, got
<1>6. N \subseteq Asked("news") /\ N \cap StreamIds = {} /\ N \cap PostIds = {} /\ N \subseteq Ids
  BY <1>0, <1>1 DEF Listed
<1>7. PostIds' = PostIds \cup N /\ StreamIds' = StreamIds \cup N
  BY <1>4 DEF Appended, PostIds, StreamIds
<1>8. \A x, y : Before(stream', x, y) <=> Before(stream, x, y) \/ (x \in StreamIds /\ y \in N) \/ (Before(ids, x, y) /\ x \in N /\ y \in N)
  <2> SUFFICES ASSUME NEW x, NEW y
               PROVE  Before(stream', x, y) <=> Before(stream, x, y) \/ (x \in StreamIds /\ y \in N) \/ (Before(ids, x, y) /\ x \in N /\ y \in N)
    OBVIOUS
  <2>1. Before(stream', x, y) <=> \/ Before(stream, x, y)
                                  \/ x \in Range(stream) /\ y \in (Range(ids) \cap imap') \ Range(stream)
                                  \/ Before(ids, x, y) /\ {x, y} \subseteq imap' \ Range(stream)
    BY <1>4 DEF Appended
  <2> QED BY <2>1, <1>5, <1>6 DEF StreamIds
<1>9. \A x, y : Before(posts', x, y) <=> Before(posts, x, y) \/ (x \in PostIds /\ y \in N) \/ (Before(ids, x, y) /\ x \in N /\ y \in N)
  <2> SUFFICES ASSUME NEW x, NEW y
               PROVE  Before(posts', x, y) <=> Before(posts, x, y) \/ (x \in PostIds /\ y \in N) \/ (Before(ids, x, y) /\ x \in N /\ y \in N)
    OBVIOUS
  <2>1. Before(posts', x, y) <=> \/ Before(posts, x, y)
                                 \/ x \in Range(posts) /\ y \in (Range(ids) \cap imap') \ Range(posts)
                                 \/ Before(ids, x, y) /\ {x, y} \subseteq imap' \ Range(posts)
    BY <1>4 DEF Appended
  <2> QED BY <2>1, <1>5, <1>6 DEF PostIds
<1>10. N \subseteq imap'
  OBVIOUS
<1> HIDE DEF N
<1>11. \A w \in Windows : Here(w)' = Here(w) /\ got \cap Asked(w) = {} /\ Here(w) \subseteq StreamIds
  BY <1>0, <1>3 DEF Here, Listed, got
<1>12. Staged \notin StreamIds /\ N \in SUBSET Ids /\ ~staging' /\ imap \subseteq imap' /\ imap' \cap StreamIds \subseteq imap
  BY <1>0, <1>1, <1>2, <1>6 DEF Listed
<1>13. \A w \in Windows : Coming(w) \cap imap' = {}
  <2> SUFFICES ASSUME NEW w \in Windows PROVE Coming(w) \cap imap' = {}
    OBVIOUS
  <2>1. Coming(w) \subseteq Asked(w) BY <1>1 DEF Settled, Coming
  <2> QED BY <2>1, <1>0, <1>11 DEF Listed
<1>14. Grown(stream, stream', N, ids) /\ Grown(posts, posts', N, ids)
  BY <1>8, <1>9 DEF Grown, StreamIds, PostIds
<1>15. Own \notin N
  <2> SUFFICES ASSUME Own \in N PROVE FALSE
    OBVIOUS
  <2>1. Own \in Ids /\ Own \in Nat /\ Own # 0 BY <1>6, IdTypes
  <2>2. Told("created", Own) BY <2>1 DEF StagedAside, Own
  <2>3. Own < Own BY <2>1, <2>2, <1>0, <1>6 DEF InSequence
  <2> QED BY <2>1, <2>3
<1>16. (\A z \in Alive \ Held : \A p \in Held : Before(stream, z, p)) /\ Here("append") \subseteq PostIds
  BY <1>0, <1>2 DEF NewsAtEnd
<1>17. OwnListed => \A z \in Alive \ Held : ~AfterOwn(z)
  BY <1>0, <1>2 DEF OwnAtEnd, Held
<1>18. \A x, y \in Ids : Before(ids, x, y) => x < y
  BY <1>0 DEF InSequence, ids
<1>19. \A y \in N \cap visible : \A x \in StreamIds : x < y
  BY <1>0, <1>6 DEF InOrder, Pending
<1>20. \A m \in visible : Pending(m)' => Pending(m) /\ \A x \in N : x < m
  <2> SUFFICES ASSUME NEW m \in visible, Pending(m)' PROVE Pending(m) /\ \A x \in N : x < m
    OBVIOUS
  <2>1. m \in Ids /\ Pending(m) /\ (Told("created", m) \/ m \in Range(new_posts))
    BY <1>0, <1>1, <1>3 DEF Pending, Told
  <2> QED BY <2>1, <1>0, <1>6 DEF InSequence
<1> QED BY <1>0, <1>3, <1>6, <1>7, <1>10, <1>11, <1>12, <1>13, <1>14, <1>15, <1>16, <1>17, <1>18, <1>19, <1>20, NewsShown

\* loadedAllPosts: what is not loaded precedes what is, and no request for a
\* window can append anything.
LEMMA EndShown ==
    ASSUME StreamInv, SteadyInv, LoadedAllPosts, Staged \in StreamIds => Staged \in PostIds
    PROVE  /\ \A z \in Alive \ Held : \A p \in Held : Before(stream, z, p)
           /\ Here("append") \subseteq PostIds
           /\ OwnListed => \A z \in (Alive \cup Here("append") \cup Here("prepend")) \ PostIds : ~AfterOwn(z)
           /\ \E e \in PostIds : e \in StreamIds /\ \A x \in StreamIds : x # e => Before(stream, x, e)
<1> USE DEF StreamInv
<1> DEFINE e == Last(stream)
<1>0. Listed /\ Windowed /\ OwnAtEnd
  BY DEF SteadyInv
<1>1. /\ e \in StreamIds /\ e \in PostIds
      /\ \A x \in StreamIds : x # e => Before(stream, x, e)
  BY LoadedAllMeaning DEF Typed
<1> HIDE DEF e
<1>2. PostIds \subseteq Held /\ Held \subseteq StreamIds /\ Here("append") \subseteq Held /\ Here("prepend") \subseteq Held
  BY <1>0, HeldListed
<1>3. \A z \in StreamIds : ~Before(stream, e, z)
  BY <1>1, Orders
<1>4. \A z \in Alive \ Held : \A p \in Held : Before(stream, z, p)
  BY <1>0, <1>1, <1>2, <1>3 DEF Windowed, Alive
<1>5. Here("append") \subseteq PostIds
  BY <1>0, <1>1, <1>2, <1>3 DEF Windowed
<1>6. ASSUME OwnListed, NEW z \in (Alive \cup Here("append") \cup Here("prepend")) \ PostIds, AfterOwn(z) PROVE FALSE
  <2>1. CASE z \in Here("append") \cup Here("prepend")
    BY <2>1, <1>0, <1>5, <1>6 DEF OwnAtEnd
  <2>2. CASE z \notin Here("append") \cup Here("prepend")
    <3>1. z \in Alive \ Held BY <2>2, <1>6 DEF Held
    <3>2. Before(stream, e, z) BY <3>1, <1>0, <1>1, <1>2, <1>6 DEF OwnAtEnd
    <3> QED BY <3>1, <3>2, <1>3 DEF Alive
  <2> QED BY <2>1, <2>2
<1> QED BY <1>1, <1>4, <1>5, <1>6

\* The same when nothing is staged, as it is for triggerNewPostsInStream.
LEMMA EndLoaded ==
    ASSUME StreamInv, SteadyInv, ~staging, LoadedAllPosts
    PROVE  /\ \A z \in Alive \ Held : \A p \in Held : Before(stream, z, p)
           /\ Here("append") \subseteq PostIds
           /\ OwnListed => \A z \in (Alive \cup Here("append") \cup Here("prepend")) \ PostIds : ~AfterOwn(z)
           /\ \E e \in PostIds : e \in StreamIds /\ \A x \in StreamIds : x # e => Before(stream, x, e)
<1>1. Staged \notin StreamIds
  BY NotStaged DEF StreamInv
<1> QED BY <1>1, EndShown

\* What triggerNewPostsInStream is given: posts newer than all of the stream,
\* and older than all that is still to be told of.
LEMMA NewsFacts ==
    ASSUME StreamInv, SteadyInv, NEW ids, NewsCome(ids), "disordered" \notin upset'
    PROVE  LET N == Range(ids) \ StreamIds
           IN  /\ UNCHANGED <<visible, last_post, staging>> /\ Own' = Own /\ ~staging /\ Own \notin N /\ N \in SUBSET Ids
               /\ Asked("news") = {} /\ call["news"].got = {}
               /\ \A y \in N \cap visible : \A x \in StreamIds : x < y
               /\ \A m : Told("created", m)' => Pending(m)
               /\ \A m \in visible : Told("created", m)' => \A x \in N : x < m
               /\ \A m \in N : Pending(m)
               /\ Range(new_posts') = {}
<1> USE DEF StreamInv
<1> DEFINE N == Range(ids) \ StreamIds
<1>1. UNCHANGED <<visible, last_post, staging>> /\ Own' = Own /\ Range(new_posts') = {}
  <2>1. Range(<<>>) = {} BY DEF Range
  <2> QED BY <2>1 DEF NewsCome, server, Own
<1>2. ~staging
  BY DEF NewsCome, SteadyInv, StagedLast, StagedAside
<1>3. N \in SUBSET Ids /\ Own \notin N
  BY Elements DEF NewsCome
<1>4. Asked("news") = {} /\ call["news"].got = {}
  BY DEF NewsCome, Settled, Calls
<1>5. \A m \in N : Pending(m)
  BY DEF NewsCome
<1>6. \A y \in N \cap visible : \A x \in StreamIds : x < y
  BY <1>5 DEF SteadyInv, InOrder
<1>7. \A m : Told("created", m)' => Pending(m)
  BY DEF NewsCome, Pending
<1>8. \A m \in visible : Told("created", m)' => \A x \in N : x < m
  <2>1. visible \subseteq Ids BY IdTypes
  <2>2. \A x \in Range(ids) : \A y \in Ids : Told("created", y)' => x < y BY DEF NewsCome
  <2> QED BY <2>1, <2>2
<1> QED BY <1>1, <1>2, <1>3, <1>4, <1>5, <1>6, <1>7, <1>8

\* News that are only listed, because the end of the stream is not loaded,
\* keep the window.
LEMMA NewsListed ==
    ASSUME StreamInv, StreamInv', SteadyInv, NEW ids, NewsCome(ids), "disordered" \notin upset', call' = call, posts' = posts, imap' = imap,
           Added(stream, stream', Range(ids) \ StreamIds, ids)
    PROVE  SteadyInv'
<1> USE DEF StreamInv
<1> DEFINE N == Range(ids) \ StreamIds
<1>0. /\ Listed /\ InOrder /\ Windowed /\ NewsAtEnd /\ OwnAtEnd
      /\ Windows = {"append", "prepend"}
  BY DEF SteadyInv, Windows
<1>1. /\ UNCHANGED <<visible, last_post, staging>> /\ Own' = Own /\ ~staging /\ Own \notin N /\ N \in SUBSET Ids
      /\ Asked("news") = {} /\ call["news"].got = {}
      /\ \A y \in N \cap visible : \A x \in StreamIds : x < y
      /\ \A m : Told("created", m)' => Pending(m)
      /\ \A m \in visible : Told("created", m)' => \A x \in N : x < m
      /\ Range(new_posts') = {}
  BY NewsFacts
<1>2. N \cap StreamIds = {}
  OBVIOUS
<1> HIDE DEF N
<1>3. /\ StreamIds' = StreamIds \cup N /\ PostIds' = PostIds
      /\ \A x, y : Before(stream', x, y) <=> Before(stream, x, y) \/ (x \in StreamIds /\ y \in N) \/ (Before(ids, x, y) /\ x \in N /\ y \in N)
  BY DEF Added, StreamIds, PostIds, N
<1>4. (\A c : Asked(c)' = Asked(c)) /\ (\A w \in Windows : Here(w)' = Here(w)) /\ Held' = Held
  BY <1>0, <1>1, <1>3 DEF Asked, Here, Held
<1>5. Held \subseteq StreamIds /\ PostIds \subseteq StreamIds /\ Alive' \subseteq Alive \cup N /\ N \cap Held = {} /\ \A w \in Windows : Here(w) \subseteq StreamIds
  BY <1>0, <1>1, <1>2, <1>3, HeldListed DEF Alive, Listed
<1>6. Staged \notin StreamIds' /\ Staged \notin PostIds'
  BY <1>1, <1>3, NotStaged, IdTypes
<1>7. StagedLast'
  BY <1>1, <1>6 DEF StagedLast
<1>8. Listed'
  BY <1>0, <1>1, <1>3, <1>4 DEF Listed, Coming
<1>9. \A m : Pending(m)' => Told("created", m)' /\ Pending(m)
  BY <1>1, <1>4 DEF Pending
<1>10. InOrder'
  <2>1. ASSUME NEW y \in visible, NEW x \in Ids, Before(stream', x, y) PROVE x < y
    BY <2>1, <1>0, <1>1, <1>3 DEF InOrder, NewsCome
  <2>2. ASSUME NEW m \in visible \ StreamIds', Pending(m)', NEW x \in StreamIds' PROVE x < m
    BY <2>2, <1>0, <1>1, <1>3, <1>9 DEF InOrder
  <2>3. ASSUME NEW x \in visible, NEW y \in PostIds', Before(posts', x, y) PROVE Before(stream', x, y)
    BY <2>3, <1>0, <1>3 DEF InOrder
  <2> QED BY <2>1, <2>2, <2>3, <1>1 DEF InOrder
<1>11. Windowed'
  <2>1. \A z \in Alive' \ Held' : (\A p \in Held' : Before(stream', z, p)) \/ (\A p \in Held' : Before(stream', p, z))
    BY <1>0, <1>3, <1>4, <1>5 DEF Windowed
  <2> QED BY <2>1, <1>0, <1>3, <1>4 DEF Windowed
<1>12. NewsAtEnd'
  BY <1>1, <1>4 DEF NewsAtEnd
<1>13. OwnAtEnd'
  <2> SUFFICES ASSUME OwnListed' PROVE OwnAtEnd'
    BY DEF OwnAtEnd
  <2>1. OwnListed /\ Own \in StreamIds
    BY <1>1, <1>3 DEF OwnListed
  <2>2. \A z \in StreamIds : AfterOwn(z)' => AfterOwn(z)
    BY <2>1, <1>1, <1>2, <1>3 DEF AfterOwn
  <2>3. ASSUME NEW z \in Alive' \ Held', AfterOwn(z)', NEW p \in Held' PROVE Before(stream', p, z)
    <3>1. CASE z \in N BY <3>1, <1>3, <1>4, <1>5
    <3>2. CASE z \notin N BY <3>2, <2>1, <2>2, <2>3, <1>0, <1>3, <1>4, <1>5 DEF OwnAtEnd, Alive
    <3> QED BY <3>1, <3>2
  <2>4. \A z \in Here("prepend")' \ PostIds' : ~AfterOwn(z)'
    BY <2>1, <2>2, <1>0, <1>3, <1>4, <1>5 DEF OwnAtEnd
  <2> QED BY <2>3, <2>4, <1>1, <1>4 DEF OwnAtEnd
<1> QED BY <1>7, <1>8, <1>10, <1>11, <1>12, <1>13 DEF SteadyInv

\* News that the identity map has are shown at once, and keep the window.
LEMMA NewsAtOnce ==
    ASSUME StreamInv, StreamInv', SteadyInv, NEW ids, NewsCome(ids), "disordered" \notin upset', LoadedAllPosts, call' = call, imap' = imap,
           Range(ids) \ StreamIds \subseteq imap,
           Added(stream, stream', Range(ids) \ StreamIds, ids), Appended(posts, posts', ids, Range(ids) \ StreamIds)
    PROVE  SteadyInv'
<1> USE DEF StreamInv
<1> DEFINE N == Range(ids) \ StreamIds
<1>0. Listed /\ ids \in Seq(Ids) /\ \A x, y : Before(ids, x, y) => x \in Range(ids) /\ y \in Range(ids)
  BY Elements DEF SteadyInv, NewsCome
<1>1. /\ UNCHANGED <<visible, last_post, staging>> /\ Own' = Own /\ ~staging /\ Own \notin N /\ N \in SUBSET Ids
      /\ Asked("news") = {} /\ call["news"].got = {}
      /\ \A y \in N \cap visible : \A x \in StreamIds : x < y
      /\ \A m : Told("created", m)' => Pending(m)
      /\ \A m \in visible : Told("created", m)' => \A x \in N : x < m
      /\ Range(new_posts') = {}
  BY NewsFacts
<1>2. /\ \A z \in Alive \ Held : \A p \in Held : Before(stream, z, p)
      /\ Here("append") \subseteq PostIds
      /\ OwnListed => \A z \in (Alive \cup Here("append") \cup Here("prepend")) \ PostIds : ~AfterOwn(z)
  BY <1>1, EndLoaded
<1>3. N \cap StreamIds = {} /\ N \cap PostIds = {} /\ N \subseteq Range(ids)
  BY <1>0 DEF Listed
<1>4. Added(stream, stream', N, ids) /\ Appended(posts, posts', ids, N) /\ N \subseteq imap
  OBVIOUS
<1> HIDE DEF N
<1>5. PostIds' = PostIds \cup N /\ StreamIds' = StreamIds \cup N
  BY <1>3, <1>4 DEF Added, Appended, StreamIds, PostIds
<1>6. Grown(stream, stream', N, ids)
  BY <1>4 DEF Added, Grown
<1>7. Grown(posts, posts', N, ids)
  <2> SUFFICES ASSUME NEW x, NEW y
               PROVE  Before(posts', x, y) <=> Before(posts, x, y) \/ (x \in Range(posts) /\ y \in N) \/ (Before(ids, x, y) /\ x \in N /\ y \in N)
    BY DEF Grown
  <2>1. Before(posts', x, y) <=> \/ Before(posts, x, y)
                                 \/ x \in Range(posts) /\ y \in (Range(ids) \cap N) \ Range(posts)
                                 \/ Before(ids, x, y) /\ {x, y} \subseteq N \ Range(posts)
    BY <1>4 DEF Appended
  <2> QED BY <2>1, <1>3 DEF PostIds
<1>8. (\A c : Asked(c)' = Asked(c)) /\ \A w \in Windows : call'[w] = call[w] /\ Here(w)' = Here(w) /\ Coming(w) \cap imap' = {}
  BY <1>0, <1>1 DEF Asked, Here, Listed, Coming
<1>9. \A m \in visible : Pending(m)' => Pending(m) /\ \A x \in N : x < m
  BY <1>1, <1>8 DEF Pending
<1>10. \A x, y \in Ids : Before(ids, x, y) => x < y
  BY DEF NewsCome
<1>11. Staged \notin StreamIds
  BY <1>1, NotStaged
<1>12. OwnListed => \A z \in Alive \ Held : ~AfterOwn(z)
  BY <1>2 DEF Held
<1> QED BY <1>1, <1>2, <1>3, <1>4, <1>5, <1>6, <1>7, <1>8, <1>9, <1>10, <1>11, <1>12, NewsShown

\* The request for news keeps the window.
LEMMA NewsRequested ==
    ASSUME StreamInv, StreamInv', SteadyInv, NEW ids, NewsCome(ids), "disordered" \notin upset', LoadedAllPosts,
           posts' = posts, stream' = stream, imap' = imap,
           NEW m \in Seq(Ids), Range(m) = Range(ids) \ StreamIds, Goes("news", m)
    PROVE  SteadyInv'
<1> USE DEF StreamInv
<1> DEFINE N == Range(ids) \ StreamIds
<1>0. /\ StagedLast /\ Listed /\ InOrder /\ Windowed /\ NewsAtEnd /\ OwnAtEnd
      /\ Windows = {"append", "prepend"} /\ Windows \subseteq Calls /\ "news" \in Calls /\ "news" \notin Windows
  BY DEF SteadyInv, Windows, Calls
<1>1. /\ UNCHANGED <<visible, last_post, staging>> /\ Own' = Own /\ ~staging /\ N \in SUBSET Ids
      /\ Asked("news") = {}
      /\ \A i : Told("created", i)' => Pending(i)
      /\ \A i \in N : Pending(i)
      /\ Range(new_posts') = {}
  BY NewsFacts
<1>2. /\ \A z \in Alive \ Held : \A p \in Held : Before(stream, z, p)
      /\ Here("append") \subseteq PostIds
      /\ OwnListed => \A z \in (Alive \cup Here("append") \cup Here("prepend")) \ PostIds : ~AfterOwn(z)
  BY <1>1, EndLoaded
<1>3. Asked("news")' = N /\ call'["news"].got = {} /\ \A w \in Windows : call'[w] = call[w] /\ Asked(w)' = Asked(w)
  BY <1>0 DEF Goes, Asked
<1>4. StreamIds' = StreamIds /\ PostIds' = PostIds /\ Alive' = Alive
  BY <1>1 DEF StreamIds, PostIds, Alive
<1>5. (\A w \in Windows : Here(w)' = Here(w)) /\ Held' = Held
  BY <1>0, <1>1, <1>3, <1>4 DEF Here, Held
<1>6. Staged \notin StreamIds /\ Staged \notin PostIds
  BY <1>1, NotStaged
<1>7. N \cap StreamIds = {}
  OBVIOUS
<1> HIDE DEF N
<1>8. \A i : Pending(i)' => Pending(i)
  BY <1>1, <1>3 DEF Pending
<1>9. StagedLast'
  BY <1>1, <1>4, <1>6 DEF StagedLast
<1>10. Listed'
  BY <1>0, <1>1, <1>3, <1>4, <1>5, <1>7 DEF Listed, Coming
<1>11. InOrder'
  BY <1>0, <1>1, <1>4, <1>8 DEF InOrder
<1>12. Windowed'
  BY <1>0, <1>3, <1>4, <1>5 DEF Windowed
<1>13. NewsAtEnd'
  BY <1>0, <1>2, <1>4, <1>5 DEF NewsAtEnd
<1>14. OwnAtEnd'
  <2> SUFFICES ASSUME OwnListed' PROVE OwnAtEnd'
    BY DEF OwnAtEnd
  <2>1. OwnListed /\ \A z : AfterOwn(z)' <=> AfterOwn(z)
    BY <1>1, <1>4 DEF OwnListed, AfterOwn
  <2> QED BY <2>1, <1>0, <1>2, <1>4, <1>5 DEF OwnAtEnd
<1> QED BY <1>9, <1>10, <1>11, <1>12, <1>13, <1>14 DEF SteadyInv

\* triggerNewPostsInStream keeps the window, in all of its cases.
LEMMA NewsSteady == ASSUME StreamInv, StreamInv', SteadyInv, NEW ids, NewsCome(ids), "disordered" \notin upset' PROVE SteadyInv'
<1> USE DEF StreamInv
<1> DEFINE N == Range(ids) \ StreamIds
<1>1. posts \in Seq(AllIds) /\ stream \in Seq(AllIds) /\ CallTypes /\ ids \in Seq(Ids) /\ IsInjective(ids) /\ TriggerNewPosts(ids)
  BY DEF Typed, NewsCome
<1>2. \/ N = {} /\ posts' = posts /\ stream' = stream /\ imap' = imap /\ call' = call
      \/ /\ N # {} /\ LoadedAllPosts /\ N \subseteq imap /\ imap' = imap /\ call' = call
         /\ Added(stream, stream', N, ids)
         /\ Appended(posts, posts', ids, N)
      \/ /\ N # {} /\ LoadedAllPosts /\ ~(N \subseteq imap)
         /\ posts' = posts /\ stream' = stream /\ imap' = imap
         /\ \E m \in Seq(Ids) : /\ IsInjective(m) /\ Range(m) = N /\ Goes("news", m)
                                /\ \A x, y : Before(m, x, y) <=> Before(ids, x, y) /\ {x, y} \subseteq N
      \/ /\ N # {} /\ ~LoadedAllPosts
         /\ posts' = posts /\ imap' = imap /\ call' = call
         /\ Added(stream, stream', N, ids)
  BY <1>1, TriggerEffect
<1>3. CASE N = {} /\ posts' = posts /\ stream' = stream /\ imap' = imap /\ call' = call
  <2>1. /\ UNCHANGED <<visible, last_post, staging>> /\ Own' = Own /\ ~staging
        /\ Asked("news") = {}
        /\ \A m : Told("created", m)' => Pending(m)
        /\ Range(new_posts') = {}
    BY NewsFacts
  <2>2. \A m : Pending(m)' => Pending(m)
    BY <2>1, <1>3 DEF Pending, Asked
  <2> QED BY <2>1, <2>2, <1>3, QuietSteady
<1>4. CASE LoadedAllPosts /\ N \subseteq imap /\ imap' = imap /\ call' = call /\ Added(stream, stream', N, ids) /\ Appended(posts, posts', ids, N)
  BY <1>4, NewsAtOnce
<1>5. CASE LoadedAllPosts /\ posts' = posts /\ stream' = stream /\ imap' = imap /\ \E m \in Seq(Ids) : Range(m) = N /\ Goes("news", m)
  BY <1>5, NewsRequested
<1>6. CASE posts' = posts /\ imap' = imap /\ call' = call /\ Added(stream, stream', N, ids)
  BY <1>6, NewsListed
<1> HIDE DEF N
<1> QED BY <1>2, <1>3, <1>4, <1>5, <1>6

\* The timer of retryOnRateLimit keeps the window.
LEMMA RetrySteady == ASSUME StreamInv, StreamInv', MailInv, SteadyInv, Steady', Retry PROVE SteadyInv'
BY RetryCome, NewsSteady DEF MailInv, Steady

\* The message about a new post keeps the window.
LEMMA CreatedSteady == ASSUME StreamInv, StreamInv', MailInv, SteadyInv, Steady', NEW i \in Ids, Created(i) PROVE SteadyInv'
<1>1. CASE call["news"].pc = "idle" /\ TriggerNewPosts(Append(new_posts, i)) /\ new_posts' = <<>>
  BY <1>1, CreatedCome, NewsSteady DEF MailInv, Steady
<1>2. CASE new_posts' = Append(new_posts, i) /\ UNCHANGED <<shown, call>>
  BY <1>2, CreatedLaterSteady
<1> QED BY <1>1, <1>2 DEF Created

-----------------------------------------------------------------------------
(* The window is kept: the reader's own post *)

\* stagePost keeps the window: it adds to the end of both lists, and no news
\* are on their way.
LEMMA StagePostSteady ==
    ASSUME StreamInv, StreamInv', SteadyInv, Steady', CreatePost(TRUE), LoadedAllPosts
    PROVE  SteadyInv'
<1> USE DEF StreamInv
<1>0. StagedLast /\ Listed /\ InOrder /\ Windowed /\ NewsAtEnd /\ OwnAtEnd
  BY DEF SteadyInv
<1>1. /\ ~staging /\ Own' = 0 /\ UNCHANGED <<visible, last_post, bus, call, new_posts>>
      /\ stream' = AppendPosts(stream, <<Staged>>) /\ posts' = AppendPosts(posts, <<Staged>>) /\ imap' = imap \cup {Staged}
  BY DEF CreatePost, server, NoCreate, Own
<1>2. Asked("news") = {} /\ new_posts = <<>>
  <2>1. call["news"].pc = "idle" /\ new_posts = <<>>
    BY DEF Steady, CreatePost
  <2> QED BY <2>1 DEF Settled, Calls
<1>3. Staged \notin StreamIds /\ Staged \notin PostIds /\ Staged \notin imap
  BY <1>1, NotStaged
<1>4. /\ StreamIds \subseteq AllIds /\ PostIds \subseteq AllIds /\ Staged \notin Ids /\ visible \subseteq Ids /\ Staged \in AllIds
      /\ \A c \in Calls : Asked(c) \subseteq Ids /\ call[c].got \subseteq Ids
  BY IdTypes DEF AllIds, Typed, CallTypes
<1>5. /\ StreamIds' = StreamIds \cup {Staged} /\ PostIds' = PostIds \cup {Staged}
      /\ \A x, y : Before(stream', x, y) <=> Before(stream, x, y) \/ (x \in StreamIds /\ y = Staged)
      /\ \A x, y : Before(posts', x, y) <=> Before(posts, x, y) \/ (x \in PostIds /\ y = Staged)
  <2>1. /\ Range(stream') = Range(stream) \cup {Staged}
        /\ \A x, y : Before(stream', x, y) <=> Before(stream, x, y) \/ (x \in Range(stream) /\ y = Staged /\ Staged \notin Range(stream))
    BY <1>1, <1>4, AppendOne DEF Typed
  <2>2. /\ Range(posts') = Range(posts) \cup {Staged}
        /\ \A x, y : Before(posts', x, y) <=> Before(posts, x, y) \/ (x \in Range(posts) /\ y = Staged /\ Staged \notin Range(posts))
    BY <1>1, <1>4, AppendOne DEF Typed
  <2> QED BY <2>1, <2>2, <1>3 DEF StreamIds, PostIds
<1>6. /\ \A c : Asked(c)' = Asked(c)
      /\ \A w \in Windows : Here(w)' = Here(w) /\ Here(w) \subseteq Ids
      /\ "append" \in Windows /\ "prepend" \in Windows
  <2>1. /\ \A c : Asked(c)' = Asked(c)
        /\ "append" \in Windows /\ "prepend" \in Windows /\ Windows \subseteq Calls
    BY <1>1 DEF Asked, Windows, Calls
  <2>2. ASSUME NEW w \in Windows PROVE Here(w)' = Here(w) /\ Here(w) \subseteq Ids
    <3>1. call'[w].got = call[w].got /\ Asked(w)' = Asked(w) /\ Asked(w) \subseteq Ids BY <2>1, <1>1, <1>4
    <3> QED BY <3>1, <1>1, <1>4 DEF Here
  <2> QED BY <2>1, <2>2
<1>7. Alive' = Alive \cup {Staged} /\ Held' = Held \cup {Staged} /\ Alive \subseteq StreamIds /\ Staged \notin Held
  BY <1>1, <1>3, <1>4, <1>5, <1>6 DEF Alive, Held
<1>8. /\ \A z \in Alive \ Held : \A p \in Held : Before(stream, z, p)
      /\ Here("append") \subseteq PostIds
  BY <1>1, EndLoaded
<1>9. StagedLast'
  <2>1. \A x \in StreamIds' : ~Before(stream', Staged, x)
    BY <1>3, <1>5, Orders
  <2>2. \A x \in PostIds' : ~Before(posts', Staged, x)
    BY <1>3, <1>5, Orders
  <2> QED BY <2>1, <2>2, <1>1, <1>2, <1>6 DEF StagedLast
<1>10. Listed'
  BY <1>0, <1>1, <1>4, <1>5, <1>6 DEF Listed, Calls, Coming
<1>11. InOrder'
  <2>1. \A m : Pending(m)' <=> Pending(m)
    BY <1>1 DEF Pending, Told, Asked
  <2>2. \A m \in visible : Staged < m
    BY <1>4, IdTypes DEF Staged
  <2>3. \A y \in visible' : \A x \in Ids : Before(stream', x, y) => x < y
    BY <1>0, <1>1, <1>4, <1>5 DEF InOrder
  <2>4. \A m \in visible' \ StreamIds' : Pending(m)' => \A x \in StreamIds' : x < m
    BY <2>1, <2>2, <1>0, <1>1, <1>4, <1>5 DEF InOrder
  <2>5. \A x \in visible' : \A y \in PostIds' : Before(posts', x, y) => Before(stream', x, y)
    BY <1>0, <1>1, <1>3, <1>4, <1>5, Orders DEF InOrder, Listed
  <2> QED BY <2>3, <2>4, <2>5 DEF InOrder
<1>12. Windowed'
  <2>1. \A z \in Alive' \ Held' : \A p \in Held' : Before(stream', z, p)
    BY <1>5, <1>7, <1>8
  <2>2. Here("append")' \ PostIds' = {} /\ Here("prepend")' \ PostIds' \subseteq Here("prepend") \ PostIds
    BY <1>5, <1>6, <1>8
  <2>3. \A z \in Here("prepend")' \ PostIds' : \A p \in PostIds' : Before(stream', z, p)
    BY <2>2, <1>0, <1>5, <1>6 DEF Windowed, Listed
  <2>4. \A x, y \in Here("prepend")' \ PostIds' : Before(call'["prepend"].ids, x, y) => Before(stream', y, x)
    BY <2>2, <1>0, <1>1, <1>5 DEF Windowed
  <2> QED BY <2>1, <2>2, <2>3, <2>4 DEF Windowed
<1>13. NewsAtEnd' /\ OwnAtEnd'
  BY <1>1, <1>2, <1>6 DEF NewsAtEnd, OwnAtEnd, OwnListed
<1> QED BY <1>9, <1>10, <1>11, <1>12, <1>13 DEF SteadyInv

\* createPost keeps the window, unless a new post of another user is on its
\* way.
LEMMA CreatePostSteady ==
    ASSUME StreamInv, StreamInv', SteadyInv, Steady', NEW staged \in BOOLEAN, CreatePost(staged)
    PROVE  SteadyInv'
<1>1. CASE staged /\ LoadedAllPosts
  <2>1. staged = TRUE BY <1>1
  <2> QED BY <2>1, <1>1, StagePostSteady
<1>2. CASE ~(staged /\ LoadedAllPosts)
  BY <1>2, CreatePostQuiet
<1> QED BY <1>1, <1>2

\* When no post of another user is on its way, the post that commitPost shows
\* is the newest.
LEMMA OwnNewest ==
    ASSUME StreamInv, MailInv, CommitPost, Steady'
    PROVE  /\ Own \in Ids /\ Own = last_post
           /\ Asked("news") = {}
           /\ \A m \in Ids : Pending(m) <=> m = Own
<1> USE DEF StreamInv
<1>0. NewsInOrder
  BY DEF MailInv
<1>1. Own \in Ids
  BY CommitEffect DEF Own
<1>2. Announced = {}
  BY DEF CommitPost, Steady
<1>3. \A m \in Ids : m # Own => ~Pending(m)
  <2> SUFFICES ASSUME NEW m \in Ids, m # Own PROVE ~Pending(m)
    OBVIOUS
  <2>1. m \in Ids \ {create.id} BY DEF Own
  <2>2. <<"created", m>> \notin bus /\ ~Contains(new_posts \o call["news"].ids, m)
    BY <2>1, <1>2 DEF Announced
  <2>3. "news" \in Calls /\ call["news"].ids \in Seq(Ids) /\ new_posts \in Seq(Ids)
    BY DEF Calls, Typed, CallTypes
  <2>5. m \notin Range(new_posts \o call["news"].ids)
    <3> DEFINE r == new_posts \o call["news"].ids
    <3>1. r \in Seq(Ids) /\ ~Contains(r, m) BY <2>2, <2>3
    <3> HIDE DEF r
    <3>2. m \notin Range(r) BY <3>1, Elements
    <3> QED BY <3>2 DEF r
  <2>6. m \notin Range(new_posts) /\ m \notin Range(call["news"].ids) BY <2>3, <2>5, ConcatElements
  <2> QED BY <2>2, <2>6 DEF Pending, Told, Asked
<1>4. Told("created", Own)
  BY <1>1, IdTypes DEF StagedAside, Own
<1>5. Own = last_post
  <2>1. Own <= last_post BY DEF Numbered, Own
  <2>2. last_post \in Nat /\ last_post <= MaxPost /\ MaxPost \in Nat BY IdTypes
  <2>3. SUFFICES ASSUME Own < last_post PROVE FALSE
    BY <2>1, <2>2, <1>1 DEF Ids
  <2>4. last_post \in Ids BY <2>2, <2>3, <1>1 DEF Ids
  <2>5. Told("created", last_post)
    BY <2>2, <2>3, <2>4, <1>0, <1>1, IdTypes DEF NewsInOrder
  <2> QED BY <2>2, <2>3, <2>4, <2>5, <1>1, <1>3, IdTypes DEF Pending
<1>6. Asked("news") = {}
  <2> SUFFICES ASSUME NEW x \in Asked("news") PROVE FALSE
    OBVIOUS
  <2>1. x \in Ids BY IdTypes DEF Calls
  <2>2. x = Own BY <2>1, <1>3 DEF Pending
  <2>3. InSequence BY <1>0 DEF NewsInOrder, CommitPost, Steady
  <2>4. x < Own BY <2>3, <1>1, <1>4 DEF InSequence
  <2> QED BY <2>2, <2>4, <1>1, IdTypes
<1> QED BY <1>1, <1>3, <1>4, <1>5, <1>6 DEF Pending

\* commitPost when the end of the stream is loaded keeps the window: the post
\* goes to the end of both lists, or is in the stream since a jump and
\* nothing shown follows it.
LEMMA CommitAtEnd ==
    ASSUME StreamInv, StreamInv', MailInv, SteadyInv, Steady', CommitPost, LoadedAllPosts
    PROVE  SteadyInv'
<1> USE DEF StreamInv
<1> DEFINE i == Own
<1>0. StagedLast /\ Listed /\ InOrder /\ Windowed /\ NewsAtEnd /\ OwnAtEnd /\ OneAtATime
  BY DEF SteadyInv, MailInv
<1>1. ~staging' /\ UNCHANGED <<visible, last_post, bus, call, new_posts>> /\ Own' = 0
  BY DEF CommitPost, server, NoCreate, Own
<1>2. i \in Ids /\ i = last_post /\ Asked("news") = {} /\ \A m \in Ids : Pending(m) <=> m = i
  BY OwnNewest
<1>3. /\ PostIds' = (PostIds \ {Staged}) \cup {i} /\ StreamIds' = (StreamIds \cup {i}) \ {Staged} /\ imap' = (imap \cup {i}) \ {Staged}
      /\ \A x, y : Before(stream', x, y) <=>
             /\ x # Staged /\ y # Staged
             /\ Before(stream, x, y) \/ (x \in StreamIds /\ y = i /\ i \notin StreamIds)
      /\ Staged \in PostIds =>
             \A x, y : Before(posts', x, y) <=>
                \/ x # i /\ y # i /\ x # Staged /\ y # Staged /\ Before(posts, x, y)
                \/ x = i /\ y # i /\ Before(posts, Staged, y)
                \/ y = i /\ x # i /\ Before(posts, x, Staged)
      /\ Staged \notin PostIds =>
             \A x, y : Before(posts', x, y) <=> Before(posts, x, y) \/ (x \in PostIds /\ y = i /\ i \notin PostIds)
  BY CommitEffect DEF Own
<1>4. /\ StreamIds \subseteq AllIds /\ PostIds \subseteq AllIds /\ Staged \notin Ids /\ visible \subseteq Ids
      /\ \A c \in Calls : Asked(c) \subseteq Ids /\ call[c].got \subseteq Asked(c)
      /\ \A c : Asked(c)' = Asked(c)
      /\ "append" \in Windows /\ "prepend" \in Windows /\ Windows \subseteq Calls /\ "news" \in Calls
  BY <1>1, IdTypes DEF Settled, Asked, Windows, Calls
<1>5. Staged \in StreamIds => Staged \in PostIds
  BY <1>0 DEF OneAtATime
<1>6. i \in StreamIds => Staged \notin PostIds /\ Staged \notin StreamIds /\ OwnListed
  BY <1>0, <1>2, <1>4, <1>5, IdTypes DEF StagedLast, OwnListed
<1>7. /\ \A z \in Alive \ Held : \A p \in Held : Before(stream, z, p)
      /\ Here("append") \subseteq PostIds
      /\ OwnListed => \A z \in (Alive \cup Here("append") \cup Here("prepend")) \ PostIds : ~AfterOwn(z)
  BY <1>5, EndShown
<1>8. /\ PostIds \subseteq StreamIds /\ PostIds \subseteq Held /\ Held \subseteq StreamIds
      /\ \A w \in Windows : Here(w) \subseteq Held
  BY <1>0, HeldListed DEF Listed, Windows
<1> HIDE DEF i
\* what the post's arrival at the end does
<1>9. ASSUME NEW x, NEW y, Before(posts', x, y)
      PROVE  \/ Before(posts, x, y) /\ x # Staged /\ y # Staged
             \/ x \in PostIds /\ x # Staged /\ y = i /\ i \notin PostIds
  <2>1. CASE Staged \in PostIds
    <3>1. i \notin PostIds BY <2>1, <1>6, <1>8
    <3>2. \A p : ~Before(posts, Staged, p) BY <1>0, <2>1, Orders DEF StagedLast
    <3> QED BY <2>1, <3>1, <3>2, <1>3, <1>9, Orders
  <2>2. CASE Staged \notin PostIds
    BY <2>2, <1>3, <1>9, Orders
  <2> QED BY <2>1, <2>2
\* nothing that is loaded comes after it
<1>10. ASSUME i \in StreamIds, NEW z \in (Alive \cup Here("append") \cup Here("prepend")) \ PostIds
       PROVE  z # i /\ (z \in StreamIds => Before(stream, z, i))
  <2>1. ~AfterOwn(z) BY <1>6, <1>7, <1>10
  <2> QED BY <2>1, <1>10, Orders DEF AfterOwn, i
<1>11. ASSUME i \in StreamIds, NEW x \in visible, x # i, x \in StreamIds PROVE Before(stream, x, i)
  <2>1. x <= i /\ x \in Nat /\ i \in Nat BY <1>2, <1>4, IdTypes DEF Numbered, Typed
  <2>2. ~Before(stream, i, x) BY <2>1, <1>0, <1>2, <1>11 DEF InOrder
  <2> QED BY <2>2, <1>11, Orders
<1>12. \A w \in Windows : /\ Here(w)' \subseteq Here(w) \cup {i}
                          /\ Here(w) \subseteq Here(w)'
                          /\ Here(w)' \ PostIds' \subseteq Here(w) \ PostIds
                          /\ i \notin Coming(w)
  <2> SUFFICES ASSUME NEW w \in Windows
               PROVE  /\ Here(w)' \subseteq Here(w) \cup {i}
                      /\ Here(w) \subseteq Here(w)'
                      /\ Here(w)' \ PostIds' \subseteq Here(w) \ PostIds
                      /\ i \notin Coming(w)
    OBVIOUS
  <2>1. call'[w].got = call[w].got /\ Asked(w)' = Asked(w) /\ Asked(w) \subseteq Ids BY <1>1, <1>4
  <2>2. Here(w)' \subseteq Here(w) \cup {i} /\ Here(w) \subseteq Here(w)'
    BY <2>1, <1>1, <1>3, <1>4 DEF Here
  <2>3. Here(w)' \subseteq Ids BY <2>1 DEF Here
  <2>4. Here(w)' \ PostIds' \subseteq Here(w) \ PostIds
    BY <2>2, <2>3, <1>3, <1>4
  <2>5. ASSUME i \in Coming(w) PROVE FALSE
    <3>1. i \in Here(w) BY <2>5, <1>4 DEF Here, Coming, Settled
    <3>2. i \in PostIds BY <3>1, <1>8, <1>10 DEF Windows
    <3> QED BY <3>2, <2>5, <1>0 DEF Listed, StagedAside
  <2> QED BY <2>2, <2>4, <2>5
<1>13. /\ Alive' \ Held' \subseteq Alive \ Held /\ i \notin Alive' \ Held'
       /\ Held' = (Held \ {Staged}) \cup {i}
  <2>1. Held' = (Held \ {Staged}) \cup {i}
    <3>1. Staged \notin Here("append") /\ Staged \notin Here("prepend") BY <1>4 DEF Here
    <3> QED BY <3>1, <1>3, <1>4, <1>12 DEF Held
  <2>2. Alive' \subseteq (Alive \cup {i}) \ {Staged}
    BY <1>1, <1>3, <1>4 DEF Alive
  <2> QED BY <2>1, <2>2
<1>14. StagedLast'
  BY <1>1, <1>2, <1>3, <1>4 DEF StagedLast
<1>15. Listed'
  <2>1. PostIds' \subseteq StreamIds' BY <1>2, <1>3, <1>4, <1>8
  <2>2. Asked("news")' \cap StreamIds' = {} BY <1>2, <1>4
  <2>3. ASSUME NEW w \in Windows
        PROVE  /\ Here(w)' \subseteq StreamIds'
               /\ call'["news"].got \cap Asked(w)' = {}
               /\ Coming(w)' \cap imap' = {}
               /\ call'[w].pc = "served" => Asked(w)' \cap visible' \subseteq imap' \cup call'[w].got
    <3>1. call'[w] = call[w] /\ call'["news"] = call["news"] /\ Asked(w)' = Asked(w) /\ Asked(w) \subseteq Ids BY <1>1, <1>4
    <3>2. Here(w)' \subseteq Ids BY <3>1 DEF Here
    <3>3. Here(w)' \subseteq StreamIds'
      BY <3>2, <1>3, <1>4, <1>8, <1>12
    <3>4. call'["news"].got \cap Asked(w)' = {} BY <3>1, <1>0 DEF Listed
    <3>5. Coming(w)' \cap imap' = {} BY <3>1, <1>0, <1>1, <1>3, <1>12 DEF Listed, Coming
    <3>6. call'[w].pc = "served" => Asked(w)' \cap visible' \subseteq imap' \cup call'[w].got
      BY <3>1, <1>0, <1>1, <1>3, <1>4 DEF Listed
    <3> QED BY <3>3, <3>4, <3>5, <3>6
  <2> QED BY <2>1, <2>2, <2>3 DEF Listed
<1>16. InOrder'
  <2>1. ASSUME NEW y \in visible', NEW x \in Ids, Before(stream', x, y) PROVE x < y
    <3>1. CASE Before(stream, x, y) BY <3>1, <1>0, <1>1 DEF InOrder
    <3>2. CASE x \in StreamIds /\ y = i /\ i \notin StreamIds
      <4>1. Pending(i) BY <1>2
      <4> QED BY <3>2, <4>1, <2>1, <1>0, <1>1 DEF InOrder
    <3> QED BY <3>1, <3>2, <2>1, <1>3
  <2>2. \A m \in visible' \ StreamIds' : Pending(m)' => \A x \in StreamIds' : x < m
    <3>1. \A m : Pending(m)' <=> Pending(m) BY <1>1 DEF Pending, Told, Asked
    <3> QED BY <3>1, <1>1, <1>2, <1>3, <1>4
  <2>3. ASSUME NEW x \in visible', NEW y \in PostIds', Before(posts', x, y) PROVE Before(stream', x, y)
    <3>0. x \in visible BY <1>1
    <3>1. CASE Before(posts, x, y) /\ x # Staged /\ y # Staged
      <4>1. y \in PostIds BY <3>1, Orders
      <4>2. Before(stream, x, y) BY <3>0, <3>1, <4>1, <1>0 DEF InOrder
      <4> QED BY <3>1, <4>2, <1>3
    <3>2. CASE x \in PostIds /\ x # Staged /\ y = i /\ i \notin PostIds
      <4>1. CASE i \in StreamIds
        <5>1. Before(stream, x, i) BY <3>0, <3>2, <4>1, <1>8, <1>11
        <5> QED BY <5>1, <3>2, <1>2, <1>3, <1>4
      <4>2. CASE i \notin StreamIds
        BY <3>2, <4>2, <1>2, <1>3, <1>4, <1>8
      <4> QED BY <4>1, <4>2
    <3> QED BY <3>1, <3>2, <2>3, <1>9
  <2> QED BY <2>1, <2>2, <2>3 DEF InOrder
<1>17. ASSUME NEW z \in ((Alive \ Held) \cup (Here("prepend") \ PostIds)) \ {Staged} PROVE z \in StreamIds /\ Before(stream', z, i)
  <2>1. z \in StreamIds /\ z \in (Alive \cup Here("append") \cup Here("prepend")) \ PostIds
    BY <1>4, <1>8 DEF Alive
  <2>2. CASE i \in StreamIds
    <3>1. Before(stream, z, i) BY <2>1, <2>2, <1>10
    <3> QED BY <3>1, <2>1, <1>2, <1>3, <1>4
  <2>3. CASE i \notin StreamIds
    BY <2>1, <2>3, <1>2, <1>3, <1>4
  <2> QED BY <2>1, <2>2, <2>3
<1>18. Windowed'
  <2>1. ASSUME NEW z \in Alive' \ Held', NEW p \in Held' PROVE Before(stream', z, p)
    <3>1. z \in Alive \ Held /\ z # Staged BY <1>3, <1>13 DEF Alive
    <3>2. CASE p = i BY <3>1, <3>2, <1>17
    <3>3. CASE p # i
      <4>1. p \in Held /\ p # Staged BY <3>3, <1>13
      <4> QED BY <3>1, <4>1, <1>3, <1>7
    <3> QED BY <3>2, <3>3
  <2>2. Here("append")' \ PostIds' = {}
    BY <1>4, <1>7, <1>12
  <2>3. ASSUME NEW z \in Here("prepend")' \ PostIds', NEW p \in PostIds' PROVE Before(stream', z, p)
    <3>1. z \in Here("prepend") \ PostIds /\ z # Staged BY <1>4, <1>12 DEF Here
    <3>2. CASE p = i BY <3>1, <3>2, <1>17
    <3>3. CASE p # i
      <4>1. p \in PostIds /\ p # Staged BY <3>3, <1>3
      <4> QED BY <3>1, <4>1, <1>0, <1>3 DEF Windowed
    <3> QED BY <3>2, <3>3
  <2>4. ASSUME NEW x \in Here("prepend")' \ PostIds', NEW y \in Here("prepend")' \ PostIds', Before(call'["prepend"].ids, x, y) PROVE Before(stream', y, x)
    <3>1. x \in Here("prepend") \ PostIds /\ y \in Here("prepend") \ PostIds /\ x # Staged /\ y # Staged BY <1>4, <1>12 DEF Here
    <3>2. Before(stream, y, x) BY <3>1, <2>4, <1>0, <1>1 DEF Windowed
    <3> QED BY <3>1, <3>2, <1>3
  <2> QED BY <2>1, <2>2, <2>3, <2>4 DEF Windowed
<1>19. NewsAtEnd' /\ OwnAtEnd'
  BY <1>1, <1>2, <1>4 DEF NewsAtEnd, OwnAtEnd, OwnListed
<1> QED BY <1>14, <1>15, <1>16, <1>18, <1>19 DEF SteadyInv

\* commitPost keeps the window, unless a new post of another user is on its
\* way.
LEMMA CommitPostSteady ==
    ASSUME StreamInv, StreamInv', MailInv, SteadyInv, Steady', CommitPost
    PROVE  SteadyInv'
BY CommitAside, CommitAtEnd

-----------------------------------------------------------------------------
(* The window is kept: topic views *)

\* The posts of a topic view are all that is shown, and no request is out
Fresh(near, S) ==
    /\ near \in Int /\ S \in SUBSET Ids
    /\ posts = FilterPostsNear(near, S) /\ stream = Sorted(S)
    /\ \A c \in Calls : call[c].pc = "idle"
    /\ staging => new_posts = <<>>
    /\ \A x \in S : \A y \in visible \ S : x < y

\* The posts of a topic view near a number are a window of its stream
\* (filter_posts_near).
LEMMA FreshSteady == StreamInv /\ (\E near, S : Fresh(near, S)) => SteadyInv
<1> SUFFICES ASSUME StreamInv, NEW near, NEW S, Fresh(near, S) PROVE SteadyInv
  OBVIOUS
<1> USE DEF StreamInv
<1>1. S \in SUBSET Ids /\ near \in Int /\ posts = FilterPostsNear(near, S) /\ stream = Sorted(S)
  BY DEF Fresh
<1>2. /\ StreamIds = S
      /\ \A x, y : Before(stream, x, y) <=> x \in S /\ y \in S /\ x < y
  <2>1. S \cap Ids = S BY <1>1
  <2>2. Range(Sorted(S)) = S \cap Ids /\ \A x, y : Before(Sorted(S), x, y) <=> x \in S \cap Ids /\ y \in S \cap Ids /\ x < y
    BY SortedElements
  <2> QED BY <2>1, <2>2, <1>1 DEF StreamIds
<1>3. /\ PostIds \subseteq S
      /\ \A x, y \in Ids : Before(posts, x, y) => x < y
      /\ \A x, y \in PostIds : \A z \in S : x < z /\ z < y => z \in PostIds
  BY <1>1, FilterElements DEF PostIds
<1>4. /\ \A c \in Calls : Asked(c) = {} /\ call[c].got = {} /\ call[c].wanted = {} /\ call[c].pc = "idle"
      /\ "append" \in Windows /\ "prepend" \in Windows /\ Windows \subseteq Calls /\ "news" \in Calls
  BY DEF Fresh, Settled, Windows, Calls
<1>5. (\A w \in Windows : Here(w) = {}) /\ Held = PostIds /\ Alive \subseteq S
  BY <1>2, <1>4 DEF Here, Held, Alive
<1>6. /\ Staged \notin Ids /\ visible \subseteq Ids /\ last_post \in Nat
      /\ \A i \in Ids : i \in Nat
  BY IdTypes
<1>7. StagedLast
  BY <1>1, <1>2, <1>3, <1>4, <1>6 DEF StagedLast, Fresh
<1>8. Listed
  BY <1>2, <1>3, <1>4, <1>5 DEF Listed, Coming
<1>9. InOrder
  <2>1. \A m \in visible \ StreamIds : \A x \in StreamIds : x < m
    BY <1>2 DEF Fresh
  <2>2. ASSUME NEW x \in visible, NEW y \in PostIds, Before(posts, x, y) PROVE Before(stream, x, y)
    <3>1. x \in PostIds BY <2>2, Orders
    <3> QED BY <3>1, <2>2, <1>1, <1>2, <1>3
  <2> QED BY <2>1, <2>2, <1>2 DEF InOrder
<1>10. Windowed
  <2>1. ASSUME NEW z \in Alive \ Held, NEW p \in Held, ~Before(stream, z, p), NEW q \in Held PROVE Before(stream, q, z)
    <3>1. z \in S /\ p \in PostIds /\ q \in PostIds /\ p \in S /\ q \in S /\ z \notin PostIds BY <2>1, <1>3, <1>5
    <3>2. z \in Nat /\ p \in Nat /\ q \in Nat BY <3>1, <1>1, <1>6
    <3>3. p < z BY <3>1, <3>2, <2>1, <1>2
    <3>4. q < z BY <3>1, <3>2, <3>3, <1>3
    <3> QED BY <3>1, <3>4, <1>2
  <2> QED BY <2>1, <1>4, <1>5 DEF Windowed
<1>11. NewsAtEnd
  BY <1>4 DEF NewsAtEnd
<1>12. OwnAtEnd
  <2> SUFFICES ASSUME OwnListed PROVE OwnAtEnd
    BY DEF OwnAtEnd
  <2>1. ASSUME NEW z \in Alive \ Held, AfterOwn(z), NEW p \in Held PROVE Before(stream, p, z)
    <3>1. z \in S /\ p \in S /\ z # p /\ Own \in S /\ Own = last_post BY <2>1, <1>2, <1>3, <1>5 DEF OwnListed
    <3>2. z <= last_post /\ p <= last_post /\ z \in Nat /\ p \in Nat
      BY <3>1, <1>1, <1>2, <1>6 DEF Numbered
    <3>3. z = last_post BY <3>1, <3>2, <2>1, <1>2, <1>6 DEF AfterOwn
    <3> QED BY <3>1, <3>2, <3>3, <1>2, <1>6
  <2> QED BY <2>1, <1>4, <1>5 DEF OwnAtEnd
<1> QED BY <1>7, <1>8, <1>9, <1>10, <1>11, <1>12 DEF SteadyInv

\* The same after a step.
LEMMA FreshSteadyNext == (StreamInv /\ \E near, S : Fresh(near, S))' => SteadyInv'
BY FreshSteady, PTL

\* updateFromJson keeps the window when no request for posts is out: it
\* replaces both lists by those of one topic view.
LEMMA UpdateFromJsonSteady ==
    ASSUME StreamInv, StreamInv', MailInv, SteadyInv, Steady', UpdateFromJson
    PROVE  SteadyInv'
<1> USE DEF StreamInv
<1>1. /\ posts' = FilterPostsNear(refresh.near, refresh.got) /\ stream' = Sorted(refresh.got)
      /\ UNCHANGED <<visible, staging, call, new_posts>>
      /\ refresh.pc = "served" /\ refresh.near \in Int /\ refresh.got \in SUBSET Ids
  BY IdTypes DEF UpdateFromJson, server, Typed
<1>2. \A c \in Calls : call[c].pc = "idle"
  BY DEF UpdateFromJson, Steady
<1>3. staging => new_posts = <<>>
  BY DEF SteadyInv, StagedLast
<1>4. \A x \in refresh.got : \A y \in visible \ refresh.got : x < y
  BY <1>1 DEF MailInv, ViewIsPrefix
<1>5. \A near, S : near = refresh.near /\ S = refresh.got => Fresh(near, S)'
  BY <1>1, <1>2, <1>3, <1>4 DEF Fresh
<1>6. (\E near, S : Fresh(near, S))'
  BY <1>5
<1> QED BY <1>6, FreshSteadyNext

\* The posts of the page are a window of its stream.
LEMMA SteadyInvInit == Init => SteadyInv
<1> SUFFICES ASSUME Init PROVE SteadyInv
  OBVIOUS
<1>1. StreamInv
  BY StreamInvInit
<1>2. PICK near \in visible : posts = FilterPostsNear(near, visible)
  BY DEF Init
<1>3. visible \subseteq Ids /\ near \in Int
  BY <1>1, <1>2, IdTypes DEF StreamInv
<1>4. Fresh(near, visible)
  BY <1>2, <1>3 DEF Init, Fresh, Idle
<1> QED BY <1>1, <1>4, FreshSteady

-----------------------------------------------------------------------------
(* The posts shown are a window of the stream, and the reader gets on *)

\* What went wrong stays on record.
LEMMA UpsetStays == ASSUME [Next]_vars PROVE upset \subseteq upset'
<1>1. CASE UNCHANGED vars
  BY <1>1 DEF vars
<1>2. CASE Next
  <2>1. CASE Post \/ (\E i \in Ids : Delete(i)) \/ ServeCreate \/ UndoPost \/ AppendMore \/ PrependMore
             \/ (\E c \in Calls : Serve(c) \/ Arrive(c)) \/ (\E near \in Ids : Refresh(near)) \/ ServeRefresh \/ ErrorLoading
             \/ Retry \/ \E i \in Ids : Checked(i)
    BY <2>1 DEF Post, Delete, ServeCreate, UndoPost, AppendMore, PrependMore, Serve, Arrive, Refresh, ServeRefresh,
                ErrorLoading, Retry, Checked
  <2>2. CASE (\E staged \in BOOLEAN : CreatePost(staged)) \/ CommitPost \/ UpdateFromJson
             \/ (\E c \in Calls : Fail(c)) \/ \E i \in Ids : Created(i) \/ Deleted(i) \/ Destroyed(i)
    BY <2>2 DEF CreatePost, CommitPost, UpdateFromJson, Fail, Created, Deleted, Destroyed
  <2> QED BY <1>2, <2>1, <2>2 DEF Next
<1> QED BY <1>1, <1>2

\* Every step keeps the window, as long as no request fails, no jump
\* overtakes one and no posts cross.
LEMMA SteadyInvNext == ASSUME StreamInv, StreamInv', MailInv, SteadyInv, Steady', [Next]_vars PROVE SteadyInv'
<1>1. CASE UNCHANGED vars
  BY <1>1, StutterSteady
<1>2. CASE Post
  <2>1. NewPost /\ UNCHANGED <<deletions, shown, staging, refresh, call, new_posts, checking, upset>> /\ create' = create
    BY <1>2 DEF Post, NewPost
  <2> QED BY <2>1, PostSteady
<1>3. CASE \E i \in Ids : Delete(i)
  BY <1>3, DeleteSteady
<1>4. CASE \E staged \in BOOLEAN : CreatePost(staged)
  BY <1>4, CreatePostSteady
<1>5. CASE ServeCreate \/ CommitPost \/ UndoPost
  BY <1>5, ServeCreateSteady, CommitPostSteady, UndoPostSteady
<1>6. CASE AppendMore \/ PrependMore
  BY <1>6, AppendMoreSteady, PrependMoreSteady
<1>7. CASE \E c \in Calls : Serve(c) \/ Arrive(c) \/ Fail(c)
  <2>1. PICK c \in Calls : Serve(c) \/ Arrive(c) \/ Fail(c)
    BY <1>7
  <2>2. CASE Serve(c)
    BY <2>2, ServeSteady
  <2>3. CASE Arrive(c)
    BY <2>3, ArriveWindowSteady, ArriveNewsSteady DEF Calls
  <2>4. CASE Fail(c)
    BY <2>4 DEF Fail, Steady
  <2> QED BY <2>1, <2>2, <2>3, <2>4
<1>8. CASE (\E near \in Ids : Refresh(near)) \/ ServeRefresh \/ ErrorLoading
  BY <1>8, RefreshSteady
<1>9. CASE UpdateFromJson
  BY <1>9, UpdateFromJsonSteady
<1>10. CASE Retry
  BY <1>10, RetrySteady
<1>11. CASE \E i \in Ids : Created(i) \/ Deleted(i) \/ Checked(i) \/ Destroyed(i)
  BY <1>11, CreatedSteady, DeletedSteady, CheckedSteady, DestroyedSteady
<1> QED BY <1>1, <1>2, <1>3, <1>4, <1>5, <1>6, <1>7, <1>8, <1>9, <1>10, <1>11 DEF Next

\* Both invariants hold in every reachable state.
LEMMA WindowInvariance == Spec => [](StreamInv /\ WindowInv)
<1>1. Init => StreamInv /\ WindowInv
  BY StreamInvInit, MailInvInit, SteadyInvInit DEF WindowInv
<1>2. StreamInv /\ WindowInv /\ [Next]_vars => (StreamInv /\ WindowInv)'
  <2> SUFFICES ASSUME StreamInv, WindowInv, [Next]_vars PROVE (StreamInv /\ WindowInv)'
    OBVIOUS
  <2>1. StreamInv'
    BY StreamInvNext
  <2>2. MailInv'
    BY <2>1, MailInvNext DEF WindowInv
  <2>3. ASSUME Steady' PROVE SteadyInv'
    <3>1. Steady BY <2>3, UpsetStays DEF Steady
    <3> QED BY <2>1, <2>3, <3>1, SteadyInvNext DEF WindowInv
  <2> QED BY <2>1, <2>2, <2>3 DEF WindowInv
<1> QED BY <1>1, <1>2, PTL DEF Spec

\* LoadedIsWindow: the posts shown that are not deleted are in the order of
\* their numbers, and no post of the stream between the first and the last of
\* them is left out (appendMore, prependMore, triggerNewPostsInStream,
\* commitPost), unless a request failed, a jump overtook one, the reader
\* posted while a new post was on its way, or posts were told of in reverse
\* order.
THEOREM LoadedStaysWindow == Spec => []LoadedIsWindow
<1>1. ASSUME StreamInv, WindowInv PROVE LoadedIsWindow
  <2> DEFINE here == Keep(posts, visible)
  <2> SUFFICES ASSUME Steady
               PROVE  /\ \A k \in 1..(Len(here) - 1) : here[k] < here[k + 1]
                      /\ here # <<>> => Range(stream) \cap visible \cap Head(here)..Last(here) \subseteq Range(here)
    BY DEF LoadedIsWindow, Steady
  <2>1. InOrder /\ Windowed /\ Listed
    BY <1>1 DEF WindowInv, SteadyInv
  <2>2. /\ visible \subseteq Ids /\ PostIds \subseteq StreamIds
        /\ \A i \in Ids : i \in Nat
    BY <1>1, <2>1, IdTypes DEF StreamInv, Listed
  <2>3. /\ here \in Seq(AllIds) /\ Range(here) = PostIds \cap visible
        /\ \A x, y : Before(here, x, y) <=> Before(posts, x, y) /\ x \in visible /\ y \in visible
    BY <1>1, KeepElements DEF StreamInv, Typed, PostIds
  <2> HIDE DEF here
  <2>4. ASSUME NEW x \in Ids, NEW y \in visible, Before(stream, x, y) PROVE x < y
    BY <2>1, <2>4 DEF InOrder
  <2>5. ASSUME NEW k \in 1..(Len(here) - 1) PROVE here[k] < here[k + 1]
    <3>1. k \in DOMAIN here /\ k + 1 \in DOMAIN here /\ k < k + 1
      BY <2>3
    <3>2. Before(here, here[k], here[k + 1])
      BY <3>1 DEF Before
    <3>3. Before(posts, here[k], here[k + 1]) /\ here[k] \in visible /\ here[k + 1] \in visible
      BY <3>2, <2>3
    <3>4. Before(stream, here[k], here[k + 1])
      BY <3>3, <2>1, <1>1, Orders DEF InOrder
    <3> QED BY <3>3, <3>4, <2>2, <2>4
  <2>6. ASSUME here # <<>>, NEW z \in Range(stream) \cap visible \cap Head(here)..Last(here) PROVE z \in Range(here)
    <3> DEFINE h == Head(here)
               l == Last(here)
    <3>1. h \in PostIds /\ l \in PostIds /\ h \in visible /\ l \in visible
      BY <2>3, <2>6, HeadElement, LastElement
    <3>2. z \in StreamIds /\ z \in visible /\ h <= z /\ z <= l /\ z \in Nat /\ h \in Nat /\ l \in Nat
      BY <3>1, <2>2, <2>6 DEF StreamIds
    <3> HIDE DEF h, l
    <3>3. SUFFICES ASSUME z \notin PostIds PROVE FALSE
      BY <2>3, <3>2
    <3>4. ~Before(stream, z, h) /\ ~Before(stream, l, z)
      BY <2>2, <2>4, <3>1, <3>2
    <3>5. CASE z \notin Held
      BY <3>1, <3>2, <3>4, <3>5, <2>1 DEF Windowed, Held, Alive
    <3>6. CASE z \in Here("append") \cup Here("prepend")
      BY <3>1, <3>3, <3>4, <3>6, <2>1 DEF Windowed
    <3> QED BY <3>3, <3>5, <3>6 DEF Held
  <2> QED BY <2>5, <2>6
<1> QED BY <1>1, WindowInvariance, PTL

\* NeverStuck: at rest, with posts to come in nextWindow, canAppendMore holds
\* and the window has a post that is not shown, under the same conditions:
\* scrolling down always brings something.
THEOREM ReaderNeverStuck == Spec => []NeverStuck
<1>1. ASSUME StreamInv, WindowInv PROVE NeverStuck
  <2> SUFFICES ASSUME AtRest, Steady, posts # <<>>, ~LoadedAllPosts, NEW z \in Range(NextWindow) \cap visible
               PROVE  CanAppendMore /\ ~(Range(NextWindow) \subseteq PostIds)
    BY DEF NeverStuck, Steady, PostIds
  <2>1. ~staging
    BY <1>1 DEF AtRest, StreamInv, StagedAside
  <2>2. CanAppendMore
    BY <2>1 DEF AtRest, CanAppendMore, Loading, Calls
  <2>3. Listed /\ InOrder
    BY <1>1 DEF WindowInv, SteadyInv
  <2>4. Last(posts) \in PostIds /\ Before(stream, Last(posts), z)
    BY <1>1, <2>1, <2>3, NextFacts
  <2>5. z # Last(posts) /\ ~Before(stream, z, Last(posts))
    BY <1>1, <2>4, Orders
  <2>6. z \notin PostIds
    <3>1. SUFFICES ASSUME z \in PostIds PROVE FALSE
      OBVIOUS
    <3>2. Before(posts, z, Last(posts))
      BY <1>1, <2>5, <3>1, LastElement DEF StreamInv, Typed, PostIds
    <3> QED BY <2>3, <2>4, <2>5, <3>2 DEF InOrder
  <2> QED BY <2>2, <2>6
<1> QED BY <1>1, WindowInvariance, PTL

=============================================================================
