------------------------------ MODULE ListLemmas ------------------------------
(***************************************************************************)
(* Facts about the sequences that stand for the kernel's lists: what is in *)
(* them, and that nothing is in them twice.                                *)
(***************************************************************************)
EXTENDS Integers, SequencesExt, SequenceTheorems, FiniteSetTheorems,
        WellFoundedInduction, TLAPS

\* A set of numbers that is not empty has a least one.
LEMMA LeastNumber ==
  ASSUME NEW T, T # {}, T \subseteq Nat
  PROVE  \E x \in T : \A y \in T : x <= y
<1> DEFINE R == {ss \in Nat \X Nat : ss[1] < ss[2]}
<1>1. IsWellFoundedOn(R, Nat)
  BY NatLessThanWellFounded DEF OpToRel
<1>2. PICK x \in T : \A y \in T : ~(<<y, x>> \in R)
  <2> HIDE DEF R
  <2> QED BY <1>1, WFMin, Zenon
<1>3. ASSUME NEW y \in T PROVE x <= y
  <2>1. x \in Nat /\ y \in Nat OBVIOUS
  <2>2. <<y, x>> \notin R BY <1>2
  <2>3. ~ (y < x) BY <2>1, <2>2
  <2> QED BY <2>1, <2>3
<1> QED BY <1>3

\* A sequence after an element is added at its end...
LEMMA Appended ==
  ASSUME NEW S, NEW s \in Seq(S), NEW e \in S
  PROVE  /\ Append(s, e) \in Seq(S)
         /\ ToSet(Append(s, e)) = ToSet(s) \cup {e}
         /\ (IsInjective(s) /\ e \notin ToSet(s)) => IsInjective(Append(s, e))
<1> DEFINE a == Append(s, e)
<1>1. /\ a \in Seq(S) /\ Len(a) = Len(s) + 1 /\ DOMAIN a = 1 .. Len(s) + 1
      /\ \A i \in 1 .. Len(s) : a[i] = s[i]
      /\ a[Len(s) + 1] = e
  BY AppendProperties, LenProperties
<1>2. DOMAIN s = 1 .. Len(s) /\ Len(s) \in Nat
  BY LenProperties
<1>3. DOMAIN a = DOMAIN s \cup {Len(s) + 1}
  BY <1>1, <1>2
<1>4. ToSet(a) = ToSet(s) \cup {e}
  BY <1>1, <1>2, <1>3 DEF ToSet
<1>5. ASSUME IsInjective(s), e \notin ToSet(s) PROVE IsInjective(a)
  <2> SUFFICES ASSUME NEW i \in DOMAIN a, NEW j \in DOMAIN a, a[i] = a[j] PROVE i = j
    BY DEF IsInjective
  <2>1. \A k \in DOMAIN s : a[k] = s[k] /\ a[k] # e
    BY <1>1, <1>2, <1>5 DEF ToSet
  <2> QED BY <1>1, <1>3, <1>5, <2>1 DEF IsInjective
<1> QED BY <1>1, <1>4, <1>5

\* ... and after the first is removed.
LEMMA Tailed ==
  ASSUME NEW S, NEW s \in Seq(S), s # <<>>
  PROVE  /\ Head(s) \in S /\ Tail(s) \in Seq(S)
         /\ Head(s) \in ToSet(s) /\ ToSet(s) = ToSet(Tail(s)) \cup {Head(s)}
         /\ IsInjective(s) => IsInjective(Tail(s)) /\ Head(s) \notin ToSet(Tail(s))
<1> DEFINE t == Tail(s)
<1>1. /\ Len(s) \in Nat \ {0} /\ DOMAIN s = 1 .. Len(s)
      /\ Head(s) \in S /\ Head(s) = s[1]
      /\ t \in Seq(S) /\ DOMAIN t = 1 .. Len(s) - 1
      /\ \A i \in 1 .. Len(s) - 1 : t[i] = s[i + 1]
  BY HeadTailProperties, LenProperties, EmptySeq
<1>2. 1 \in DOMAIN s
  BY <1>1
<1>3. \A i \in DOMAIN t : i + 1 \in DOMAIN s /\ i + 1 # 1 /\ t[i] = s[i + 1]
  BY <1>1
<1>4. \A i \in DOMAIN s : i # 1 => i - 1 \in DOMAIN t /\ t[i - 1] = s[i]
  BY <1>1
<1>5. ToSet(s) = ToSet(t) \cup {Head(s)}
  BY <1>1, <1>2, <1>3, <1>4 DEF ToSet
<1>6. ASSUME IsInjective(s) PROVE IsInjective(t) /\ Head(s) \notin ToSet(t)
  <2>1. Head(s) \notin ToSet(t)
    BY <1>1, <1>2, <1>3, <1>6 DEF IsInjective, ToSet
  <2>2. ASSUME NEW i \in DOMAIN t, NEW j \in DOMAIN t, t[i] = t[j] PROVE i = j
    <3>1. s[i + 1] = s[j + 1] /\ i + 1 \in DOMAIN s /\ j + 1 \in DOMAIN s
      BY <1>3, <2>2
    <3>2. i + 1 = j + 1
      BY <3>1, <1>6 DEF IsInjective
    <3> QED BY <3>2, <1>1
  <2> QED BY <2>1, <2>2 DEF IsInjective
<1> QED BY <1>1, <1>2, <1>5, <1>6 DEF ToSet

-----------------------------------------------------------------------------
\* The circular lists of a core, written from their head.

\* The first element goes last.
LEMMA Rotated ==
  ASSUME NEW S, NEW s \in Seq(S), s # <<>>
  PROVE  /\ Tail(s) \o <<Head(s)>> \in Seq(S)
         /\ Tail(s) \o <<Head(s)>> # <<>>
         /\ Last(Tail(s) \o <<Head(s)>>) = Head(s)
<1> DEFINE r == Tail(s) \o <<Head(s)>>
<1>1. Head(s) \in S /\ Tail(s) \in Seq(S) /\ Len(Tail(s)) \in Nat
  BY HeadTailProperties, LenProperties
<1>2. <<Head(s)>> \in Seq(S) /\ Len(<<Head(s)>>) = 1 /\ <<Head(s)>>[1] = Head(s)
  BY <1>1
<1>3. /\ r \in Seq(S) /\ Len(r) = Len(Tail(s)) + 1
      /\ r[Len(Tail(s)) + 1] = <<Head(s)>>[1]
  BY <1>1, <1>2, ConcatProperties
<1>4. r # <<>>
  BY <1>1, <1>3, EmptySeq
<1> QED BY <1>2, <1>3, <1>4 DEF Last

\* The first element leaves a list of two or more: the last stays last.
LEMMA LastOfTail ==
  ASSUME NEW S, NEW s \in Seq(S), s # <<>>, Head(s) # Last(s)
  PROVE  Tail(s) \in Seq(S) /\ Tail(s) # <<>> /\ Last(Tail(s)) = Last(s)
<1>1. /\ Len(s) \in Nat \ {0} /\ Head(s) = s[1]
      /\ Tail(s) \in Seq(S) /\ Len(Tail(s)) = Len(s) - 1
      /\ \A i \in 1 .. Len(s) - 1 : Tail(s)[i] = s[i + 1]
  BY HeadTailProperties, LenProperties, EmptySeq
<1>2. Len(s) > 1
  BY <1>1 DEF Last
<1>3. Tail(s) # <<>>
  <2>1. Len(Tail(s)) # 0
    BY <1>1, <1>2
  <2> QED BY <2>1, EmptySeq
<1> QED BY <1>1, <1>2, <1>3 DEF Last

\* An element goes before a list.
LEMMA Prefixed ==
  ASSUME NEW S, NEW s \in Seq(S), NEW e \in S
  PROVE  /\ <<e>> \o s \in Seq(S) /\ <<e>> \o s # <<>> /\ Head(<<e>> \o s) = e
         /\ s # <<>> => Last(<<e>> \o s) = Last(s)
<1>1. <<e>> \in Seq(S) /\ Len(<<e>>) = 1 /\ <<e>>[1] = e
  OBVIOUS
<1>2. /\ <<e>> \o s \in Seq(S) /\ Len(<<e>> \o s) = 1 + Len(s) /\ Len(s) \in Nat
      /\ \A i \in 1 .. 1 + Len(s) :
           (<<e>> \o s)[i] = IF i <= 1 THEN <<e>>[i] ELSE s[i - 1]
  BY <1>1, ConcatProperties, LenProperties
<1>3. <<e>> \o s # <<>>
  BY <1>2, EmptySeq
<1>4. Head(<<e>> \o s) = e
  <2>1. Head(<<e>> \o s) = (<<e>> \o s)[1]
    BY <1>2, <1>3, HeadTailProperties
  <2>2. (<<e>> \o s)[1] = <<e>>[1]
    BY <1>2
  <2> QED BY <2>1, <2>2, <1>1
<1>5. ASSUME s # <<>> PROVE Last(<<e>> \o s) = Last(s)
  <2>1. Len(s) > 0
    BY <1>2, <1>5, EmptySeq
  <2> QED BY <1>2, <2>1 DEF Last
<1> QED BY <1>2, <1>3, <1>4, <1>5

\* Lists are joined: the last is that of the second.
LEMMA Joined ==
  ASSUME NEW S, NEW s \in Seq(S), NEW t \in Seq(S)
  PROVE  /\ s \o t \in Seq(S) /\ Len(s \o t) = Len(s) + Len(t)
         /\ t # <<>> => Last(s \o t) = Last(t)
<1>1. /\ s \o t \in Seq(S) /\ Len(s \o t) = Len(s) + Len(t)
      /\ Len(s) \in Nat /\ Len(t) \in Nat
      /\ \A i \in 1 .. Len(s) + Len(t) :
           (s \o t)[i] = IF i <= Len(s) THEN s[i] ELSE t[i - Len(s)]
  BY ConcatProperties, LenProperties
<1>2. ASSUME t # <<>> PROVE Last(s \o t) = Last(t)
  <2>1. Len(t) > 0
    BY <1>1, <1>2, EmptySeq
  <2> QED BY <1>1, <2>1 DEF Last
<1> QED BY <1>1, <1>2

\* An element goes anywhere in a list: before the end, the last stays last.
LEMMA Inserted ==
  ASSUME NEW S, NEW s \in Seq(S), NEW e \in S, NEW i \in 1 .. Len(s) + 1
  PROVE  /\ InsertAt(s, i, e) \in Seq(S) /\ InsertAt(s, i, e) # <<>>
         /\ i <= Len(s) => Last(InsertAt(s, i, e)) = Last(s)
<1> DEFINE before == SubSeq(s, 1, i - 1)
           after == SubSeq(s, i, Len(s))
<1>1. Len(s) \in Nat /\ \A k \in 1 .. Len(s) : s[k] \in S
  BY LenProperties, ElementOfSeq
<1>2. before \in Seq(S) /\ Len(before) \in Nat
  BY <1>1, SubSeqProperties
<1>3. after \in Seq(S) /\ Len(after) \in Nat
  BY <1>1, SubSeqProperties
<1>4. ASSUME i <= Len(s) PROVE after # <<>> /\ Last(after) = Last(s)
  <2>1. /\ Len(after) = Len(s) - i + 1
        /\ \A k \in 1 .. Len(s) - i + 1 : after[k] = s[i + k - 1]
    BY <1>1, <1>4, SubSeqProperties
  <2>2. Len(after) # 0 /\ after[Len(after)] = s[Len(s)]
    BY <1>1, <1>4, <2>1
  <2> QED BY <2>2, EmptySeq DEF Last
<1>5. InsertAt(s, i, e) = before \o <<e>> \o after
  BY DEF InsertAt
<1> HIDE DEF before, after
<1>6. <<e>> \in Seq(S) /\ Len(<<e>>) = 1
  OBVIOUS
<1>7. before \o <<e>> \in Seq(S) /\ Len(before \o <<e>>) = Len(before) + 1
  BY <1>2, <1>6, Joined
<1>8. /\ before \o <<e>> \o after \in Seq(S)
      /\ Len(before \o <<e>> \o after) = Len(before) + 1 + Len(after)
      /\ after # <<>> => Last(before \o <<e>> \o after) = Last(after)
  BY <1>3, <1>7, Joined
<1>9. before \o <<e>> \o after # <<>>
  BY <1>2, <1>3, <1>8, EmptySeq
<1> QED BY <1>4, <1>5, <1>8, <1>9

\* An element is removed, or all up to one, or all after one.
LEMMA Removed ==
  ASSUME NEW S, NEW s \in Seq(S), NEW i \in 1 .. Len(s)
  PROVE  /\ RemoveAt(s, i) \in Seq(S)
         /\ SubSeq(s, 1, i) \in Seq(S)
         /\ SubSeq(s, i + 1, Len(s)) \in Seq(S)
<1>1. Len(s) \in Nat /\ \A k \in 1 .. Len(s) : s[k] \in S
  BY LenProperties, ElementOfSeq
<1>2. SubSeq(s, 1, i - 1) \in Seq(S)
  BY <1>1, SubSeqProperties
<1>3. SubSeq(s, i + 1, Len(s)) \in Seq(S)
  BY <1>1, SubSeqProperties
<1>4. SubSeq(s, 1, i) \in Seq(S)
  BY <1>1, SubSeqProperties
<1> QED BY <1>2, <1>3, <1>4, ConcatProperties DEF RemoveAt

\* A list is cut after its second element.
LEMMA FirstTwo ==
  ASSUME NEW S, NEW s \in Seq(S), 1 < Len(s)
  PROVE  /\ s[1] \in S /\ s[2] \in S
         /\ SubSeq(s, 1, 2) \in Seq(S) /\ SubSeq(s, 1, 2) # <<>>
         /\ Last(SubSeq(s, 1, 2)) = s[2]
         /\ SubSeq(s, 3, Len(s)) \in Seq(S)
<1>1. Len(s) \in Nat /\ 1 \in 1 .. Len(s) /\ 2 \in 1 .. Len(s)
  BY LenProperties
<1>2. s[1] \in S /\ s[2] \in S
  BY <1>1, ElementOfSeq
<1>3. SubSeq(s, 1, 2) \in Seq(S) /\ SubSeq(s, 3, Len(s)) \in Seq(S)
  BY <1>1, Removed
<1> DEFINE t == SubSeq(s, 1, 2)
<1> HIDE DEF t
<1>4. Len(t) = 2 /\ t[2] = s[2]
  <2>1. \A k \in 1 .. 2 : s[k] \in S
    BY <1>2
  <2> QED BY <2>1, SubSeqProperties DEF t
<1>5. t # <<>>
  <2>1. Len(t) # 0
    BY <1>4
  <2> QED BY <2>1, EmptySeq
<1>6. Last(t) = s[2]
  BY <1>4 DEF Last
<1> QED BY <1>2, <1>3, <1>5, <1>6 DEF t

-----------------------------------------------------------------------------
\* What is in a list after each of these, and that it is there once.

\* One element, and none.
LEMMA ShortLists ==
  /\ ToSet(<<>>) = {} /\ IsInjective(<<>>)
  /\ \A e : ToSet(<<e>>) = {e} /\ IsInjective(<<e>>)
  /\ \A d, e : ToSet(<<d, e>>) = {d, e} /\ (d # e => IsInjective(<<d, e>>))
<1>1. ToSet(<<>>) = {} /\ IsInjective(<<>>)
  BY DEF ToSet, IsInjective
<1>2. \A e : ToSet(<<e>>) = {e} /\ IsInjective(<<e>>)
  BY DEF ToSet, IsInjective
<1>3. \A d, e : ToSet(<<d, e>>) = {d, e} /\ (d # e => IsInjective(<<d, e>>))
  <2> TAKE d, e
  <2>1. DOMAIN <<d, e>> = 1 .. 2 /\ <<d, e>>[1] = d /\ <<d, e>>[2] = e
    OBVIOUS
  <2> QED BY <2>1 DEF ToSet, IsInjective
<1> QED BY <1>1, <1>2, <1>3

\* Lists are joined: nothing is in the list twice if nothing is in both.
LEMMA JoinedOnce ==
  ASSUME NEW S, NEW s \in Seq(S), NEW t \in Seq(S)
  PROVE  /\ ToSet(s \o t) = ToSet(s) \cup ToSet(t)
         /\ IsInjective(s \o t) <=> /\ IsInjective(s) /\ IsInjective(t)
                                    /\ ToSet(s) \cap ToSet(t) = {}
<1> DEFINE m == Len(s)
           n == Len(t)
           u == s \o t
<1>1. /\ m \in Nat /\ n \in Nat
      /\ DOMAIN s = 1 .. m /\ DOMAIN t = 1 .. n /\ DOMAIN u = 1 .. m + n
      /\ \A i \in 1 .. m + n : u[i] = IF i <= m THEN s[i] ELSE t[i - m]
  BY ConcatProperties, LenProperties
<1> HIDE DEF m, n, u
<1>2. \A i \in DOMAIN s : i \in DOMAIN u /\ u[i] = s[i] /\ i <= m
  BY <1>1
<1>3. \A i \in DOMAIN t : m + i \in DOMAIN u /\ u[m + i] = t[i] /\ ~(m + i <= m)
  BY <1>1
<1>4. \A i \in DOMAIN u : \/ i \in DOMAIN s /\ u[i] = s[i]
                          \/ i - m \in DOMAIN t /\ u[i] = t[i - m]
  BY <1>1
<1>5. ToSet(u) = ToSet(s) \cup ToSet(t)
  BY <1>2, <1>3, <1>4 DEF ToSet
<1>6. ASSUME IsInjective(u)
      PROVE  IsInjective(s) /\ IsInjective(t) /\ ToSet(s) \cap ToSet(t) = {}
  <2>1. IsInjective(s)
    BY <1>2, <1>6 DEF IsInjective
  <2>2. IsInjective(t)
    <3> SUFFICES ASSUME NEW i \in DOMAIN t, NEW j \in DOMAIN t, t[i] = t[j] PROVE i = j
      BY DEF IsInjective
    <3>1. m + i = m + j
      BY <1>3, <1>6 DEF IsInjective
    <3> QED BY <1>1, <3>1
  <2>3. ASSUME NEW i \in DOMAIN s, NEW j \in DOMAIN t, s[i] = t[j] PROVE FALSE
    <3>1. i = m + j
      BY <1>2, <1>3, <1>6, <2>3 DEF IsInjective
    <3> QED BY <1>2, <1>3, <3>1
  <2> QED BY <2>1, <2>2, <2>3 DEF ToSet
<1>7. ASSUME IsInjective(s), IsInjective(t), ToSet(s) \cap ToSet(t) = {}
      PROVE  IsInjective(u)
  <2> SUFFICES ASSUME NEW i \in DOMAIN u, NEW j \in DOMAIN u, u[i] = u[j] PROVE i = j
    BY DEF IsInjective
  <2>1. \A k \in DOMAIN s, l \in DOMAIN t : s[k] # t[l]
    BY <1>7 DEF ToSet
  <2>2. \/ i \in DOMAIN s /\ j \in DOMAIN s /\ s[i] = s[j]
        \/ i - m \in DOMAIN t /\ j - m \in DOMAIN t /\ t[i - m] = t[j - m]
    BY <1>4, <2>1
  <2>3. i = j \/ i - m = j - m
    BY <2>2, <1>7 DEF IsInjective
  <2> QED BY <1>1, <2>3
<1> QED BY <1>5, <1>6, <1>7 DEF u

\* A list is cut in two: what is in it once is in one part.
LEMMA CutOnce ==
  ASSUME NEW S, NEW s \in Seq(S), NEW n \in 0 .. Len(s)
  PROVE  LET a == SubSeq(s, 1, n)
             b == SubSeq(s, n + 1, Len(s))
         IN  /\ a \in Seq(S) /\ b \in Seq(S)
             /\ ToSet(s) = ToSet(a) \cup ToSet(b)
             /\ IsInjective(s) => /\ IsInjective(a) /\ IsInjective(b)
                                  /\ ToSet(a) \cap ToSet(b) = {}
<1> DEFINE a == SubSeq(s, 1, n)
           b == SubSeq(s, n + 1, Len(s))
<1>1. Len(s) \in Nat /\ \A k \in 1 .. Len(s) : s[k] \in S
  BY LenProperties, ElementOfSeq
<1>2. a \in Seq(S)
  BY <1>1, SubSeqProperties
<1>3. b \in Seq(S)
  BY <1>1, SubSeqProperties
<1>4. s = a \o b
  <2>1. 1 \in 1 .. Len(s) + 1 /\ n \in 1 - 1 .. Len(s) /\ Len(s) \in n .. Len(s)
    BY <1>1
  <2>2. SubSeq(s, 1, n) \o SubSeq(s, n + 1, Len(s)) = SubSeq(s, 1, Len(s))
    BY <2>1, ConcatAdjacentSubSeq
  <2> QED BY <2>2, SubSeqFull
<1> HIDE DEF a, b
<1>5. /\ ToSet(s) = ToSet(a) \cup ToSet(b)
      /\ IsInjective(s) => /\ IsInjective(a) /\ IsInjective(b)
                           /\ ToSet(a) \cap ToSet(b) = {}
  BY <1>2, <1>3, <1>4, JoinedOnce
<1> QED BY <1>2, <1>3, <1>5 DEF a, b

\* The first of two lists that are joined keeps its head.
LEMMA HeadOfJoined ==
  ASSUME NEW S, NEW s \in Seq(S), NEW t \in Seq(S), s # <<>>
  PROVE  s \o t # <<>> /\ Head(s \o t) = Head(s)
<1>1. /\ Len(s) \in Nat \ {0} /\ Len(t) \in Nat /\ s \o t \in Seq(S)
      /\ Len(s \o t) = Len(s) + Len(t)
      /\ \A i \in 1 .. Len(s) + Len(t) :
           (s \o t)[i] = IF i <= Len(s) THEN s[i] ELSE t[i - Len(s)]
  BY ConcatProperties, LenProperties, EmptySeq
<1>2. Len(s \o t) # 0 /\ (s \o t)[1] = s[1]
  BY <1>1
<1>3. s \o t # <<>>
  BY <1>2, EmptySeq
<1> QED BY <1>1, <1>2, <1>3

\* The first element, and the others: of them nothing is lost.
LEMMA TailedOnce ==
  ASSUME NEW S, NEW s \in Seq(S), s # <<>>, IsInjective(s)
  PROVE  /\ Head(s) \in S /\ Tail(s) \in Seq(S) /\ IsInjective(Tail(s))
         /\ Head(s) \in ToSet(s) /\ ToSet(Tail(s)) = ToSet(s) \ {Head(s)}
BY Tailed

\* The first element goes last, and nothing is lost.
LEMMA RotatedOnce ==
  ASSUME NEW S, NEW s \in Seq(S), s # <<>>
  PROVE  /\ ToSet(Tail(s) \o <<Head(s)>>) = ToSet(s)
         /\ IsInjective(s) => IsInjective(Tail(s) \o <<Head(s)>>)
<1>1. /\ Head(s) \in S /\ Tail(s) \in Seq(S) /\ ToSet(s) = ToSet(Tail(s)) \cup {Head(s)}
      /\ IsInjective(s) => IsInjective(Tail(s)) /\ Head(s) \notin ToSet(Tail(s))
  BY Tailed
<1> DEFINE h == <<Head(s)>>
<1>2. h \in Seq(S) /\ ToSet(h) = {Head(s)} /\ IsInjective(h)
  BY <1>1, ShortLists
<1> HIDE DEF h
<1>3. /\ ToSet(Tail(s) \o h) = ToSet(Tail(s)) \cup ToSet(h)
      /\ IsInjective(Tail(s) \o h) <=> /\ IsInjective(Tail(s)) /\ IsInjective(h)
                                       /\ ToSet(Tail(s)) \cap ToSet(h) = {}
  BY <1>1, <1>2, JoinedOnce
<1> QED BY <1>1, <1>2, <1>3 DEF h

\* An element goes anywhere in a list that does not hold it: not at the front
\* of a list that has a head, that head stays.
LEMMA InsertedOnce ==
  ASSUME NEW S, NEW s \in Seq(S), NEW e \in S, NEW i \in 1 .. Len(s) + 1
  PROVE  /\ ToSet(InsertAt(s, i, e)) = ToSet(s) \cup {e}
         /\ (IsInjective(s) /\ e \notin ToSet(s)) => IsInjective(InsertAt(s, i, e))
         /\ (i > 1 /\ s # <<>>) => Head(InsertAt(s, i, e)) = Head(s)
<1> DEFINE a == SubSeq(s, 1, i - 1)
           b == SubSeq(s, i, Len(s))
           m == <<e>>
<1>1. i - 1 \in 0 .. Len(s) /\ i - 1 + 1 = i /\ i \in Int
  BY LenProperties
<1>2. /\ a \in Seq(S) /\ b \in Seq(S) /\ ToSet(s) = ToSet(a) \cup ToSet(b)
      /\ IsInjective(s) => /\ IsInjective(a) /\ IsInjective(b)
                           /\ ToSet(a) \cap ToSet(b) = {}
  BY <1>1, CutOnce
<1>3. m \in Seq(S) /\ ToSet(m) = {e} /\ IsInjective(m)
  BY ShortLists
<1>4. InsertAt(s, i, e) = (a \o m) \o b
  BY DEF InsertAt
<1>5. (i > 1 /\ s # <<>>) => Head(a) = Head(s) /\ a # <<>>
  <2> SUFFICES ASSUME i > 1, s # <<>> PROVE Head(a) = Head(s) /\ a # <<>>
    OBVIOUS
  <2>1. 1 \in 1 .. Len(s) /\ i - 1 \in 1 .. Len(s)
    BY LenProperties, EmptySeq
  <2>2. Head(a) = s[1]
    BY <2>1, HeadTailOfSubSeq
  <2>3. Len(a) = i - 1 /\ Len(a) # 0
    <3>1. \A k \in 1 .. i - 1 : s[k] \in S
      BY LenProperties, ElementOfSeq
    <3> QED BY <1>1, <2>1, <3>1, SubSeqProperties
  <2> QED BY <2>2, <2>3, EmptySeq
<1> HIDE DEF a, b, m
<1>6. /\ a \o m \in Seq(S) /\ ToSet(a \o m) = ToSet(a) \cup {e}
      /\ IsInjective(a \o m) <=> IsInjective(a) /\ e \notin ToSet(a)
  BY <1>2, <1>3, JoinedOnce, ConcatProperties
<1>7. /\ ToSet((a \o m) \o b) = ToSet(a \o m) \cup ToSet(b)
      /\ IsInjective((a \o m) \o b) <=>
           /\ IsInjective(a \o m) /\ IsInjective(b)
           /\ ToSet(a \o m) \cap ToSet(b) = {}
  BY <1>2, <1>6, JoinedOnce
<1>8. (i > 1 /\ s # <<>>) => Head(InsertAt(s, i, e)) = Head(s)
  <2> SUFFICES ASSUME i > 1, s # <<>> PROVE Head((a \o m) \o b) = Head(s)
    BY <1>4
  <2>1. Head(a \o m) = Head(a) /\ a \o m # <<>>
    BY <1>2, <1>3, <1>5, HeadOfJoined
  <2> QED BY <1>2, <1>5, <1>6, <2>1, HeadOfJoined
<1> QED BY <1>2, <1>4, <1>6, <1>7, <1>8

\* An element is removed from wherever it is.
LEMMA RemovedOnce ==
  ASSUME NEW S, NEW s \in Seq(S), NEW i \in 1 .. Len(s), IsInjective(s)
  PROVE  /\ RemoveAt(s, i) \in Seq(S) /\ IsInjective(RemoveAt(s, i))
         /\ s[i] \in ToSet(s) /\ ToSet(RemoveAt(s, i)) = ToSet(s) \ {s[i]}
<1> DEFINE a == SubSeq(s, 1, i - 1)
           b == SubSeq(s, i, Len(s))
           c == SubSeq(s, i + 1, Len(s))
           m == <<s[i]>>
<1>1. /\ i - 1 \in 0 .. Len(s) /\ i - 1 + 1 = i /\ Len(s) \in i .. Len(s)
      /\ s[i] \in S /\ i \in Int
  BY LenProperties, ElementOfSeq
<1>2. /\ a \in Seq(S) /\ b \in Seq(S) /\ ToSet(s) = ToSet(a) \cup ToSet(b)
      /\ IsInjective(a) /\ IsInjective(b) /\ ToSet(a) \cap ToSet(b) = {}
  BY <1>1, CutOnce
<1>3. b = m \o c
  BY <1>1, SubSeqRecursiveFirst
<1>4. c \in Seq(S)
  BY Removed
<1>5. m \in Seq(S) /\ ToSet(m) = {s[i]} /\ IsInjective(m)
  BY <1>1, ShortLists
<1>6. RemoveAt(s, i) = a \o c
  BY DEF RemoveAt
<1> HIDE DEF a, b, c, m
<1>7. /\ ToSet(b) = {s[i]} \cup ToSet(c)
      /\ IsInjective(c) /\ s[i] \notin ToSet(c)
  BY <1>2, <1>3, <1>4, <1>5, JoinedOnce
<1>8. /\ a \o c \in Seq(S) /\ ToSet(a \o c) = ToSet(a) \cup ToSet(c)
      /\ IsInjective(a \o c)
  BY <1>2, <1>4, <1>7, JoinedOnce, ConcatProperties
<1> QED BY <1>2, <1>6, <1>7, <1>8

\* Where the elements of a list are once one is inserted.
LEMMA InsertedWhere ==
  ASSUME NEW S, NEW s \in Seq(S), NEW e \in S, NEW i \in 1 .. Len(s) + 1
  PROVE  /\ Len(InsertAt(s, i, e)) = Len(s) + 1
         /\ \A j \in 1 .. Len(s) + 1 :
              InsertAt(s, i, e)[j] = IF j < i THEN s[j] ELSE IF j = i THEN e ELSE s[j - 1]
<1> DEFINE n == Len(s)
           a == SubSeq(s, 1, i - 1)
           b == SubSeq(s, i, n)
           m == <<e>>
<1>1. n \in Nat /\ i \in 1 .. n + 1 /\ \A k \in 1 .. n : s[k] \in S
  BY LenProperties, ElementOfSeq
<1>2. a \in Seq(S) /\ Len(a) = i - 1 /\ \A j \in 1 .. i - 1 : a[j] = s[j]
  <2>1. \A k \in 1 .. i - 1 : s[k] \in S
    BY <1>1
  <2> QED BY <1>1, <2>1, SubSeqProperties
<1>3. b \in Seq(S) /\ Len(b) = n - i + 1 /\ \A j \in 1 .. n - i + 1 : b[j] = s[(i + j) - 1]
  <2>1. \A k \in i .. n : s[k] \in S
    BY <1>1
  <2> QED BY <1>1, <2>1, SubSeqProperties
<1>4. m \in Seq(S) /\ Len(m) = 1 /\ m[1] = e
  OBVIOUS
<1>5. InsertAt(s, i, e) = (a \o m) \o b
  BY DEF InsertAt
<1> HIDE DEF a, b, m, n
<1>6. /\ a \o m \in Seq(S) /\ Len(a \o m) = i
      /\ \A j \in 1 .. i : (a \o m)[j] = IF j < i THEN s[j] ELSE e
  <2>1. /\ a \o m \in Seq(S) /\ Len(a \o m) = (i - 1) + 1
        /\ \A j \in 1 .. (i - 1) + 1 : (a \o m)[j] = IF j <= i - 1 THEN a[j] ELSE m[j - (i - 1)]
    <3>1. /\ a \o m \in Seq(S) /\ Len(a \o m) = Len(a) + Len(m)
          /\ \A j \in 1 .. Len(a) + Len(m) : (a \o m)[j] = IF j <= Len(a) THEN a[j] ELSE m[j - Len(a)]
      BY ONLY <1>2, <1>4, ConcatProperties
    <3> QED BY <1>2, <1>4, <3>1
  <2>2. ASSUME NEW j \in 1 .. i PROVE (a \o m)[j] = IF j < i THEN s[j] ELSE e
    BY <1>1, <1>2, <1>4, <2>1
  <2> QED BY <1>1, <2>1, <2>2
<1> DEFINE c == a \o m
           x == Len(c)
           y == Len(b)
<1> HIDE DEF c, x, y
<1>7. /\ Len(c \o b) = x + y
      /\ \A j \in 1 .. x + y : (c \o b)[j] = IF j <= x THEN c[j] ELSE b[j - x]
  <2>1. c \in Seq(S) /\ b \in Seq(S)
    BY <1>3, <1>6 DEF c
  <2> QED BY ONLY <2>1, ConcatProperties DEF x, y
<1>8. x = i /\ y = n - i + 1 /\ x + y = n + 1
  BY <1>1, <1>3, <1>6 DEF x, y, c
<1>9. ASSUME NEW j \in 1 .. n + 1
      PROVE  (c \o b)[j] = IF j < i THEN s[j] ELSE IF j = i THEN e ELSE s[j - 1]
  <2>1. CASE j <= i
    BY <1>1, <1>6, <1>7, <1>8, <2>1 DEF c
  <2>2. CASE ~(j <= i)
    <3>1. j - i \in 1 .. n - i + 1 /\ (i + (j - i)) - 1 = j - 1 /\ ~(j < i) /\ j # i
      BY <1>1, <2>2
    <3>2. (c \o b)[j] = b[j - i]
      BY <1>1, <1>7, <1>8, <2>2
    <3>3. b[j - i] = s[j - 1]
      BY <1>3, <3>1
    <3> QED BY <3>1, <3>2, <3>3
  <2> QED BY <2>1, <2>2
<1> QED BY <1>5, <1>7, <1>8, <1>9 DEF n, c

\* The rest of a list, from an element on or past its end.
LEMMA RestOf ==
  ASSUME NEW S, NEW s \in Seq(S), NEW m \in 1 .. Len(s) + 1
  PROVE  LET l == SubSeq(s, m, Len(s))
         IN  /\ l \in Seq(S) /\ Len(l) = Len(s) + 1 - m
             /\ \A j \in 1 .. Len(s) + 1 - m : l[j] = s[(m + j) - 1]
<1> DEFINE n == Len(s)
<1>1. n \in Nat /\ m \in 1 .. n + 1 /\ \A k \in 1 .. n : s[k] \in S
  BY LenProperties, ElementOfSeq
<1>2. \A k \in m .. n : s[k] \in S
  BY <1>1
<1> HIDE DEF n
<1>3. /\ SubSeq(s, m, n) \in Seq(S) /\ Len(SubSeq(s, m, n)) = IF m <= n THEN n - m + 1 ELSE 0
      /\ \A j \in 1 .. n - m + 1 : SubSeq(s, m, n)[j] = s[m + j - 1]
  BY <1>1, <1>2, SubSeqProperties
<1>4. (IF m <= n THEN n - m + 1 ELSE 0) = n + 1 - m /\ n - m + 1 = n + 1 - m
  BY <1>1
<1> QED BY <1>3, <1>4 DEF n

\* The orders of a finite set's elements are sequences of them.
LEMMA OrdersAreSequences ==
  ASSUME NEW S, IsFiniteSet(S) PROVE SetToSeqs(S) \subseteq Seq(S)
<1>1. Cardinality(S) \in Nat
  BY FS_CardinalityType
<1> SUFFICES ASSUME NEW s \in SetToSeqs(S) PROVE s \in Seq(S)
  OBVIOUS
<1>2. s \in [1 .. Cardinality(S) -> S]
  BY DEF SetToSeqs
<1> QED BY <1>1, <1>2

\* ... in which each element is once.
LEMMA OrdersOnce ==
  ASSUME NEW S, IsFiniteSet(S), NEW s \in SetToSeqs(S)
  PROVE  s \in Seq(S) /\ IsInjective(s) /\ ToSet(s) = S
<1> DEFINE D == 1 .. Cardinality(S)
<1>1. Cardinality(S) \in Nat
  BY FS_CardinalityType
<1>2. s \in [D -> S] /\ \A i, j \in D : i # j => s[i] # s[j]
  BY DEF SetToSeqs
<1>3. s \in Injection(D, S)
  BY <1>2 DEF Injection, IsInjective
<1>4. IsFiniteSet(D) /\ Cardinality(D) = Cardinality(S)
  BY <1>1, FS_Interval
<1>5. s \in Surjection(D, S)
  BY <1>3, <1>4, FS_Injection
<1>6. \A e \in S : \E i \in D : s[i] = e
  BY <1>5 DEF Surjection
<1> QED BY <1>1, <1>2, <1>6 DEF IsInjective, ToSet

\* A sequence over a set is one over a larger set.
LEMMA WiderSequences ==
  ASSUME NEW S, NEW T, S \subseteq T PROVE Seq(S) \subseteq Seq(T)
<1> SUFFICES ASSUME NEW s \in Seq(S) PROVE s \in Seq(T)
  OBVIOUS
<1>1. Len(s) \in Nat /\ s \in [1 .. Len(s) -> S]
  BY LenProperties
<1>2. s \in [1 .. Len(s) -> T]
  BY <1>1
<1> QED BY <1>1, <1>2
=============================================================================
