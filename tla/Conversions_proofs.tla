------------------------- MODULE Conversions_proofs -------------------------
(***************************************************************************)
(* Proofs about Provider, for every conversation, any number of rounds and *)
(* responses of any length, and about WebFetch, for pages of any length.   *)
(* What the recursions of FlattenSeq, RemoveElements and Squeeze come to   *)
(* is shown by induction, for which the least number of a set will do.     *)
(***************************************************************************)
EXTENDS MCConversions, SequenceTheorems, WellFoundedInduction, TLAPS

Less == {p \in Nat \X Nat : p[1] < p[2]}

\* Induction over the natural numbers, for a set.
LEMMA SetInduction ==
  ASSUME NEW S, 0 \in S, \A n \in Nat : n \in S => n + 1 \in S
  PROVE  Nat \subseteq S
<1> DEFINE T == Nat \ S
<1>1. SUFFICES ASSUME T # {} PROVE FALSE
  OBVIOUS
<1>2. IsWellFoundedOn(Less, Nat)
  BY NatLessThanWellFounded DEF OpToRel, Less
<1>3. T \subseteq Nat
  OBVIOUS
<1> HIDE DEF T
<1>4. PICK x \in T : \A y \in T : <<y, x>> \notin Less
  BY ONLY <1>1, <1>2, <1>3, WFMin, Zenon
<1>5. x \in Nat /\ x \notin S /\ x # 0
  BY <1>3 DEF T
<1>6. x - 1 \in T
  BY <1>5 DEF T
<1>7. <<x - 1, x>> \in Less
  BY <1>5 DEF Less
<1> QED BY <1>4, <1>6, <1>7

\* Induction over sequences, for a set.
LEMMA SeqInduction ==
  ASSUME NEW T, NEW S, << >> \in S,
         \A s \in Seq(T), x \in T : s \in S => Append(s, x) \in S
  PROVE  Seq(T) \subseteq S
<1> DEFINE Lengths == {n \in Nat : \A s \in Seq(T) : Len(s) = n => s \in S}
<1>1. 0 \in Lengths
  BY EmptySeq
<1>2. ASSUME NEW n \in Nat, n \in Lengths PROVE n + 1 \in Lengths
  <2> SUFFICES ASSUME NEW s \in Seq(T), Len(s) = n + 1 PROVE s \in S
    OBVIOUS
  <2>1. PICK r \in Seq(T), x \in T : s = Append(r, x)
    <3>1. s # << >>
      BY EmptySeq
    <3> QED BY <3>1, SequenceEmptyOrAppend
  <2>2. Len(r) = n
    BY <2>1, AppendProperties, LenProperties
  <2> QED BY <1>2, <2>1, <2>2
<1>3. Nat \subseteq Lengths
  <2> HIDE DEF Lengths
  <2> QED BY <1>1, <1>2, SetInduction
<1> QED BY <1>3, LenProperties

-----------------------------------------------------------------------------
(***************************************************************************)
(* FlattenSeq                                                              *)
(***************************************************************************)
\* Its recursion: what the first i sequences come to.
Joined(s, flat, i) == IF i = 1 THEN s[i] ELSE flat[i - 1] \o s[i]
Flat(s) == CHOOSE flat : flat = [i \in 1 .. Len(s) |-> Joined(s, flat, i)]

LEMMA JoinedNext ==
  ASSUME NEW s, NEW flat, NEW n \in Nat \ {0}
  PROVE  Joined(s, flat, n + 1) = flat[n] \o s[n + 1]
<1>1. n + 1 # 1 /\ (n + 1) - 1 = n
  OBVIOUS
<1> QED BY <1>1, Zenon DEF Joined

LEMMA FlattenIsFlat ==
  ASSUME NEW s
  PROVE  FlattenSeq(s) = IF Len(s) = 0 THEN s ELSE Flat(s)[Len(s)]
BY DEF FlattenSeq, Flat, Joined

LEMMA FlatExists ==
  ASSUME NEW T, NEW s \in Seq(Seq(T))
  PROVE  /\ Flat(s) = [i \in 1 .. Len(s) |-> Joined(s, Flat(s), i)]
         /\ Len(s) \in Nat
<1> DEFINE Lengths == {n \in Nat : \E flat : \A i \in 1 .. n : flat[i] = Joined(s, flat, i)}
<1>1. Len(s) \in Nat
  BY LenProperties
<1>2. 0 \in Lengths
  OBVIOUS
<1>3. ASSUME NEW n \in Nat, n \in Lengths PROVE n + 1 \in Lengths
  <2>1. PICK flat : \A i \in 1 .. n : flat[i] = Joined(s, flat, i)
    BY <1>3
  <2> DEFINE more == [i \in 1 .. n + 1 |-> Joined(s, flat, i)]
  <2>2. \A i \in 1 .. n : more[i] = flat[i]
    BY <2>1
  <2>3. ASSUME NEW i \in 1 .. n + 1 PROVE more[i] = Joined(s, more, i)
    <3>1. i # 1 => i - 1 \in 1 .. n
      OBVIOUS
    <3> QED BY <2>2, <3>1 DEF Joined
  <2> HIDE DEF more
  <2> QED BY <2>3
<1>4. Nat \subseteq Lengths
  <2> HIDE DEF Lengths
  <2> QED BY <1>2, <1>3, SetInduction
<1>5. PICK flat : \A i \in 1 .. Len(s) : flat[i] = Joined(s, flat, i)
  BY <1>1, <1>4
<1> DEFINE whole == [i \in 1 .. Len(s) |-> flat[i]]
<1>6. \A i \in 1 .. Len(s) : Joined(s, whole, i) = Joined(s, flat, i)
  BY <1>1 DEF Joined
<1>7. whole = [i \in 1 .. Len(s) |-> Joined(s, whole, i)]
  BY <1>5, <1>6
<1> QED BY <1>1, <1>7 DEF Flat

LEMMA FlatType ==
  ASSUME NEW T, NEW s \in Seq(Seq(T))
  PROVE  \A i \in 1 .. Len(s) : Flat(s)[i] \in Seq(T)
<1> DEFINE Lengths == {n \in Nat : n \in 1 .. Len(s) => Flat(s)[n] \in Seq(T)}
<1>1. /\ Len(s) \in Nat
      /\ \A i \in 1 .. Len(s) : s[i] \in Seq(T) /\ Flat(s)[i] = Joined(s, Flat(s), i)
  BY FlatExists, ElementOfSeq
<1>2. ASSUME NEW n \in Nat, n \in Lengths PROVE n + 1 \in Lengths
  <2> SUFFICES ASSUME n + 1 \in 1 .. Len(s) PROVE Flat(s)[n + 1] \in Seq(T)
    OBVIOUS
  <2>1. CASE n = 0
    BY <1>1, <2>1 DEF Joined
  <2>2. CASE n # 0
    <3>1. Flat(s)[n] \in Seq(T) /\ s[n + 1] \in Seq(T)
      BY <1>1, <1>2, <2>2
    <3>2. Flat(s)[n + 1] = Flat(s)[n] \o s[n + 1]
      BY <1>1, <2>2, JoinedNext
    <3> QED BY <3>1, <3>2, ConcatProperties
  <2> QED BY <2>1, <2>2
<1>3. Nat \subseteq Lengths
  <2>1. 0 \in Lengths
    OBVIOUS
  <2> HIDE DEF Lengths
  <2> QED BY <1>2, <2>1, SetInduction
<1> QED BY <1>1, <1>3

\* It is the same of two sequences as far as they agree.
LEMMA FlatAgree ==
  ASSUME NEW T, NEW s \in Seq(Seq(T)), NEW t \in Seq(Seq(T)), Len(s) <= Len(t),
         \A i \in 1 .. Len(s) : s[i] = t[i]
  PROVE  \A i \in 1 .. Len(s) : Flat(s)[i] = Flat(t)[i]
<1> DEFINE Lengths == {n \in Nat : n \in 1 .. Len(s) => Flat(s)[n] = Flat(t)[n]}
<1>1. /\ Len(s) \in Nat /\ Len(t) \in Nat
      /\ \A i \in 1 .. Len(s) : /\ Flat(s)[i] = Joined(s, Flat(s), i)
                                /\ Flat(t)[i] = Joined(t, Flat(t), i)
  BY FlatExists
<1>2. ASSUME NEW n \in Nat, n \in Lengths PROVE n + 1 \in Lengths
  <2> SUFFICES ASSUME n + 1 \in 1 .. Len(s) PROVE Flat(s)[n + 1] = Flat(t)[n + 1]
    OBVIOUS
  <2>1. n + 1 \in 1 .. Len(t) /\ s[n + 1] = t[n + 1]
    BY <1>1
  <2>2. CASE n = 0
    BY <1>1, <2>1, <2>2 DEF Joined
  <2>3. CASE n # 0
    <3>1. Flat(s)[n] = Flat(t)[n]
      BY <1>1, <1>2, <2>3
    <3>2. Flat(s)[n + 1] = Flat(s)[n] \o s[n + 1] /\ Flat(t)[n + 1] = Flat(t)[n] \o t[n + 1]
      BY <1>1, <2>1, <2>3, JoinedNext
    <3> QED BY <2>1, <3>1, <3>2
  <2> QED BY <2>2, <2>3
<1>3. Nat \subseteq Lengths
  <2>1. 0 \in Lengths
    OBVIOUS
  <2> HIDE DEF Lengths
  <2> QED BY <1>2, <2>1, SetInduction
<1> QED BY <1>1, <1>3

LEMMA FlattenEmpty == FlattenSeq(<< >>) = << >>
BY FlattenIsFlat

LEMMA FlattenType ==
  ASSUME NEW T, NEW s \in Seq(Seq(T))
  PROVE  FlattenSeq(s) \in Seq(T)
<1>1. Len(s) \in Nat /\ (Len(s) = 0 => s = << >>)
  BY EmptySeq, LenProperties
<1>2. Len(s) # 0 => Flat(s)[Len(s)] \in Seq(T)
  BY <1>1, FlatType
<1> QED BY <1>1, <1>2, FlattenIsFlat, EmptySeq

LEMMA FlattenAppend ==
  ASSUME NEW T, NEW s \in Seq(Seq(T)), NEW x \in Seq(T)
  PROVE  FlattenSeq(Append(s, x)) = FlattenSeq(s) \o x
<1> DEFINE t == Append(s, x)
           n == Len(s)
<1>1. /\ t \in Seq(Seq(T)) /\ n \in Nat /\ Len(t) = n + 1 /\ t[n + 1] = x
      /\ \A i \in 1 .. n : t[i] = s[i]
  BY AppendProperties, LenProperties
<1> HIDE DEF t, n
<1>2. FlattenSeq(t) = Joined(t, Flat(t), n + 1)
  BY <1>1, FlattenIsFlat, FlatExists
<1>3. CASE n = 0
  <2>1. s = << >> /\ FlattenSeq(s) = << >>
    BY <1>3, EmptySeq, FlattenEmpty DEF n
  <2> QED BY <1>1, <1>2, <1>3, <2>1, ConcatEmptySeq DEF Joined, t
<1>4. CASE n # 0
  <2>1. FlattenSeq(s) = Flat(s)[n]
    BY <1>1, <1>4, FlattenIsFlat DEF n
  <2>2. \A i \in 1 .. Len(s) : Flat(s)[i] = Flat(t)[i]
    <3>1. Len(s) <= Len(t)
      BY <1>1 DEF n
    <3> QED BY <1>1, <3>1, FlatAgree DEF n
  <2>3. Flat(s)[n] = Flat(t)[n]
    BY <1>1, <1>4, <2>2 DEF n
  <2>4. FlattenSeq(t) = Flat(t)[n] \o t[n + 1]
    BY <1>1, <1>2, <1>4, JoinedNext
  <2> QED BY <1>1, <2>1, <2>3, <2>4 DEF t
<1> QED BY <1>3, <1>4

LEMMA FlattenOne ==
  ASSUME NEW T, NEW x \in Seq(T)
  PROVE  FlattenSeq(<<x>>) = x
<1>1. << >> \in Seq(Seq(T)) /\ Append(<< >>, x) = <<x>>
  BY EmptySeq
<1>2. FlattenSeq(Append(<< >>, x)) = FlattenSeq(<< >>) \o x
  BY <1>1, FlattenAppend
<1> QED BY <1>1, <1>2, FlattenEmpty, ConcatEmptySeq

LEMMA FlattenConcat ==
  ASSUME NEW T, NEW s \in Seq(Seq(T)), NEW t \in Seq(Seq(T))
  PROVE  FlattenSeq(s \o t) = FlattenSeq(s) \o FlattenSeq(t)
<1> DEFINE Good == {u \in Seq(Seq(T)) : FlattenSeq(s \o u) = FlattenSeq(s) \o FlattenSeq(u)}
<1>1. << >> \in Good
  <2>1. s \o << >> = s /\ FlattenSeq(s) \o << >> = FlattenSeq(s)
    BY FlattenType, ConcatEmptySeq
  <2> QED BY <2>1, FlattenEmpty, EmptySeq
<1>2. ASSUME NEW u \in Seq(Seq(T)), NEW x \in Seq(T), u \in Good PROVE Append(u, x) \in Good
  <2>1. s \o Append(u, x) = Append(s \o u, x) /\ s \o u \in Seq(Seq(T)) /\ Append(u, x) \in Seq(Seq(T))
    <3>1. <<x>> \in Seq(Seq(T)) /\ Append(u, x) = u \o <<x>>
      BY AppendIsConcat
    <3>2. s \o u \in Seq(Seq(T))
      BY ConcatProperties
    <3>3. Append(s \o u, x) = (s \o u) \o <<x>>
      BY <3>2, AppendIsConcat
    <3>4. (s \o u) \o <<x>> = s \o (u \o <<x>>)
      BY ONLY <3>1, s \in Seq(Seq(T)), u \in Seq(Seq(T)), SMTT(120)
    <3> QED BY <3>1, <3>2, <3>3, <3>4, AppendProperties
  <2>2. FlattenSeq(s \o Append(u, x)) = (FlattenSeq(s) \o FlattenSeq(u)) \o x
    BY <1>2, <2>1, FlattenAppend
  <2>3. FlattenSeq(Append(u, x)) = FlattenSeq(u) \o x
    BY FlattenAppend
  <2>4. FlattenSeq(s) \in Seq(T) /\ FlattenSeq(u) \in Seq(T)
    BY FlattenType
  <2>5. (FlattenSeq(s) \o FlattenSeq(u)) \o x = FlattenSeq(s) \o (FlattenSeq(u) \o x)
    BY ONLY <2>4, x \in Seq(T), SMTT(120)
  <2> QED BY <2>1, <2>2, <2>3, <2>5
<1>3. Seq(Seq(T)) \subseteq Good
  <2> HIDE DEF Good
  <2> QED BY <1>1, <1>2, SeqInduction
<1> QED BY <1>3

-----------------------------------------------------------------------------
(***************************************************************************)
(* What a function makes of the elements of a sequence, one by one or one  *)
(* after the other.                                                        *)
(***************************************************************************)
Maps(f, T, U) == f \in [T -> U]
Each(f, s) == [i \in DOMAIN s |-> f[s[i]]]
Gather(f, s) == FlattenSeq(Each(f, s))

LEMMA EachType ==
  ASSUME NEW T, NEW U, NEW f, Maps(f, T, U), NEW s \in Seq(T)
  PROVE  /\ Each(f, s) \in Seq(U)
         /\ Len(Each(f, s)) = Len(s) /\ Len(s) \in Nat
         /\ DOMAIN s = 1 .. Len(s)
         /\ \A i \in 1 .. Len(s) : s[i] \in T /\ Each(f, s)[i] = f[s[i]]
<1>1. Len(s) \in Nat /\ DOMAIN s = 1 .. Len(s) /\ \A i \in 1 .. Len(s) : s[i] \in T
  BY LenProperties, ElementOfSeq
<1> QED BY <1>1, IsASeq, LenProperties DEF Each, Maps

LEMMA EachConcat ==
  ASSUME NEW T, NEW U, NEW f, Maps(f, T, U), NEW s \in Seq(T), NEW t \in Seq(T)
  PROVE  Each(f, s \o t) = Each(f, s) \o Each(f, t)
<1> DEFINE st == s \o t
           fs == Each(f, s)
           ft == Each(f, t)
           both == fs \o ft
<1>1. /\ st \in Seq(T) /\ Len(st) = Len(s) + Len(t)
      /\ \A i \in 1 .. Len(s) + Len(t) : st[i] = IF i <= Len(s) THEN s[i] ELSE t[i - Len(s)]
  BY ConcatProperties
<1>2. /\ fs \in Seq(U) /\ Len(fs) = Len(s) /\ Len(s) \in Nat
      /\ \A i \in 1 .. Len(s) : fs[i] = f[s[i]]
  BY EachType
<1>3. /\ ft \in Seq(U) /\ Len(ft) = Len(t) /\ Len(t) \in Nat
      /\ \A i \in 1 .. Len(t) : ft[i] = f[t[i]]
  BY EachType
<1> HIDE DEF st, fs, ft
<1>4. /\ both \in Seq(U)
      /\ Len(both) = Len(s) + Len(t)
      /\ \A i \in 1 .. Len(s) + Len(t) : both[i] = IF i <= Len(s) THEN fs[i] ELSE ft[i - Len(s)]
  <2>0. fs \in Seq(U) /\ ft \in Seq(U)
    BY <1>2, <1>3
  <2>1. /\ both \in Seq(U)
        /\ Len(both) = Len(fs) + Len(ft)
        /\ \A i \in 1 .. Len(fs) + Len(ft) : both[i] = IF i <= Len(fs) THEN fs[i] ELSE ft[i - Len(fs)]
    BY ONLY <2>0, ConcatProperties
  <2> HIDE DEF both
  <2> QED BY <1>2, <1>3, <2>1
<1>5. /\ Each(f, st) \in Seq(U) /\ Len(Each(f, st)) = Len(s) + Len(t)
      /\ \A i \in 1 .. Len(s) + Len(t) : Each(f, st)[i] = f[st[i]]
  <2>0. st \in Seq(T)
    BY <1>1
  <2>1. /\ Each(f, st) \in Seq(U) /\ Len(Each(f, st)) = Len(st)
        /\ \A i \in 1 .. Len(st) : Each(f, st)[i] = f[st[i]]
    BY ONLY <2>0, Maps(f, T, U), EachType
  <2> QED BY <1>1, <2>1
<1> HIDE DEF both
<1>6. ASSUME NEW i \in 1 .. Len(s) + Len(t) PROVE Each(f, st)[i] = both[i]
  <2>1. i > Len(s) => i - Len(s) \in 1 .. Len(t)
    BY <1>2, <1>3
  <2>2. i <= Len(s) => i \in 1 .. Len(s)
    BY <1>2, <1>3
  <2>3. Each(f, st)[i] = f[st[i]]
    BY <1>5
  <2>4. st[i] = (IF i <= Len(s) THEN s[i] ELSE t[i - Len(s)])
    BY <1>1
  <2>5. both[i] = (IF i <= Len(s) THEN fs[i] ELSE ft[i - Len(s)])
    BY <1>4
  <2>6. CASE i <= Len(s)
    BY <1>2, <2>2, <2>3, <2>4, <2>5, <2>6
  <2>7. CASE i > Len(s)
    <3>1. ~(i <= Len(s))
      BY <1>2, <1>3, <2>7
    <3>2. ft[i - Len(s)] = f[t[i - Len(s)]]
      BY <1>3, <2>1, <2>7
    <3> QED BY <2>3, <2>4, <2>5, <3>1, <3>2
  <2> QED BY <1>2, <1>3, <2>6, <2>7
<1>7. Each(f, st) = both
  BY <1>4, <1>5, <1>6, SeqEqual
<1> QED BY <1>7 DEF st, fs, ft, both

LEMMA GatherType ==
  ASSUME NEW T, NEW U, NEW f, Maps(f, T, Seq(U)), NEW s \in Seq(T)
  PROVE  Gather(f, s) \in Seq(U)
BY EachType, FlattenType DEF Gather

LEMMA GatherConcat ==
  ASSUME NEW T, NEW U, NEW f, Maps(f, T, Seq(U)), NEW s \in Seq(T), NEW t \in Seq(T)
  PROVE  /\ Gather(f, s) \in Seq(U) /\ Gather(f, t) \in Seq(U)
         /\ Gather(f, s \o t) = Gather(f, s) \o Gather(f, t)
<1>1. Each(f, s) \in Seq(Seq(U)) /\ Each(f, t) \in Seq(Seq(U))
  BY EachType
<1>2. Each(f, s \o t) = Each(f, s) \o Each(f, t)
  BY EachConcat
<1> QED BY <1>1, <1>2, FlattenConcat, FlattenType DEF Gather

LEMMA GatherOne ==
  ASSUME NEW T, NEW U, NEW f, Maps(f, T, Seq(U)), NEW x \in T
  PROVE  Gather(f, <<x>>) = f[x]
<1>1. Each(f, <<x>>) = <<f[x]>>
  BY DEF Each
<1>2. f[x] \in Seq(U)
  BY DEF Maps
<1> QED BY <1>1, <1>2, FlattenOne DEF Gather

LEMMA GatherAppend ==
  ASSUME NEW T, NEW U, NEW f, Maps(f, T, Seq(U)), NEW s \in Seq(T), NEW x \in T
  PROVE  Gather(f, Append(s, x)) = Gather(f, s) \o f[x]
<1> DEFINE one == <<x>>
<1>1. one \in Seq(T) /\ Append(s, x) = s \o one
  BY AppendIsConcat
<1>2. Gather(f, one) = f[x]
  BY GatherOne
<1> HIDE DEF one
<1>3. Gather(f, s \o one) = Gather(f, s) \o Gather(f, one)
  BY <1>1, GatherConcat
<1> QED BY <1>1, <1>2, <1>3

LEMMA GatherEmpty ==
  ASSUME NEW f
  PROVE  Gather(f, << >>) = << >>
<1>1. Each(f, << >>) = << >>
  BY DEF Each
<1> QED BY <1>1, FlattenEmpty DEF Gather

\* What it makes nothing of.
LEMMA GatherNone ==
  ASSUME NEW T, NEW U, NEW f, Maps(f, T, Seq(U)), \A x \in T : f[x] = << >>, NEW s \in Seq(T)
  PROVE  Gather(f, s) = << >>
<1> DEFINE Good == {r \in Seq(T) : Gather(f, r) = << >>}
<1>1. << >> \in Good
  BY GatherEmpty, EmptySeq
<1>2. ASSUME NEW r \in Seq(T), NEW x \in T, r \in Good PROVE Append(r, x) \in Good
  BY <1>2, GatherAppend, AppendProperties, ConcatEmptySeq
<1>3. Seq(T) \subseteq Good
  <2> HIDE DEF Good
  <2> QED BY <1>1, <1>2, SeqInduction
<1> QED BY <1>3

\* What it makes one thing each of.
LEMMA GatherSingles ==
  ASSUME NEW T, NEW U, NEW g, Maps(g, T, U), NEW s \in Seq(T)
  PROVE  Gather([x \in T |-> <<g[x]>>], s) = Each(g, s)
<1> DEFINE f == [x \in T |-> <<g[x]>>]
           Good == {r \in Seq(T) : Gather(f, r) = Each(g, r)}
<1>1. << >> \in Good
  <2>1. Each(g, << >>) = << >>
    BY DEF Each
  <2> QED BY <2>1, GatherEmpty, EmptySeq
<1>2. ASSUME NEW r \in Seq(T), NEW x \in T, r \in Good PROVE Append(r, x) \in Good
  <2>1. Maps(f, T, Seq(U)) /\ f[x] = <<g[x]>>
    BY DEF Maps
  <2>2. Gather(f, Append(r, x)) = Gather(f, r) \o <<g[x]>>
    <3>1. Gather(f, Append(r, x)) = Gather(f, r) \o f[x]
      <4> HIDE DEF f
      <4>1. Maps(f, T, Seq(U)) /\ r \in Seq(T) /\ x \in T
        BY <2>1
      <4> QED BY ONLY <4>1, GatherAppend
    <3> QED BY <2>1, <3>1
  <2> DEFINE one == <<x>>
  <2>3. one \in Seq(T) /\ Append(r, x) = r \o one /\ Append(r, x) \in Seq(T)
    BY AppendIsConcat, AppendProperties
  <2>4. Each(g, one) = <<g[x]>>
    BY DEF Each
  <2>5. Each(g, r \o one) = Each(g, r) \o Each(g, one)
    <3> HIDE DEF one
    <3> QED BY <2>3, EachConcat
  <2> QED BY <1>2, <2>2, <2>3, <2>4, <2>5
<1>3. Seq(T) \subseteq Good
  <2> HIDE DEF Good
  <2> QED BY <1>1, <1>2, SeqInduction
<1> QED BY <1>3

\* What another function makes of all that, one by one.
LEMMA EachOfGather ==
  ASSUME NEW T, NEW U, NEW V, NEW f, Maps(f, T, Seq(U)), NEW h, Maps(h, U, V),
         NEW s \in Seq(T)
  PROVE  Each(h, Gather(f, s)) = Gather([x \in T |-> Each(h, f[x])], s)
<1> DEFINE k == [x \in T |-> Each(h, f[x])]
           Good == {r \in Seq(T) : Each(h, Gather(f, r)) = Gather(k, r)}
<1>1. << >> \in Good
  <2>1. Each(h, << >>) = << >>
    BY DEF Each
  <2> QED BY <2>1, GatherEmpty, EmptySeq
<1>2. ASSUME NEW r \in Seq(T), NEW x \in T, r \in Good PROVE Append(r, x) \in Good
  <2>1. Maps(k, T, Seq(V)) /\ k[x] = Each(h, f[x])
    <3>1. \A y \in T : f[y] \in Seq(U)
      BY DEF Maps
    <3>2. \A y \in T : Each(h, f[y]) \in Seq(V)
      BY <3>1, EachType
    <3> QED BY <3>2 DEF Maps
  <2>2. Gather(k, Append(r, x)) = Gather(k, r) \o Each(h, f[x])
    <3> HIDE DEF k
    <3>1. Maps(k, T, Seq(V)) /\ r \in Seq(T) /\ x \in T
      BY <2>1
    <3>2. Gather(k, Append(r, x)) = Gather(k, r) \o k[x]
      BY ONLY <3>1, GatherAppend
    <3> QED BY <2>1, <3>2
  <2>3. Gather(f, Append(r, x)) = Gather(f, r) \o f[x] /\ Gather(f, r) \in Seq(U) /\ f[x] \in Seq(U)
    <3>1. f[x] \in Seq(U)
      BY DEF Maps
    <3>2. Gather(f, Append(r, x)) = Gather(f, r) \o f[x]
      BY GatherAppend
    <3>3. Gather(f, r) \in Seq(U)
      BY GatherType
    <3> QED BY <3>1, <3>2, <3>3
  <2>4. Each(h, Gather(f, r) \o f[x]) = Each(h, Gather(f, r)) \o Each(h, f[x])
    BY ONLY <2>3, Maps(h, U, V), EachConcat, SMTT(30)
  <2> QED BY <1>2, <2>2, <2>3, <2>4, AppendProperties
<1>3. Seq(T) \subseteq Good
  <2> HIDE DEF Good
  <2> QED BY <1>1, <1>2, SeqInduction
<1> QED BY <1>3

\* What it makes one thing of, or nothing, of the elements that are there.
LEMMA SinglesOf ==
  ASSUME NEW U, NEW u \in Seq(U), NEW f, NEW s, DOMAIN s = DOMAIN u,
         \A i \in DOMAIN u : f[s[i]] = <<u[i]>>
  PROVE  Gather(f, s) = u
<1> DEFINE same == [x \in U |-> x]
           single == [x \in U |-> <<same[x]>>]
<1>1. \A i \in DOMAIN u : u[i] \in U
  BY LenProperties, ElementOfSeq
<1>2. Each(f, s) = Each(single, u)
  BY <1>1 DEF Each
<1>3. Gather(single, u) = Each(same, u)
  <2>1. Maps(same, U, U)
    BY DEF Maps
  <2> HIDE DEF same
  <2> QED BY <2>1, GatherSingles
<1>4. Each(same, u) = u
  <2>1. \A i \in DOMAIN u : same[u[i]] = u[i]
    BY <1>1
  <2>2. u = [i \in DOMAIN u |-> u[i]]
    BY LenProperties
  <2> HIDE DEF same
  <2> QED BY <2>1, <2>2 DEF Each
<1> QED BY <1>2, <1>3, <1>4 DEF Gather

LEMMA NoneOf ==
  ASSUME NEW T, NEW U, NEW f, Maps(f, T, Seq(U)), NEW s \in Seq(T),
         \A i \in 1 .. Len(s) : f[s[i]] = << >>
  PROVE  Gather(f, s) = << >>
<1> DEFINE none == [x \in T |-> << >>]
<1>1. DOMAIN s = 1 .. Len(s) /\ \A i \in 1 .. Len(s) : s[i] \in T
  BY LenProperties, ElementOfSeq
<1>2. Each(f, s) = Each(none, s)
  BY <1>1 DEF Each
<1>3. Maps(none, T, Seq(U)) /\ \A x \in T : none[x] = << >>
  BY EmptySeq DEF Maps
<1> HIDE DEF none
<1>4. Gather(none, s) = << >>
  BY <1>3, GatherNone
<1> QED BY <1>2, <1>4 DEF Gather

LEMMA GatherInto ==
  ASSUME NEW T, NEW f, NEW V, NEW s \in Seq(T),
         \A i \in 1 .. Len(s) : f[s[i]] \in Seq(V)
  PROVE  Gather(f, s) \in Seq(V)
<1>1. DOMAIN s = 1 .. Len(s) /\ Len(s) \in Nat
  BY LenProperties
<1>2. Each(f, s) \in Seq(Seq(V))
  BY <1>1, IsASeq DEF Each
<1> QED BY <1>2, FlattenType DEF Gather

-----------------------------------------------------------------------------
(***************************************************************************)
(* The two translations of a conversation                                  *)
(***************************************************************************)
Ids == Nat \X Nat
Roles == {"system", "user", "assistant", "tool"}

\* The messages of a conversation: only the assistant calls tools, and a
\* system prompt is not blank.
Call == [id : Ids, arguments : Decoded]
AnyMessage == [role : Roles, content : Seq(Parts), calls : Seq(Call), id : Ids \union {<< >>}]
Messages == {m \in AnyMessage : /\ m.calls # << >> => m.role = "assistant"
                                /\ m.role = "system" => m.content # << >>}

\* What is sent of them: items of the one kind and messages of the other.
CallItem == [type : {"function_call"}, id : Ids, arguments : Encoded]
TextItem == [type : {"message"}, role : {"user", "assistant"}, text : Seq(Parts)]
OutputItem == [type : {"function_call_output"}, id : Ids \union {<< >>}, text : Seq(Parts)]
Items == CallItem \union TextItem \union OutputItem

Translated(m) ==
  [role |-> m.role, content |-> m.content,
   calls |-> CodexCalls(m.calls), id |-> IF m.role = "tool" THEN m.id ELSE << >>]

\* What that says.
SaidText == {"user", "assistant"} \X Seq(Parts)
SaidCall == {"call"} \X Ids \X Encoded
SaidOutput == {"output"} \X (Ids \union {<< >>}) \X Seq(Parts)
Sayings == SaidText \union SaidCall \union SaidOutput

Saying == [item \in Items |-> Says(item)]
Itemized == [m \in Messages |-> CodexItems(m)]
SayingOf == [m \in Messages |-> MessageSays(Translated(m))]
Conversation(ms) == Gather(SayingOf, ms)

LEMMA SayingMaps == Maps(Saying, Items, Sayings)
<1>1. \A item \in CallItem : Says(item) = <<"call", item.id, item.arguments>>
  BY DEF CallItem, Says
<1>2. \A item \in TextItem : Says(item) = <<item.role, item.text>>
  BY DEF TextItem, Says
<1>3. \A item \in OutputItem : Says(item) = <<"output", item.id, item.text>>
  BY DEF OutputItem, Says
<1>4. \A item \in CallItem : Says(item) \in SaidCall
  BY <1>1 DEF CallItem, SaidCall
<1>5. \A item \in TextItem : Says(item) \in SaidText
  BY <1>2 DEF TextItem, SaidText
<1>6. \A item \in OutputItem : Says(item) \in SaidOutput
  BY <1>3 DEF OutputItem, SaidOutput
<1>7. \A item \in Items : Says(item) \in Sayings
  BY <1>4, <1>5, <1>6 DEF Items, Sayings
<1> QED BY <1>7 DEF Maps, Saying

\* The calls of a message, and its text.
LEMMA CallsItems ==
  ASSUME NEW calls \in Seq(Call)
  PROVE  /\ CodexCalls(calls) \in Seq(CallItem)
         /\ Len(CodexCalls(calls)) = Len(calls)
         /\ \A i \in 1 .. Len(calls) :
              CodexCalls(calls)[i] = [type |-> "function_call", id |-> calls[i].id,
                                      arguments |-> Marshal(calls[i].arguments)]
<1>1. Len(calls) \in Nat /\ DOMAIN calls = 1 .. Len(calls) /\ \A i \in 1 .. Len(calls) : calls[i] \in Call
  BY LenProperties, ElementOfSeq
<1>2. \A a \in Decoded : Marshal(a) \in Encoded
  BY DEF Decoded, Encoded, Marshal
<1>3. \A c \in Call : [type |-> "function_call", id |-> c.id, arguments |-> Marshal(c.arguments)] \in CallItem
  BY <1>2 DEF Call, CallItem
<1>4. CodexCalls(calls) = [i \in 1 .. Len(calls) |->
         [type |-> "function_call", id |-> calls[i].id, arguments |-> Marshal(calls[i].arguments)]]
  BY <1>1 DEF CodexCalls
<1> QED BY <1>1, <1>3, <1>4, IsASeq, LenProperties

LEMMA TextItems ==
  ASSUME NEW role \in {"user", "assistant"}, NEW parts \in Seq(Parts)
  PROVE  /\ CodexText(role, parts) \in Seq(TextItem)
         /\ Each(Saying, CodexText(role, parts)) =
              IF parts = << >> THEN << >> ELSE << <<role, parts>> >>
<1>1. CASE parts = << >>
  <2>1. CodexText(role, parts) = << >> /\ Each(Saying, << >>) = << >>
    BY <1>1 DEF CodexText, Each
  <2> QED BY <1>1, <2>1, EmptySeq
<1>2. CASE parts # << >>
  <2> DEFINE item == [type |-> "message", role |-> role, text |-> parts]
  <2>1. item \in TextItem /\ item \in Items
    BY DEF TextItem, Items
  <2>2. Says(item) = <<role, parts>>
    BY DEF Says
  <2>3. CodexText(role, parts) = <<item>>
    BY <1>2 DEF CodexText
  <2>4. Saying[item] = <<role, parts>>
    BY <2>1, <2>2 DEF Saying
  <2> HIDE DEF item
  <2>5. Each(Saying, <<item>>) = <<Saying[item]>>
    BY DEF Each
  <2> QED BY <1>2, <2>1, <2>3, <2>4, <2>5
<1> QED BY <1>1, <1>2

\* The Codex items of a message say what the other message says.
LEMMA ItemsSay ==
  ASSUME NEW m \in Messages
  PROVE  /\ CodexItems(m) \in Seq(Items)
         /\ Each(Saying, CodexItems(m)) = MessageSays(Translated(m))
<1>1. m.role \in Roles /\ m.content \in Seq(Parts) /\ m.calls \in Seq(Call)
      /\ m.id \in Ids \union {<< >>} /\ (m.calls # << >> => m.role = "assistant")
  BY DEF Messages, AnyMessage
<1>2. /\ Translated(m).role = m.role /\ Translated(m).content = m.content
      /\ Translated(m).calls = CodexCalls(m.calls)
      /\ m.role = "tool" => Translated(m).id = m.id
  BY DEF Translated
<1>3. CASE m.role = "system"
  <2>1. CodexItems(m) = << >> /\ MessageSays(Translated(m)) = << >>
    BY <1>2, <1>3 DEF CodexItems, MessageSays
  <2>2. Each(Saying, << >>) = << >>
    BY DEF Each
  <2> QED BY <2>1, <2>2, EmptySeq
<1>4. CASE m.role = "tool"
  <2> DEFINE item == [type |-> "function_call_output", id |-> m.id, text |-> m.content]
  <2>1. CodexItems(m) = <<item>> /\ MessageSays(Translated(m)) = << <<"output", m.id, m.content>> >>
    BY <1>2, <1>4 DEF CodexItems, MessageSays
  <2>2. item \in Items
    BY <1>1 DEF OutputItem, Items
  <2>3. Saying[item] = <<"output", m.id, m.content>>
    BY <2>2 DEF Saying, Says
  <2> HIDE DEF item
  <2>4. Each(Saying, <<item>>) = <<Saying[item]>>
    BY DEF Each
  <2> QED BY <2>1, <2>2, <2>3, <2>4
<1>5. CASE m.role \in {"user", "assistant"}
  <2> DEFINE texts == CodexText(m.role, m.content)
             calls == CodexCalls(m.calls)
  <2>1. CodexItems(m) = texts \o calls
    BY <1>1, <1>5 DEF CodexItems
  <2>2. texts \in Seq(TextItem) /\ calls \in Seq(CallItem)
    BY <1>1, <1>5, TextItems, CallsItems
  <2>3. texts \in Seq(Items) /\ calls \in Seq(Items)
    BY <2>2, SeqMonotonic DEF Items
  <2>4. Each(Saying, texts) = IF m.content = << >> THEN << >> ELSE << <<m.role, m.content>> >>
    BY <1>1, <1>5, TextItems
  <2>5. MessageSays(Translated(m)) = Each(Saying, texts) \o [j \in DOMAIN calls |-> Says(calls[j])]
    <3> HIDE DEF texts
    <3> QED BY <1>2, <1>5, <2>4 DEF MessageSays
  <2> HIDE DEF texts, calls
  <2>6. [j \in DOMAIN calls |-> Says(calls[j])] = Each(Saying, calls)
    <3>1. DOMAIN calls = 1 .. Len(calls) /\ \A j \in 1 .. Len(calls) : calls[j] \in Items
      BY <2>3, LenProperties, ElementOfSeq
    <3>2. \A j \in DOMAIN calls : Saying[calls[j]] = Says(calls[j])
      BY <3>1 DEF Saying
    <3> QED BY <3>2 DEF Each
  <2>7. Each(Saying, texts \o calls) = Each(Saying, texts) \o Each(Saying, calls)
    BY <2>3, SayingMaps, EachConcat
  <2>8. texts \o calls \in Seq(Items)
    BY <2>3, ConcatProperties
  <2> QED BY <2>1, <2>5, <2>6, <2>7, <2>8
<1> QED BY <1>1, <1>3, <1>4, <1>5 DEF Roles

LEMMA SayingOfMaps == Maps(SayingOf, Messages, Seq(Sayings)) /\ Maps(Itemized, Messages, Seq(Items))
<1>1. ASSUME NEW m \in Messages PROVE CodexItems(m) \in Seq(Items) /\ MessageSays(Translated(m)) \in Seq(Sayings)
  BY ItemsSay, SayingMaps, EachType
<1> QED BY <1>1 DEF Maps, SayingOf, Itemized

\* Both requests say what the conversation says.
LEMMA RequestsSay ==
  ASSUME NEW ms \in Seq(Messages)
  PROVE  /\ CodexSays(BuildRequest(ms)) = Conversation(ms)
         /\ OpenAISays(TranslateOpenAIMessages(ms)) = Conversation(ms)
<1>1. Len(ms) \in Nat /\ DOMAIN ms = 1 .. Len(ms) /\ \A i \in 1 .. Len(ms) : ms[i] \in Messages
  BY LenProperties, ElementOfSeq
<1>2. CodexSays(BuildRequest(ms)) = Conversation(ms)
  <2> DEFINE items == Gather(Itemized, ms)
             saying == [m \in Messages |-> Each(Saying, Itemized[m])]
  <2>1. BuildRequest(ms).input = items
    <3>1. [i \in DOMAIN ms |-> CodexItems(ms[i])] = Each(Itemized, ms)
      BY <1>1 DEF Each, Itemized
    <3> QED BY <3>1 DEF BuildRequest, Collect, Gather
  <2>2. items \in Seq(Items)
    BY SayingOfMaps, GatherConcat
  <2> HIDE DEF items
  <2>3. CodexSays(BuildRequest(ms)) = Each(Saying, items)
    <3>1. DOMAIN items = 1 .. Len(items) /\ \A j \in 1 .. Len(items) : items[j] \in Items
      BY <2>2, LenProperties, ElementOfSeq
    <3>2. \A j \in DOMAIN items : Saying[items[j]] = Says(items[j])
      BY <3>1 DEF Saying
    <3> QED BY <2>1, <3>2 DEF Each, CodexSays
  <2>4. Each(Saying, items) = Gather(saying, ms)
    BY SayingMaps, SayingOfMaps, EachOfGather DEF items
  <2>5. saying = SayingOf
    BY ItemsSay DEF SayingOf, Itemized
  <2> QED BY <2>3, <2>4, <2>5 DEF Conversation
<1>3. OpenAISays(TranslateOpenAIMessages(ms)) = Conversation(ms)
  <2> DEFINE body == TranslateOpenAIMessages(ms)
  <2>1. DOMAIN body = DOMAIN ms /\ \A i \in DOMAIN ms : body[i] = Translated(ms[i])
    BY DEF TranslateOpenAIMessages, Translated
  <2> HIDE DEF body
  <2>2. [i \in DOMAIN body |-> MessageSays(body[i])] = Each(SayingOf, ms)
    BY <1>1, <2>1 DEF Each, SayingOf
  <2> QED BY <2>2 DEF OpenAISays, Collect, Gather, Conversation, body
<1> QED BY <1>2, <1>3

-----------------------------------------------------------------------------
(***************************************************************************)
(* The calls and the outputs in what is said                               *)
(***************************************************************************)
CallIn == [s \in Sayings |-> OneCall(s)]
OutputIn == [s \in Sayings |-> OneOutput(s)]

LEMMA Kinds ==
  /\ \A s \in SaidText : s[1] \in {"user", "assistant"} /\ s \in Sayings
  /\ \A s \in SaidCall : s[1] = "call" /\ s \in Sayings
  /\ \A s \in SaidOutput : s[1] = "output" /\ s \in Sayings
BY DEF SaidText, SaidCall, SaidOutput, Sayings

LEMMA PickMaps == Maps(CallIn, Sayings, Seq(Sayings)) /\ Maps(OutputIn, Sayings, Seq(Sayings))
<1>1. ASSUME NEW s \in Sayings PROVE OneCall(s) \in Seq(Sayings) /\ OneOutput(s) \in Seq(Sayings)
  BY EmptySeq DEF OneCall, OneOutput
<1> QED BY <1>1 DEF Maps, CallIn, OutputIn

LEMMA SaidIs ==
  ASSUME NEW said \in Seq(Sayings)
  PROVE  SaidCalls(said) = Gather(CallIn, said) /\ SaidOutputs(said) = Gather(OutputIn, said)
<1>1. DOMAIN said = 1 .. Len(said) /\ \A i \in 1 .. Len(said) : said[i] \in Sayings
  BY LenProperties, ElementOfSeq
<1>2. [i \in DOMAIN said |-> OneCall(said[i])] = Each(CallIn, said)
  BY <1>1 DEF Each, CallIn
<1>3. [i \in DOMAIN said |-> OneOutput(said[i])] = Each(OutputIn, said)
  BY <1>1 DEF Each, OutputIn
<1> QED BY <1>2, <1>3 DEF SaidCalls, SaidOutputs, Collect, Gather

LEMMA GatherSayings ==
  ASSUME NEW f, Maps(f, Sayings, Seq(Sayings)), NEW a \in Seq(Sayings), NEW b \in Seq(Sayings)
  PROVE  Gather(f, a) \in Seq(Sayings) /\ Gather(f, a \o b) = Gather(f, a) \o Gather(f, b)
<1>1. Each(f, a) \in Seq(Seq(Sayings)) /\ Each(f, b) \in Seq(Seq(Sayings))
  BY EachType
<1>2. Each(f, a \o b) = Each(f, a) \o Each(f, b)
  BY EachConcat
<1> QED BY <1>1, <1>2, FlattenConcat, FlattenType DEF Gather

LEMMA SaidConcat ==
  ASSUME NEW a \in Seq(Sayings), NEW b \in Seq(Sayings)
  PROVE  /\ a \o b \in Seq(Sayings)
         /\ SaidCalls(a) \in Seq(Sayings) /\ SaidOutputs(a) \in Seq(Sayings)
         /\ SaidCalls(a \o b) = SaidCalls(a) \o SaidCalls(b)
         /\ SaidOutputs(a \o b) = SaidOutputs(a) \o SaidOutputs(b)
<1> DEFINE ab == a \o b
<1>1. ab \in Seq(Sayings)
  BY ConcatProperties
<1>2. Gather(CallIn, ab) = Gather(CallIn, a) \o Gather(CallIn, b) /\ Gather(CallIn, a) \in Seq(Sayings)
  BY PickMaps, GatherSayings
<1>3. Gather(OutputIn, ab) = Gather(OutputIn, a) \o Gather(OutputIn, b) /\ Gather(OutputIn, a) \in Seq(Sayings)
  BY PickMaps, GatherSayings
<1> HIDE DEF ab
<1>4. SaidCalls(ab) = SaidCalls(a) \o SaidCalls(b) /\ SaidOutputs(ab) = SaidOutputs(a) \o SaidOutputs(b)
  BY <1>1, <1>2, <1>3, SaidIs
<1> QED BY <1>1, <1>2, <1>3, <1>4, SaidIs DEF ab

\* What is of one kind.
LEMMA SaidOfCalls ==
  ASSUME NEW said \in Seq(SaidCall)
  PROVE  /\ said \in Seq(Sayings)
         /\ SaidCalls(said) = said /\ SaidOutputs(said) = << >>
<1>1. said \in Seq(Sayings) /\ Len(said) \in Nat /\ \A i \in 1 .. Len(said) : said[i] \in SaidCall
  BY SeqMonotonic, LenProperties, ElementOfSeq DEF Sayings
<1>2. \A i \in 1 .. Len(said) : CallIn[said[i]] = <<said[i]>> /\ OutputIn[said[i]] = << >>
  BY <1>1, Kinds DEF CallIn, OutputIn, OneCall, OneOutput
<1>3. Gather(CallIn, said) = said
  <2>1. DOMAIN said = 1 .. Len(said)
    BY <1>1, LenProperties
  <2> QED BY <1>1, <1>2, <2>1, SinglesOf
<1>4. Gather(OutputIn, said) = << >>
  BY <1>1, <1>2, PickMaps, NoneOf
<1> QED BY <1>1, <1>3, <1>4, SaidIs

LEMMA SaidOfOutputs ==
  ASSUME NEW said \in Seq(SaidOutput)
  PROVE  /\ said \in Seq(Sayings)
         /\ SaidCalls(said) = << >> /\ SaidOutputs(said) = said
<1>1. said \in Seq(Sayings) /\ Len(said) \in Nat /\ \A i \in 1 .. Len(said) : said[i] \in SaidOutput
  BY SeqMonotonic, LenProperties, ElementOfSeq DEF Sayings
<1>2. \A i \in 1 .. Len(said) : OutputIn[said[i]] = <<said[i]>> /\ CallIn[said[i]] = << >>
  BY <1>1, Kinds DEF CallIn, OutputIn, OneCall, OneOutput
<1>3. Gather(OutputIn, said) = said
  <2>1. DOMAIN said = 1 .. Len(said)
    BY <1>1, LenProperties
  <2> QED BY <1>1, <1>2, <2>1, SinglesOf
<1>4. Gather(CallIn, said) = << >>
  BY <1>1, <1>2, PickMaps, NoneOf
<1> QED BY <1>1, <1>3, <1>4, SaidIs

LEMMA SaidOfTexts ==
  ASSUME NEW said \in Seq(SaidText)
  PROVE  /\ said \in Seq(Sayings) /\ Paired(said)
         /\ SaidCalls(said) = << >> /\ SaidOutputs(said) = << >>
<1>1. said \in Seq(Sayings) /\ Len(said) \in Nat /\ \A i \in 1 .. Len(said) : said[i] \in SaidText
  BY SeqMonotonic, LenProperties, ElementOfSeq DEF Sayings
<1>2. \A i \in 1 .. Len(said) : OutputIn[said[i]] = << >> /\ CallIn[said[i]] = << >>
  BY <1>1, Kinds DEF CallIn, OutputIn, OneCall, OneOutput
<1>3. Gather(OutputIn, said) = << >> /\ Gather(CallIn, said) = << >>
  BY <1>1, <1>2, PickMaps, NoneOf
<1>4. SaidCalls(said) = << >> /\ SaidOutputs(said) = << >>
  BY <1>1, <1>3, SaidIs
<1>5. DOMAIN said = 1 .. Len(said) /\ \A i \in 1 .. Len(said) : said[i][1] \notin {"call", "output"}
  BY <1>1, LenProperties, Kinds
<1>6. Len(<< >>) = 0 /\ DOMAIN << >> = {}
  OBVIOUS
<1> QED BY <1>1, <1>4, <1>5, <1>6 DEF Paired

\* Pairs of calls and outputs, one behind the other.
LEMMA PairedConcat ==
  ASSUME NEW a \in Seq(Sayings), NEW b \in Seq(Sayings), Paired(a), Paired(b)
  PROVE  Paired(a \o b)
<1> DEFINE ab == a \o b
           ca == SaidCalls(a)
           cb == SaidCalls(b)
           oa == SaidOutputs(a)
           ob == SaidOutputs(b)
           calls == ca \o cb
           outputs == oa \o ob
<1>1. SaidCalls(ab) = calls /\ SaidOutputs(ab) = outputs
  BY SaidConcat
<1>2. ca \in Seq(Sayings) /\ cb \in Seq(Sayings) /\ oa \in Seq(Sayings) /\ ob \in Seq(Sayings)
  BY SaidConcat
<1>3. /\ Len(ca) = Len(oa) /\ DOMAIN ca = 1 .. Len(ca) /\ Len(ca) \in Nat
      /\ Len(cb) = Len(ob) /\ DOMAIN cb = 1 .. Len(cb) /\ Len(cb) \in Nat
      /\ \A i \in 1 .. Len(ca) : ca[i][2] = oa[i][2]
      /\ \A i \in 1 .. Len(cb) : cb[i][2] = ob[i][2]
  BY <1>2, LenProperties DEF Paired
<1>4. /\ Len(a) \in Nat /\ DOMAIN a = 1 .. Len(a)
      /\ Len(b) \in Nat /\ DOMAIN b = 1 .. Len(b)
      /\ Len(ab) = Len(a) + Len(b) /\ DOMAIN ab = 1 .. Len(a) + Len(b)
      /\ \A i \in 1 .. Len(a) + Len(b) : ab[i] = IF i <= Len(a) THEN a[i] ELSE b[i - Len(a)]
  BY SaidConcat, ConcatProperties, LenProperties
<1> HIDE DEF ab, ca, cb, oa, ob
<1>5. /\ Len(calls) = Len(ca) + Len(cb) /\ DOMAIN calls = 1 .. Len(ca) + Len(cb)
      /\ \A i \in 1 .. Len(ca) + Len(cb) : calls[i] = IF i <= Len(ca) THEN ca[i] ELSE cb[i - Len(ca)]
  BY ONLY <1>2, ConcatProperties, LenProperties
<1>6. /\ Len(outputs) = Len(oa) + Len(ob)
      /\ \A i \in 1 .. Len(oa) + Len(ob) : outputs[i] = IF i <= Len(oa) THEN oa[i] ELSE ob[i - Len(oa)]
  BY ONLY <1>2, ConcatProperties
<1> HIDE DEF calls, outputs
<1>7. Len(calls) = Len(outputs) /\ \A i \in DOMAIN calls : calls[i][2] = outputs[i][2]
  <2>1. Len(calls) = Len(outputs)
    BY <1>3, <1>5, <1>6
  <2>2. ASSUME NEW i \in 1 .. Len(ca) + Len(cb) PROVE calls[i][2] = outputs[i][2]
    <3>1. CASE i <= Len(ca)
      BY <1>3, <1>5, <1>6, <3>1
    <3>2. CASE ~(i <= Len(ca))
      <4>1. i - Len(ca) \in 1 .. Len(cb)
        BY <1>3, <3>2
      <4> QED BY <1>3, <1>5, <1>6, <3>2, <4>1
    <3> QED BY <3>1, <3>2
  <2> QED BY <1>5, <2>1, <2>2
<1>8. ASSUME NEW i \in DOMAIN ab, ab[i][1] = "output"
      PROVE  i > 1 /\ ab[i - 1][1] \in {"call", "output"}
  <2>1. CASE i <= Len(a)
    <3>1. i \in 1 .. Len(a) /\ ab[i] = a[i]
      BY <1>4, <2>1
    <3>2. i > 1 /\ a[i - 1][1] \in {"call", "output"}
      BY <1>4, <1>8, <3>1 DEF Paired
    <3> QED BY <1>4, <3>1, <3>2
  <2>2. CASE ~(i <= Len(a))
    <3> DEFINE k == i - Len(a)
    <3>1. k \in 1 .. Len(b) /\ ab[i] = b[k]
      BY <1>4, <2>2
    <3>2. k > 1 /\ b[k - 1][1] \in {"call", "output"}
      BY <1>4, <1>8, <3>1 DEF Paired
    <3>3. i - 1 \in 1 .. Len(a) + Len(b) /\ ~(i - 1 <= Len(a)) /\ (i - 1) - Len(a) = k - 1
      BY <1>4, <3>1, <3>2
    <3>4. ab[i - 1] = b[k - 1]
      BY <1>4, <3>3
    <3> QED BY <1>4, <3>1, <3>2, <3>4
  <2> QED BY <2>1, <2>2
<1>9. ASSUME NEW i \in DOMAIN ab, ab[i][1] = "call"
      PROVE  i < Len(ab) /\ ab[i + 1][1] \in {"call", "output"}
  <2>1. CASE i <= Len(a)
    <3>1. i \in 1 .. Len(a) /\ ab[i] = a[i]
      BY <1>4, <2>1
    <3>2. i < Len(a) /\ a[i + 1][1] \in {"call", "output"}
      BY <1>4, <1>9, <3>1 DEF Paired
    <3>3. i + 1 \in 1 .. Len(a) + Len(b) /\ i + 1 <= Len(a)
      BY <1>4, <3>1, <3>2
    <3>4. ab[i + 1] = a[i + 1]
      BY <1>4, <3>3
    <3> QED BY <1>4, <3>2, <3>4
  <2>2. CASE ~(i <= Len(a))
    <3> DEFINE k == i - Len(a)
    <3>1. k \in 1 .. Len(b) /\ ab[i] = b[k]
      BY <1>4, <2>2
    <3>2. k < Len(b) /\ b[k + 1][1] \in {"call", "output"}
      BY <1>4, <1>9, <3>1 DEF Paired
    <3>3. i + 1 \in 1 .. Len(a) + Len(b) /\ ~(i + 1 <= Len(a)) /\ (i + 1) - Len(a) = k + 1
      BY <1>4, <2>2, <3>1, <3>2
    <3>4. ab[i + 1] = b[k + 1]
      BY <1>4, <3>3
    <3> QED BY <1>4, <3>1, <3>2, <3>4
  <2> QED BY <2>1, <2>2
<1>10. Paired(ab)
  BY <1>1, <1>7, <1>8, <1>9 DEF Paired
<1> QED BY <1>10 DEF ab

\* One response and its outputs.
LEMMA PairedRound ==
  ASSUME NEW texts \in Seq(SaidText), NEW calls \in Seq(SaidCall), NEW outputs \in Seq(SaidOutput),
         Len(calls) = Len(outputs), \A i \in 1 .. Len(calls) : calls[i][2] = outputs[i][2]
  PROVE  /\ calls \o outputs \in Seq(Sayings) /\ texts \in Seq(Sayings)
         /\ texts \o (calls \o outputs) \in Seq(Sayings)
         /\ Paired(texts \o (calls \o outputs))
         /\ SaidCalls(texts \o (calls \o outputs)) = calls
<1> DEFINE pairs == calls \o outputs
<1>1. /\ calls \in Seq(Sayings) /\ outputs \in Seq(Sayings)
      /\ SaidCalls(calls) = calls /\ SaidOutputs(calls) = << >>
      /\ SaidCalls(outputs) = << >> /\ SaidOutputs(outputs) = outputs
  BY SaidOfCalls, SaidOfOutputs
<1>2. texts \in Seq(Sayings) /\ Paired(texts) /\ SaidCalls(texts) = << >>
  BY SaidOfTexts
<1>3. calls \o << >> = calls /\ << >> \o outputs = outputs /\ << >> \o calls = calls
  BY ConcatEmptySeq
<1>4. pairs \in Seq(Sayings) /\ SaidCalls(pairs) = calls /\ SaidOutputs(pairs) = outputs
  <2>1. pairs \in Seq(Sayings)
    BY <1>1, SaidConcat
  <2>2. SaidCalls(pairs) = SaidCalls(calls) \o SaidCalls(outputs)
    BY <1>1, SaidConcat
  <2>3. SaidOutputs(pairs) = SaidOutputs(calls) \o SaidOutputs(outputs)
    BY <1>1, SaidConcat
  <2> HIDE DEF pairs
  <2> QED BY <1>1, <1>3, <2>1, <2>2, <2>3
<1>5. /\ Len(calls) \in Nat /\ DOMAIN calls = 1 .. Len(calls)
      /\ \A i \in 1 .. Len(calls) : calls[i][1] = "call" /\ outputs[i][1] = "output"
  BY LenProperties, ElementOfSeq, Kinds
<1>6. /\ Len(pairs) = Len(calls) + Len(calls) /\ DOMAIN pairs = 1 .. Len(calls) + Len(calls)
      /\ \A i \in 1 .. Len(calls) + Len(calls) :
           pairs[i] = IF i <= Len(calls) THEN calls[i] ELSE outputs[i - Len(calls)]
  <2>1. /\ Len(pairs) = Len(calls) + Len(outputs)
        /\ \A i \in 1 .. Len(calls) + Len(outputs) :
             pairs[i] = IF i <= Len(calls) THEN calls[i] ELSE outputs[i - Len(calls)]
    BY <1>1, ConcatProperties
  <2> HIDE DEF pairs
  <2>2. DOMAIN pairs = 1 .. Len(pairs)
    BY <1>4, LenProperties
  <2> QED BY <2>1, <2>2
<1> HIDE DEF pairs
<1>7. \A i \in 1 .. Len(calls) + Len(calls) : pairs[i][1] = IF i <= Len(calls) THEN "call" ELSE "output"
  <2> SUFFICES ASSUME NEW i \in 1 .. Len(calls) + Len(calls)
               PROVE  pairs[i][1] = IF i <= Len(calls) THEN "call" ELSE "output"
    OBVIOUS
  <2>1. CASE i <= Len(calls)
    BY <1>5, <1>6, <2>1
  <2>2. CASE ~(i <= Len(calls))
    <3>1. i - Len(calls) \in 1 .. Len(calls)
      BY <1>5, <2>2
    <3> QED BY <1>5, <1>6, <2>2, <3>1
  <2> QED BY <2>1, <2>2
<1>8. Paired(pairs)
  <2>1. ASSUME NEW i \in DOMAIN pairs, pairs[i][1] = "output"
        PROVE  i > 1 /\ pairs[i - 1][1] \in {"call", "output"}
    BY <1>5, <1>6, <1>7, <2>1
  <2>2. ASSUME NEW i \in DOMAIN pairs, pairs[i][1] = "call"
        PROVE  i < Len(pairs) /\ pairs[i + 1][1] \in {"call", "output"}
    BY <1>5, <1>6, <1>7, <2>2
  <2> QED BY <1>4, <1>5, <2>1, <2>2 DEF Paired
<1>9. texts \o pairs \in Seq(Sayings) /\ SaidCalls(texts \o pairs) = << >> \o calls
  <2>1. texts \o pairs \in Seq(Sayings)
    BY <1>2, <1>4, SaidConcat
  <2>2. SaidCalls(texts \o pairs) = SaidCalls(texts) \o SaidCalls(pairs)
    BY <1>2, <1>4, SaidConcat
  <2> QED BY <1>2, <1>4, <2>1, <2>2
<1>10. Paired(texts \o pairs)
  BY <1>2, <1>4, <1>8, PairedConcat
<1> QED BY <1>2, <1>3, <1>4, <1>9, <1>10 DEF pairs

-----------------------------------------------------------------------------
(***************************************************************************)
(* A response and its outputs join the conversation                        *)
(***************************************************************************)
\* What a server may write: items it is asked for, whatever their number.
CallWritten == [type : {"function_call"}, id : Ids, arguments : Written]
Response == [type : {"message"}, text : Texts] \union CallWritten \union [type : {"other"}]

\* How a call comes back.
Back(c) == <<"call", c.id, Marshal(Unmarshal(c.arguments))>>
BackOf == [c \in CallWritten |-> Back(c)]

CallsIn == [item \in Response |-> CallOf(item)]
TextsIn == [item \in Response |-> TextOf(item)]

LEMMA OutputType ==
  ASSUME round \in Nat, NEW output \in Outputs(round)
  PROVE  output \in Seq(Response)
<1>1. PICK n \in Nat : output \in [1 .. n -> UNION {Item(round, i) : i \in 1 .. n}]
  BY BoundAssumption DEF Outputs
<1>2. ASSUME NEW i \in 1 .. n PROVE output[i] \in Response
  <2>1. output[i] \in Item(round, i) /\ i \in Nat
    BY <1>1 DEF Outputs
  <2>2. <<round, i>> \in Ids
    BY <2>1 DEF Ids
  <2> QED BY <2>1, <2>2 DEF Item, Response, CallWritten
<1> QED BY <1>1, <1>2, IsASeq

LEMMA TextsAreParts ==
  ASSUME NEW parts \in Texts
  PROVE  parts \in Seq(Parts)
<1>1. CASE parts = << >>
  BY <1>1, EmptySeq
<1>2. CASE parts # << >>
  <2>1. PICK p \in Parts : parts = <<p>>
    BY <1>2 DEF Texts
  <2> QED BY <2>1
<1> QED BY <1>1, <1>2

LEMMA ResponseMaps ==
  /\ Maps(CallsIn, Response, Seq(CallWritten))
  /\ Maps(TextsIn, Response, Seq(Parts))
<1>1. ASSUME NEW item \in Response PROVE CallOf(item) \in Seq(CallWritten) /\ TextOf(item) \in Seq(Parts)
  <2>1. << >> \in Seq(Parts) /\ \A parts \in Texts : parts \in Seq(Parts)
    BY EmptySeq, TextsAreParts
  <2>2. CASE item \in CallWritten
    BY <2>1, <2>2 DEF CallWritten, CallOf, TextOf
  <2>3. CASE item \notin CallWritten
    <3>1. item.type # "function_call" /\ (item.type = "message" => item.text \in Texts)
      BY <2>3 DEF Response
    <3> QED BY <2>1, <3>1, EmptySeq DEF CallOf, TextOf
  <2> QED BY <2>2, <2>3
<1> QED BY <1>1 DEF Maps, CallsIn, TextsIn

LEMMA ResponseType ==
  ASSUME NEW output \in Seq(Response)
  PROVE  Calls(output) \in Seq(CallWritten) /\ Content(output) \in Seq(Parts)
<1>1. DOMAIN output = 1 .. Len(output) /\ \A i \in 1 .. Len(output) : output[i] \in Response
  BY LenProperties, ElementOfSeq
<1>2. [i \in DOMAIN output |-> CallOf(output[i])] = Each(CallsIn, output)
  BY <1>1 DEF Each, CallsIn
<1>3. [i \in DOMAIN output |-> TextOf(output[i])] = Each(TextsIn, output)
  BY <1>1 DEF Each, TextsIn
<1>4. Gather(CallsIn, output) \in Seq(CallWritten) /\ Gather(TextsIn, output) \in Seq(Parts)
  BY ResponseMaps, GatherConcat
<1> QED BY <1>2, <1>3, <1>4 DEF Calls, Content, Collect, Gather

LEMMA BackMaps == Maps(BackOf, CallWritten, SaidCall)
<1>1. \A a \in Written : Marshal(Unmarshal(a)) \in Encoded
  BY DEF Written, Encoded, Marshal, Unmarshal
<1>2. \A c \in CallWritten : Back(c) \in SaidCall
  BY <1>1 DEF CallWritten, SaidCall, Back
<1> QED BY <1>2 DEF Maps, BackOf

\* The calls as the provider returns them, and as they come back.
LEMMA CallsBack ==
  ASSUME NEW output \in Seq(Response)
  PROVE  LET calls == ToolCalls(output)
         IN  /\ calls \in Seq(Call) /\ Len(calls) = Len(Calls(output)) /\ Len(calls) \in Nat
             /\ Each(BackOf, Calls(output)) \in Seq(SaidCall)
             /\ Len(Each(BackOf, Calls(output))) = Len(calls)
             /\ \A i \in 1 .. Len(calls) :
                  /\ calls[i] \in Call
                  /\ Each(BackOf, Calls(output))[i] = <<"call", calls[i].id, Marshal(calls[i].arguments)>>
<1> DEFINE written == Calls(output)
           calls == ToolCalls(output)
<1>1. /\ written \in Seq(CallWritten) /\ Len(written) \in Nat /\ DOMAIN written = 1 .. Len(written)
      /\ \A i \in 1 .. Len(written) : written[i] \in CallWritten
  BY ResponseType, LenProperties, ElementOfSeq
<1>2. calls = [i \in 1 .. Len(written) |-> [id |-> written[i].id, arguments |-> Unmarshal(written[i].arguments)]]
  BY <1>1 DEF ToolCalls
<1> HIDE DEF written, calls
<1>3. \A a \in Written : Unmarshal(a) \in Decoded
  BY DEF Written, Decoded, Unmarshal
<1>4. /\ calls \in Seq(Call) /\ Len(calls) = Len(written)
      /\ \A i \in 1 .. Len(written) :
           /\ calls[i] \in Call
           /\ calls[i].id = written[i].id /\ calls[i].arguments = Unmarshal(written[i].arguments)
  <2>1. \A c \in CallWritten : [id |-> c.id, arguments |-> Unmarshal(c.arguments)] \in Call
    BY <1>3 DEF CallWritten, Call
  <2> QED BY <1>1, <1>2, <2>1, IsASeq, LenProperties
<1>5. Maps(BackOf, CallWritten, SaidCall) /\ \A c \in CallWritten : BackOf[c] = Back(c)
  BY BackMaps DEF BackOf
<1>6. /\ Each(BackOf, written) \in Seq(SaidCall) /\ Len(Each(BackOf, written)) = Len(written)
      /\ \A i \in 1 .. Len(written) : Each(BackOf, written)[i] = BackOf[written[i]]
  BY <1>1, <1>5, EachType
<1>7. \A i \in 1 .. Len(written) :
        Each(BackOf, written)[i] = <<"call", calls[i].id, Marshal(calls[i].arguments)>>
  BY <1>1, <1>4, <1>5, <1>6 DEF Back
<1> QED BY <1>1, <1>4, <1>6, <1>7 DEF written, calls

LEMMA ConversationConcat ==
  ASSUME NEW a \in Seq(Messages), NEW b \in Seq(Messages)
  PROVE  /\ Conversation(a) \in Seq(Sayings)
         /\ Conversation(a \o b) = Conversation(a) \o Conversation(b)
<1>1. Each(SayingOf, a) \in Seq(Seq(Sayings)) /\ Each(SayingOf, b) \in Seq(Seq(Sayings))
  BY SayingOfMaps, EachType
<1>2. Each(SayingOf, a \o b) = Each(SayingOf, a) \o Each(SayingOf, b)
  BY SayingOfMaps, EachConcat
<1> QED BY <1>1, <1>2, FlattenConcat, FlattenType DEF Conversation, Gather

\* The message with the calls.
LEMMA ResponseSays ==
  ASSUME NEW output \in Seq(Response)
  PROVE  LET m == [Message("assistant", Content(output)) EXCEPT !.calls = ToolCalls(output)]
         IN  /\ m \in Messages /\ m.role = "assistant"
             /\ \E texts \in Seq(SaidText) :
                  Conversation(<<m>>) = texts \o Each(BackOf, Calls(output))
<1> DEFINE calls == ToolCalls(output)
           parts == Content(output)
           m == [Message("assistant", parts) EXCEPT !.calls = calls]
           back == Each(BackOf, Calls(output))
           texts == IF parts = << >> THEN << >> ELSE << <<"assistant", parts>> >>
<1>1. calls \in Seq(Call) /\ parts \in Seq(Parts)
  BY CallsBack, ResponseType
<1>2. /\ back \in Seq(SaidCall) /\ Len(back) = Len(calls)
      /\ \A i \in 1 .. Len(calls) : back[i] = <<"call", calls[i].id, Marshal(calls[i].arguments)>>
  BY CallsBack
<1> HIDE DEF calls, parts, back
<1>3. m = [role |-> "assistant", content |-> parts, calls |-> calls, id |-> << >>]
  BY DEF Message
<1>4. m \in Messages /\ m.role = "assistant" /\ m.content = parts /\ m.calls = calls
  BY <1>1, <1>3 DEF Messages, AnyMessage, Roles
<1> HIDE DEF m
<1>5. MessageSays(Translated(m)) = texts \o [j \in DOMAIN CodexCalls(calls) |-> Says(CodexCalls(calls)[j])]
  BY <1>4 DEF MessageSays, Translated
<1>6. [j \in DOMAIN CodexCalls(calls) |-> Says(CodexCalls(calls)[j])] = back
  <2>1. /\ Len(calls) \in Nat /\ DOMAIN CodexCalls(calls) = 1 .. Len(calls)
        /\ \A i \in 1 .. Len(calls) :
             CodexCalls(calls)[i] = [type |-> "function_call", id |-> calls[i].id,
                                     arguments |-> Marshal(calls[i].arguments)]
    BY <1>1, CallsItems, LenProperties
  <2>2. \A id, a : Says([type |-> "function_call", id |-> id, arguments |-> a]) = <<"call", id, a>>
    BY DEF Says
  <2>3. ASSUME NEW i \in 1 .. Len(calls) PROVE Says(CodexCalls(calls)[i]) = back[i]
    <3>1. Says(CodexCalls(calls)[i]) = <<"call", calls[i].id, Marshal(calls[i].arguments)>>
      BY <2>1, <2>2
    <3> QED BY <1>2, <3>1
  <2>4. back = [i \in 1 .. Len(calls) |-> back[i]]
    BY <1>2, LenProperties
  <2> QED BY <2>1, <2>3, <2>4
<1>7. texts \in Seq(SaidText)
  <2>1. <<"assistant", parts>> \in SaidText
    BY <1>1 DEF SaidText
  <2>2. << <<"assistant", parts>> >> \in Seq(SaidText) /\ << >> \in Seq(SaidText)
    BY <2>1, EmptySeq
  <2> QED BY <2>2
<1> HIDE DEF texts
<1>8. Conversation(<<m>>) = texts \o back
  <2> DEFINE one == <<m>>
  <2>1. Each(SayingOf, one) = <<SayingOf[m]>>
    BY DEF Each
  <2>2. SayingOf[m] = texts \o back /\ SayingOf[m] \in Seq(Sayings)
    BY <1>4, <1>5, <1>6, SayingOfMaps DEF SayingOf, Maps
  <2>3. FlattenSeq(<<SayingOf[m]>>) = SayingOf[m]
    BY <2>2, FlattenOne
  <2> QED BY <2>1, <2>2, <2>3 DEF Conversation, Gather
<1> QED BY <1>4, <1>7, <1>8 DEF m, calls, parts, back

\* The outputs of the tools.
LEMMA OutputsSay ==
  ASSUME NEW calls \in Seq(Call), NEW parts \in Texts
  PROVE  LET tools == [i \in DOMAIN calls |-> [Message("tool", parts) EXCEPT !.id = calls[i].id]]
         IN  /\ tools \in Seq(Messages) /\ Len(tools) = Len(calls)
             /\ \A i \in 1 .. Len(calls) : tools[i].role = "tool"
             /\ Conversation(tools) \in Seq(SaidOutput)
             /\ Len(Conversation(tools)) = Len(calls)
             /\ \A i \in 1 .. Len(calls) : Conversation(tools)[i][2] = calls[i].id
<1> DEFINE tools == [i \in DOMAIN calls |-> [Message("tool", parts) EXCEPT !.id = calls[i].id]]
           said == [i \in 1 .. Len(calls) |-> <<"output", calls[i].id, parts>>]
<1>1. /\ Len(calls) \in Nat /\ DOMAIN calls = 1 .. Len(calls)
      /\ \A i \in 1 .. Len(calls) : calls[i].id \in Ids
  <2>1. \A i \in 1 .. Len(calls) : calls[i] \in Call
    BY ElementOfSeq
  <2> QED BY <2>1, LenProperties DEF Call
<1>2. parts \in Seq(Parts)
  BY TextsAreParts
<1>3. tools = [i \in 1 .. Len(calls) |-> [role |-> "tool", content |-> parts, calls |-> << >>, id |-> calls[i].id]]
  BY <1>1 DEF Message
<1> HIDE DEF tools
<1>4. \A i \in 1 .. Len(calls) :
        /\ tools[i].role = "tool" /\ tools[i].content = parts /\ tools[i].id = calls[i].id
        /\ tools[i] \in Messages
  <2> SUFFICES ASSUME NEW i \in 1 .. Len(calls)
               PROVE  /\ tools[i].role = "tool" /\ tools[i].content = parts /\ tools[i].id = calls[i].id
                      /\ tools[i] \in Messages
    OBVIOUS
  <2>1. tools[i] = [role |-> "tool", content |-> parts, calls |-> << >>, id |-> calls[i].id]
    BY <1>3
  <2>2. << >> \in Seq(Call) /\ calls[i].id \in Ids
    BY <1>1, EmptySeq
  <2> QED BY <1>2, <2>1, <2>2 DEF Messages, AnyMessage, Roles
<1>5. tools \in Seq(Messages) /\ Len(tools) = Len(calls)
  <2>1. tools = [i \in 1 .. Len(calls) |-> tools[i]]
    BY <1>3
  <2>2. [i \in 1 .. Len(calls) |-> tools[i]] \in Seq(Messages)
    BY <1>1, <1>4, IsASeq
  <2> QED BY <1>1, <2>1, <2>2, LenProperties
<1>6. /\ said \in Seq(SaidOutput) /\ Len(said) = Len(calls)
      /\ \A i \in 1 .. Len(calls) : said[i] = <<"output", calls[i].id, parts>>
  <2>1. \A i \in 1 .. Len(calls) : <<"output", calls[i].id, parts>> \in SaidOutput
    BY <1>1, <1>2 DEF SaidOutput
  <2> QED BY <1>1, <2>1, IsASeq, LenProperties
<1> HIDE DEF said
<1>7. \A i \in 1 .. Len(tools) : SayingOf[tools[i]] = <<said[i]>>
  <2> SUFFICES ASSUME NEW i \in 1 .. Len(calls) PROVE SayingOf[tools[i]] = <<said[i]>>
    BY <1>5
  <2>1. SayingOf[tools[i]] = MessageSays(Translated(tools[i]))
    BY <1>4 DEF SayingOf
  <2>2. /\ Translated(tools[i]).role = "tool" /\ Translated(tools[i]).content = parts
        /\ Translated(tools[i]).id = calls[i].id
    BY <1>4 DEF Translated
  <2>3. MessageSays(Translated(tools[i])) = << <<"output", calls[i].id, parts>> >>
    BY <2>2 DEF MessageSays
  <2> QED BY <1>6, <2>1, <2>3
<1>8. said \in Seq(Sayings)
  BY <1>6, SaidOfOutputs
<1>9. Conversation(tools) = said
  <2>1. DOMAIN said = 1 .. Len(tools) /\ DOMAIN tools = 1 .. Len(tools)
    BY <1>5, <1>6, LenProperties
  <2> QED BY <1>7, <1>8, <2>1, SinglesOf DEF Conversation
<1>10. \A i \in 1 .. Len(calls) : tools[i].role = "tool" /\ said[i][2] = calls[i].id
  <2> SUFFICES ASSUME NEW i \in 1 .. Len(calls) PROVE tools[i].role = "tool" /\ said[i][2] = calls[i].id
    OBVIOUS
  <2>1. said[i] = <<"output", calls[i].id, parts>>
    BY <1>6
  <2> QED BY <1>4, <2>1
<1> QED BY <1>5, <1>6, <1>9, <1>10 DEF tools

-----------------------------------------------------------------------------
(***************************************************************************)
(* The invariant: the calls that the conversation says are those that the  *)
(* server has made, each with its output; and what is sent says the same.  *)
(***************************************************************************)
PromptFirst(ms) == \A i \in DOMAIN ms : ms[i].role = "system" => i = 1

Inv ==
  /\ messages \in Seq(Messages) /\ PromptFirst(messages)
  /\ given \in Seq(CallWritten)
  /\ round \in Nat
  /\ provider \in {"codex_oauth", "openai_compat"}
  /\ SaidCalls(Conversation(messages)) = Each(BackOf, given)
  /\ Paired(Conversation(messages))
  /\ pc = "sent" => Said = Conversation(messages)

\* What is remembered of a chat is text.
LEMMA RememberedSays ==
  ASSUME NEW m \in Remembered
  PROVE  m \in Messages /\ SayingOf[m] \in Seq(SaidText)
<1>1. PICK role \in {"system", "user", "assistant"}, p \in Parts : m = Message(role, <<p>>)
  BY DEF Remembered
<1> DEFINE parts == <<p>>
<1>2. m = [role |-> role, content |-> parts, calls |-> << >>, id |-> << >>]
  BY <1>1 DEF Message
<1>3. parts \in Seq(Parts) /\ << >> \in Seq(Call) /\ parts # << >>
  BY EmptySeq
<1> HIDE DEF parts
<1>4. m \in Messages
  BY <1>2, <1>3 DEF Messages, AnyMessage, Roles
<1>5. Translated(m).role = role /\ Translated(m).content = parts /\ Translated(m).calls = << >>
  BY <1>2 DEF Translated, CodexCalls
<1>6. SayingOf[m] = MessageSays(Translated(m))
  BY <1>4 DEF SayingOf
<1>7. CASE role = "system"
  <2>1. MessageSays(Translated(m)) = << >>
    BY <1>5, <1>7 DEF MessageSays
  <2> QED BY <1>4, <1>6, <2>1, EmptySeq
<1>8. CASE role # "system"
  <2> DEFINE said == << <<role, parts>> >>
  <2>1. [j \in DOMAIN << >> |-> Says(<< >>[j])] = << >>
    OBVIOUS
  <2>2. <<role, parts>> \in SaidText
    BY <1>3, <1>8 DEF SaidText
  <2>3. said \in Seq(SaidText)
    BY <2>2
  <2>4. MessageSays(Translated(m)) = said \o [j \in DOMAIN << >> |-> Says(<< >>[j])]
    BY <1>3, <1>5, <1>8 DEF MessageSays
  <2> HIDE DEF said
  <2>5. said \o << >> = said
    BY <2>3, ConcatEmptySeq
  <2> QED BY <1>4, <1>6, <2>1, <2>3, <2>4, <2>5
<1> QED BY <1>7, <1>8

LEMMA InitInv == Init => Inv
<1> SUFFICES ASSUME Init PROVE Inv
  OBVIOUS
<1>1. messages \in Seq(Remembered) /\ PromptFirst(messages)
  BY HistoryAssumption DEF Init, PromptFirst
<1>2. Remembered \subseteq Messages
  BY RememberedSays
<1>3. messages \in Seq(Messages) /\ \A i \in 1 .. Len(messages) : messages[i] \in Remembered
  BY <1>1, <1>2, SeqMonotonic, ElementOfSeq, LenProperties
<1>4. Conversation(messages) \in Seq(SaidText)
  BY <1>3, RememberedSays, GatherInto DEF Conversation
<1>5. Paired(Conversation(messages)) /\ SaidCalls(Conversation(messages)) = << >>
  BY <1>4, SaidOfTexts
<1>6. Each(BackOf, << >>) = << >> /\ << >> \in Seq(CallWritten)
  BY EmptySeq DEF Each
<1> QED BY <1>1, <1>3, <1>5, <1>6 DEF Init, Inv

\* A response that calls tools, and their outputs.
LEMMA CallToolsInv ==
  ASSUME Inv, NEW output \in Outputs(round), NEW parts \in Texts, CallTools(output, parts)
  PROVE  Inv'
<1> DEFINE calls == ToolCalls(output)
           m == [Message("assistant", Content(output)) EXCEPT !.calls = calls]
           tools == [i \in DOMAIN calls |-> [Message("tool", parts) EXCEPT !.id = calls[i].id]]
           back == Each(BackOf, Calls(output))
           one == <<m>>
           ends == one \o tools
<1>1. output \in Seq(Response)
  BY OutputType DEF Inv
<1>2. /\ calls \in Seq(Call) /\ Len(calls) \in Nat
      /\ back \in Seq(SaidCall) /\ Len(back) = Len(calls)
      /\ \A i \in 1 .. Len(calls) : back[i] = <<"call", calls[i].id, Marshal(calls[i].arguments)>>
  BY <1>1, CallsBack
<1>3. m \in Messages /\ m.role = "assistant"
  BY <1>1, ResponseSays
<1>4. PICK texts \in Seq(SaidText) : Conversation(one) = texts \o back
  BY <1>1, ResponseSays
<1>5. /\ tools \in Seq(Messages) /\ Len(tools) = Len(calls)
      /\ \A i \in 1 .. Len(calls) : tools[i].role = "tool"
      /\ Conversation(tools) \in Seq(SaidOutput) /\ Len(Conversation(tools)) = Len(calls)
      /\ \A i \in 1 .. Len(calls) : Conversation(tools)[i][2] = calls[i].id
  BY <1>2, OutputsSay
<1>6. /\ messages' = (messages \o one) \o tools
      /\ given' = given \o Calls(output)
      /\ pc' = "ready" /\ round' = round + 1 /\ provider' = provider
  BY DEF CallTools
<1>7. Calls(output) \in Seq(CallWritten)
  BY <1>1, ResponseType
<1> HIDE DEF calls, m, tools
<1>8. one \in Seq(Messages) /\ Len(one) = 1 /\ one[1] = m
  BY <1>3
<1> HIDE DEF one
<1>9. messages' = messages \o ends
  BY ONLY <1>5, <1>6, <1>8, Inv, SMTT(60) DEF Inv
<1>10. ends \in Seq(Messages)
  BY <1>5, <1>8, ConcatProperties
<1>11. Conversation(ends) = Conversation(one) \o Conversation(tools)
  BY <1>5, <1>8, ConversationConcat
<1>12. DOMAIN ends = 1 .. 1 + Len(calls) /\ \A i \in DOMAIN ends : ends[i].role # "system"
  <2>0. /\ Len(ends) = Len(one) + Len(tools)
        /\ \A i \in 1 .. Len(one) + Len(tools) :
             ends[i] = IF i <= Len(one) THEN one[i] ELSE tools[i - Len(one)]
    <3>1. one \in Seq(Messages) /\ tools \in Seq(Messages)
      BY <1>5, <1>8
    <3> QED BY ONLY <3>1, ConcatProperties
  <2> HIDE DEF ends
  <2>1. /\ Len(ends) = 1 + Len(tools)
        /\ \A i \in 1 .. 1 + Len(tools) : ends[i] = IF i <= 1 THEN one[i] ELSE tools[i - 1]
    BY <1>8, <2>0
  <2>2. DOMAIN ends = 1 .. 1 + Len(calls)
    BY <1>5, <1>10, <2>1, LenProperties
  <2>3. ASSUME NEW i \in 1 .. 1 + Len(calls) PROVE ends[i].role # "system"
    <3>1. CASE i = 1
      BY <1>3, <1>5, <1>8, <2>1, <3>1
    <3>2. CASE i # 1
      <4>1. i - 1 \in 1 .. Len(calls) /\ ends[i] = tools[i - 1]
        BY <1>2, <1>5, <2>1, <3>2
      <4> QED BY <1>5, <4>1
    <3> QED BY <3>1, <3>2
  <2> QED BY <2>2, <2>3
<1> HIDE DEF ends
\* What is said of them: the calls, and their outputs behind.
<1> DEFINE outputs == Conversation(tools)
           said == texts \o (back \o outputs)
<1>13. /\ said \in Seq(Sayings) /\ Paired(said) /\ SaidCalls(said) = back
  <2>1. \A i \in 1 .. Len(back) : back[i][2] = outputs[i][2]
    BY <1>2, <1>5
  <2> QED BY <1>2, <1>5, <2>1, PairedRound
<1>14. Conversation(ends) = said
  BY ONLY <1>2, <1>4, <1>5, <1>11, texts \in Seq(SaidText), SMTT(60)
<1> HIDE DEF said
<1>15. Conversation(messages') = Conversation(messages) \o said /\ Conversation(messages) \in Seq(Sayings)
  BY <1>9, <1>10, <1>14, ConversationConcat DEF Inv
<1>16. Paired(Conversation(messages'))
  BY <1>13, <1>15, PairedConcat DEF Inv
<1>17. SaidCalls(Conversation(messages')) = Each(BackOf, given')
  <2>1. SaidCalls(Conversation(messages')) = Each(BackOf, given) \o back
    BY <1>13, <1>15, SaidConcat DEF Inv
  <2>2. Maps(BackOf, CallWritten, SaidCall)
    BY BackMaps
  <2>3. Each(BackOf, given \o Calls(output)) = Each(BackOf, given) \o back
    BY <1>7, <2>2, EachConcat DEF Inv
  <2> QED BY <1>6, <2>1, <2>3
<1>18. messages' \in Seq(Messages) /\ PromptFirst(messages')
  <2>1. messages \in Seq(Messages) /\ PromptFirst(messages)
    BY DEF Inv
  <2> DEFINE all == messages \o ends
  <2>2. /\ all \in Seq(Messages) /\ Len(all) = Len(messages) + Len(ends)
        /\ \A i \in 1 .. Len(messages) + Len(ends) :
             all[i] = IF i <= Len(messages) THEN messages[i] ELSE ends[i - Len(messages)]
    BY <1>10, <2>1, ConcatProperties
  <2> HIDE DEF all
  <2>3. /\ Len(messages) \in Nat /\ DOMAIN messages = 1 .. Len(messages)
        /\ Len(ends) \in Nat /\ DOMAIN ends = 1 .. Len(ends)
        /\ DOMAIN all = 1 .. Len(messages) + Len(ends)
    BY <1>10, <2>1, <2>2, LenProperties
  <2>4. ASSUME NEW i \in 1 .. Len(messages) + Len(ends), all[i].role = "system" PROVE i = 1
    <3>1. CASE i <= Len(messages)
      BY <2>1, <2>2, <2>3, <2>4, <3>1 DEF PromptFirst
    <3>2. CASE ~(i <= Len(messages))
      <4>1. i - Len(messages) \in 1 .. Len(ends) /\ all[i] = ends[i - Len(messages)]
        BY <2>2, <2>3, <3>2
      <4> QED BY <1>12, <2>3, <2>4, <4>1
    <3> QED BY <3>1, <3>2
  <2>5. PromptFirst(all)
    BY <2>3, <2>4 DEF PromptFirst
  <2> QED BY <1>9, <2>2, <2>5 DEF all
<1>19. given' \in Seq(CallWritten)
  BY <1>6, <1>7, ConcatProperties DEF Inv
<1> QED BY <1>6, <1>16, <1>17, <1>18, <1>19 DEF Inv

LEMMA NextInv == Inv /\ [Next]_vars => Inv'
<1> SUFFICES ASSUME Inv, [Next]_vars PROVE Inv'
  OBVIOUS
<1>1. CASE Complete
  <2>1. /\ messages' = messages /\ given' = given /\ round' = round /\ provider' = provider
        /\ request' = IF provider = "codex_oauth" THEN BuildRequest(messages)
                                                  ELSE TranslateOpenAIMessages(messages)
    BY <1>1 DEF Complete
  <2>2. Said' = Conversation(messages)
    BY <2>1, RequestsSay DEF Inv, Said
  <2> QED BY <2>1, <2>2 DEF Inv
<1>2. ASSUME UNCHANGED <<messages, given, round, provider, request>>, pc' \in {pc, "done"}
      PROVE  Inv'
  <2>1. Said' = Said
    BY <1>2 DEF Said
  <2>2. pc' = "sent" => pc = "sent"
    BY <1>2
  <2> QED BY <1>2, <2>1, <2>2 DEF Inv
<1>3. CASE CompleteFails
  BY <1>2, <1>3 DEF CompleteFails
<1>4. ASSUME NEW output \in Outputs(round), Answer(output) \/ GiveUp(output) PROVE Inv'
  BY <1>2, <1>4 DEF Answer, GiveUp
<1>5. CASE UNCHANGED vars
  BY <1>2, <1>5 DEF vars
<1> QED BY <1>1, <1>3, <1>4, <1>5, CallToolsInv DEF Next

LEMMA Invariance == Spec => []Inv
BY InitInv, NextInv, PTL DEF Spec

-----------------------------------------------------------------------------
(* The theorems of the run. *)

\* For every conversation, of any length, the request of the one provider
\* says what the request of the other says, and its instructions are the
\* system message.
THEOREM BothSayTheSame == Spec => []ProvidersAgree
<1>1. Inv => ProvidersAgree
  <2> SUFFICES ASSUME Inv PROVE ProvidersAgree
    OBVIOUS
  <2>1. CodexSays(BuildRequest(messages)) = OpenAISays(TranslateOpenAIMessages(messages))
    BY RequestsSay DEF Inv
  <2> DEFINE openai == TranslateOpenAIMessages(messages)
  <2>2. ASSUME NEW i \in DOMAIN openai, openai[i].role = "system"
        PROVE  BuildRequest(messages).instructions = openai[i].content
    <3>1. DOMAIN openai = DOMAIN messages /\ openai[i].role = messages[i].role
          /\ openai[i].content = messages[i].content
      BY DEF TranslateOpenAIMessages
    <3>2. i = 1 /\ messages[i] \in Messages
      <4>1. messages \in Seq(Messages) /\ i \in 1 .. Len(messages)
        BY <3>1, LenProperties DEF Inv
      <4> QED BY <2>2, <3>1, <4>1, ElementOfSeq DEF Inv, PromptFirst
    <3> DEFINE prompts == {j \in DOMAIN messages :
                             messages[j].role = "system" /\ messages[j].content # << >>}
    <3>3. prompts = {1}
      BY <2>2, <3>1, <3>2 DEF Inv, PromptFirst, Messages
    <3>4. Max({1}) = 1
      BY DEF Max
    <3>5. Instructions(messages) = messages[1].content
      BY <3>3, <3>4 DEF Instructions
    <3> QED BY <3>1, <3>2, <3>5 DEF BuildRequest
  <2> HIDE DEF openai
  <2> QED BY <2>1, <2>2 DEF ProvidersAgree, openai
<1> QED BY <1>1, Invariance, PTL

\* Through any number of rounds the server is sent back the calls that it has
\* made, each of them and no other, in their order.
THEOREM AllCallsComeBack == Spec => []CallsComeBack
<1>1. Inv => CallsComeBack
  <2> SUFFICES ASSUME Inv, pc = "sent"
               PROVE  LET calls == SaidCalls(Said)
                      IN  /\ Len(calls) = Len(given)
                          /\ \A i \in DOMAIN calls :
                               /\ calls[i][2] = given[i].id
                               /\ (calls[i][3] = "object") = (given[i].arguments = "object")
    BY DEF CallsComeBack
  <2> DEFINE calls == SaidCalls(Said)
  <2>1. calls = Each(BackOf, given)
    BY DEF Inv
  <2> HIDE DEF calls
  <2>2. /\ Len(calls) = Len(given) /\ DOMAIN calls = 1 .. Len(given)
        /\ \A i \in 1 .. Len(given) : given[i] \in CallWritten /\ calls[i] = BackOf[given[i]]
    BY <2>1, BackMaps, EachType, LenProperties DEF Inv
  <2>3. ASSUME NEW c \in CallWritten
        PROVE  /\ BackOf[c] = <<"call", c.id, Marshal(Unmarshal(c.arguments))>>
               /\ (Marshal(Unmarshal(c.arguments)) = "object") = (c.arguments = "object")
    BY DEF CallWritten, BackOf, Back, Written, Marshal, Unmarshal
  <2>4. ASSUME NEW i \in 1 .. Len(given)
        PROVE  /\ calls[i][2] = given[i].id
               /\ (calls[i][3] = "object") = (given[i].arguments = "object")
    BY <2>2, <2>3
  <2> QED BY <2>2, <2>4 DEF calls
<1> QED BY <1>1, Invariance, PTL

\* However many rounds there are, and whatever the responses, each call that is
\* sent is followed by its output.
THEOREM OutputsComeBehind == Spec => []OutputsFollowCalls
<1>1. Inv => OutputsFollowCalls
  BY DEF Inv, OutputsFollowCalls
<1> QED BY <1>1, Invariance, PTL

-----------------------------------------------------------------------------
(***************************************************************************)
(* The text of a page                                                      *)
(***************************************************************************)
Token == W!Tokens \X Nat

\* Places grow along a sequence of tokens.
Ordered(s) == \A i, j \in 1 .. Len(s) : i < j => s[i][2] < s[j][2]

\* The words of a sequence, and the part of it with the places K.
WordOnly == [t \in Token |-> IF t[1] = "word" THEN <<t>> ELSE << >>]
In(K) == [t \in Token |-> IF t[2] \in K THEN <<t>> ELSE << >>]
Words(s) == Gather(WordOnly, s)

LEMMA TokenMaps ==
  /\ Maps(WordOnly, Token, Seq(Token))
  /\ \A K : Maps(In(K), Token, Seq(Token))
<1>1. << >> \in Seq(Token) /\ \A t \in Token : <<t>> \in Seq(Token)
  BY EmptySeq
<1> QED BY <1>1 DEF Maps, WordOnly, In

\* Keeping tokens is gathering them, if the function sees which ones.
LEMMA KeepIs ==
  ASSUME NEW T, NEW s \in Seq(T), NEW places, NEW f,
         \A i \in 1 .. Len(s) : f[s[i]] = IF i \in places THEN <<s[i]>> ELSE << >>
  PROVE  W!Keep(s, places) = Gather(f, s)
<1>1. DOMAIN s = 1 .. Len(s)
  BY LenProperties
<1>2. Each(f, s) = [i \in DOMAIN s |-> IF i \in places THEN <<s[i]>> ELSE << >>]
  BY <1>1 DEF Each
<1> QED BY <1>2 DEF Gather, W!Keep, FlattenSeq, W!FlattenSeq

\* What a function makes of a part of a sequence.
LEMMA GatherOfPart ==
  ASSUME NEW U, NEW g, Maps(g, Token, Seq(U)), NEW K, NEW s \in Seq(Token)
  PROVE  Gather(g, Gather(In(K), s)) = Gather([t \in Token |-> IF t[2] \in K THEN g[t] ELSE << >>], s)
<1> DEFINE h == [t \in Token |-> IF t[2] \in K THEN g[t] ELSE << >>]
           Good == {r \in Seq(Token) : Gather(g, Gather(In(K), r)) = Gather(h, r)}
<1>1. << >> \in Good
  BY GatherEmpty, EmptySeq
<1>2. ASSUME NEW r \in Seq(Token), NEW x \in Token, r \in Good PROVE Append(r, x) \in Good
  <2>1. Maps(h, Token, Seq(U)) /\ h[x] = (IF x[2] \in K THEN g[x] ELSE << >>) /\ g[x] \in Seq(U)
    BY EmptySeq DEF Maps
  <2>2. Gather(h, Append(r, x)) = Gather(h, r) \o h[x] /\ Gather(h, r) \in Seq(U)
    <3> HIDE DEF h
    <3>1. Gather(h, Append(r, x)) = Gather(h, r) \o h[x]
      <4>1. Maps(h, Token, Seq(U)) /\ r \in Seq(Token) /\ x \in Token
        BY <2>1
      <4> QED BY ONLY <4>1, GatherAppend
    <3>2. Gather(h, r) \in Seq(U)
      BY <2>1, GatherType
    <3> QED BY <3>1, <3>2
  <2>3. Gather(In(K), Append(r, x)) = Gather(In(K), r) \o In(K)[x] /\ Gather(In(K), r) \in Seq(Token)
    <3>1. Maps(In(K), Token, Seq(Token))
      BY TokenMaps
    <3>2. Gather(In(K), Append(r, x)) = Gather(In(K), r) \o In(K)[x]
      BY <3>1, GatherAppend
    <3>3. Gather(In(K), r) \in Seq(Token)
      BY <3>1, GatherType
    <3> QED BY <3>2, <3>3
  <2>4. CASE x[2] \in K
    <3>1. In(K)[x] = <<x>> /\ <<x>> \in Seq(Token)
      BY <2>4 DEF In
    <3> DEFINE part == Gather(In(K), r)
               one == <<x>>
    <3>2. Gather(g, Gather(In(K), r) \o <<x>>) = Gather(g, Gather(In(K), r)) \o Gather(g, <<x>>)
      <4>1. part \in Seq(Token) /\ one \in Seq(Token)
        BY <2>3, <3>1
      <4> HIDE DEF part, one
      <4>2. Gather(g, part \o one) = Gather(g, part) \o Gather(g, one)
        BY ONLY <4>1, Maps(g, Token, Seq(U)), GatherConcat, SMTT(30)
      <4> QED BY <4>2 DEF part, one
    <3>3. Gather(g, <<x>>) = g[x]
      BY GatherOne
    <3> QED BY <1>2, <2>1, <2>2, <2>3, <2>4, <3>1, <3>2, <3>3, AppendProperties
  <2>5. CASE x[2] \notin K
    <3>1. In(K)[x] = << >>
      BY <2>5 DEF In
    <3> QED BY <1>2, <2>1, <2>2, <2>3, <2>5, <3>1, ConcatEmptySeq, AppendProperties
  <2> QED BY <2>4, <2>5
<1>3. Seq(Token) \subseteq Good
  <2> HIDE DEF Good
  <2> QED BY <1>1, <1>2, SeqInduction
<1> QED BY <1>3

\* A part of a sequence has the tokens at the places of the part, in order.
LEMMA PartOf ==
  ASSUME NEW K, NEW s \in Seq(Token), Ordered(s)
  PROVE  LET u == Gather(In(K), s)
         IN  /\ u \in Seq(Token) /\ Ordered(u)
             /\ \A i \in 1 .. Len(u) : \E j \in 1 .. Len(s) : u[i] = s[j] /\ s[j][2] \in K
             /\ \A j \in 1 .. Len(s) : s[j][2] \in K => \E i \in 1 .. Len(u) : u[i] = s[j]
<1> DEFINE Part(r, u) ==
             /\ u \in Seq(Token) /\ Ordered(u)
             /\ \A i \in 1 .. Len(u) : \E j \in 1 .. Len(r) : u[i] = r[j] /\ r[j][2] \in K
             /\ \A j \in 1 .. Len(r) : r[j][2] \in K => \E i \in 1 .. Len(u) : u[i] = r[j]
           Good == {r \in Seq(Token) : Ordered(r) => Part(r, Gather(In(K), r))}
<1>1. << >> \in Good
  <2>1. Gather(In(K), << >>) = << >> /\ << >> \in Seq(Token) /\ Len(<< >>) = 0
    BY GatherEmpty, EmptySeq
  <2>2. Part(<< >>, << >>)
    BY <2>1 DEF Ordered
  <2> HIDE DEF Part
  <2> QED BY <2>1, <2>2
<1>2. ASSUME NEW r \in Seq(Token), NEW x \in Token, r \in Good PROVE Append(r, x) \in Good
  <2> DEFINE rx == Append(r, x)
             u == Gather(In(K), r)
             n == Len(r)
  <2>1. /\ rx \in Seq(Token) /\ n \in Nat /\ Len(rx) = n + 1 /\ rx[n + 1] = x
        /\ \A i \in 1 .. n : rx[i] = r[i] /\ r[i] \in Token
    BY AppendProperties, LenProperties, ElementOfSeq
  <2> SUFFICES ASSUME Ordered(rx) PROVE Part(rx, Gather(In(K), rx))
    BY <2>1
  <2>2. Ordered(r)
    <3> HIDE DEF rx
    <3> QED BY <2>1 DEF Ordered
  <2>3. \A j \in 1 .. n : r[j][2] < x[2]
    <3> HIDE DEF rx
    <3> QED BY <2>1 DEF Ordered
  <2>4. Part(r, u)
    BY <1>2, <2>2
  <2>5. Gather(In(K), rx) = u \o In(K)[x]
    <3>1. Maps(In(K), Token, Seq(Token)) /\ r \in Seq(Token) /\ x \in Token
      BY TokenMaps
    <3> QED BY ONLY <3>1, GatherAppend
  <2> HIDE DEF rx, u, n
  <2>6. CASE x[2] \in K
    <3> DEFINE ux == Append(u, x)
               m == Len(u)
    <3>1. u \o In(K)[x] = ux
      <4>1. In(K)[x] = <<x>>
        BY <2>6 DEF In
      <4> QED BY <2>4, <4>1, AppendIsConcat
    <3>2. /\ ux \in Seq(Token) /\ m \in Nat /\ Len(ux) = m + 1 /\ ux[m + 1] = x
          /\ \A i \in 1 .. m : ux[i] = u[i]
      BY <2>4, AppendProperties, LenProperties
    <3>9. /\ \A i, j \in 1 .. m : i < j => u[i][2] < u[j][2]
          /\ \A i \in 1 .. m : \E j \in 1 .. n : u[i] = r[j] /\ r[j][2] \in K
          /\ \A j \in 1 .. n : r[j][2] \in K => \E i \in 1 .. m : u[i] = r[j]
      BY <2>4 DEF Ordered, n
    <3> HIDE DEF ux, m
    <3>3. \A i \in 1 .. m : u[i][2] < x[2]
      BY <2>3, <3>9
    <3>4. Ordered(ux)
      <4>1. \A i, j \in 1 .. m + 1 : i < j => ux[i][2] < ux[j][2]
        <5> SUFFICES ASSUME NEW i \in 1 .. m + 1, NEW j \in 1 .. m + 1, i < j
                     PROVE  ux[i][2] < ux[j][2]
          OBVIOUS
        <5>1. i \in 1 .. m /\ ux[i] = u[i]
          BY <3>2
        <5>2. CASE j = m + 1
          BY <3>2, <3>3, <5>1, <5>2
        <5>3. CASE j \in 1 .. m
          BY <3>2, <3>9, <5>1, <5>3
        <5> QED BY <3>2, <5>2, <5>3
      <4> QED BY <3>2, <4>1 DEF Ordered
    <3>5. \A i \in 1 .. m + 1 : \E j \in 1 .. n + 1 : ux[i] = rx[j] /\ rx[j][2] \in K
      <4>1. ASSUME NEW i \in 1 .. m PROVE \E j \in 1 .. n : ux[i] = rx[j] /\ rx[j][2] \in K
        <5>1. PICK j \in 1 .. n : u[i] = r[j] /\ r[j][2] \in K
          BY <3>9
        <5> QED BY <2>1, <3>2, <5>1
      <4>2. ux[m + 1] = rx[n + 1] /\ rx[n + 1][2] \in K
        BY <2>1, <2>6, <3>2
      <4> SUFFICES ASSUME NEW i \in 1 .. m + 1
                   PROVE  \E j \in 1 .. n + 1 : ux[i] = rx[j] /\ rx[j][2] \in K
        OBVIOUS
      <4>3. CASE i = m + 1
        BY <2>1, <4>2, <4>3
      <4>4. CASE i # m + 1
        <5>1. i \in 1 .. m
          BY <3>2, <4>4
        <5>2. PICK j \in 1 .. n : ux[i] = rx[j] /\ rx[j][2] \in K
          BY <4>1, <5>1
        <5> QED BY <2>1, <5>2
      <4> QED BY <4>3, <4>4
    <3>6. \A j \in 1 .. n + 1 : rx[j][2] \in K => \E i \in 1 .. m + 1 : ux[i] = rx[j]
      <4>1. ASSUME NEW j \in 1 .. n, rx[j][2] \in K PROVE \E i \in 1 .. m : ux[i] = rx[j]
        <5>1. PICK i \in 1 .. m : u[i] = r[j]
          BY <2>1, <3>9, <4>1
        <5> QED BY <2>1, <3>2, <5>1
      <4> QED BY <2>1, <3>2, <4>1
    <3> QED BY <2>1, <2>5, <3>1, <3>2, <3>4, <3>5, <3>6
  <2>7. CASE x[2] \notin K
    <3>1. u \o In(K)[x] = u
      <4>1. In(K)[x] = << >>
        BY <2>7 DEF In
      <4> QED BY <2>4, <4>1, ConcatEmptySeq
    <3>2. ASSUME NEW i \in 1 .. Len(u)
          PROVE  \E j \in 1 .. n + 1 : u[i] = rx[j] /\ rx[j][2] \in K
      <4>1. PICK j \in 1 .. n : u[i] = r[j] /\ r[j][2] \in K
        BY <2>4 DEF n
      <4>2. j \in 1 .. n + 1 /\ rx[j] = r[j]
        BY <2>1
      <4> QED BY <4>1, <4>2
    <3>3. ASSUME NEW j \in 1 .. n + 1, rx[j][2] \in K PROVE \E i \in 1 .. Len(u) : u[i] = rx[j]
      <4>1. j \in 1 .. n /\ rx[j] = r[j]
        BY <2>1, <2>7, <3>3
      <4> QED BY <2>4, <3>3, <4>1 DEF n
    <3> QED BY <2>1, <2>4, <2>5, <3>1, <3>2, <3>3
  <2> QED BY <2>6, <2>7
<1>3. Seq(Token) \subseteq Good
  <2> HIDE DEF Good
  <2> QED BY <1>1, <1>2, SeqInduction
<1> QED BY <1>3

\* Token i of a sequence is behind an opening tag and before the next closing
\* one.
Within(s, i, open, close) ==
  \E o \in 1 .. i, c \in i + 1 .. Len(s) :
    s[o][1] = open /\ s[c][1] = close /\ \A k \in o .. i : s[k][1] # close

\* The recursion of RemoveElements.
Goes(s, inside, i, open, close) ==
  IF i = 0 THEN FALSE
  ELSE IF inside[i - 1] THEN s[i][1] # close
  ELSE s[i][1] = open /\ \E j \in DOMAIN s : j > i /\ s[j][1] = close
Inside(s, open, close) ==
  CHOOSE inside : inside = [i \in 0 .. Len(s) |-> Goes(s, inside, i, open, close)]

LEMMA RemoveIs ==
  ASSUME NEW s, NEW open, NEW close
  PROVE  W!RemoveElements(s, open, close) =
           W!Keep(s, {i \in DOMAIN s : ~ Inside(s, open, close)[i - 1] /\ ~ Inside(s, open, close)[i]})
BY DEF W!RemoveElements, Inside, Goes

\* What is inside a match of the scan is what is within an element.
LEMMA InsideIsWithin ==
  ASSUME NEW s \in Seq(Token), NEW open, NEW close, open # close
  PROVE  \A i \in 0 .. Len(s) : Inside(s, open, close)[i] = Within(s, i, open, close)
<1> DEFINE n == Len(s)
           At(i) == Within(s, i, open, close)
<1>1. n \in Nat /\ DOMAIN s = 1 .. n
  BY LenProperties
<1>2. ~ At(0)
  BY DEF Within
<1>3. ASSUME NEW i \in 1 .. n, At(i - 1) PROVE At(i) <=> s[i][1] # close
  <2>1. PICK o \in 1 .. i - 1, c \in i .. n :
          s[o][1] = open /\ s[c][1] = close /\ \A k \in o .. i - 1 : s[k][1] # close
    BY <1>1, <1>3 DEF Within
  <2>2. ASSUME s[i][1] # close PROVE At(i)
    <3>1. o \in 1 .. i /\ c \in i + 1 .. n /\ \A k \in o .. i : s[k][1] # close
      BY <1>1, <2>1, <2>2
    <3> QED BY <2>1, <3>1 DEF Within
  <2>3. ASSUME At(i) PROVE s[i][1] # close
    BY <1>1, <2>3 DEF Within
  <2> QED BY <2>2, <2>3
<1>4. ASSUME NEW i \in 1 .. n, ~ At(i - 1)
      PROVE  At(i) <=> s[i][1] = open /\ \E j \in DOMAIN s : j > i /\ s[j][1] = close
  <2>1. ASSUME s[i][1] = open, NEW j \in DOMAIN s, j > i, s[j][1] = close PROVE At(i)
    BY <1>1, <2>1 DEF Within
  <2>2. ASSUME At(i) PROVE s[i][1] = open /\ \E j \in DOMAIN s : j > i /\ s[j][1] = close
    <3>1. PICK o \in 1 .. i, c \in i + 1 .. n :
            s[o][1] = open /\ s[c][1] = close /\ \A k \in o .. i : s[k][1] # close
      BY <2>2 DEF Within
    <3>2. ~(o \in 1 .. i - 1)
      <4> SUFFICES ASSUME o \in 1 .. i - 1 PROVE At(i - 1)
        BY <1>4
      <4>1. c \in (i - 1) + 1 .. n /\ \A k \in o .. i - 1 : s[k][1] # close
        BY <1>1, <3>1
      <4> QED BY <3>1, <4>1 DEF Within
    <3>3. o = i /\ c \in DOMAIN s /\ c > i
      BY <1>1, <3>1, <3>2
    <3> QED BY <3>1, <3>3
  <2> QED BY <2>1, <2>2
<1> HIDE DEF n, At
<1> DEFINE G(f, i) == Goes(s, f, i, open, close)
           within == [i \in 0 .. n |-> At(i)]
           inside == Inside(s, open, close)
<1>5. ASSUME NEW f, NEW i \in 0 .. n, i # 0 => f[i - 1] = At(i - 1) PROVE G(f, i) = At(i)
  <2>1. CASE i = 0
    BY <1>2, <2>1 DEF Goes, At, Within
  <2>2. CASE i # 0
    <3>1. i \in 1 .. n
      BY <1>1, <2>2
    <3> QED BY <1>3, <1>4, <1>5, <2>2, <3>1 DEF Goes, At, Within
  <2> QED BY <2>1, <2>2
<1>6. within = [i \in 0 .. n |-> G(within, i)]
  <2>1. ASSUME NEW i \in 0 .. n PROVE within[i] = G(within, i)
    <3>1. i # 0 => i - 1 \in 0 .. n
      BY <1>1
    <3>2. i # 0 => within[i - 1] = At(i - 1)
      BY <3>1
    <3>3. within[i] = At(i)
      OBVIOUS
    <3> HIDE DEF within, G
    <3>4. G(within, i) = At(i)
      BY <1>5, <3>2
    <3> QED BY <3>3, <3>4
  <2> HIDE DEF G
  <2> QED BY <2>1
<1>7. inside = [i \in 0 .. n |-> G(inside, i)]
  BY <1>6 DEF Inside, n
<1> HIDE DEF inside, G
<1> DEFINE Good == {i \in Nat : i \in 0 .. n => inside[i] = At(i)}
<1>8. 0 \in Good
  BY <1>1, <1>5, <1>7
<1>9. ASSUME NEW i \in Nat, i \in Good PROVE i + 1 \in Good
  <2> SUFFICES ASSUME i + 1 \in 0 .. n PROVE inside[i + 1] = At(i + 1)
    OBVIOUS
  <2>1. inside[(i + 1) - 1] = At((i + 1) - 1)
    BY <1>1, <1>9
  <2> QED BY <1>5, <1>7, <2>1
<1>10. Nat \subseteq Good
  <2> HIDE DEF Good
  <2> QED BY <1>8, <1>9, SetInduction
<1> QED BY <1>1, <1>10 DEF n, inside, At

\* What RemoveElements leaves, but for the tags of the elements it removes.
LEMMA RemoveLeaves ==
  ASSUME NEW s \in Seq(Token), Ordered(s), NEW open, NEW close, open # close
  PROVE  \E K : /\ W!RemoveElements(s, open, close) = Gather(In(K), s)
                /\ \A i \in 1 .. Len(s) :
                     s[i][1] \notin {open, close} =>
                       (s[i][2] \in K <=> ~ Within(s, i, open, close))
<1> DEFINE n == Len(s)
           kept == {i \in DOMAIN s : ~ Inside(s, open, close)[i - 1] /\ ~ Inside(s, open, close)[i]}
           K == {s[i][2] : i \in kept}
<1>1. n \in Nat /\ DOMAIN s = 1 .. n /\ \A i \in 1 .. n : s[i] \in Token
  BY LenProperties, ElementOfSeq
<1>2. \A i \in 1 .. n : i \in kept <=> ~ Within(s, i - 1, open, close) /\ ~ Within(s, i, open, close)
  <2>1. \A i \in 0 .. n : Inside(s, open, close)[i] = Within(s, i, open, close)
    BY InsideIsWithin
  <2>2. ASSUME NEW i \in 1 .. n
        PROVE  /\ Inside(s, open, close)[i - 1] = Within(s, i - 1, open, close)
               /\ Inside(s, open, close)[i] = Within(s, i, open, close)
    <3>1. i - 1 \in 0 .. n /\ i \in 0 .. n
      BY <1>1
    <3> QED BY <2>1, <3>1
  <2> QED BY <1>1, <2>2, Zenon
<1>3. \A i \in 1 .. n : s[i][2] \in K <=> i \in kept
  <2>1. \A i, j \in 1 .. n : s[i][2] = s[j][2] => i = j
    <3>1. \A i \in 1 .. n : s[i][2] \in Nat
      BY <1>1 DEF Token
    <3> QED BY <1>1, <3>1 DEF Ordered
  <2> QED BY <1>1, <2>1
<1> HIDE DEF kept, K
<1>4. W!RemoveElements(s, open, close) = Gather(In(K), s)
  <2>1. \A i \in 1 .. Len(s) : In(K)[s[i]] = IF i \in kept THEN <<s[i]>> ELSE << >>
    BY <1>1, <1>3 DEF In
  <2>2. W!Keep(s, kept) = Gather(In(K), s)
    BY <2>1, KeepIs
  <2> QED BY <2>2, RemoveIs DEF kept
<1>5. ASSUME NEW i \in 1 .. n, s[i][1] \notin {open, close}, Within(s, i - 1, open, close)
      PROVE  Within(s, i, open, close)
  <2>1. PICK o \in 1 .. i - 1, c \in i .. n :
          s[o][1] = open /\ s[c][1] = close /\ \A k \in o .. i - 1 : s[k][1] # close
    BY <1>1, <1>5 DEF Within
  <2>2. o \in 1 .. i /\ c \in i + 1 .. n /\ \A k \in o .. i : s[k][1] # close
    BY <1>1, <1>5, <2>1
  <2> QED BY <2>1, <2>2 DEF Within
<1>6. \A i \in 1 .. n : s[i][1] \notin {open, close} =>
        (s[i][2] \in K <=> ~ Within(s, i, open, close))
  BY <1>2, <1>3, <1>5
<1> QED BY <1>4, <1>6

LEMMA Split ==
  ASSUME NEW T, NEW s \in Seq(T), NEW k \in 0 .. Len(s)
  PROVE  /\ SubSeq(s, 1, k) \in Seq(T) /\ Len(SubSeq(s, 1, k)) = k
         /\ SubSeq(s, k + 1, Len(s)) \in Seq(T)
         /\ s = SubSeq(s, 1, k) \o SubSeq(s, k + 1, Len(s))
<1>1. Len(s) \in Nat /\ k \in Nat /\ k <= Len(s) /\ \A i \in 1 .. Len(s) : s[i] \in T
  BY LenProperties, ElementOfSeq
<1>2. /\ SubSeq(s, 1, k) \in Seq(T) /\ Len(SubSeq(s, 1, k)) = k
      /\ SubSeq(s, k + 1, Len(s)) \in Seq(T)
  BY <1>1, SubSeqProperties
<1>3. SubSeq(s, 1, k) \o SubSeq(s, k + 1, Len(s)) = SubSeq(s, 1, Len(s))
  <2>1. 1 \in 1 .. Len(s) + 1 /\ k \in 1 - 1 .. Len(s) /\ Len(s) \in k .. Len(s) /\ s \in Seq(T)
    BY <1>1
  <2> QED BY ONLY <2>1, ConcatAdjacentSubSeq, Zenon
<1> QED BY <1>2, <1>3, SubSeqFull

LEMMA WordsType == \A s \in Seq(Token) : Words(s) \in Seq(Token)
BY TokenMaps, GatherType DEF Words

LEMMA WordsConcat ==
  ASSUME NEW s \in Seq(Token), NEW t \in Seq(Token)
  PROVE  Words(s \o t) = Words(s) \o Words(t)
<1>1. ASSUME NEW U, Maps(WordOnly, Token, Seq(U))
      PROVE  Gather(WordOnly, s \o t) = Gather(WordOnly, s) \o Gather(WordOnly, t)
  BY <1>1, GatherConcat
<1> QED BY <1>1, TokenMaps DEF Words

LEMMA WordsAppend ==
  ASSUME NEW s \in Seq(Token), NEW t \in Token
  PROVE  /\ Words(Append(s, t)) = Words(s) \o WordOnly[t]
         /\ t[1] = "word" => WordOnly[t] = <<t>>
         /\ t[1] # "word" => Words(Append(s, t)) = Words(s)
<1>1. Words(Append(s, t)) = Words(s) \o WordOnly[t]
  BY TokenMaps, GatherAppend DEF Words
<1>2. t[1] # "word" => WordOnly[t] = << >>
  BY DEF WordOnly
<1>3. Words(s) \o << >> = Words(s)
  BY WordsType, ConcatEmptySeq
<1> QED BY <1>1, <1>2, <1>3 DEF WordOnly

LEMMA NoWords ==
  ASSUME NEW s \in Seq(Token), \A i \in 1 .. Len(s) : s[i][1] # "word"
  PROVE  Words(s) = << >>
<1>1. \A i \in 1 .. Len(s) : WordOnly[s[i]] = << >>
  BY ElementOfSeq DEF WordOnly
<1>2. Maps(WordOnly, Token, Seq(Token))
  BY TokenMaps
<1> QED BY <1>1, <1>2, NoneOf DEF Words

\* The last token, unless it is a word, can go.
LEMMA WordsOfFront ==
  ASSUME NEW s \in Seq(Token), s # << >>
  PROVE  /\ W!Front(s) \in Seq(Token)
         /\ W!Last(s)[1] # "word" => Words(W!Front(s)) = Words(s)
<1>1. PICK r \in Seq(Token), x \in Token : s = Append(r, x)
  BY SequenceEmptyOrAppend
<1> DEFINE n == Len(r)
<1>2. n \in Nat /\ Len(s) = n + 1 /\ s[n + 1] = x
  BY <1>1, AppendProperties, LenProperties
<1>3. W!Last(s) = x
  BY <1>2 DEF W!Last
<1>4. W!Front(s) = r
  <2>1. Len(s) - 1 = n /\ n \in 0 .. Len(s)
    BY <1>2
  <2>2. SubSeq(s, 1, n) \in Seq(Token) /\ Len(SubSeq(s, 1, n)) = n
    BY <2>1, Split
  <2>3. \A i \in 1 .. n : SubSeq(s, 1, n)[i] = r[i]
    <3>1. \A i \in 1 .. n : s[i] = r[i]
      BY <1>1, AppendProperties
    <3>2. \A i \in 1 .. n : SubSeq(s, 1, n)[i] = s[i]
      BY <1>2, SubSeqProperties
    <3> QED BY <3>1, <3>2
  <2>4. SubSeq(s, 1, n) = r
    BY <2>2, <2>3, SeqEqual
  <2> QED BY <2>1, <2>4 DEF W!Front
<1> QED BY <1>1, <1>3, <1>4, WordsAppend

-----------------------------------------------------------------------------
(* Squeeze and TrimSpace keep the words. *)

Line(s, lines, i) == IF i = 0 THEN << >> ELSE W!Add(lines[i - 1], W!Mark(s[i]))
Lines(s) == CHOOSE lines : lines = [i \in 0 .. Len(s) |-> Line(s, lines, i)]

LEMMA SqueezeIs ==
  ASSUME NEW s
  PROVE  W!Squeeze(s) = LET all == Lines(s)[Len(s)]
                        IN  IF all # << >> /\ W!Last(all)[1] # "word" THEN W!Front(all) ELSE all
BY DEF W!Squeeze, Line, Lines

LEMMA LinesExist ==
  ASSUME NEW s, Len(s) \in Nat
  PROVE  \A i \in 0 .. Len(s) : Lines(s)[i] = Line(s, Lines(s), i)
<1> DEFINE Lengths == {n \in Nat : \E lines : \A i \in 0 .. n : lines[i] = Line(s, lines, i)}
<1>1. 0 \in Lengths
  <2>1. \A i \in 0 .. 0 : [j \in {0} |-> << >>][i] = Line(s, [j \in {0} |-> << >>], i)
    BY DEF Line
  <2> QED BY <2>1
<1>2. ASSUME NEW n \in Nat, n \in Lengths PROVE n + 1 \in Lengths
  <2>1. PICK lines : \A i \in 0 .. n : lines[i] = Line(s, lines, i)
    BY <1>2
  <2> DEFINE more == [i \in 0 .. n + 1 |-> Line(s, lines, i)]
  <2>2. \A i \in 0 .. n : more[i] = lines[i]
    BY <2>1
  <2>3. ASSUME NEW i \in 0 .. n + 1 PROVE more[i] = Line(s, more, i)
    <3>1. i # 0 => i - 1 \in 0 .. n
      OBVIOUS
    <3> QED BY <2>2, <3>1 DEF Line
  <2> HIDE DEF more
  <2> QED BY <2>3
<1>3. Nat \subseteq Lengths
  <2> HIDE DEF Lengths
  <2> QED BY <1>1, <1>2, SetInduction
<1>4. PICK lines : \A i \in 0 .. Len(s) : lines[i] = Line(s, lines, i)
  BY <1>3
<1> DEFINE whole == [i \in 0 .. Len(s) |-> lines[i]]
<1>5. \A i \in 0 .. Len(s) : Line(s, whole, i) = Line(s, lines, i)
  BY DEF Line
<1>6. whole = [i \in 0 .. Len(s) |-> Line(s, whole, i)]
  BY <1>4, <1>5
<1>7. Lines(s) = [i \in 0 .. Len(s) |-> Line(s, Lines(s), i)]
  <2> HIDE DEF whole
  <2> QED BY <1>6 DEF Lines
<1> QED BY <1>7

\* A token adds itself to the words, or nothing.
LEMMA AddWords ==
  ASSUME NEW out \in Seq(Token), NEW t \in Token
  PROVE  /\ W!Add(out, W!Mark(t)) \in Seq(Token)
         /\ Words(W!Add(out, W!Mark(t))) = Words(Append(out, t))
<1> DEFINE m == W!Mark(t)
<1>1. m \in Token /\ (t[1] = "word" => m = t) /\ (t[1] # "word" => m[1] # "word")
  BY DEF W!Mark, Token, W!Tokens, W!Tags, W!Blank
<1> HIDE DEF m
<1>2. CASE m[1] = "word"
  <2>1. W!Add(out, m) = Append(out, t)
    BY <1>1, <1>2 DEF W!Add
  <2> QED BY <2>1, AppendProperties DEF m
<1>3. CASE m[1] # "word"
  <2>1. Words(Append(out, t)) = Words(out)
    BY <1>1, <1>3, WordsAppend
  <2>2. CASE W!Add(out, m) = Append(out, m)
    BY <1>1, <1>3, <2>1, <2>2, WordsAppend, AppendProperties DEF m
  <2>3. CASE out # << >> /\ W!Last(out)[1] # "word" /\ W!Add(out, m) = Append(W!Front(out), m)
    <3>1. W!Front(out) \in Seq(Token) /\ Words(W!Front(out)) = Words(out)
      BY <2>3, WordsOfFront
    <3> QED BY <1>1, <1>3, <2>1, <2>3, <3>1, WordsAppend, AppendProperties DEF m
  <2>4. CASE W!Add(out, m) = out
    BY <2>1, <2>4 DEF m
  <2>5. \/ W!Add(out, m) = Append(out, m)
        \/ out # << >> /\ W!Last(out)[1] # "word" /\ W!Add(out, m) = Append(W!Front(out), m)
        \/ W!Add(out, m) = out
    BY <1>3 DEF W!Add
  <2> QED BY <2>2, <2>3, <2>4, <2>5
<1> QED BY <1>2, <1>3

\* No word is lost, added or moved with the blanks that go, here ...
LEMMA SqueezeWords ==
  ASSUME NEW s \in Seq(Token)
  PROVE  W!Squeeze(s) \in Seq(Token) /\ Words(W!Squeeze(s)) = Words(s)
<1> DEFINE n == Len(s)
           Good == {i \in Nat : i \in 0 .. n => /\ Lines(s)[i] \in Seq(Token)
                                                /\ Words(Lines(s)[i]) = Words(SubSeq(s, 1, i))}
<1>1. n \in Nat /\ \A i \in 1 .. n : s[i] \in Token
  BY LenProperties, ElementOfSeq
<1>2. 0 \in Good
  <2>1. Lines(s)[0] = << >>
    BY <1>1, LinesExist DEF Line
  <2>2. SubSeq(s, 1, 0) = << >>
    BY <1>1, Split, EmptySeq
  <2> QED BY <2>1, <2>2, EmptySeq
<1>3. ASSUME NEW i \in Nat, i \in Good PROVE i + 1 \in Good
  <2> SUFFICES ASSUME i + 1 \in 0 .. n
               PROVE  /\ Lines(s)[i + 1] \in Seq(Token)
                      /\ Words(Lines(s)[i + 1]) = Words(SubSeq(s, 1, i + 1))
    OBVIOUS
  <2> DEFINE out == Lines(s)[i]
             first == SubSeq(s, 1, i)
  <2>1. i \in 0 .. n /\ s[i + 1] \in Token
    BY <1>1
  <2>2. out \in Seq(Token) /\ Words(out) = Words(first)
    BY <1>3, <2>1
  <2>3. Lines(s)[i + 1] = W!Add(out, W!Mark(s[i + 1]))
    <3>1. i + 1 # 0 /\ (i + 1) - 1 = i
      OBVIOUS
    <3> QED BY <1>1, <3>1, LinesExist DEF Line
  <2>4. first \in Seq(Token) /\ SubSeq(s, 1, i + 1) = Append(first, s[i + 1])
    <3>1. first \in Seq(Token) /\ Len(first) = i /\ \A j \in 1 .. i : first[j] = s[j]
      BY <1>1, <2>1, Split, SubSeqProperties
    <3>2. SubSeq(s, 1, i + 1) \in Seq(Token) /\ Len(SubSeq(s, 1, i + 1)) = i + 1
          /\ \A j \in 1 .. i + 1 : SubSeq(s, 1, i + 1)[j] = s[j]
      BY <1>1, <2>1, Split, SubSeqProperties
    <3> HIDE DEF first
    <3>3. /\ Append(first, s[i + 1]) \in Seq(Token) /\ Len(Append(first, s[i + 1])) = i + 1
          /\ Append(first, s[i + 1])[i + 1] = s[i + 1]
          /\ \A j \in 1 .. i : Append(first, s[i + 1])[j] = s[j]
      BY <2>1, <3>1, AppendProperties
    <3>4. \A j \in 1 .. i + 1 : SubSeq(s, 1, i + 1)[j] = Append(first, s[i + 1])[j]
      BY <3>2, <3>3
    <3> QED BY <3>1, <3>2, <3>3, <3>4, SeqEqual
  <2> HIDE DEF out, first
  <2>5. Words(Append(out, s[i + 1])) = Words(Append(first, s[i + 1]))
    <3>1. out \in Seq(Token) /\ first \in Seq(Token) /\ s[i + 1] \in Token
      BY <2>1, <2>2, <2>4
    <3>2. /\ Words(Append(out, s[i + 1])) = Words(out) \o WordOnly[s[i + 1]]
          /\ Words(Append(first, s[i + 1])) = Words(first) \o WordOnly[s[i + 1]]
      BY ONLY <3>1, WordsAppend
    <3> QED BY <2>2, <3>2
  <2> QED BY <2>1, <2>2, <2>3, <2>4, <2>5, AddWords
<1>4. Nat \subseteq Good
  <2> HIDE DEF Good
  <2> QED BY <1>2, <1>3, SetInduction
<1> DEFINE all == Lines(s)[n]
<1>5. all \in Seq(Token) /\ Words(all) = Words(s)
  <2>1. SubSeq(s, 1, n) = s
    BY SubSeqFull
  <2>2. n \in 0 .. n /\ n \in Nat
    BY <1>1
  <2>3. all \in Seq(Token) /\ Words(all) = Words(SubSeq(s, 1, n))
    <3> HIDE DEF n
    <3> QED BY <1>4, <2>2
  <2> QED BY <2>1, <2>3
<1> HIDE DEF all
<1>6. W!Squeeze(s) = IF all # << >> /\ W!Last(all)[1] # "word" THEN W!Front(all) ELSE all
  BY SqueezeIs DEF all, n
<1> QED BY <1>5, <1>6, WordsOfFront

\* A set of numbers has a least one; one of which no number is above a bound,
\* a greatest.
LEMMA Least ==
  ASSUME NEW S, S \subseteq Nat, S # {}
  PROVE  \E x \in S : \A y \in S : x <= y
<1>1. IsWellFoundedOn(Less, Nat)
  BY NatLessThanWellFounded DEF OpToRel, Less
<1>2. PICK x \in S : \A y \in S : <<y, x>> \notin Less
  BY ONLY <1>1, S # {}, S \subseteq Nat, WFMin, Zenon
<1>3. ASSUME NEW y \in S PROVE x <= y
  <2>1. x \in Nat /\ y \in Nat /\ <<y, x>> \notin Less
    BY <1>2
  <2> QED BY <2>1 DEF Less
<1> QED BY <1>3

LEMMA Greatest ==
  ASSUME NEW n \in Nat, NEW S, S \subseteq 0 .. n, S # {}
  PROVE  \E x \in S : \A y \in S : x >= y
<1> DEFINE below == {n - x : x \in S}
<1>1. below \subseteq Nat /\ below # {}
  <2>1. \A x \in S : n - x \in Nat
    OBVIOUS
  <2>2. PICK x \in S : TRUE
    OBVIOUS
  <2>3. n - x \in below
    OBVIOUS
  <2> QED BY <2>1, <2>3
<1>2. PICK z \in below : \A y \in below : z <= y
  <2> HIDE DEF below
  <2> QED BY <1>1, Least
<1>3. PICK x \in S : z = n - x
  OBVIOUS
<1>4. ASSUME NEW y \in S PROVE x >= y
  <2>1. n - y \in below
    OBVIOUS
  <2>2. n - x <= n - y /\ x \in 0 .. n /\ y \in 0 .. n
    BY <1>2, <1>3, <2>1
  <2> QED BY <2>2
<1> QED BY <1>4

\* ... and here.
LEMMA TrimWords ==
  ASSUME NEW s \in Seq(Token)
  PROVE  W!TrimSpace(s) \in Seq(Token) /\ Words(W!TrimSpace(s)) = Words(s)
<1> DEFINE n == Len(s)
           dark == {i \in DOMAIN s : s[i][1] \notin W!Blank}
<1>1. n \in Nat /\ DOMAIN s = 1 .. n /\ \A i \in 1 .. n : s[i] \in Token
  BY LenProperties, ElementOfSeq
<1>2. \A i \in 1 .. n : i \notin dark => s[i][1] # "word"
  BY <1>1 DEF W!Blank
<1>3. CASE dark = {}
  <2>1. W!TrimSpace(s) = << >>
    BY <1>3 DEF W!TrimSpace
  <2>2. Words(s) = << >>
    BY <1>2, <1>3, NoWords
  <2>3. Words(<< >>) = << >>
    BY GatherEmpty DEF Words
  <2> QED BY <2>1, <2>2, <2>3, EmptySeq
<1>4. CASE dark # {}
  <2> DEFINE lo == W!Min(dark)
             hi == W!Max(dark)
  <2>1. lo \in dark /\ \A i \in dark : lo <= i
    <3>1. dark \subseteq Nat
      BY <1>1
    <3>2. \E x \in dark : \A y \in dark : x <= y
      <4> HIDE DEF dark
      <4> QED BY <1>4, <3>1, Least
    <3> QED BY <3>2 DEF W!Min
  <2>2. hi \in dark /\ \A i \in dark : hi >= i
    <3>1. dark \subseteq 0 .. n
      BY <1>1
    <3>2. \E x \in dark : \A y \in dark : x >= y
      <4> HIDE DEF dark, n
      <4> QED BY <1>1, <1>4, <3>1, Greatest
    <3> QED BY <3>2 DEF W!Max
  <2>3. W!TrimSpace(s) = SubSeq(s, lo, hi)
    BY <1>4 DEF W!TrimSpace
  <2>4. dark \subseteq 1 .. n
    BY <1>1
  <2> HIDE DEF lo, hi, dark
  <2>5. lo \in 1 .. n /\ hi \in 1 .. n /\ lo <= hi
    BY <2>1, <2>2, <2>4
  <2> DEFINE first == SubSeq(s, 1, lo - 1)
             middle == SubSeq(s, lo, hi)
             last == SubSeq(s, hi + 1, n)
  <2>6. first \in Seq(Token) /\ Words(first) = << >>
    <3>1. first \in Seq(Token) /\ Len(first) = lo - 1 /\ \A i \in 1 .. lo - 1 : first[i] = s[i]
      BY <1>1, <2>5, SubSeqProperties
    <3>2. \A i \in 1 .. lo - 1 : s[i][1] # "word"
      BY <1>1, <1>2, <2>1, <2>5
    <3> HIDE DEF first
    <3> QED BY <3>1, <3>2, NoWords
  <2>7. middle \in Seq(Token)
    BY <1>1, <2>5, SubSeqProperties
  <2>8. last \in Seq(Token) /\ Words(last) = << >>
    <3>1. last \in Seq(Token) /\ Len(last) = n - hi /\ \A i \in 1 .. n - hi : last[i] = s[hi + i]
      <4>1. /\ hi + 1 \in Int /\ n \in Int /\ \A i \in hi + 1 .. n : s[i] \in Token
            /\ n - (hi + 1) + 1 = n - hi
        BY <1>1, <2>5
      <4>2. /\ last \in Seq(Token)
            /\ Len(last) = IF hi + 1 <= n THEN n - (hi + 1) + 1 ELSE 0
            /\ \A i \in 1 .. n - (hi + 1) + 1 : last[i] = s[hi + 1 + i - 1]
        <5> HIDE DEF n
        <5> QED BY ONLY <4>1, SubSeqProperties DEF last
      <4> HIDE DEF last, n
      <4>3. Len(last) = n - hi
        BY <1>1, <2>5, <4>2
      <4>4. ASSUME NEW i \in 1 .. n - hi PROVE last[i] = s[hi + i]
        <5>1. hi + 1 + i - 1 = hi + i /\ i \in 1 .. n - (hi + 1) + 1
          BY <1>1, <2>5
        <5>2. last[i] = s[hi + 1 + i - 1]
          BY <4>2, <5>1
        <5> QED BY <5>1, <5>2
      <4> QED BY <4>2, <4>3, <4>4
    <3>2. \A i \in 1 .. n - hi : s[hi + i][1] # "word"
      BY <1>1, <1>2, <2>2, <2>5
    <3> HIDE DEF last
    <3> QED BY <3>1, <3>2, NoWords
  <2>9. s = (first \o middle) \o last
    <3>1. first \o middle = SubSeq(s, 1, hi)
      <4>1. 1 \in 1 .. n + 1 /\ lo - 1 \in 1 - 1 .. n /\ hi \in lo - 1 .. n /\ s \in Seq(Token)
            /\ (lo - 1) + 1 = lo
        BY <1>1, <2>5
      <4>2. SubSeq(s, 1, lo - 1) \o SubSeq(s, (lo - 1) + 1, hi) = SubSeq(s, 1, hi)
        BY ONLY <4>1, ConcatAdjacentSubSeq, Zenon DEF n
      <4> QED BY <4>1, <4>2
    <3>2. hi \in 0 .. Len(s)
      BY <2>5
    <3> QED BY <3>1, <3>2, Split
  <2> HIDE DEF first, middle, last
  <2>10. Words((first \o middle) \o last) = Words(middle)
    <3>1. first \o middle \in Seq(Token)
      BY <2>6, <2>7, ConcatProperties
    <3>2. Words((first \o middle) \o last) = Words(first \o middle) \o Words(last)
      BY <2>8, <3>1, WordsConcat
    <3>3. Words(first \o middle) = Words(first) \o Words(middle)
      BY <2>6, <2>7, WordsConcat
    <3>4. Words(middle) \in Seq(Token)
      BY <2>7, WordsType
    <3> QED BY <2>6, <2>8, <3>2, <3>3, <3>4, ConcatEmptySeq
  <2> QED BY <2>3, <2>7, <2>9, <2>10 DEF middle
<1> QED BY <1>3, <1>4

-----------------------------------------------------------------------------
(* The text of a page has its visible words. *)

\* The text of a page before it is cut.
Reads(p, h) == W!TextOf(p, W!IsHTML(p, h))

LEMMA PlacedPage ==
  ASSUME NEW p \in Seq(W!Tokens)
  PROVE  /\ W!Placed(p) \in Seq(Token) /\ Ordered(W!Placed(p))
         /\ Len(W!Placed(p)) = Len(p) /\ DOMAIN p = 1 .. Len(p) /\ Len(p) \in Nat
         /\ \A i \in 1 .. Len(p) : W!Placed(p)[i] = <<p[i], i>> /\ p[i] \in W!Tokens
<1>1. Len(p) \in Nat /\ DOMAIN p = 1 .. Len(p) /\ \A i \in 1 .. Len(p) : p[i] \in W!Tokens
  BY LenProperties, ElementOfSeq
<1>2. W!Placed(p) = [i \in 1 .. Len(p) |-> <<p[i], i>>]
  BY <1>1 DEF W!Placed
<1>3. W!Placed(p) \in Seq(Token) /\ Len(W!Placed(p)) = Len(p)
  BY <1>1, <1>2, IsASeq, LenProperties DEF Token
<1>4. \A i \in 1 .. Len(p) : W!Placed(p)[i] = <<p[i], i>>
  BY <1>2
<1>5. Ordered(W!Placed(p))
  BY <1>1, <1>3, <1>4 DEF Ordered
<1> QED BY <1>1, <1>3, <1>4, <1>5

\* What is within an element on the page.
LEMMA OnPage ==
  ASSUME page \in Seq(W!Tokens), NEW open, NEW close, NEW i \in 1 .. Len(page),
         page[i] \notin {open, close}, open # close
  PROVE  Within(W!Placed(page), i, open, close) <=> W!Within(i, open, close)
<1> DEFINE s == W!Placed(page)
           n == Len(page)
<1>1. /\ n \in Nat /\ DOMAIN page = 1 .. n /\ Len(s) = n
      /\ \A j \in 1 .. n : s[j][1] = page[j]
  BY PlacedPage
<1> HIDE DEF s
<1>2. ASSUME Within(s, i, open, close) PROVE W!Within(i, open, close)
  <2>1. PICK o \in 1 .. i, c \in i + 1 .. n :
          s[o][1] = open /\ s[c][1] = close /\ \A k \in o .. i : s[k][1] # close
    BY <1>1, <1>2 DEF Within
  <2>2. o \in 1 .. n /\ c \in 1 .. n /\ page[o] = open /\ page[c] = close /\ i < c
    BY <1>1, <2>1
  <2>3. o < i
    BY <1>1, <2>1, <2>2
  <2>4. \A k \in o + 1 .. i : page[k] # close
    BY <1>1, <2>1
  <2> QED BY <1>1, <2>2, <2>3, <2>4 DEF W!Within
<1>3. ASSUME W!Within(i, open, close) PROVE Within(s, i, open, close)
  <2>1. PICK o \in 1 .. n, c \in 1 .. n :
          /\ o < i /\ i < c /\ page[o] = open /\ page[c] = close
          /\ \A k \in o + 1 .. i : page[k] # close
    BY <1>1, <1>3 DEF W!Within
  <2>2. o \in 1 .. i /\ c \in i + 1 .. n /\ s[o][1] = open /\ s[c][1] = close
    BY <1>1, <2>1
  <2>3. ASSUME NEW k \in o .. i PROVE s[k][1] # close
    BY <1>1, <2>1, <2>3
  <2> QED BY <1>1, <2>2, <2>3 DEF Within
<1> QED BY <1>2, <1>3 DEF s

\* A part that has all tags of a kind has the elements of the page.
LEMMA OnPart ==
  ASSUME page \in Seq(W!Tokens), NEW open, NEW close, open # close, NEW K,
         \A j \in 1 .. Len(page) : page[j] \in {open, close} => j \in K,
         NEW i \in 1 .. Len(Gather(In(K), W!Placed(page))),
         Gather(In(K), W!Placed(page))[i][1] \notin {open, close}
  PROVE  LET u == Gather(In(K), W!Placed(page))
         IN  Within(u, i, open, close) <=> W!Within(u[i][2], open, close)
<1> DEFINE s == W!Placed(page)
           n == Len(page)
           u == Gather(In(K), s)
           m == Len(u)
<1>1. /\ s \in Seq(Token) /\ Ordered(s)
      /\ n \in Nat /\ DOMAIN page = 1 .. n /\ Len(s) = n
      /\ \A j \in 1 .. n : s[j] = <<page[j], j>>
  BY PlacedPage
<1>2. /\ u \in Seq(Token) /\ Ordered(u)
      /\ \A k \in 1 .. m : \E j \in 1 .. n : u[k] = s[j] /\ s[j][2] \in K
      /\ \A j \in 1 .. n : s[j][2] \in K => \E k \in 1 .. m : u[k] = s[j]
  BY <1>1, PartOf
<1> HIDE DEF u, s
<1>3. m \in Nat /\ \A k \in 1 .. m : /\ u[k][2] \in 1 .. n /\ u[k][2] \in K
                                     /\ u[k][1] = page[u[k][2]]
  <2>1. ASSUME NEW k \in 1 .. m
        PROVE  u[k][2] \in 1 .. n /\ u[k][2] \in K /\ u[k][1] = page[u[k][2]]
    <3>1. PICK j \in 1 .. n : u[k] = s[j] /\ s[j][2] \in K
      BY <1>2
    <3> QED BY <1>1, <3>1
  <2> QED BY <1>2, <2>1, LenProperties
<1>4. \A j \in 1 .. n : j \in K => \E k \in 1 .. m : u[k] = <<page[j], j>>
  <2> SUFFICES ASSUME NEW j \in 1 .. n, j \in K PROVE \E k \in 1 .. m : u[k] = <<page[j], j>>
    OBVIOUS
  <2>1. s[j] = <<page[j], j>> /\ s[j][2] \in K
    BY <1>1
  <2> QED BY <1>2, <2>1
<1>5. \A k, l \in 1 .. m : k < l <=> u[k][2] < u[l][2]
  <2>1. \A k, l \in 1 .. m : k < l => u[k][2] < u[l][2]
    BY <1>2 DEF Ordered
  <2>2. ASSUME NEW k \in 1 .. m, NEW l \in 1 .. m, u[k][2] < u[l][2] PROVE k < l
    <3>1. CASE l < k
      BY <1>3, <2>1, <2>2, <3>1
    <3>2. CASE l = k
      BY <1>3, <2>2, <3>2
    <3> QED BY <1>3, <3>1, <3>2
  <2> QED BY <2>1, <2>2
<1> DEFINE p == u[i][2]
<1>6. i \in 1 .. m /\ p \in 1 .. n /\ page[p] = u[i][1] /\ page[p] \notin {open, close}
  BY <1>3 DEF u, s
<1> HIDE DEF m, n
<1>7. ASSUME Within(u, i, open, close) PROVE W!Within(p, open, close)
  <2>1. PICK o \in 1 .. i, c \in i + 1 .. m :
          u[o][1] = open /\ u[c][1] = close /\ \A k \in o .. i : u[k][1] # close
    BY <1>7 DEF Within, m
  <2>2. o \in 1 .. m /\ c \in 1 .. m /\ o # i /\ o < i /\ i < c
    BY <1>3, <1>6, <2>1
  <2>3. /\ u[o][2] \in 1 .. n /\ u[c][2] \in 1 .. n /\ u[o][2] < p /\ p < u[c][2]
        /\ page[u[o][2]] = open /\ page[u[c][2]] = close
    BY <1>3, <1>5, <1>6, <2>1, <2>2
  <2>4. ASSUME NEW q \in u[o][2] + 1 .. p, page[q] = close PROVE FALSE
    <3>1. q \in 1 .. n /\ u[o][2] < q /\ q <= p
      <4> DEFINE a == u[o][2]
      <4>1. a \in 1 .. n /\ p \in 1 .. n /\ n \in Nat /\ q \in a + 1 .. p
        BY <1>1, <1>6, <2>3
      <4> HIDE DEF a, p
      <4>2. q \in 1 .. n /\ a < q /\ q <= p
        BY ONLY <4>1
      <4> QED BY <4>2 DEF a
    <3>2. PICK k \in 1 .. m : u[k] = <<page[q], q>>
      BY <1>4, <2>4, <3>1 DEF n
    <3>3. q # p
      BY <1>6, <2>4
    <3>4. q < p
      <4>1. q \in 1 .. n /\ p \in 1 .. n /\ n \in Nat /\ q # p /\ q <= p
        BY <1>1, <1>6, <3>1, <3>3
      <4> HIDE DEF p
      <4> QED BY ONLY <4>1
    <3>5. o < k /\ k < i
      BY <1>5, <1>6, <2>2, <3>1, <3>2, <3>4
    <3>6. k \in o .. i
      BY <1>3, <2>2, <3>5
    <3> QED BY <2>1, <2>4, <3>2, <3>6
  <2> QED BY <1>1, <2>3, <2>4 DEF W!Within
<1>8. ASSUME W!Within(p, open, close) PROVE Within(u, i, open, close)
  <2>1. PICK a \in 1 .. n, b \in 1 .. n :
          /\ a < p /\ p < b /\ page[a] = open /\ page[b] = close
          /\ \A k \in a + 1 .. p : page[k] # close
    BY <1>1, <1>8 DEF W!Within
  <2>2. PICK o \in 1 .. m : u[o] = <<page[a], a>>
    BY <1>4, <2>1 DEF n
  <2>3. PICK c \in 1 .. m : u[c] = <<page[b], b>>
    BY <1>4, <2>1 DEF n
  <2>4. o < i /\ i < c
    BY <1>5, <1>6, <2>1, <2>2, <2>3
  <2>5. ASSUME NEW k \in o .. i PROVE u[k][1] # close
    <3>1. k \in 1 .. m
      BY <1>3, <1>6, <2>4
    <3>2. k # o => u[o][2] < u[k][2]
      BY <1>5, <2>4, <3>1
    <3>3. k # i => u[k][2] < p
      BY <1>5, <1>6, <2>4, <3>1
    <3>4. CASE k = o
      BY <2>1, <2>2, <3>4
    <3>5. CASE k = i
      BY <1>6, <3>5
    <3>6. CASE k # o /\ k # i
      <4>1. u[k][2] \in a + 1 .. p
        BY <1>1, <1>3, <1>6, <2>1, <2>2, <3>1, <3>2, <3>3, <3>6
      <4> QED BY <1>3, <2>1, <3>1, <4>1
    <3> QED BY <3>4, <3>5, <3>6
  <2>6. o \in 1 .. i /\ c \in i + 1 .. m
    BY <1>3, <1>6, <2>4
  <2> QED BY <2>1, <2>2, <2>3, <2>5, <2>6 DEF Within, m
<1> QED BY <1>7, <1>8 DEF u, s

\* What is left of an HTML page has the words outside its scripts and styles:
\* removing the scripts takes no part of a style away.
LEMMA StripWords ==
  ASSUME page \in Seq(W!Tokens), W!Separate
  PROVE  /\ W!StripHTML(page) \in Seq(Token)
         /\ Words(W!StripHTML(page)) =
              W!Keep(W!Placed(page), {i \in DOMAIN page :
                page[i] = "word" /\ ~ (W!Script(i) \/ W!Style(i))})
<1> DEFINE s == W!Placed(page)
           n == Len(page)
           t == W!RemoveElements(s, "script", "/script")
           u == W!RemoveElements(t, "style", "/style")
<1>1. /\ s \in Seq(Token) /\ Ordered(s)
      /\ n \in Nat /\ DOMAIN page = 1 .. n /\ Len(s) = n
      /\ \A j \in 1 .. n : s[j] = <<page[j], j>> /\ page[j] \in W!Tokens
  BY PlacedPage
<1> HIDE DEF s
<1>2. PICK K : /\ t = Gather(In(K), s)
               /\ \A i \in 1 .. n : s[i][1] \notin {"script", "/script"} =>
                    (s[i][2] \in K <=> ~ Within(s, i, "script", "/script"))
  BY <1>1, RemoveLeaves
<1> HIDE DEF t
<1>3. \A i \in 1 .. n : page[i] \notin {"script", "/script"} => (i \in K <=> ~ W!Script(i))
  <2> SUFFICES ASSUME NEW i \in 1 .. n, page[i] \notin {"script", "/script"}
               PROVE  i \in K <=> ~ W!Script(i)
    OBVIOUS
  <2>1. Within(s, i, "script", "/script") <=> W!Within(i, "script", "/script")
    BY OnPage DEF s
  <2> QED BY <1>1, <1>2, <2>1 DEF W!Script
<1>4. /\ t \in Seq(Token) /\ Ordered(t)
      /\ \A i \in 1 .. Len(t) : \E j \in 1 .. n : t[i] = s[j] /\ s[j][2] \in K
      /\ \A j \in 1 .. n : s[j][2] \in K => \E i \in 1 .. Len(t) : t[i] = s[j]
  <2>1. s \in Seq(Token) /\ Ordered(s)
    BY <1>1
  <2>2. LET part == Gather(In(K), s)
        IN  /\ part \in Seq(Token) /\ Ordered(part)
            /\ \A i \in 1 .. Len(part) : \E j \in 1 .. Len(s) : part[i] = s[j] /\ s[j][2] \in K
            /\ \A j \in 1 .. Len(s) : s[j][2] \in K => \E i \in 1 .. Len(part) : part[i] = s[j]
    BY ONLY <2>1, PartOf
  <2> QED BY <1>1, <1>2, <2>2
<1>5. PICK L : /\ u = Gather(In(L), t)
               /\ \A i \in 1 .. Len(t) : t[i][1] \notin {"style", "/style"} =>
                    (t[i][2] \in L <=> ~ Within(t, i, "style", "/style"))
  BY <1>4, RemoveLeaves
<1> HIDE DEF u
<1>6. \A j \in 1 .. n : page[j] \in {"style", "/style"} => j \in K
  BY <1>1, <1>3 DEF W!Separate
<1>7. \A i \in 1 .. Len(t) : t[i][1] = "word" => (t[i][2] \in L <=> ~ W!Style(t[i][2]))
  <2> SUFFICES ASSUME NEW i \in 1 .. Len(t), t[i][1] = "word"
               PROVE  t[i][2] \in L <=> ~ W!Style(t[i][2])
    OBVIOUS
  <2>1. Within(t, i, "style", "/style") <=> W!Within(t[i][2], "style", "/style")
    BY <1>2, <1>6, OnPart DEF s
  <2> QED BY <1>5, <2>1 DEF W!Style
<1> DEFINE Left(i) == page[i] = "word" /\ i \in K /\ i \in L
<1>8. \A i \in 1 .. n : Left(i) <=> page[i] = "word" /\ ~ (W!Script(i) \/ W!Style(i))
  <2> SUFFICES ASSUME NEW i \in 1 .. n, page[i] = "word"
               PROVE  i \in K /\ i \in L <=> ~ (W!Script(i) \/ W!Style(i))
    OBVIOUS
  <2>1. i \in K <=> ~ W!Script(i)
    BY <1>3
  <2>2. ASSUME i \in K PROVE i \in L <=> ~ W!Style(i)
    <3>1. s[i] = <<page[i], i>> /\ s[i][2] \in K
      BY <1>1, <2>2
    <3>2. PICK k \in 1 .. Len(t) : t[k] = s[i]
      BY <1>4, <3>1
    <3> QED BY <1>7, <3>1, <3>2
  <2> QED BY <2>1, <2>2
<1>9. u \in Seq(Token) /\ Words(u) = W!Keep(s, {i \in DOMAIN page : Left(i)})
  <2> DEFINE g == [x \in Token |-> IF x[2] \in L THEN WordOnly[x] ELSE << >>]
             h == [x \in Token |-> IF x[2] \in K THEN g[x] ELSE << >>]
  <2>1. Words(u) = Gather(g, t)
    BY <1>4, <1>5, TokenMaps, GatherOfPart DEF Words
  <2>2. Maps(g, Token, Seq(Token))
    BY TokenMaps, EmptySeq DEF Maps
  <2>3. Gather(g, t) = Gather(h, s)
    <3> HIDE DEF g
    <3> QED BY <1>1, <1>2, <2>2, GatherOfPart
  <2>4. \A i \in 1 .. n : h[s[i]] = IF i \in {j \in DOMAIN page : Left(j)} THEN <<s[i]>> ELSE << >>
    <3> SUFFICES ASSUME NEW i \in 1 .. n
                 PROVE  h[s[i]] = IF Left(i) THEN <<s[i]>> ELSE << >>
      BY <1>1
    <3>1. s[i] \in Token /\ s[i][1] = page[i] /\ s[i][2] = i
      BY <1>1 DEF Token
    <3> QED BY <3>1 DEF WordOnly
  <2>5. W!Keep(s, {i \in DOMAIN page : Left(i)}) = Gather(h, s)
    <3> HIDE DEF h, Left
    <3> QED BY <1>1, <2>4, KeepIs
  <2>6. u \in Seq(Token)
    BY <1>4, <1>5, TokenMaps, GatherType
  <2> QED BY <2>1, <2>3, <2>5, <2>6
<1>10. {i \in DOMAIN page : Left(i)} =
         {i \in DOMAIN page : page[i] = "word" /\ ~ (W!Script(i) \/ W!Style(i))}
  <2> HIDE DEF Left
  <2> QED BY <1>1, <1>8
<1>11. W!StripHTML(page) = W!Squeeze(u)
  BY DEF W!StripHTML, u, t, s
<1> QED BY <1>9, <1>10, <1>11, SqueezeWords DEF s

\* A page that has been read has its text, cut.
FetchInv ==
  \/ page = << >>
  \/ /\ page \in Seq(W!Tokens)
     /\ text = SubSeq(Reads(page, html), 1, W!Min({Len(Reads(page, html)), MaxChars}))

LEMMA FetchInvariance == W!Spec => []FetchInv
<1>1. W!Init => FetchInv
  BY DEF W!Init, FetchInv
<1>2. FetchInv /\ [W!Next]_(W!vars) => FetchInv'
  <2> SUFFICES ASSUME FetchInv, [W!Next]_(W!vars) PROVE FetchInv'
    OBVIOUS
  <2>1. ASSUME UNCHANGED <<page, html, text>> PROVE FetchInv'
    BY <2>1 DEF FetchInv
  <2>2. CASE W!Fetch \/ W!Refuse \/ W!Redirect \/ W!FetchFails \/ UNCHANGED W!vars
    BY <2>1, <2>2 DEF W!Fetch, W!Refuse, W!Redirect, W!FetchFails, W!vars
  <2>3. ASSUME NEW body \in W!Bodies, NEW declared \in BOOLEAN, W!Respond(body, declared)
        PROVE  FetchInv'
    <3>1. page' = body /\ html' = declared
          /\ text' = SubSeq(Reads(body, declared), 1,
                            W!Min({Len(Reads(body, declared)), MaxChars}))
      BY <2>3 DEF W!Respond, Reads
    <3>2. body \in Seq(W!Tokens)
      BY IsASeq DEF W!Bodies
    <3> QED BY <3>1, <3>2 DEF FetchInv
  <2> QED BY <2>2, <2>3 DEF W!Next
<1> QED BY <1>1, <1>2, PTL DEF W!Spec

\* The text of either kind of page, before it is cut.
LEMMA TextHasWords ==
  ASSUME page \in Seq(W!Tokens), W!Separate
  PROVE  Reads(page, html) \in Seq(Token) /\ Words(Reads(page, html)) = W!Visible
<1>1. CASE W!IsHTML(page, html)
  <2>1. Reads(page, html) = W!StripHTML(page)
    BY <1>1 DEF Reads, W!TextOf
  <2>2. W!Visible = W!Keep(W!Placed(page), {i \in DOMAIN page :
                      page[i] = "word" /\ ~ (W!Script(i) \/ W!Style(i))})
    BY <1>1 DEF W!Visible
  <2> QED BY <2>1, <2>2, StripWords
<1>2. CASE ~ W!IsHTML(page, html)
  <2> DEFINE s == W!Placed(page)
             places == {i \in DOMAIN page : page[i] = "word"}
  <2>1. Reads(page, html) = W!TrimSpace(s)
    BY <1>2 DEF Reads, W!TextOf
  <2>2. W!Visible = W!Keep(s, places)
    BY <1>2 DEF W!Visible
  <2>3. /\ s \in Seq(Token) /\ Len(s) = Len(page) /\ DOMAIN page = 1 .. Len(page)
        /\ \A i \in 1 .. Len(page) : s[i] = <<page[i], i>> /\ s[i] \in Token
    BY PlacedPage, ElementOfSeq
  <2> HIDE DEF s
  <2>4. \A i \in 1 .. Len(s) : WordOnly[s[i]] = IF i \in places THEN <<s[i]>> ELSE << >>
    BY <2>3 DEF WordOnly
  <2>5. W!Keep(s, places) = Words(s)
    <3> HIDE DEF places
    <3> QED BY <2>3, <2>4, KeepIs DEF Words
  <2> QED BY <2>1, <2>2, <2>3, <2>5, TrimWords
<1> QED BY <1>1, <1>2

\* For pages of any length and any limit, the words of the text are the
\* visible words of the page, in order, up to where it is cut.
THEOREM TextIsVisible == W!Spec => []WordsVisible
<1>1. FetchInv => WordsVisible
  <2> SUFFICES ASSUME FetchInv, page # << >>, W!Separate
               PROVE  LET words == W!Keep(text, {i \in DOMAIN text : text[i][1] = "word"})
                      IN  /\ W!IsPrefix(words, W!Visible)
                          /\ Len(text) < MaxChars => words = W!Visible
    BY DEF WordsVisible, W!WordsVisible
  <2> DEFINE all == Reads(page, html)
             cut == W!Min({Len(all), MaxChars})
             rest == SubSeq(all, cut + 1, Len(all))
  <2>1. page \in Seq(W!Tokens) /\ text = SubSeq(all, 1, cut)
    BY DEF FetchInv
  <2>2. all \in Seq(Token) /\ Words(all) = W!Visible
    BY <2>1, TextHasWords
  <2> HIDE DEF all
  <2>3. Len(all) \in Nat
    BY <2>2, LenProperties
  <2>4. cut = IF Len(all) <= MaxChars THEN Len(all) ELSE MaxChars
    BY <2>3, LimitAssumption DEF W!Min
  <2> HIDE DEF cut
  <2>5. cut \in 0 .. Len(all)
    BY <2>3, <2>4, LimitAssumption
  <2>6. /\ text \in Seq(Token) /\ Len(text) = cut /\ rest \in Seq(Token)
        /\ all = text \o rest
    BY <2>1, <2>2, <2>5, Split
  <2>7. W!Keep(text, {i \in DOMAIN text : text[i][1] = "word"}) = Words(text)
    <3> DEFINE places == {i \in DOMAIN text : text[i][1] = "word"}
    <3>1. \A i \in 1 .. Len(text) : text[i] \in Token /\ DOMAIN text = 1 .. Len(text)
      BY <2>6, ElementOfSeq, LenProperties
    <3>2. \A i \in 1 .. Len(text) : WordOnly[text[i]] = IF i \in places THEN <<text[i]>> ELSE << >>
      BY <3>1 DEF WordOnly
    <3> HIDE DEF places
    <3>3. W!Keep(text, places) = Words(text)
      BY <2>6, <3>2, KeepIs DEF Words
    <3> QED BY <3>3 DEF places
  <2>8. Len(text) < MaxChars => text = all
    <3> SUFFICES ASSUME Len(text) < MaxChars PROVE text = all
      OBVIOUS
    <3>1. cut = Len(all)
      BY <2>3, <2>4, <2>6, LimitAssumption
    <3> QED BY <2>1, <2>2, <3>1, SubSeqFull
  <2>9. W!IsPrefix(Words(text), W!Visible)
    <3> HIDE DEF rest
    <3> DEFINE w == Words(text)
               z == Words(rest)
    <3>1. w \in Seq(Token) /\ z \in Seq(Token) /\ W!Visible = w \o z
      BY <2>2, <2>6, WordsType, WordsConcat
    <3> HIDE DEF w, z
    <3>2. /\ Len(w \o z) = Len(w) + Len(z) /\ Len(w) \in Nat /\ Len(z) \in Nat
          /\ SubSeq(w, 1, Len(w)) = w
      BY <3>1, ConcatProperties, LenProperties, SubSeqFull
    <3>3. SubSeq(w \o z, 1, Len(w)) = w
      BY ONLY <3>1, <3>2, ConcatProperties, SubSeqProperties, SeqEqual, LenProperties
    <3> QED BY <3>1, <3>2, <3>3 DEF W!IsPrefix, w
  <2> QED BY <2>2, <2>7, <2>8, <2>9
<1> QED BY <1>1, FetchInvariance, PTL
=============================================================================
