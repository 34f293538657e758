---------------------------- MODULE LinksProofs -----------------------------
(***************************************************************************)
(* Lemmas and theorems about the URLs of Links, for paths of any length.   *)
(* The provers cannot apply the library's induction theorems, whose        *)
(* parameter is an operator; what is said here of all steps of a loop is   *)
(* proved by its least counterexample, of which WFMin says that there is   *)
(* one.                                                                    *)
(***************************************************************************)
EXTENDS Links, WellFoundedInduction, FiniteSetTheorems, SequenceTheorems, TLAPS

Paths == Seq(Text) \ {<<>>}

----------------------------------------------------------------------------
\* Least and greatest numbers.

\* A set of naturals has a least element.
LEMMA Least ==
    ASSUME NEW T, T \subseteq Nat, T # {}
    PROVE  \E n \in T : \A m \in T : n <= m
<1> DEFINE R == {ss \in Nat \X Nat : ss[1] < ss[2]}
<1>1. IsWellFoundedOn(R, Nat)
  BY NatLessThanWellFounded, Zenon DEF OpToRel
<1>2. \A m, n \in Nat : m < n => <<m, n>> \in R
  OBVIOUS
<1> HIDE DEF R
<1>3. PICK n \in T : \A m \in T : <<m, n>> \notin R
  BY <1>1, WFMin
<1>4. \A m \in T : ~(m < n)
  BY <1>2, <1>3, Zenon
<1> QED
  BY <1>4

\* Max of a set of naturals that has a bound.
LEMMA Greatest ==
    ASSUME NEW T, T \subseteq Nat, T # {}, NEW b \in Nat, \A t \in T : t <= b
    PROVE  Max(T) \in T /\ \A t \in T : t <= Max(T)
<1> DEFINE D == {n \in Nat : b - n \in T}
<1>1. D # {}
  <2>1. PICK t \in T : TRUE
    OBVIOUS
  <2>2. b - t \in Nat /\ b - (b - t) = t
    OBVIOUS
  <2> QED
    BY <2>2
<1>2. PICK d \in D : \A e \in D : d <= e
  BY <1>1, Least
<1>3. b - d \in T /\ \A t \in T : t <= b - d
  <2>1. ASSUME NEW t \in T PROVE t <= b - d
    <3>1. b - t \in D
      OBVIOUS
    <3> QED
      BY <1>2, <3>1
  <2> QED
    BY <1>2, <2>1
<1> HIDE DEF D
<1>4. \E t \in T : \A u \in T : t >= u
  BY <1>3
<1>5. Max(T) = CHOOSE t \in T : \A u \in T : t >= u
  BY DEF Max
<1> QED
  BY <1>4, <1>5

----------------------------------------------------------------------------
\* The loop of _normalize_url.

\* A segment of no letters: the provers do better where they do not see the
\* string itself.
Blank == ""

LEMMA BlankIsText == Blank \in Text
  BY LinkConstants, Zenon DEF Blank

\* No segment is the one before it, but for empty ones.
NoRepeat(path) == \A i \in 2 .. Len(path) : path[i] # Blank => path[i - 1] # path[i]

\* The list so far after each segment of a path.
Run(out, path) ==
    /\ out = [n \in 0 .. Len(path) |-> IF n = 0 THEN <<>> ELSE Joined(out[n - 1], path[n])]
    /\ Collapse(path) = out[Len(path)]

LEMMA NothingRepeats == <<>> \in Seq(Text) /\ NoRepeat(<<>>)
<1>1. Len(<<>>) = 0
  OBVIOUS
<1>2. ASSUME NEW i \in 2 .. 0 PROVE FALSE
  OBVIOUS
<1>3. NoRepeat(<<>>)
  BY <1>1, <1>2, Zenon DEF NoRepeat
<1> QED
  BY <1>3, EmptySeq

\* One more segment.
LEMMA JoinedFacts ==
    ASSUME NEW out \in Seq(Text), NEW seg \in Text
    PROVE  /\ Joined(out, seg) \in Paths
           /\ Last(Joined(out, seg)) = seg
           /\ NoRepeat(out) => NoRepeat(Joined(out, seg))
           /\ out # <<>> => Joined(out, seg)[1] = out[1]
           /\ out = <<>> => Joined(out, seg)[1] = seg
<1>1. /\ Len(out) \in Nat /\ (out = <<>> <=> Len(out) = 0)
      /\ \A i \in 1 .. Len(out) : out[i] \in Text
  BY EmptySeq, LenProperties, ElementOfSeq
<1>2. CASE seg # Blank /\ out # <<>> /\ Last(out) = seg
  <2>1. Joined(out, seg) = out
    BY <1>2 DEF Joined, Blank
  <2> QED
    BY <1>2, <2>1 DEF Paths
<1>3. CASE ~(seg # Blank /\ out # <<>> /\ Last(out) = seg)
  <2>1. Joined(out, seg) = Append(out, seg)
    BY <1>3 DEF Joined, Blank
  <2>2. /\ Append(out, seg) \in Seq(Text)
        /\ Append(out, seg) # <<>>
        /\ Len(Append(out, seg)) = Len(out) + 1
        /\ \A i \in 1 .. Len(out) : Append(out, seg)[i] = out[i]
        /\ Append(out, seg)[Len(out) + 1] = seg
    BY AppendProperties
  <2> DEFINE more == Append(out, seg)
  <2>3. /\ more \in Seq(Text) /\ more # <<>> /\ Len(more) = Len(out) + 1
        /\ \A i \in 1 .. Len(out) : more[i] = out[i]
        /\ more[Len(out) + 1] = seg
    BY <2>2
  <2> HIDE DEF more
  <2>4. Last(more) = seg
    BY <2>3 DEF Last
  <2>5. ASSUME NoRepeat(out), NEW i \in 2 .. Len(more), more[i] # Blank
        PROVE  more[i - 1] # more[i]
    <3>1. CASE i <= Len(out)
      <4>1. i - 1 \in 1 .. Len(out) /\ i \in 1 .. Len(out) /\ i \in 2 .. Len(out)
        BY <1>1, <2>3, <3>1
      <4>2. more[i - 1] = out[i - 1] /\ more[i] = out[i]
        BY <2>3, <4>1
      <4> QED
        BY <2>5, <4>1, <4>2, Zenon DEF NoRepeat
    <3>2. CASE i = Len(out) + 1
      <4>1. i - 1 \in 1 .. Len(out) /\ i - 1 = Len(out) /\ Len(out) # 0
        BY <1>1, <2>3, <3>2
      <4>2. out # <<>> /\ more[i - 1] = Last(out) /\ more[i] = seg
        BY <1>1, <2>3, <3>2, <4>1 DEF Last
      <4> QED
        BY <1>3, <2>5, <4>2
    <3> QED
      BY <1>1, <2>3, <3>1, <3>2
  <2>6. NoRepeat(out) => NoRepeat(more)
    BY <2>5, Zenon DEF NoRepeat
  <2>7. /\ out # <<>> => more[1] = out[1]
        /\ out = <<>> => more[1] = seg
    <3>1. CASE out # <<>>
      <4>1. 1 \in 1 .. Len(out)
        BY <1>1, <3>1
      <4> QED
        BY <2>3, <3>1, <4>1
    <3>2. CASE out = <<>>
      <4>1. Len(out) + 1 = 1
        BY <1>1, <3>2
      <4> QED
        BY <2>3, <3>2, <4>1, Zenon
    <3> QED
      BY <3>1, <3>2
  <2>8. Joined(out, seg) = more
    BY <2>1 DEF more
  <2> QED
    BY <2>3, <2>4, <2>6, <2>7, <2>8 DEF Paths
<1> QED
  BY <1>2, <1>3

\* The loop runs to the end of any path.
LEMMA RunExists ==
    ASSUME NEW path \in Seq(Text)
    PROVE  \E out : Run(out, path)
<1> DEFINE Upto(out, k) ==
             out = [n \in 0 .. k |-> IF n = 0 THEN <<>> ELSE Joined(out[n - 1], path[n])]
           Fails == {k \in Nat : ~ \E out : Upto(out, k)}
<1>1. Fails = {}
  <2> SUFFICES ASSUME Fails # {} PROVE FALSE
    OBVIOUS
  <2>1. PICK k \in Fails : \A m \in Fails : k <= m
    BY Least, Zenon
  <2>2. k # 0
    <3> DEFINE start == [n \in 0 .. 0 |-> <<>>]
    <3>1. start = [n \in 0 .. 0 |-> IF n = 0 THEN <<>> ELSE Joined(start[n - 1], path[n])]
      OBVIOUS
    <3> QED
      BY <2>1, <3>1
  <2>3. k - 1 \in Nat /\ k - 1 \notin Fails
    BY <2>1, <2>2
  <2>4. PICK out : Upto(out, k - 1)
    BY <2>3
  <2> DEFINE more == [n \in 0 .. k |-> IF n = k THEN Joined(out[k - 1], path[k]) ELSE out[n]]
  <2>5. \A n \in 0 .. k - 1 :
            out[n] = IF n = 0 THEN <<>> ELSE Joined(out[n - 1], path[n])
    <3> HIDE DEF Fails
    <3> QED
      BY <2>4
  <2>6. \A n \in 0 .. k :
            more[n] = IF n = 0 THEN <<>> ELSE Joined(more[n - 1], path[n])
    <3> SUFFICES ASSUME NEW n \in 0 .. k
                 PROVE  more[n] = IF n = 0 THEN <<>> ELSE Joined(more[n - 1], path[n])
      OBVIOUS
    <3>1. k \in Nat
      BY <2>1
    <3>2. CASE n = k
      <4>1. more[n] = Joined(out[k - 1], path[k]) /\ more[n - 1] = out[k - 1]
        BY <2>2, <3>1, <3>2
      <4> QED
        BY <2>2, <3>2, <4>1
    <3>3. CASE n # k /\ n # 0
      <4>1. more[n] = out[n] /\ more[n - 1] = out[n - 1] /\ n \in 0 .. k - 1
        BY <3>1, <3>3
      <4> QED
        BY <2>5, <3>3, <4>1
    <3>4. CASE n # k /\ n = 0
      <4>1. more[n] = out[n] /\ n \in 0 .. k - 1
        BY <3>1, <3>4
      <4> QED
        BY <2>5, <3>4, <4>1
    <3> QED
      BY <3>2, <3>3, <3>4
  <2>7. Upto(more, k)
    <3> HIDE DEF Fails
    <3>1. more = [n \in 0 .. k |-> more[n]]
      OBVIOUS
    <3> QED
      BY <2>6, <3>1
  <2> QED
    BY <2>1, <2>7
<1>2. Len(path) \in Nat
  BY LenProperties
<1>3. PICK out : Upto(out, Len(path))
  BY <1>1, <1>2
<1> DEFINE c == CHOOSE h :
             h = [n \in 0 .. Len(path) |-> IF n = 0 THEN <<>> ELSE Joined(h[n - 1], path[n])]
<1>4. Upto(c, Len(path))
  BY <1>3, Zenon
<1>5. Collapse(path) = c[Len(path)]
  BY Zenon DEF Collapse
<1> QED
  BY <1>4, <1>5, Zenon DEF Run

\* Its steps.
LEMMA RunSteps ==
    ASSUME NEW path \in Seq(Text), NEW out, Run(out, path)
    PROVE  /\ out[0] = <<>>
           /\ \A n \in 1 .. Len(path) : out[n] = Joined(out[n - 1], path[n])
           /\ Len(path) \in Nat
           /\ \A n \in 1 .. Len(path) : path[n] \in Text
<1>1. Len(path) \in Nat /\ \A n \in 1 .. Len(path) : path[n] \in Text
  BY LenProperties, ElementOfSeq
<1>2. out = [n \in 0 .. Len(path) |-> IF n = 0 THEN <<>> ELSE Joined(out[n - 1], path[n])]
  BY DEF Run
<1>3. \A n \in 0 .. Len(path) :
          out[n] = IF n = 0 THEN <<>> ELSE Joined(out[n - 1], path[n])
  BY <1>2, Zenon
<1> QED
  BY <1>1, <1>3

\* What every list of the loop is.
LEMMA RunLists ==
    ASSUME NEW path \in Seq(Text), NEW out, Run(out, path)
    PROVE  \A n \in 1 .. Len(path) :
               /\ out[n] \in Paths
               /\ Last(out[n]) = path[n]
               /\ out[n][1] = path[1]
               /\ NoRepeat(out[n])
<1> DEFINE Good(n) == /\ out[n] \in Paths
                      /\ Last(out[n]) = path[n]
                      /\ out[n][1] = path[1]
                      /\ NoRepeat(out[n])
           Bad == {n \in 1 .. Len(path) : ~Good(n)}
<1>1. Len(path) \in Nat /\ Bad \subseteq Nat
  BY RunSteps
<1>2. Bad = {}
  <2> SUFFICES ASSUME Bad # {} PROVE FALSE
    OBVIOUS
  <2>1. PICK n \in Bad : \A m \in Bad : n <= m
    BY <1>1, Least, Zenon
  <2>2. n \in 1 .. Len(path) /\ ~Good(n) /\ path[n] \in Text
    BY <2>1, RunSteps
  <2>3. out[n] = Joined(out[n - 1], path[n])
    BY <2>2, RunSteps
  <2>4. CASE n = 1
    <3>1. out[n - 1] = <<>>
      <4>1. n - 1 = 0
        BY <2>4
      <4> QED
        BY <4>1, RunSteps, Zenon
    <3>2. /\ Joined(<<>>, path[n]) \in Paths
          /\ Last(Joined(<<>>, path[n])) = path[n]
          /\ NoRepeat(Joined(<<>>, path[n]))
          /\ Joined(<<>>, path[n])[1] = path[n]
      BY <2>2, NothingRepeats, JoinedFacts
    <3>3. Good(n)
      BY <2>3, <2>4, <3>1, <3>2, Zenon
    <3> QED
      BY <2>2, <3>3
  <2>5. CASE n # 1
    <3>1. n - 1 \in 1 .. Len(path) /\ ~(n <= n - 1)
      BY <1>1, <2>2, <2>5
    <3>2. Good(n - 1)
      BY <2>1, <3>1
    <3>3. out[n - 1] \in Seq(Text) /\ out[n - 1] # <<>>
      BY <3>2 DEF Paths
    <3> DEFINE last == out[n - 1]
    <3>4. last \in Seq(Text) /\ last # <<>> /\ NoRepeat(last) /\ last[1] = path[1]
      BY <3>2, <3>3
    <3> HIDE DEF last
    <3>5. /\ Joined(last, path[n]) \in Paths
          /\ Last(Joined(last, path[n])) = path[n]
          /\ NoRepeat(Joined(last, path[n]))
          /\ Joined(last, path[n])[1] = path[1]
      BY <2>2, <3>4, JoinedFacts
    <3>6. Good(n)
      BY <2>3, <3>5, Zenon DEF last
    <3> QED
      BY <2>2, <3>6
  <2> QED
    BY <2>4, <2>5
<1> QED
  BY <1>2

\* The path that is left has no repetition.
LEMMA Collapsed ==
    ASSUME NEW path \in Paths
    PROVE  Collapse(path) \in Paths /\ NoRepeat(Collapse(path))
<1>1. path \in Seq(Text) /\ Len(path) \in Nat \ {0}
  BY LenProperties, EmptySeq DEF Paths
<1>2. PICK out : Run(out, path)
  BY <1>1, RunExists
<1>3. Len(path) \in 1 .. Len(path) /\ Collapse(path) = out[Len(path)]
  BY <1>1, <1>2 DEF Run
<1> QED
  BY <1>1, <1>2, <1>3, RunLists

\* A path without repetition is left as it is.
LEMMA Unrepeated ==
    ASSUME NEW path \in Paths, NoRepeat(path)
    PROVE  Collapse(path) = path
<1>1. path \in Seq(Text) /\ Len(path) \in Nat \ {0}
  BY LenProperties, EmptySeq DEF Paths
<1>2. PICK out : Run(out, path)
  BY <1>1, RunExists
<1> DEFINE Good(n) == Len(out[n]) = n /\ \A i \in 1 .. n : out[n][i] = path[i]
           Bad == {n \in 1 .. Len(path) : ~Good(n)}
<1>3. Bad = {}
  <2> SUFFICES ASSUME Bad # {} PROVE FALSE
    OBVIOUS
  <2>1. PICK n \in Bad : \A m \in Bad : n <= m
    <3>1. Bad \subseteq Nat
      BY <1>1
    <3> QED
      BY <3>1, Least, Zenon
  <2>2. n \in 1 .. Len(path) /\ ~Good(n) /\ n \in Nat
    BY <2>1
  <2>3. out[n] = Joined(out[n - 1], path[n])
    BY <1>1, <1>2, <2>2, RunSteps
  <2>4. CASE n = 1
    <3>1. out[n] = <<path[1]>>
      <4>1. out[n - 1] = <<>>
        BY <1>1, <1>2, <2>4, RunSteps
      <4> QED
        BY <2>3, <2>4, <4>1 DEF Joined, Blank
    <3>2. Good(n)
      BY <2>4, <3>1
    <3> QED
      BY <2>2, <3>2
  <2>5. CASE n # 1
    <3>1. n - 1 \in 1 .. Len(path) /\ ~(n <= n - 1) /\ n \in 2 .. Len(path)
      BY <1>1, <2>2, <2>5
    <3>2. Good(n - 1)
      BY <2>1, <3>1
    <3>3. out[n - 1] \in Seq(Text) /\ Last(out[n - 1]) = path[n - 1] /\ path[n] \in Text
      BY <1>1, <1>2, <2>2, <3>1, RunLists, RunSteps DEF Paths
    <3>4. ~(path[n] # Blank /\ Last(out[n - 1]) = path[n])
      BY <3>1, <3>3 DEF NoRepeat
    <3>5. out[n] = Append(out[n - 1], path[n])
      BY <2>3, <3>4 DEF Joined, Blank
    <3>6. /\ Len(out[n]) = Len(out[n - 1]) + 1
          /\ \A i \in 1 .. Len(out[n - 1]) : out[n][i] = out[n - 1][i]
          /\ out[n][Len(out[n - 1]) + 1] = path[n]
      BY <3>3, <3>5, AppendProperties
    <3>7. Good(n)
      BY <2>2, <3>2, <3>6
    <3> QED
      BY <2>2, <3>7
  <2> QED
    BY <2>4, <2>5
<1>4. Len(path) \in 1 .. Len(path) /\ Collapse(path) = out[Len(path)]
  BY <1>1, <1>2 DEF Run
<1>5. Good(Len(path))
  BY <1>3, <1>4
<1>6. out[Len(path)] \in Seq(Text)
  BY <1>1, <1>2, <1>4, RunLists DEF Paths
<1>7. \A i \in 1 .. Len(path) : out[Len(path)][i] = path[i]
  BY <1>5
<1> QED
  BY <1>1, <1>4, <1>5, <1>6, <1>7, SeqEqual

----------------------------------------------------------------------------
\* rstrip.

\* Where a path without its last empty segments ends.
EndsAt(path, k) ==
    /\ k \in 1 .. Len(path)
    /\ k = 1 \/ path[k] # Blank
    /\ \A j \in k + 1 .. Len(path) : path[j] = Blank

\* There is such a place, and Strip cuts there.
LEMMA EndExists ==
    ASSUME NEW path \in Paths
    PROVE  \E k : EndsAt(path, k)
<1> DEFINE T == {1} \cup {i \in 1 .. Len(path) : path[i] # Blank}
<1>1. Len(path) \in Nat \ {0}
  BY LenProperties, EmptySeq DEF Paths
<1>2. T \subseteq Nat /\ T # {} /\ \A t \in T : t <= Len(path)
  BY <1>1
<1>3. Max(T) \in T /\ \A t \in T : t <= Max(T)
  BY <1>1, <1>2, Greatest
<1>4. EndsAt(path, Max(T))
  <2> DEFINE k == Max(T)
  <2>1. k \in T /\ \A t \in T : t <= k
    BY <1>3
  <2> HIDE DEF k
  <2>2. EndsAt(path, k)
    BY <1>1, <2>1 DEF EndsAt
  <2> QED
    BY <2>2 DEF k
<1> QED
  BY <1>4

LEMMA StripAtEnd ==
    ASSUME NEW path \in Paths, NEW k, EndsAt(path, k)
    PROVE  /\ Strip(path) = SubSeq(path, 1, k)
           /\ Strip(path) \in Paths
           /\ Len(Strip(path)) = k
           /\ \A i \in 1 .. k : Strip(path)[i] = path[i]
<1>1. path \in Seq(Text) /\ Len(path) \in Nat \ {0} /\ DOMAIN path = 1 .. Len(path)
  BY LenProperties, EmptySeq DEF Paths
<1> DEFINE T == {1} \cup {i \in DOMAIN path : path[i] # Blank}
<1>2. T \subseteq Nat /\ T # {} /\ \A t \in T : t <= Len(path)
  BY <1>1
<1>3. Max(T) \in T /\ \A t \in T : t <= Max(T)
  BY <1>1, <1>2, Greatest
<1>4. k \in T /\ \A t \in T : t <= k
  BY <1>1 DEF EndsAt
<1>5. Max(T) = k
  <2> DEFINE m == Max(T)
  <2>1. m \in T /\ k <= m /\ m <= k /\ m \in Nat /\ k \in Nat
    BY <1>2, <1>3, <1>4
  <2> HIDE DEF m
  <2>2. m = k
    BY <2>1
  <2> QED
    BY <2>2 DEF m
<1>6. Strip(path) = SubSeq(path, 1, k)
  BY <1>5, Zenon DEF Strip, Blank
<1>7. k \in 1 .. Len(path) /\ k \in Nat
  BY <1>1 DEF EndsAt
<1> DEFINE cut == SubSeq(path, 1, k)
<1>8. \A i \in 1 .. k : path[i] \in Text
  BY <1>1, <1>7, ElementOfSeq
<1>9. cut \in Seq(Text) /\ Len(cut) = k /\ \A i \in 1 .. k : cut[i] = path[i]
  <2>1. /\ SubSeq(path, 1, k) \in Seq(Text)
        /\ Len(SubSeq(path, 1, k)) = IF 1 <= k THEN k - 1 + 1 ELSE 0
        /\ \A i \in 1 .. k - 1 + 1 : SubSeq(path, 1, k)[i] = path[1 + i - 1]
    BY <1>1, <1>7, <1>8, SubSeqProperties
  <2> QED
    BY <1>7, <2>1
<1>10. cut # <<>>
  BY <1>7, <1>9, EmptySeq
<1> QED
  BY <1>6, <1>9, <1>10 DEF Paths

\* Stripping leaves no more to strip, and makes no repetition.
LEMMA Stripped ==
    ASSUME NEW path \in Paths
    PROVE  /\ Strip(path) \in Paths
           /\ Strip(Strip(path)) = Strip(path)
           /\ NoRepeat(path) => NoRepeat(Strip(path))
<1>1. PICK k : EndsAt(path, k)
  BY EndExists
<1>2. /\ Strip(path) \in Paths
      /\ Len(Strip(path)) = k
      /\ \A i \in 1 .. k : Strip(path)[i] = path[i]
  BY <1>1, StripAtEnd
<1>3. Len(path) \in Nat /\ k \in 1 .. Len(path)
  BY <1>1, LenProperties DEF Paths, EndsAt
<1> DEFINE cut == Strip(path)
<1>4. cut \in Paths /\ Len(cut) = k /\ \A i \in 1 .. k : cut[i] = path[i]
  BY <1>2
<1> HIDE DEF cut
<1>5. EndsAt(cut, k)
  BY <1>1, <1>3, <1>4 DEF EndsAt
<1>6. Strip(cut) \in Paths /\ Len(Strip(cut)) = k /\ \A i \in 1 .. k : Strip(cut)[i] = cut[i]
  BY <1>4, <1>5, StripAtEnd
<1>7. Strip(cut) = cut
  BY <1>4, <1>6, SeqEqual DEF Paths
<1>8. NoRepeat(path) => NoRepeat(cut)
  BY <1>3, <1>4 DEF NoRepeat
<1> QED
  BY <1>2, <1>7, <1>8 DEF cut

----------------------------------------------------------------------------
\* _normalize_url.

\* A URL with another path and another fragment.
Replace(url, path, fragment) == [url EXCEPT !.path = path, !.fragment = fragment]

LEMMA Replaced ==
    ASSUME NEW url \in Urls, NEW path \in Seq(Text), NEW fragment \in Text
    PROVE  LET u == Replace(url, path, fragment)
           IN  /\ u \in Urls
               /\ u.scheme = url.scheme /\ u.host = url.host /\ u.query = url.query
               /\ u.path = path /\ u.fragment = fragment
               /\ url.path = path /\ url.fragment = fragment => u = url
<1> DEFINE u == Replace(url, path, fragment)
<1>1. u \in Urls
  BY DEF Urls, Replace
<1>2. /\ u.scheme = url.scheme /\ u.host = url.host /\ u.query = url.query
      /\ u.path = path /\ u.fragment = fragment
  BY DEF Urls, Replace
<1>3. url.path = path /\ url.fragment = fragment => u = url
  BY DEF Urls, Replace
<1> QED
  BY <1>1, <1>2, <1>3

\* A path whose last segment has lost its parameters.
LEMMA PlainPath ==
    ASSUME NEW path \in Paths
    PROVE  /\ Plain(path) \in Paths
           /\ Len(Plain(path)) = Len(path)
           /\ Last(Plain(path)) = Bare[Last(path)]
           /\ Bare[Last(path)] = Last(path) <=> Plain(path) = path
<1>1. path \in Seq(Text) /\ Len(path) \in Nat \ {0} /\ Len(path) \in 1 .. Len(path)
  BY LenProperties, EmptySeq DEF Paths
<1>2. path[Len(path)] \in Text /\ Bare[path[Len(path)]] \in Text
  BY <1>1, ElementOfSeq, LinkConstants
<1> DEFINE plain == Plain(path)
           last == Bare[path[Len(path)]]
<1>3. plain = [path EXCEPT ![Len(path)] = last]
  BY DEF Plain
<1>4. last \in Text
  BY <1>2
<1> HIDE DEF plain, last
<1>5. /\ plain \in Seq(Text) /\ Len(plain) = Len(path)
      /\ plain[Len(path)] = last
      /\ path[Len(path)] = last => plain = path
  BY <1>1, <1>3, <1>4
<1>6. plain # <<>>
  BY <1>1, <1>5, EmptySeq
<1>7. Last(plain) = last /\ Last(path) = path[Len(path)]
  BY <1>5 DEF Last
<1> QED
  BY <1>5, <1>6, <1>7, Zenon DEF Paths, plain, last

\* The path that NormalizeUrl leaves of one.
Short(path) == Strip(Collapse(Plain(path)))

LEMMA ShortPath ==
    ASSUME NEW path \in Paths
    PROVE  /\ Short(path) \in Paths
           /\ NoRepeat(Short(path))
           /\ Strip(Collapse(Short(path))) = Short(path)
<1> DEFINE p == Plain(path)
           c == Collapse(p)
<1>1. p \in Paths
  BY PlainPath
<1> HIDE DEF p
<1>2. c \in Paths /\ NoRepeat(c)
  BY <1>1, Collapsed
<1> HIDE DEF c
<1>3. Strip(c) \in Paths /\ Strip(Strip(c)) = Strip(c) /\ NoRepeat(Strip(c))
  BY <1>2, Stripped
<1>4. Collapse(Strip(c)) = Strip(c)
  BY <1>3, Unrepeated
<1> QED
  BY <1>3, <1>4, Zenon DEF Short, c, p

\* What NormalizeUrl makes of a URL that has a path.
LEMMA Normalized ==
    ASSUME NEW url \in Urls, url.path # <<>>
    PROVE  /\ NormalizeUrl(url) = Replace(url, Short(url.path), Blank)
           /\ NormalizeUrl(url) \in Urls
           /\ NormalizeUrl(url).scheme = url.scheme
           /\ NormalizeUrl(url).host = url.host
           /\ NormalizeUrl(url).query = url.query
           /\ NormalizeUrl(url).path = Short(url.path)
           /\ NormalizeUrl(url).fragment = Blank
<1>1. url.path \in Paths
  BY DEF Urls, Paths
<1> DEFINE short == Short(url.path)
<1>2. short \in Paths
  BY <1>1, ShortPath
<1> DEFINE n == NormalizeUrl(url)
<1>3. n = Replace(url, short, Blank)
  BY Zenon DEF NormalizeUrl, Blank, Replace, Short
<1> HIDE DEF short, n
<1>4. short \in Seq(Text) /\ Blank \in Text
  BY <1>2, BlankIsText DEF Paths
<1>5. /\ n \in Urls
      /\ n.scheme = url.scheme /\ n.host = url.host /\ n.query = url.query
      /\ n.path = short /\ n.fragment = Blank
  BY <1>3, <1>4, Replaced
<1> QED
  BY <1>2, <1>3, <1>5 DEF n, short

----------------------------------------------------------------------------
\* What is left of a path, by its indices.

\* The places among the first n whose segments stay.
Stays(path, i) == path[i] = Blank \/ i = 1 \/ path[i - 1] # path[i]
KeptTo(path, n) == {i \in 1 .. n : Stays(path, i)}
CountTo(path, n) == Cardinality(KeptTo(path, n))

\* One place more.
LEMMA KeptStep ==
    ASSUME NEW path, NEW n \in Nat \ {0}
    PROVE  /\ CountTo(path, n - 1) \in Nat
           /\ Stays(path, n) => /\ KeptTo(path, n) = KeptTo(path, n - 1) \cup {n}
                                /\ CountTo(path, n) = CountTo(path, n - 1) + 1
           /\ ~Stays(path, n) => /\ KeptTo(path, n) = KeptTo(path, n - 1)
                                 /\ CountTo(path, n) = CountTo(path, n - 1)
<1>1. IsFiniteSet(KeptTo(path, n - 1)) /\ n \notin KeptTo(path, n - 1)
  <2>1. KeptTo(path, n - 1) \subseteq 1 .. n - 1 /\ n \notin 1 .. n - 1
    BY DEF KeptTo
  <2>2. IsFiniteSet(1 .. n - 1)
    BY FS_Interval
  <2> QED
    BY <2>1, <2>2, FS_Subset
<1>2. CountTo(path, n - 1) \in Nat
  BY <1>1, FS_CardinalityType DEF CountTo
<1>3. Stays(path, n) => KeptTo(path, n) = KeptTo(path, n - 1) \cup {n}
  BY DEF KeptTo
<1>4. ~Stays(path, n) => KeptTo(path, n) = KeptTo(path, n - 1)
  BY DEF KeptTo
<1>5. Cardinality(KeptTo(path, n - 1) \cup {n}) = Cardinality(KeptTo(path, n - 1)) + 1
  BY <1>1, FS_AddElement
<1> QED
  BY <1>2, <1>3, <1>4, <1>5 DEF CountTo

\* None at first.
LEMMA KeptNone ==
    ASSUME NEW path
    PROVE  KeptTo(path, 0) = {} /\ CountTo(path, 0) = 0
<1>1. KeptTo(path, 0) = {}
  BY DEF KeptTo
<1> QED
  BY <1>1, FS_EmptySet DEF CountTo

\* A segment is appended where it stays.
LEMMA RunAppends ==
    ASSUME NEW path \in Seq(Text), NEW out, Run(out, path), NEW n \in 1 .. Len(path)
    PROVE  /\ out[n - 1] \in Seq(Text)
           /\ Stays(path, n) => out[n] = Append(out[n - 1], path[n])
           /\ ~Stays(path, n) => out[n] = out[n - 1]
<1>1. out[n] = Joined(out[n - 1], path[n]) /\ Len(path) \in Nat
  BY RunSteps
<1>2. CASE n = 1
  <2>1. n - 1 = 0
    BY <1>2
  <2>2. out[n - 1] = <<>>
    BY <2>1, RunSteps, Zenon
  <2>3. Joined(<<>>, path[n]) = Append(<<>>, path[n])
    BY DEF Joined
  <2>4. Stays(path, n)
    BY <1>2 DEF Stays
  <2> QED
    BY <1>1, <2>2, <2>3, <2>4, NothingRepeats, Zenon
<1>3. CASE n # 1
  <2>1. n - 1 \in 1 .. Len(path)
    BY <1>1, <1>3
  <2>2. out[n - 1] \in Paths /\ Last(out[n - 1]) = path[n - 1]
    BY <2>1, RunLists
  <2>3. out[n - 1] \in Seq(Text) /\ out[n - 1] # <<>>
    BY <2>2 DEF Paths
  <2>4. Stays(path, n) <=> path[n] = Blank \/ path[n - 1] # path[n]
    BY <1>3, Zenon DEF Stays
  <2>5. Stays(path, n) => Joined(out[n - 1], path[n]) = Append(out[n - 1], path[n])
    BY <2>2, <2>4, Zenon DEF Joined, Blank
  <2>6. ~Stays(path, n) => Joined(out[n - 1], path[n]) = out[n - 1]
    BY <2>2, <2>3, <2>4, Zenon DEF Joined, Blank
  <2> QED
    BY <1>1, <2>3, <2>5, <2>6, Zenon
<1> QED
  BY <1>2, <1>3

\* The list so far has the segments that stay, in their order.
Listed(list, path, n) ==
    /\ Len(list) = CountTo(path, n)
    /\ \A i \in KeptTo(path, n) :
          CountTo(path, i) \in 1 .. CountTo(path, n) /\ list[CountTo(path, i)] = path[i]
    /\ \A m \in 1 .. CountTo(path, n) : \E i \in KeptTo(path, n) : CountTo(path, i) = m

LEMMA ListedStep ==
    ASSUME NEW path \in Seq(Text), NEW out, Run(out, path), NEW n \in 1 .. Len(path),
           Listed(out[n - 1], path, n - 1)
    PROVE  Listed(out[n], path, n)
<1> DEFINE list == out[n - 1]
           more == out[n]
           c == CountTo(path, n - 1)
<1>1. /\ list \in Seq(Text)
      /\ Stays(path, n) => more = Append(list, path[n])
      /\ ~Stays(path, n) => more = list
      /\ path[n] \in Text /\ n \in Nat \ {0}
  BY RunAppends, RunSteps
<1>2. /\ c \in Nat
      /\ Stays(path, n) => /\ KeptTo(path, n) = KeptTo(path, n - 1) \cup {n}
                           /\ CountTo(path, n) = c + 1
      /\ ~Stays(path, n) => /\ KeptTo(path, n) = KeptTo(path, n - 1)
                            /\ CountTo(path, n) = c
  BY <1>1, KeptStep
<1>3. /\ Len(list) = c
      /\ \A i \in KeptTo(path, n - 1) : CountTo(path, i) \in 1 .. c /\ list[CountTo(path, i)] = path[i]
      /\ \A m \in 1 .. c : \E i \in KeptTo(path, n - 1) : CountTo(path, i) = m
  BY DEF Listed
<1> HIDE DEF list, more, c
<1>4. CASE ~Stays(path, n)
  <2>1. Listed(more, path, n)
    BY <1>1, <1>2, <1>3, <1>4, Zenon DEF Listed
  <2> QED
    BY <2>1 DEF more
<1>5. CASE Stays(path, n)
  <2>1. /\ Len(more) = c + 1
        /\ \A i \in 1 .. c : more[i] = list[i]
        /\ more[c + 1] = path[n]
    BY <1>1, <1>3, <1>5, AppendProperties
  <2>2. ASSUME NEW i \in KeptTo(path, n)
        PROVE  CountTo(path, i) \in 1 .. c + 1 /\ more[CountTo(path, i)] = path[i]
    <3>1. CASE i = n
      BY <1>2, <1>5, <2>1, <3>1
    <3>2. CASE i \in KeptTo(path, n - 1)
      BY <1>2, <1>3, <2>1, <3>2
    <3> QED
      BY <1>2, <1>5, <2>2, <3>1, <3>2
  <2>3. ASSUME NEW m \in 1 .. c + 1
        PROVE  \E i \in KeptTo(path, n) : CountTo(path, i) = m
    <3>1. CASE m = c + 1
      BY <1>2, <1>5, <3>1
    <3>2. CASE m # c + 1
      <4>1. m \in 1 .. c
        BY <1>2, <2>3, <3>2
      <4> QED
        BY <1>2, <1>3, <1>5, <4>1
    <3> QED
      BY <3>1, <3>2
  <2>4. Listed(more, path, n)
    BY <1>2, <1>5, <2>1, <2>2, <2>3 DEF Listed
  <2> QED
    BY <2>4 DEF more
<1> QED
  BY <1>4, <1>5

LEMMA RunListed ==
    ASSUME NEW path \in Seq(Text), NEW out, Run(out, path)
    PROVE  \A n \in 0 .. Len(path) : Listed(out[n], path, n)
<1> DEFINE Bad == {n \in 0 .. Len(path) : ~Listed(out[n], path, n)}
<1>1. Len(path) \in Nat /\ Bad \subseteq Nat
  BY RunSteps
<1>2. Bad = {}
  <2> SUFFICES ASSUME Bad # {} PROVE FALSE
    OBVIOUS
  <2>1. PICK n \in Bad : \A m \in Bad : n <= m
    BY <1>1, Least, Zenon
  <2>2. n \in 0 .. Len(path) /\ n \in Nat /\ ~Listed(out[n], path, n)
    BY <1>1, <2>1
  <2>3. n # 0
    <3>1. Listed(out[0], path, 0)
      <4>1. out[0] = <<>> /\ Len(<<>>) = 0
        BY RunSteps, EmptySeq
      <4>2. 1 .. 0 = {}
        OBVIOUS
      <4> QED
        BY <4>1, <4>2, KeptNone, Zenon DEF Listed
    <3> QED
      BY <2>2, <3>1
  <2>4. n - 1 \in 0 .. Len(path) /\ ~(n <= n - 1) /\ n \in 1 .. Len(path)
    BY <1>1, <2>2, <2>3
  <2>5. Listed(out[n - 1], path, n - 1)
    BY <2>1, <2>4
  <2> QED
    BY <2>2, <2>4, <2>5, ListedStep
<1> QED
  BY <1>2

\* More of the list: that of the first k segments, and then only empty ones.
Extends(list, more) ==
    /\ Len(list) <= Len(more)
    /\ \A i \in 1 .. Len(list) : more[i] = list[i]
    /\ \A i \in Len(list) + 1 .. Len(more) : more[i] = Blank

LEMMA RunExtends ==
    ASSUME NEW path \in Seq(Text), NEW out, Run(out, path), NEW k \in 0 .. Len(path),
           \A j \in k + 1 .. Len(path) : path[j] = Blank
    PROVE  \A n \in k .. Len(path) :
               out[n] \in Seq(Text) /\ Len(out[n]) >= n - k /\ Extends(out[k], out[n])
<1> DEFINE Good(n) ==
             out[n] \in Seq(Text) /\ Len(out[n]) >= n - k /\ Extends(out[k], out[n])
           Bad == {n \in k .. Len(path) : ~Good(n)}
<1>1. Len(path) \in Nat /\ k \in Nat /\ Bad \subseteq Nat
  BY RunSteps
<1>2. \A n \in 0 .. Len(path) : out[n] \in Seq(Text)
  <2>1. out[0] \in Seq(Text)
    BY RunSteps, NothingRepeats
  <2>2. \A n \in 1 .. Len(path) : out[n] \in Seq(Text)
    BY RunLists DEF Paths
  <2>3. ASSUME NEW n \in 0 .. Len(path) PROVE n = 0 \/ n \in 1 .. Len(path)
    BY <1>1
  <2> QED
    BY <2>1, <2>2, <2>3, Zenon
<1>3. Bad = {}
  <2> SUFFICES ASSUME Bad # {} PROVE FALSE
    OBVIOUS
  <2>1. PICK n \in Bad : \A m \in Bad : n <= m
    BY <1>1, Least, Zenon
  <2>2. n \in k .. Len(path) /\ n \in Nat /\ ~Good(n)
    BY <1>1, <2>1
  <2>3. n # k
    <3>1. out[k] \in Seq(Text) /\ Len(out[k]) \in Nat
      BY <1>2, LenProperties
    <3>2. Good(k)
      BY <1>1, <3>1 DEF Extends
    <3> QED
      BY <2>2, <3>2
  <2>4. n - 1 \in k .. Len(path) /\ ~(n <= n - 1) /\ n \in 1 .. Len(path) /\ n \in k + 1 .. Len(path)
    BY <1>1, <2>2, <2>3
  <2>5. Good(n - 1)
    BY <2>1, <2>4
  <2>6. path[n] = Blank /\ Stays(path, n)
    BY <2>4 DEF Stays
  <2> DEFINE list == out[n - 1]
             more == out[n]
             start == out[k]
  <2>7. more = Append(list, Blank)
    BY <2>4, <2>6, RunAppends
  <2>8. /\ list \in Seq(Text) /\ Len(list) >= (n - 1) - k /\ Extends(start, list)
        /\ start \in Seq(Text)
    BY <1>2, <2>5
  <2> HIDE DEF list, more, start
  <2>9. /\ more \in Seq(Text)
        /\ Len(more) = Len(list) + 1
        /\ \A i \in 1 .. Len(list) : more[i] = list[i]
        /\ more[Len(list) + 1] = Blank
    BY <2>7, <2>8, BlankIsText, AppendProperties
  <2>10. Len(list) \in Nat /\ Len(start) \in Nat
    BY <2>8, LenProperties
  <2>11. Len(more) >= n - k
    BY <1>1, <2>2, <2>8, <2>9, <2>10
  <2>12. Extends(start, more)
    <3>1. /\ Len(start) <= Len(list)
          /\ \A i \in 1 .. Len(start) : list[i] = start[i]
          /\ \A i \in Len(start) + 1 .. Len(list) : list[i] = Blank
      BY <2>8, Zenon DEF Extends
    <3>2. \A i \in 1 .. Len(start) : more[i] = start[i]
      BY <2>9, <2>10, <3>1
    <3>3. ASSUME NEW i \in Len(start) + 1 .. Len(more)
          PROVE  more[i] = Blank
      <4>1. CASE i = Len(list) + 1
        BY <2>9, <4>1
      <4>2. CASE i # Len(list) + 1
        <5>1. i \in Len(start) + 1 .. Len(list) /\ i \in 1 .. Len(list)
          BY <2>9, <2>10, <4>2
        <5> QED
          BY <2>9, <3>1, <5>1
      <4> QED
        BY <4>1, <4>2
    <3>4. Len(start) <= Len(more)
      BY <2>9, <2>10, <3>1
    <3> QED
      BY <3>2, <3>3, <3>4, Zenon DEF Extends
  <2>13. Good(n)
    BY <2>9, <2>11, <2>12 DEF more, start
  <2> QED
    BY <2>2, <2>13
<1> QED
  BY <1>3

----------------------------------------------------------------------------
\* Words.

\* The places that Words keeps, up to the last segment that is not empty.
LEMMA WordsKept ==
    ASSUME NEW path \in Seq(Text), NEW k \in 0 .. Len(path),
           k = 0 \/ path[k] # Blank,
           \A j \in k + 1 .. Len(path) : path[j] = Blank
    PROVE  /\ Words(path) = [n \in 1 .. CountTo(path, k) |-> Words(path)[n]]
           /\ \A n \in 1 .. CountTo(path, k) :
                  Words(path)[n] = path[CHOOSE i \in KeptTo(path, k) : CountTo(path, i) = n]
<1>1. Len(path) \in Nat /\ DOMAIN path = 1 .. Len(path)
  BY LenProperties
<1> DEFINE kept == {i \in DOMAIN path :
                       /\ path[i] = Blank \/ i = 1 \/ path[i - 1] # path[i]
                       /\ \E j \in i .. Len(path) : path[j] # Blank}
<1>2. kept = KeptTo(path, k)
  <2>1. ASSUME NEW i \in 1 .. Len(path)
        PROVE  (\E j \in i .. Len(path) : path[j] # Blank) <=> i <= k
    <3>1. CASE i <= k
      <4>1. k \in i .. Len(path) /\ k # 0
        BY <1>1, <3>1
      <4> QED
        BY <3>1, <4>1
    <3>2. CASE ~(i <= k)
      <4>1. \A j \in i .. Len(path) : j \in k + 1 .. Len(path)
        BY <1>1, <3>2
      <4> QED
        BY <3>2, <4>1
    <3> QED
      BY <3>1, <3>2
  <2>2. ASSUME NEW i
        PROVE  i \in 1 .. k <=> i \in 1 .. Len(path) /\ i <= k
    BY <1>1
  <2> QED
    BY <1>1, <2>1, <2>2 DEF KeptTo, Stays
<1>3. ASSUME NEW i \in kept
      PROVE  {j \in kept : j <= i} = KeptTo(path, i)
  <2>1. i \in 1 .. k /\ k \in Nat
    BY <1>2, <1>3 DEF KeptTo
  <2>2. ASSUME NEW j
        PROVE  j \in 1 .. k /\ j <= i <=> j \in 1 .. i
    BY <2>1
  <2> HIDE DEF kept
  <2> QED
    BY <1>2, <2>2 DEF KeptTo
<1>4. Words(path) = [n \in 1 .. Cardinality(kept) |->
                        path[CHOOSE i \in kept : Cardinality({j \in kept : j <= i}) = n]]
  BY Zenon DEF Words, Blank
<1> HIDE DEF kept
<1>5. Cardinality(kept) = CountTo(path, k)
  BY <1>2 DEF CountTo
<1> DEFINE nth(n) == CHOOSE i \in kept : Cardinality({j \in kept : j <= i}) = n
           place(n) == CHOOSE i \in kept : CountTo(path, i) = n
<1>6. \A n : nth(n) = place(n)
  BY <1>3, Zenon DEF CountTo
<1>7. \A n \in 1 .. CountTo(path, k) : Words(path)[n] = path[nth(n)]
  BY <1>4, <1>5, Zenon
<1>8. \A n \in 1 .. CountTo(path, k) : Words(path)[n] = path[place(n)]
  <2> HIDE DEF nth, place
  <2> QED
    BY <1>6, <1>7, Zenon
<1>9. Words(path) = [n \in 1 .. CountTo(path, k) |-> Words(path)[n]]
  <2> DEFINE w == [n \in 1 .. CountTo(path, k) |->
                      path[CHOOSE i \in kept : Cardinality({j \in kept : j <= i}) = n]]
  <2>1. Words(path) = w
    BY <1>4, <1>5, Zenon
  <2>2. w = [n \in 1 .. CountTo(path, k) |-> w[n]]
    OBVIOUS
  <2> HIDE DEF w
  <2> QED
    BY <2>1, <2>2, Zenon
<1> QED
  BY <1>2, <1>8, <1>9, Zenon

\* The words of a path are what _normalize_url leaves of it, but for a path that
\* has none.
LEMMA WordsNormal ==
    ASSUME NEW path \in Paths
    PROVE  \/ Words(path) = <<>> /\ Strip(Collapse(path)) = <<Blank>>
           \/ /\ Words(path) = Strip(Collapse(path))
              /\ Last(Words(path)) # Blank
              /\ Words(path) # <<>>
<1>1. path \in Seq(Text) /\ Len(path) \in Nat \ {0}
  BY LenProperties, EmptySeq DEF Paths
<1>2. PICK out : Run(out, path)
  BY <1>1, RunExists
<1>3. PICK k \in 0 .. Len(path) : /\ k = 0 \/ path[k] # Blank
                                  /\ \A j \in k + 1 .. Len(path) : path[j] = Blank
  <2>1. PICK e : EndsAt(path, e)
    BY EndExists
  <2>2. CASE path[e] # Blank
    BY <1>1, <2>1, <2>2 DEF EndsAt
  <2>3. CASE path[e] = Blank
    <3>1. \A j \in 0 + 1 .. Len(path) : path[j] = Blank
      BY <1>1, <2>1, <2>3 DEF EndsAt
    <3> QED
      BY <1>1, <3>1
  <2> QED
    BY <2>2, <2>3
<1> DEFINE whole == out[Len(path)]
           list == out[k]
<1>4. Collapse(path) = whole /\ whole \in Paths /\ Collapse(path) \in Paths
  BY <1>1, <1>2, Collapsed DEF Run
<1>5. whole \in Seq(Text) /\ Len(whole) >= Len(path) - k /\ Extends(list, whole)
  <2>1. Len(path) \in k .. Len(path)
    BY <1>1, <1>3
  <2> QED
    BY <1>1, <1>2, <1>3, <2>1, RunExtends
<1>6. Listed(list, path, k)
  BY <1>1, <1>2, <1>3, RunListed
<1>7. /\ Words(path) = [n \in 1 .. CountTo(path, k) |-> Words(path)[n]]
      /\ \A n \in 1 .. CountTo(path, k) :
             Words(path)[n] = path[CHOOSE i \in KeptTo(path, k) : CountTo(path, i) = n]
  BY <1>1, <1>3, WordsKept
<1>8. CASE k = 0
  <2>1. CountTo(path, k) = 0
    BY <1>8, KeptNone
  <2>2. Words(path) = <<>>
    <3>1. Words(path) = [n \in 1 .. 0 |-> Words(path)[n]]
      BY <1>7, <2>1, Zenon
    <3> DEFINE w == Words(path)
    <3>2. w = [n \in 1 .. 0 |-> w[n]]
      BY <3>1
    <3> HIDE DEF w
    <3>3. w = <<>>
      BY <3>2
    <3> QED
      BY <3>3 DEF w
  <2>3. list = <<>>
    BY <1>1, <1>2, <1>8, RunSteps
  <2> HIDE DEF whole, list
  <2>4. Len(list) = 0 /\ Len(whole) \in Nat /\ Len(whole) >= 1
    BY <1>1, <1>5, <1>8, <2>3, LenProperties, EmptySeq
  <2>5. \A i \in 1 .. Len(whole) : whole[i] = Blank
    BY <1>5, <2>4 DEF Extends
  <2>6. EndsAt(whole, 1)
    BY <2>4, <2>5 DEF EndsAt
  <2>7. /\ Strip(whole) \in Paths
        /\ Len(Strip(whole)) = 1
        /\ \A i \in 1 .. 1 : Strip(whole)[i] = whole[i]
    BY <1>4, <2>6, StripAtEnd
  <2>8. Strip(whole) \in Seq(Text) /\ Strip(whole)[1] = Blank
    BY <2>4, <2>5, <2>7 DEF Paths
  <2>9. Strip(whole) = <<Blank>>
    <3>1. <<Blank>> \in Seq(Text) /\ Len(<<Blank>>) = 1 /\ <<Blank>>[1] = Blank
      BY BlankIsText
    <3> QED
      BY <2>7, <2>8, <3>1, SeqEqual
  <2> QED
    BY <1>4, <2>2, <2>9
<1>9. CASE k # 0
  <2>1. k \in 1 .. Len(path)
    BY <1>1, <1>3, <1>9
  <2>2. list \in Paths /\ Last(list) = path[k]
    BY <1>1, <1>2, <2>1, RunLists
  <2> HIDE DEF whole, list
  <2>3. list \in Seq(Text) /\ Len(list) \in Nat \ {0} /\ Last(list) = list[Len(list)]
    BY <2>2, EmptySeq DEF Paths, Last
  <2>4. /\ Len(list) = CountTo(path, k)
        /\ \A i \in KeptTo(path, k) : list[CountTo(path, i)] = path[i]
        /\ \A m \in 1 .. CountTo(path, k) : \E i \in KeptTo(path, k) : CountTo(path, i) = m
    BY <1>6 DEF Listed
  <2>5. ASSUME NEW n \in 1 .. CountTo(path, k)
        PROVE  Words(path)[n] = list[n]
    <3> DEFINE i == CHOOSE i \in KeptTo(path, k) : CountTo(path, i) = n
    <3>1. i \in KeptTo(path, k) /\ CountTo(path, i) = n
      BY <2>4, Zenon
    <3>2. Words(path)[n] = path[i]
      BY <1>7
    <3> HIDE DEF i
    <3> QED
      BY <2>4, <3>1, <3>2, Zenon
  <2>6. Words(path) = list
    <3>1. list = [n \in 1 .. CountTo(path, k) |-> list[n]]
      BY <2>3, <2>4, LenProperties
    <3>2. [n \in 1 .. CountTo(path, k) |-> list[n]]
            = [n \in 1 .. CountTo(path, k) |-> Words(path)[n]]
      BY <2>5, Zenon
    <3> QED
      BY <1>7, <3>1, <3>2, Zenon
  <2>7. /\ Len(list) <= Len(whole) /\ Len(whole) \in Nat
        /\ \A i \in 1 .. Len(list) : whole[i] = list[i]
        /\ \A i \in Len(list) + 1 .. Len(whole) : whole[i] = Blank
    BY <1>5, LenProperties DEF Extends
  <2>8. whole[Len(list)] # Blank
    <3>1. Len(list) \in 1 .. Len(list)
      BY <2>3
    <3> QED
      BY <1>3, <1>9, <2>2, <2>3, <2>7, <3>1
  <2>9. EndsAt(whole, Len(list))
    BY <2>3, <2>7, <2>8 DEF EndsAt
  <2>10. /\ Strip(whole) \in Paths
         /\ Len(Strip(whole)) = Len(list)
         /\ \A i \in 1 .. Len(list) : Strip(whole)[i] = whole[i]
    BY <1>4, <2>9, StripAtEnd
  <2>11. Strip(whole) = list
    BY <2>3, <2>7, <2>10, SeqEqual DEF Paths
  <2> QED
    BY <1>3, <1>4, <1>9, <2>2, <2>6, <2>11 DEF Paths
<1> QED
  BY <1>8, <1>9

\* Two paths have the same words when _normalize_url leaves the same of them.
LEMMA WordsAgree ==
    ASSUME NEW path \in Paths, NEW other \in Paths
    PROVE  Words(path) = Words(other) <=> Strip(Collapse(path)) = Strip(Collapse(other))
<1> DEFINE p == Strip(Collapse(path))
           q == Strip(Collapse(other))
<1>1. \/ Words(path) = <<>> /\ p = <<Blank>>
      \/ Words(path) = p /\ Last(p) # Blank /\ p # <<>>
  BY WordsNormal, Zenon
<1>2. \/ Words(other) = <<>> /\ q = <<Blank>>
      \/ Words(other) = q /\ Last(q) # Blank /\ q # <<>>
  BY WordsNormal, Zenon
<1>3. Last(<<Blank>>) = Blank
  BY DEF Last
<1> HIDE DEF p, q
<1> QED
  BY <1>1, <1>2, <1>3, Zenon DEF p, q

\* _normalize_url makes two URLs equal when they differ only in the fragment,
\* slashes at the end, segments given several times in a row and, which its
\* docstring does not say, the parameters of the last segment; it makes no
\* others equal (executor.py:140-150).
THEOREM SamePageIsSameURL ==
    ASSUME NEW u \in Urls, u.path # <<>>, NEW v \in Urls, v.path # <<>>
    PROVE  SamePage(WithoutParams(u), WithoutParams(v)) <=> NormalizeUrl(u) = NormalizeUrl(v)
<1>1. u.path \in Paths /\ v.path \in Paths
  BY DEF Urls, Paths
<1>2. Plain(u.path) \in Paths /\ Plain(v.path) \in Paths
  BY <1>1, PlainPath
<1> DEFINE p == Short(u.path)
           q == Short(v.path)
           m == NormalizeUrl(u)
           n == NormalizeUrl(v)
<1>3. /\ m \in Urls /\ m.scheme = u.scheme /\ m.host = u.host /\ m.query = u.query
      /\ m.path = p /\ m.fragment = Blank
  BY Normalized
<1>4. /\ n \in Urls /\ n.scheme = v.scheme /\ n.host = v.host /\ n.query = v.query
      /\ n.path = q /\ n.fragment = Blank
  BY Normalized
<1>5. m = n <=> /\ u.scheme = v.scheme /\ u.host = v.host /\ u.query = v.query
                /\ p = q
  <2> HIDE DEF m, n, p, q
  <2> QED
    BY <1>3, <1>4 DEF Urls
<1>6. Words(Plain(u.path)) = Words(Plain(v.path)) <=> p = q
  BY <1>2, WordsAgree, Zenon DEF Short
<1>7. /\ WithoutParams(u).path = Plain(u.path)
      /\ WithoutParams(u).scheme = u.scheme
      /\ WithoutParams(u).host = u.host
      /\ WithoutParams(u).query = u.query
  BY DEF WithoutParams, Urls
<1>8. /\ WithoutParams(v).path = Plain(v.path)
      /\ WithoutParams(v).scheme = v.scheme
      /\ WithoutParams(v).host = v.host
      /\ WithoutParams(v).query = v.query
  BY DEF WithoutParams, Urls
<1> HIDE DEF m, n, p, q
<1>9. SamePage(WithoutParams(u), WithoutParams(v))
        <=> /\ u.scheme = v.scheme /\ u.host = v.host /\ u.query = v.query
            /\ Words(Plain(u.path)) = Words(Plain(v.path))
  BY <1>7, <1>8, Zenon DEF SamePage
<1> QED
  BY <1>5, <1>6, <1>9, Zenon DEF m, n

\* The loop of _normalize_url makes no path longer.
LEMMA NoLonger ==
    ASSUME NEW path \in Paths
    PROVE  /\ Len(Collapse(path)) <= Len(path)
           /\ Last(Collapse(path)) = Last(path)
<1>1. path \in Seq(Text) /\ Len(path) \in Nat \ {0} /\ Len(path) \in 0 .. Len(path)
      /\ Len(path) \in 1 .. Len(path)
  BY LenProperties, EmptySeq DEF Paths
<1>2. PICK out : Run(out, path)
  BY <1>1, RunExists
<1>3. Listed(out[Len(path)], path, Len(path)) /\ Last(out[Len(path)]) = path[Len(path)]
  BY <1>1, <1>2, RunListed, RunLists
<1>4. Len(Collapse(path)) = Cardinality(KeptTo(path, Len(path)))
  BY <1>2, <1>3 DEF Listed, Run, CountTo
<1>5. Cardinality(KeptTo(path, Len(path))) <= Len(path)
  <2>1. KeptTo(path, Len(path)) \subseteq 1 .. Len(path)
    BY DEF KeptTo
  <2>2. IsFiniteSet(1 .. Len(path)) /\ Cardinality(1 .. Len(path)) = Len(path)
    BY <1>1, FS_Interval
  <2> QED
    BY <2>1, <2>2, FS_Subset
<1>6. Last(Collapse(path)) = Last(path)
  BY <1>2, <1>3, Zenon DEF Run, Last
<1> QED
  BY <1>4, <1>5, <1>6

\* What _normalize_url makes of a URL stays as it is when it is normalized again
\* just when the last segment left has no parameters: its docstring calls it
\* idempotent, but /a;p/ becomes /a;p, and that /a (executor.py:140-150).
THEOREM NormalizeIdempotent ==
    ASSUME NEW url \in Urls, url.path # <<>>
    PROVE  LET n == NormalizeUrl(url)
           IN  NormalizeUrl(n) = n <=> Bare[Last(n.path)] = Last(n.path)
<1>1. url.path \in Paths
  BY DEF Urls, Paths
<1> DEFINE n == NormalizeUrl(url)
           short == Short(url.path)
<1>2. short \in Paths /\ NoRepeat(short) /\ Strip(Collapse(short)) = short
  BY <1>1, ShortPath
<1>3. n \in Urls /\ n.path = short /\ n.fragment = Blank
  BY Normalized
<1> HIDE DEF n, short
<1>4. /\ short \in Seq(Text) /\ short # <<>> /\ Blank \in Text
      /\ Len(short) \in Nat \ {0} /\ Last(short) = short[Len(short)]
  BY <1>2, BlankIsText, LenProperties, EmptySeq DEF Paths, Last
<1>5. NormalizeUrl(n) = n <=> Short(short) = short
  <2> DEFINE again == Short(short)
  <2>1. again \in Seq(Text)
    BY <1>2, ShortPath DEF Paths
  <2>2. NormalizeUrl(n) = Replace(n, again, Blank)
    BY <1>3, <1>4, Normalized
  <2> HIDE DEF again
  <2>3. /\ Replace(n, again, Blank).path = again
        /\ n.path = again /\ n.fragment = Blank => Replace(n, again, Blank) = n
    BY <1>3, <1>4, <2>1, Replaced
  <2> QED
    BY <1>3, <2>2, <2>3, Zenon DEF again
<1>6. ASSUME Bare[Last(short)] = Last(short)
      PROVE  Short(short) = short
  <2>1. Plain(short) = short
    BY <1>2, <1>6, PlainPath
  <2> QED
    BY <1>2, <2>1, Zenon DEF Short
<1>7. ASSUME Short(short) = short, Bare[Last(short)] # Last(short)
      PROVE  FALSE
  <2> DEFINE p == Plain(short)
             c == Collapse(p)
  <2>1. p \in Paths /\ Len(p) = Len(short) /\ Last(p) = Bare[Last(short)]
    BY <1>2, PlainPath
  <2> HIDE DEF p
  <2>2. c \in Paths /\ Len(c) <= Len(p) /\ Last(c) = Last(p)
    BY <2>1, Collapsed, NoLonger
  <2>3. Strip(c) = short
    BY <1>7, Zenon DEF Short, p
  <2> HIDE DEF c
  <2>4. c \in Seq(Text) /\ Len(c) \in Nat \ {0} /\ Last(c) = c[Len(c)]
    BY <2>2, LenProperties, EmptySeq DEF Paths, Last
  <2>5. PICK e : EndsAt(c, e)
    BY <2>2, EndExists
  <2>6. Len(short) = e /\ \A i \in 1 .. e : short[i] = c[i]
    BY <2>2, <2>3, <2>5, StripAtEnd
  <2>7. Last(short) = c[e]
    BY <1>4, <2>6
  <2>8. Last(short) # Blank
    BY <1>7, LinkConstants, Zenon DEF Blank
  <2>9. Last(c) # Last(short)
    BY <1>7, <2>1, <2>2
  <2>10. e \in 1 .. Len(c) /\ e # Len(c)
    BY <2>4, <2>5, <2>7, <2>9 DEF EndsAt
  <2>11. Len(c) <= e
    BY <2>1, <2>2, <2>6
  <2> QED
    BY <2>4, <2>10, <2>11
<1> QED
  BY <1>3, <1>5, <1>6, <1>7, Zenon DEF n
----------------------------------------------------------------------------
\* _same_host_links.

\* A URL in the form in which full_crawl keeps all of them.
Normal(url) ==
    /\ url \in Urls /\ url.path # <<>>
    /\ Strip(Collapse(url.path)) = url.path
    /\ url.fragment = Blank

LEMMA NormalForm ==
    ASSUME NEW url \in Urls, url.path # <<>>
    PROVE  Normal(NormalizeUrl(url))
<1>1. url.path \in Paths
  BY DEF Urls, Paths
<1>2. /\ NormalizeUrl(url) \in Urls
      /\ NormalizeUrl(url).path = Short(url.path)
      /\ NormalizeUrl(url).fragment = Blank
  BY Normalized
<1>3. Short(url.path) \in Paths /\ Strip(Collapse(Short(url.path))) = Short(url.path)
  BY <1>1, ShortPath
<1>4. Short(url.path) # <<>>
  BY <1>3 DEF Paths
<1> QED
  BY <1>2, <1>3, <1>4, Zenon DEF Normal

\* urljoin makes a URL of a page and of an href.
LEMMA Joins ==
    ASSUME NEW base \in Urls, base.path # <<>>, NEW href \in Urls, href.path # <<>>
    PROVE  UrlJoin(base, href) \in Urls /\ UrlJoin(base, href).path # <<>>
<1>1. CASE href.scheme # Blank
  BY <1>1, Zenon DEF UrlJoin, Blank
<1>2. CASE href.scheme = Blank
  <2> DEFINE path == IF Head(href.path) = Blank THEN href.path
                     ELSE Folder(base.path) \o href.path
  <2>1. base.path \in Seq(Text) /\ href.path \in Seq(Text)
    BY DEF Urls
  <2>2. path \in Seq(Text) /\ path # <<>>
    <3>1. Folder(base.path) \in Seq(Text)
      <4> DEFINE p == base.path
      <4>1. p \in Seq(Text) /\ p # <<>>
        BY <2>1
      <4> HIDE DEF p
      <4>2. Len(p) \in Nat \ {0}
        BY <4>1, EmptySeq
      <4>3. Len(p) # 1 => SubSeq(p, 1, Len(p) - 1) \in Seq(Text)
        <5>1. ASSUME NEW i \in 1 .. Len(p) - 1 PROVE p[i] \in Text
          <6>1. i \in 1 .. Len(p)
            BY <4>2
          <6> QED
            BY <4>1, <6>1, ElementOfSeq
        <5> QED
          BY <4>1, <4>2, <5>1, SubSeqProperties
      <4>4. Folder(p) \in Seq(Text)
        BY <4>1, <4>3, Zenon DEF Folder, Front
      <4> QED
        BY <4>4 DEF p
    <3> DEFINE start == Folder(base.path)
               rest == href.path
    <3>2. start \in Seq(Text) /\ rest \in Seq(Text) /\ rest # <<>>
      BY <2>1, <3>1
    <3> HIDE DEF start, rest
    <3>3. /\ start \o rest \in Seq(Text)
          /\ Len(start \o rest) = Len(start) + Len(rest)
          /\ Len(start) \in Nat /\ Len(rest) \in Nat \ {0}
      BY <3>2, ConcatProperties, LenProperties, EmptySeq
    <3>4. start \o rest # <<>>
      BY <3>3, EmptySeq
    <3> QED
      BY <3>2, <3>3, <3>4 DEF start, rest
  <2> DEFINE u == UrlJoin(base, href)
  <2>3. u = [href EXCEPT !.scheme = base.scheme, !.host = base.host, !.path = path]
    BY <1>2, Zenon DEF UrlJoin, Blank
  <2> HIDE DEF path
  <2>4. u \in Urls /\ u.path = path
    BY <2>2, <2>3 DEF Urls
  <2> QED
    BY <2>2, <2>4
<1> QED
  BY <1>1, <1>2

\* Every link is kept in that form.
LEMMA LinksAreNormal ==
    ASSUME NEW base \in Urls, base.path # <<>>, NEW href \in Urls, href.path # <<>>
    PROVE  Normal(LinkOf(base, href))
  BY Joins, NormalForm, Zenon DEF LinkOf

\* Two of these that a site takes for one page are the same.
LEMMA NormalIsUnique ==
    ASSUME NEW u, Normal(u), NEW v, Normal(v), SamePage(u, v)
    PROVE  u = v
<1>1. u.path \in Paths /\ v.path \in Paths
  BY DEF Normal, Urls, Paths
<1>2. u.path = v.path
  BY <1>1, WordsAgree, Zenon DEF Normal, SamePage
<1> QED
  BY <1>2 DEF Normal, SamePage, Urls
=============================================================================
