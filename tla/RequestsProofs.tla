--------------------------- MODULE RequestsProofs ---------------------------
(***************************************************************************)
(* Proofs about module Requests: what a client is told follows from what   *)
(* it sent, for every request. The operators that answer are loops, so the *)
(* induction that their proofs need comes first.                           *)
(***************************************************************************)
EXTENDS Requests, TLAPS, WellFoundedInduction, NaturalsInduction, FiniteSetTheorems,
        SequenceTheorems
-----------------------------------------------------------------------------
(* Induction, from the well-foundedness of the natural numbers.             *)

LEMMA LeastExists ==
  ASSUME NEW S \in SUBSET Nat, S # {}
  PROVE  \E x \in S : \A y \in S : x <= y
<1> DEFINE R == {p \in Nat \X Nat : p[1] < p[2]}
<1>1. IsWellFoundedOn(R, Nat)
  BY NatLessThanWellFounded DEF OpToRel
<1>2. \A x, y \in S : <<y, x>> \notin R => x <= y
  OBVIOUS
<1> HIDE DEF R
<1>3. PICK x \in S : \A y \in S : <<y, x>> \notin R
  BY <1>1, WFMin
<1> QED
  BY <1>2, <1>3

LEMMA SetInduction ==
  ASSUME NEW S, 0 \in S, \A n \in Nat : n \in S => n + 1 \in S
  PROVE  Nat \subseteq S
<1> DEFINE T == Nat \ S
<1>1. ASSUME T # {} PROVE FALSE
  <2>1. PICK x \in T : \A y \in T : x <= y
    BY <1>1, LeastExists
  <2>2. x # 0 /\ x - 1 \in Nat /\ ~(x <= x - 1)
    BY <2>1
  <2>3. x - 1 \in S
    BY <2>1, <2>2
  <2> QED
    BY <2>2, <2>3
<1> QED
  BY <1>1

\* A loop of n steps, each of which takes the state to another, has a run.
LEMMA LoopRuns ==
  ASSUME NEW X, NEW x0 \in X, NEW n \in Nat, NEW step \in [1..n -> [X -> X]]
  PROVE  \E f \in [0..n -> X] : f[0] = x0 /\ \A i \in 1..n : f[i] = step[i][f[i - 1]]
<1> DEFINE IsRun(m, f) == f[0] = x0 /\ \A i \in 1..m : f[i] = step[i][f[i - 1]]
           S == {m \in Nat : m <= n => \E f \in [0..m -> X] : IsRun(m, f)}
<1>1. 0 \in S
  <2>1. [i \in 0..0 |-> x0] \in [0..0 -> X] /\ IsRun(0, [i \in 0..0 |-> x0])
    OBVIOUS
  <2> QED
    BY <2>1
<1>2. ASSUME NEW m \in Nat, m \in S PROVE m + 1 \in S
  <2> SUFFICES ASSUME m + 1 <= n PROVE \E f \in [0..m + 1 -> X] : IsRun(m + 1, f)
    OBVIOUS
  <2>1. PICK f \in [0..m -> X] : IsRun(m, f)
    BY <1>2
  <2> DEFINE g == [i \in 0..m + 1 |-> IF i = m + 1 THEN step[m + 1][f[m]] ELSE f[i]]
  <2>2. step[m + 1][f[m]] \in X
    <3>1. m + 1 \in 1..n /\ m \in 0..m
      OBVIOUS
    <3> QED
      BY <3>1, <2>1
  <2>3. g \in [0..m + 1 -> X]
    BY <2>2, <2>1
  <2>4. g[m + 1] = step[m + 1][g[m]] /\ g[0] = x0
    BY <2>1
  <2>5. \A i \in 1..m : g[i] = step[i][g[i - 1]]
    <3> TAKE i \in 1..m
    <3>1. i \in 0..m + 1 /\ i - 1 \in 0..m + 1 /\ i # m + 1 /\ i - 1 # m + 1
      OBVIOUS
    <3> QED
      BY <2>1, <3>1
  <2>6. IsRun(m + 1, g)
    <3>1. \A i \in 1..m + 1 : i \in 1..m \/ i = m + 1
      OBVIOUS
    <3> HIDE DEF g
    <3> QED
      BY <2>4, <2>5, <3>1
  <2> QED
    BY <2>3, <2>6
<1>3. n \in S
  <2> HIDE DEF S
  <2> QED
    BY <1>1, <1>2, SetInduction
<1> QED
  BY <1>3

-----------------------------------------------------------------------------
(* The loop of splitArgs (internal/executor/docker.go).                     *)

ScanState == [args : Seq(Seq(Token)), cur : Seq(Token), inQuote : BOOLEAN]

LEMMA ExceptIs ==
  ASSUME NEW x \in ScanState
  PROVE  /\ \A b : [x EXCEPT !.cur = b] = [args |-> x.args, cur |-> b, inQuote |-> x.inQuote]
         /\ \A c : [x EXCEPT !.inQuote = c] = [args |-> x.args, cur |-> x.cur, inQuote |-> c]
<1> DEFINE A == Seq(Seq(Token))
           B == Seq(Token)
<1>1. x \in [args : A, cur : B, inQuote : BOOLEAN]
  BY DEF ScanState
<1> HIDE DEF A, B
<1>2. ASSUME NEW b
      PROVE  [x EXCEPT !.cur = b] = [args |-> x.args, cur |-> b, inQuote |-> x.inQuote]
  BY <1>1
<1>3. ASSUME NEW c
      PROVE  [x EXCEPT !.inQuote = c] = [args |-> x.args, cur |-> x.cur, inQuote |-> c]
  BY <1>1
<1> QED
  BY <1>2, <1>3

\* What a character does to the state of splitArgs.
LEMMA StepFacts ==
  ASSUME NEW x \in ScanState, NEW c \in Token
  PROVE  /\ Flush(x) \in ScanState /\ SplitStep(x, c) \in ScanState
         /\ Flush(x).cur = <<>> /\ Flush(x).inQuote = x.inQuote
         /\ Flush(x).args = IF x.cur = <<>> THEN x.args ELSE Append(x.args, x.cur)
<1>1. /\ x.args \in Seq(Seq(Token)) /\ x.cur \in Seq(Token) /\ x.inQuote \in BOOLEAN
      /\ x = [args |-> x.args, cur |-> x.cur, inQuote |-> x.inQuote]
  BY DEF ScanState
<1>2. Append(x.args, x.cur) \in Seq(Seq(Token)) /\ Append(x.cur, c) \in Seq(Token)
      /\ (~x.inQuote) \in BOOLEAN /\ <<>> \in Seq(Token)
  BY <1>1
<1>4. [x EXCEPT !.inQuote = ~@] = [args |-> x.args, cur |-> x.cur, inQuote |-> ~x.inQuote]
  BY ExceptIs
<1>5. [x EXCEPT !.cur = Append(@, c)]
        = [args |-> x.args, cur |-> Append(x.cur, c), inQuote |-> x.inQuote]
  BY ExceptIs
<1>6. Flush(x) = [args |-> IF x.cur = <<>> THEN x.args ELSE Append(x.args, x.cur), cur |-> <<>>,
                  inQuote |-> x.inQuote]
  BY <1>1 DEF Flush
<1>7. Flush(x) \in ScanState
  BY <1>1, <1>2, <1>6 DEF ScanState
<1>8. SplitStep(x, c) \in ScanState
  <2>1. [args |-> x.args, cur |-> x.cur, inQuote |-> ~x.inQuote] \in ScanState
    BY <1>1, <1>2, Zenon DEF ScanState
  <2>2. [args |-> x.args, cur |-> Append(x.cur, c), inQuote |-> x.inQuote] \in ScanState
    BY <1>1, <1>2, Zenon DEF ScanState
  <2> QED
    BY <1>4, <1>5, <1>7, <2>1, <2>2 DEF SplitStep
<1> QED
  BY <1>6, <1>7, <1>8

LEMMA ScanRuns ==
  \A n \in Nat : \A x0 \in ScanState : \A step \in [1..n -> [ScanState -> ScanState]] :
    \E f \in [0..n -> ScanState] : f[0] = x0 /\ \A i \in 1..n : f[i] = step[i][f[i - 1]]
  BY LoopRuns

LEMMA ScanLoop ==
  ASSUME NEW s \in Seq(Token)
  PROVE  /\ Scan(s)[0] = [args |-> <<>>, cur |-> <<>>, inQuote |-> FALSE]
         /\ \A i \in 1..Len(s) : Scan(s)[i] = SplitStep(Scan(s)[i - 1], s[i])
         /\ \A i \in 0..Len(s) : Scan(s)[i] \in ScanState
<1> DEFINE first == [args |-> <<>>, cur |-> <<>>, inQuote |-> FALSE]
           Body(g) == [i \in 0..Len(s) |-> IF i = 0 THEN first ELSE SplitStep(g[i - 1], s[i])]
<1>1. first \in ScanState
  BY DEF ScanState
<1>2. PICK f \in [0..Len(s) -> ScanState] :
        f[0] = first /\ \A i \in 1..Len(s) : f[i] = SplitStep(f[i - 1], s[i])
  <2> DEFINE step == [i \in 1..Len(s) |-> [x \in ScanState |-> SplitStep(x, s[i])]]
  <2>1. step \in [1..Len(s) -> [ScanState -> ScanState]]
    BY StepFacts
  <2>2. PICK f \in [0..Len(s) -> ScanState] :
        f[0] = first /\ \A i \in 1..Len(s) : f[i] = step[i][f[i - 1]]
    <3> HIDE DEF step, first, Body
    <3>1. PICK n \in Nat : n = Len(s)
      OBVIOUS
    <3>2. step \in [1..n -> [ScanState -> ScanState]]
      BY <2>1, <3>1
    <3>3. \E f \in [0..n -> ScanState] : f[0] = first /\ \A i \in 1..n : f[i] = step[i][f[i - 1]]
      BY <1>1, <3>2, ScanRuns, Zenon
    <3> QED
      BY <3>1, <3>3
  <2>3. \A i \in 1..Len(s) : step[i][f[i - 1]] = SplitStep(f[i - 1], s[i])
    <3> TAKE i \in 1..Len(s)
    <3>1. f[i - 1] \in ScanState
      BY <2>2
    <3> QED
      BY <3>1
  <2> QED
    BY <2>2, <2>3
<1>3. f = Body(f)
  BY <1>2
<1>4. Scan(s) = Body(Scan(s))
  BY <1>3 DEF Scan
<1>5. /\ Scan(s)[0] = first
      /\ \A i \in 1..Len(s) : Scan(s)[i] = SplitStep(Scan(s)[i - 1], s[i])
  <2> HIDE DEF first
  <2>1. 0 \in 0..Len(s) /\ \A i \in 1..Len(s) : i \in 0..Len(s) /\ i # 0
    OBVIOUS
  <2> QED
    BY <1>4, <2>1
<1>6. \A i \in 0..Len(s) : Scan(s)[i] \in ScanState
  <2> DEFINE S == {i \in Nat : i <= Len(s) => Scan(s)[i] \in ScanState}
  <2>1. 0 \in S
    BY <1>1, <1>5
  <2>2. ASSUME NEW i \in Nat, i \in S PROVE i + 1 \in S
    <3> SUFFICES ASSUME i + 1 <= Len(s) PROVE Scan(s)[i + 1] \in ScanState
      OBVIOUS
    <3>1. Scan(s)[i] \in ScanState
      BY <2>2
    <3>2. i + 1 \in 1..Len(s) /\ s[i + 1] \in Token /\ i + 1 - 1 = i
      OBVIOUS
    <3>3. Scan(s)[i + 1] = SplitStep(Scan(s)[i], s[i + 1])
      BY <1>5, <3>2
    <3> QED
      BY <3>1, <3>2, <3>3, StepFacts
  <2>3. Nat \subseteq S
    <3> HIDE DEF S
    <3> QED
      BY <2>1, <2>2, SetInduction
  <2> QED
    BY <2>3
<1> QED
  BY <1>5, <1>6
-----------------------------------------------------------------------------
\* Counting in a part of 1..n.
LEMMA CountFacts ==
  ASSUME NEW n \in Nat, NEW S \in SUBSET (1..n)
  PROVE  /\ IsFiniteSet(S) /\ Cardinality(S) \in 0..n
         /\ Cardinality(S) = 0 <=> S = {}
<1>1. IsFiniteSet(1..n) /\ Cardinality(1..n) = n
  BY FS_Interval
<1>2. IsFiniteSet(S) /\ Cardinality(S) <= Cardinality(1..n)
  BY <1>1, FS_Subset
<1>3. Cardinality(S) \in Nat
  BY <1>2, FS_CardinalityType
<1>4. Cardinality(S) = 0 <=> S = {}
  BY <1>2, FS_EmptySet
<1> QED
  BY <1>1, <1>2, <1>3, <1>4

LEMMA CountOneMore ==
  ASSUME NEW n \in Nat, NEW S \in SUBSET (1..n), NEW x, x \notin S
  PROVE  Cardinality(S \cup {x}) = Cardinality(S) + 1
  BY CountFacts, FS_AddElement

\* A quote changes whether what follows is in quotes, nothing else does.
LEMMA QuoteStep ==
  ASSUME NEW s \in Seq(Token), NEW i \in 0..Len(s) - 1
  PROVE  /\ ~InQuote(s, 0)
         /\ s[i + 1] = "quote" => (InQuote(s, i + 1) <=> ~InQuote(s, i))
         /\ s[i + 1] # "quote" => (InQuote(s, i + 1) <=> InQuote(s, i))
<1> DEFINE Quotes(n) == {k \in 1..n : s[k] = "quote"}
<1>1. Quotes(0) = {}
  OBVIOUS
<1>2. ~InQuote(s, 0)
  BY <1>1, FS_EmptySet DEF InQuote
<1>3. i \in Nat /\ i + 1 \notin Quotes(i) /\ Quotes(i) \in SUBSET (1..i)
  OBVIOUS
<1>4. s[i + 1] = "quote" => Quotes(i + 1) = Quotes(i) \cup {i + 1}
  OBVIOUS
<1>5. s[i + 1] # "quote" => Quotes(i + 1) = Quotes(i)
  OBVIOUS
<1>6. Cardinality(Quotes(i)) \in Nat
  BY <1>3, CountFacts
<1>7. InQuote(s, i) <=> Cardinality(Quotes(i)) % 2 = 1
  BY DEF InQuote
<1>8. InQuote(s, i + 1) <=> Cardinality(Quotes(i + 1)) % 2 = 1
  BY DEF InQuote
<1> HIDE DEF Quotes
<1>9. ASSUME s[i + 1] = "quote" PROVE InQuote(s, i + 1) <=> ~InQuote(s, i)
  <2>1. Cardinality(Quotes(i + 1)) = Cardinality(Quotes(i)) + 1
    BY <1>3, <1>4, <1>9, CountOneMore
  <2> QED
    BY <2>1, <1>6, <1>7, <1>8
<1> QED
  BY <1>2, <1>5, <1>7, <1>8, <1>9

(* The characters and the starts of arguments among the first i characters,  *)
(* and the characters of argument n among them.                              *)
Chars(s, i) == {k \in ArgChars(s) : k <= i}
Starts(s, i) == {k \in ArgStarts(s) : k <= i}
Part(s, i, n) == {k \in ArgChars(s) : k <= i /\ ArgOf(s, k) = n}

LEMMA PrefixFacts ==
  ASSUME NEW s \in Seq(Token), NEW i \in 0..Len(s)
  PROVE  /\ Chars(s, i) \in SUBSET (1..i) /\ Starts(s, i) \in SUBSET Chars(s, i)
         /\ ArgOf(s, i) = Cardinality(Starts(s, i)) /\ ArgOf(s, i) \in Nat
         /\ \A n : Part(s, i, n) \in SUBSET Chars(s, i) /\ Cardinality(Part(s, i, n)) \in Nat
         /\ \A k \in Chars(s, i) : ArgOf(s, k) <= ArgOf(s, i)
         /\ PlaceOf(s, i) = Cardinality(Part(s, i, ArgOf(s, i)))
<1>1. Chars(s, i) \in SUBSET (1..i)
  BY DEF Chars, ArgChars
<1>2. Starts(s, i) \in SUBSET Chars(s, i)
  BY DEF Starts, Chars, ArgStarts
<1>3. ArgOf(s, i) = Cardinality(Starts(s, i))
  BY DEF ArgOf, Starts
<1>4. ArgOf(s, i) \in Nat
  BY <1>1, <1>2, <1>3, CountFacts
<1>5. \A n : Part(s, i, n) \in SUBSET Chars(s, i) /\ Cardinality(Part(s, i, n)) \in Nat
  <2>1. \A n : Part(s, i, n) \in SUBSET Chars(s, i)
    BY DEF Part, Chars
  <2> QED
    BY <1>1, <2>1, CountFacts
<1>6. ASSUME NEW k \in Chars(s, i) PROVE ArgOf(s, k) <= ArgOf(s, i)
  <2>1. k \in 1..i
    BY <1>1
  <2>2. Starts(s, k) \in SUBSET Starts(s, i)
    BY <2>1 DEF Starts, ArgStarts, ArgChars
  <2>3. IsFiniteSet(Starts(s, i))
    BY <1>1, <1>2, CountFacts
  <2>4. Cardinality(Starts(s, k)) <= Cardinality(Starts(s, i))
    BY <2>2, <2>3, FS_Subset
  <2> QED
    BY <1>3, <2>4 DEF ArgOf, Starts
<1>7. PlaceOf(s, i) = Cardinality(Part(s, i, ArgOf(s, i)))
  BY DEF PlaceOf, Part
<1> QED
  BY <1>1, <1>2, <1>3, <1>4, <1>5, <1>6, <1>7

\* What the next character adds to the characters, the starts and the parts.
LEMMA PrefixStep ==
  ASSUME NEW s \in Seq(Token), NEW i \in 0..Len(s) - 1
  PROVE  /\ i + 1 \notin ArgChars(s) =>
              /\ Chars(s, i + 1) = Chars(s, i) /\ ArgOf(s, i + 1) = ArgOf(s, i)
              /\ \A n : Part(s, i + 1, n) = Part(s, i, n)
         /\ i + 1 \in ArgChars(s) =>
              /\ Chars(s, i + 1) = Chars(s, i) \cup {i + 1}
              /\ ArgOf(s, i + 1) = ArgOf(s, i) + (IF i + 1 \in ArgStarts(s) THEN 1 ELSE 0)
              /\ \A n : n # ArgOf(s, i + 1) => Part(s, i + 1, n) = Part(s, i, n)
              /\ PlaceOf(s, i + 1) = Cardinality(Part(s, i, ArgOf(s, i + 1))) + 1
              /\ Cardinality(Part(s, i + 1, ArgOf(s, i + 1))) = PlaceOf(s, i + 1)
<1>1. /\ ArgStarts(s) \subseteq ArgChars(s) /\ ArgChars(s) \subseteq Nat
      /\ \A k \in Nat : k <= i + 1 <=> k <= i \/ k = i + 1
      /\ i \in Nat /\ i \in 0..Len(s) /\ i + 1 \in 0..Len(s) /\ ~(i + 1 <= i)
  BY DEF ArgStarts, ArgChars
<1>2. /\ ArgOf(s, i) = Cardinality(Starts(s, i)) /\ ArgOf(s, i + 1) = Cardinality(Starts(s, i + 1))
      /\ PlaceOf(s, i + 1) = Cardinality(Part(s, i + 1, ArgOf(s, i + 1)))
      /\ Chars(s, i) \in SUBSET (1..i) /\ Starts(s, i) \in SUBSET (1..i)
      /\ \A n : Part(s, i, n) \in SUBSET (1..i)
  BY <1>1, PrefixFacts
<1>3. ASSUME i + 1 \notin ArgChars(s)
      PROVE  /\ Chars(s, i + 1) = Chars(s, i) /\ ArgOf(s, i + 1) = ArgOf(s, i)
             /\ \A n : Part(s, i + 1, n) = Part(s, i, n)
  <2>1. Chars(s, i + 1) = Chars(s, i)
    BY <1>1, <1>3 DEF Chars
  <2>2. Starts(s, i + 1) = Starts(s, i)
    BY <1>1, <1>3 DEF Starts
  <2>3. \A n : Part(s, i + 1, n) = Part(s, i, n)
    BY <1>1, <1>3 DEF Part
  <2> QED
    BY <1>2, <2>1, <2>2, <2>3
<1>4. ASSUME i + 1 \in ArgChars(s)
      PROVE  /\ Chars(s, i + 1) = Chars(s, i) \cup {i + 1}
             /\ ArgOf(s, i + 1) = ArgOf(s, i) + (IF i + 1 \in ArgStarts(s) THEN 1 ELSE 0)
  <2>1. Chars(s, i + 1) = Chars(s, i) \cup {i + 1}
    BY <1>1, <1>4 DEF Chars
  <2>2. Starts(s, i + 1) = IF i + 1 \in ArgStarts(s) THEN Starts(s, i) \cup {i + 1}
                           ELSE Starts(s, i)
    BY <1>1 DEF Starts
  <2>3. i + 1 \notin Starts(s, i) /\ Cardinality(Starts(s, i)) \in Nat
    BY <1>1, <1>2, CountFacts
  <2>4. Cardinality(Starts(s, i) \cup {i + 1}) = Cardinality(Starts(s, i)) + 1
    BY <1>1, <1>2, <2>3, CountOneMore
  <2> QED
    BY <1>2, <2>1, <2>2, <2>3, <2>4
<1>5. ASSUME i + 1 \in ArgChars(s), NEW n
      PROVE  Part(s, i + 1, n) = IF n = ArgOf(s, i + 1) THEN Part(s, i, n) \cup {i + 1}
                                 ELSE Part(s, i, n)
  BY <1>1, <1>5 DEF Part
<1>6. ASSUME i + 1 \in ArgChars(s)
      PROVE  Cardinality(Part(s, i + 1, ArgOf(s, i + 1)))
               = Cardinality(Part(s, i, ArgOf(s, i + 1))) + 1
  <2>1. i + 1 \notin Part(s, i, ArgOf(s, i + 1))
    BY <1>1, <1>2
  <2> QED
    BY <1>1, <1>2, <1>5, <1>6, <2>1, CountOneMore
<1> QED
  BY <1>2, <1>3, <1>4, <1>5, <1>6

\* The arguments after each character, the one that is not ended included.
All(s, i) == Flush(Scan(s)[i]).args

\* In an argument that is not ended there is a character that no blank follows.
Open(s, i) == \E k \in Chars(s, i) : \A m \in k..i : ~Separator(s, m)

LoopInv(s, i) ==
  /\ Scan(s)[i].inQuote <=> InQuote(s, i)
  /\ Scan(s)[i].cur # <<>> <=> Open(s, i)
  /\ Len(All(s, i)) = ArgOf(s, i)
  /\ \A n \in 1..ArgOf(s, i) : Len(All(s, i)[n]) = Cardinality(Part(s, i, n))
  /\ \A k \in Chars(s, i) :
       /\ ArgOf(s, k) \in 1..ArgOf(s, i)
       /\ PlaceOf(s, k) \in 1..Cardinality(Part(s, i, ArgOf(s, k)))
       /\ All(s, i)[ArgOf(s, k)][PlaceOf(s, k)] = s[k]

LEMMA LoopStart ==
  ASSUME NEW s \in Seq(Token)
  PROVE  LoopInv(s, 0)
<1>1. Scan(s)[0] = [args |-> <<>>, cur |-> <<>>, inQuote |-> FALSE]
  BY ScanLoop
<1>2. All(s, 0) = <<>>
  BY <1>1 DEF All, Flush
<1>3. Chars(s, 0) = {} /\ Starts(s, 0) = {} /\ ArgOf(s, 0) = Cardinality(Starts(s, 0))
  <2>1. 0 \in 0..Len(s) /\ 1..0 = {}
    OBVIOUS
  <2> QED
    BY <2>1, PrefixFacts
<1>4. ArgOf(s, 0) = 0
  BY <1>3, FS_EmptySet
<1>5. ~InQuote(s, 0)
  <2>1. {k \in 1..0 : s[k] = "quote"} = {}
    OBVIOUS
  <2> QED
    BY <2>1, FS_EmptySet DEF InQuote
<1> QED
  BY <1>1, <1>2, <1>3, <1>4, <1>5 DEF LoopInv, Open

\* The arguments after the next character, in each of the cases of the loop.
LEMMA AllStep ==
  ASSUME NEW s \in Seq(Token), NEW i \in 0..Len(s) - 1
  PROVE  LET x == Scan(s)[i]
             y == Scan(s)[i + 1]
             c == s[i + 1]
         IN /\ x \in ScanState /\ y \in ScanState
            /\ All(s, i) = IF x.cur = <<>> THEN x.args ELSE Append(x.args, x.cur)
            /\ All(s, i) \in Seq(Seq(Token)) /\ All(s, i + 1) \in Seq(Seq(Token))
            /\ c = "quote" => /\ y.cur = x.cur /\ y.inQuote = ~x.inQuote
                              /\ All(s, i + 1) = All(s, i)
            /\ c = "blank" /\ ~x.inQuote => /\ y.cur = <<>> /\ y.inQuote = x.inQuote
                                            /\ All(s, i + 1) = All(s, i)
            /\ c # "quote" /\ ~(c = "blank" /\ ~x.inQuote) =>
                 /\ y.cur = Append(x.cur, c) /\ y.inQuote = x.inQuote
                 /\ All(s, i + 1) = Append(x.args, Append(x.cur, c))
<1> DEFINE x == Scan(s)[i]
           y == Scan(s)[i + 1]
           c == s[i + 1]
<1>1. /\ i \in 0..Len(s) /\ i + 1 \in 1..Len(s) /\ i + 1 \in 0..Len(s) /\ i + 1 - 1 = i
      /\ c \in Token
  OBVIOUS
<1>2. x \in ScanState /\ y \in ScanState /\ y = SplitStep(x, c)
  BY <1>1, ScanLoop
<1>3. All(s, i) = Flush(x).args /\ All(s, i + 1) = Flush(y).args
  BY DEF All
<1> HIDE DEF x, y, c
<1>4. /\ Flush(x).args = IF x.cur = <<>> THEN x.args ELSE Append(x.args, x.cur)
      /\ Flush(y).args = IF y.cur = <<>> THEN y.args ELSE Append(y.args, y.cur)
      /\ Flush(x) \in ScanState /\ Flush(y) \in ScanState
      /\ Flush(x).cur = <<>> /\ Flush(x).inQuote = x.inQuote
  BY <1>1, <1>2, StepFacts
<1>5. Flush(x).args \in Seq(Seq(Token)) /\ Flush(y).args \in Seq(Seq(Token))
  BY <1>4 DEF ScanState
<1>6. ASSUME c = "quote"
      PROVE  y.cur = x.cur /\ y.inQuote = ~x.inQuote /\ Flush(y).args = Flush(x).args
  <2>1. y = [args |-> x.args, cur |-> x.cur, inQuote |-> ~x.inQuote]
    BY <1>2, <1>6, ExceptIs DEF SplitStep
  <2> QED
    BY <1>4, <2>1
<1>7. ASSUME c = "blank", ~x.inQuote
      PROVE  y.cur = <<>> /\ y.inQuote = x.inQuote /\ Flush(y).args = Flush(x).args
  <2>1. y = Flush(x)
    BY <1>2, <1>7 DEF SplitStep
  <2> QED
    BY <1>4, <2>1
<1>8. ASSUME c # "quote", ~(c = "blank" /\ ~x.inQuote)
      PROVE  /\ y.cur = Append(x.cur, c) /\ y.inQuote = x.inQuote
             /\ Flush(y).args = Append(x.args, Append(x.cur, c))
  <2>1. y = [args |-> x.args, cur |-> Append(x.cur, c), inQuote |-> x.inQuote]
    BY <1>2, <1>8, ExceptIs DEF SplitStep
  <2>2. x.cur \in Seq(Token)
    BY <1>2 DEF ScanState
  <2>3. Append(x.cur, c) # <<>>
    BY <1>1, <2>2, AppendProperties
  <2> QED
    BY <1>4, <2>1, <2>3
<1> QED
  BY <1>2, <1>3, <1>4, <1>5, <1>6, <1>7, <1>8 DEF x, y, c

\* A separator ends an argument; a character that is not one starts or continues one.
LEMMA OpenStep ==
  ASSUME NEW s \in Seq(Token), NEW i \in 0..Len(s) - 1
  PROVE  /\ i + 1 \in ArgChars(s) <=> s[i + 1] # "quote" /\ ~Separator(s, i + 1)
         /\ i + 1 \in ArgChars(s) =>
              Open(s, i + 1) /\ (i + 1 \in ArgStarts(s) <=> ~Open(s, i))
         /\ Separator(s, i + 1) => ~Open(s, i + 1)
         /\ i + 1 \notin ArgChars(s) /\ ~Separator(s, i + 1) => (Open(s, i + 1) <=> Open(s, i))
<1>1. i + 1 \in ArgChars(s) <=> s[i + 1] # "quote" /\ ~Separator(s, i + 1)
  BY DEF ArgChars
<1>2. /\ i \in 0..Len(s) /\ i + 1 \in 0..Len(s)
      /\ Chars(s, i) \in SUBSET (1..i) /\ Chars(s, i + 1) \in SUBSET (1..i + 1)
  BY PrefixFacts
<1>3. \A k \in 1..i : k..i + 1 = (k..i) \cup {i + 1}
  OBVIOUS
<1>4. ASSUME i + 1 \in ArgChars(s) PROVE Open(s, i + 1)
  <2>1. i + 1 \in Chars(s, i + 1)
    BY <1>4 DEF Chars
  <2>2. \A m \in i + 1..i + 1 : ~Separator(s, m)
    BY <1>1, <1>4
  <2> QED
    BY <2>1, <2>2 DEF Open
<1>5. ASSUME i + 1 \in ArgChars(s) PROVE i + 1 \in ArgStarts(s) <=> ~Open(s, i)
  <2>1. \A k : k \in ArgChars(s) /\ k < i + 1 <=> k \in Chars(s, i)
    BY DEF Chars, ArgChars
  <2>2. i + 1 \in ArgStarts(s) <=> \A k \in Chars(s, i) : \E m \in k..i + 1 : Separator(s, m)
    BY <1>5, <2>1 DEF ArgStarts
  <2>3. \A k \in Chars(s, i) :
          (\E m \in k..i + 1 : Separator(s, m)) <=> (\E m \in k..i : Separator(s, m))
    BY <1>1, <1>2, <1>3, <1>5
  <2> QED
    BY <2>2, <2>3 DEF Open
<1>6. ASSUME Separator(s, i + 1) PROVE ~Open(s, i + 1)
  <2>1. \A k \in Chars(s, i + 1) : i + 1 \in k..i + 1
    BY <1>2
  <2> QED
    BY <1>6, <2>1 DEF Open
<1>7. ASSUME i + 1 \notin ArgChars(s), ~Separator(s, i + 1) PROVE Open(s, i + 1) <=> Open(s, i)
  <2>1. Chars(s, i + 1) = Chars(s, i)
    BY <1>7, PrefixStep
  <2>2. \A k \in Chars(s, i) :
          (\A m \in k..i + 1 : ~Separator(s, m)) <=> (\A m \in k..i : ~Separator(s, m))
    BY <1>2, <1>3, <1>7
  <2> QED
    BY <2>1, <2>2 DEF Open
<1> QED
  BY <1>1, <1>4, <1>5, <1>6, <1>7

LEMMA LoopStep ==
  ASSUME NEW s \in Seq(Token), NEW i \in 0..Len(s) - 1, LoopInv(s, i)
  PROVE  LoopInv(s, i + 1)
<1> DEFINE x == Scan(s)[i]
           y == Scan(s)[i + 1]
           c == s[i + 1]
           all == All(s, i)
           more == All(s, i + 1)
           g == ArgOf(s, i)
           Size(j, n) == Cardinality(Part(s, j, n))
           Placed(j, k, args) == /\ ArgOf(s, k) \in 1..ArgOf(s, j)
                                 /\ PlaceOf(s, k) \in 1..Size(j, ArgOf(s, k))
                                 /\ args[ArgOf(s, k)][PlaceOf(s, k)] = s[k]
<1>1. /\ x \in ScanState /\ y \in ScanState /\ c \in Token
      /\ x.args \in Seq(Seq(Token)) /\ x.cur \in Seq(Token)
      /\ all = IF x.cur = <<>> THEN x.args ELSE Append(x.args, x.cur)
      /\ all \in Seq(Seq(Token)) /\ more \in Seq(Seq(Token))
  <2>1. /\ x \in ScanState /\ y \in ScanState
        /\ all = IF x.cur = <<>> THEN x.args ELSE Append(x.args, x.cur)
        /\ all \in Seq(Seq(Token)) /\ more \in Seq(Seq(Token))
    BY AllStep
  <2>2. c \in Token
    OBVIOUS
  <2>3. x.args \in Seq(Seq(Token)) /\ x.cur \in Seq(Token)
    BY <2>1 DEF ScanState
  <2> QED
    BY <2>1, <2>2, <2>3
<1>2. /\ c = "quote" => y.cur = x.cur /\ y.inQuote = ~x.inQuote /\ more = all
      /\ c = "blank" /\ ~x.inQuote => y.cur = <<>> /\ y.inQuote = x.inQuote /\ more = all
      /\ c # "quote" /\ ~(c = "blank" /\ ~x.inQuote) =>
           /\ y.cur = Append(x.cur, c) /\ y.inQuote = x.inQuote
           /\ more = Append(x.args, Append(x.cur, c))
  BY AllStep
<1>3. /\ x.inQuote <=> InQuote(s, i)
      /\ x.cur # <<>> <=> Open(s, i)
      /\ Len(all) = g
      /\ \A n \in 1..g : Len(all[n]) = Size(i, n)
      /\ \A k \in Chars(s, i) : Placed(i, k, all)
  BY DEF LoopInv
<1>4. Separator(s, i + 1) <=> c = "blank" /\ ~x.inQuote
  BY <1>3, QuoteStep DEF Separator
<1>5. y.inQuote <=> InQuote(s, i + 1)
  BY <1>2, <1>3, QuoteStep
<1>6. i + 1 \in ArgChars(s) <=> c # "quote" /\ ~Separator(s, i + 1)
  BY OpenStep
<1>7. y.cur # <<>> <=> Open(s, i + 1)
  <2>1. c = "quote" => ~Separator(s, i + 1)
    BY DEF Separator
  <2>2. Append(x.cur, c) # <<>>
    BY <1>1, AppendProperties, SMTT(30)
  <2> QED
    BY <1>2, <1>3, <1>4, <1>6, <2>1, <2>2, OpenStep
<1>8. SUFFICES /\ Len(more) = ArgOf(s, i + 1)
               /\ \A n \in 1..ArgOf(s, i + 1) : Len(more[n]) = Size(i + 1, n)
               /\ \A k \in Chars(s, i + 1) : Placed(i + 1, k, more)
  BY <1>5, <1>7 DEF LoopInv
<1>9. /\ g \in Nat /\ \A k \in Chars(s, i) : ArgOf(s, k) <= g
      /\ \A n : Size(i, n) \in Nat /\ Part(s, i, n) \in SUBSET Chars(s, i)
      /\ \A k \in Chars(s, i) : k # i + 1
  <2>1. i \in 0..Len(s)
    OBVIOUS
  <2> QED
    BY <2>1, PrefixFacts
<1>10. CASE i + 1 \notin ArgChars(s)
  <2>1. more = all
    BY <1>2, <1>4, <1>6, <1>10
  <2>2. /\ Chars(s, i + 1) = Chars(s, i) /\ ArgOf(s, i + 1) = g
        /\ \A n : Size(i + 1, n) = Size(i, n)
    BY <1>10, PrefixStep
  <2> HIDE DEF all, more
  <2> QED
    BY <1>3, <2>1, <2>2
<1>11. CASE i + 1 \in ArgChars(s)
  <2>1. /\ more = Append(x.args, Append(x.cur, c))
        /\ i + 1 \in ArgStarts(s) <=> x.cur = <<>>
    BY <1>2, <1>3, <1>4, <1>6, <1>11, OpenStep
  <2>2. /\ Chars(s, i + 1) = Chars(s, i) \cup {i + 1}
        /\ ArgOf(s, i + 1) = g + (IF x.cur = <<>> THEN 1 ELSE 0)
        /\ \A n : n # ArgOf(s, i + 1) => Size(i + 1, n) = Size(i, n)
        /\ PlaceOf(s, i + 1) = Size(i, ArgOf(s, i + 1)) + 1
        /\ Size(i + 1, ArgOf(s, i + 1)) = PlaceOf(s, i + 1)
    BY <1>11, <2>1, PrefixStep
  <2>3. /\ Append(x.cur, c) \in Seq(Token) /\ Len(Append(x.cur, c)) = Len(x.cur) + 1
        /\ Append(x.cur, c)[Len(x.cur) + 1] = c
        /\ \A p \in 1..Len(x.cur) : Append(x.cur, c)[p] = x.cur[p]
        /\ Len(x.cur) \in Nat /\ Len(x.args) \in Nat
    BY <1>1, SMTT(30)
  <2>4. \A e \in Seq(Token) :
          /\ Len(Append(x.args, e)) = Len(x.args) + 1
          /\ Append(x.args, e)[Len(x.args) + 1] = e
          /\ \A n \in 1..Len(x.args) : Append(x.args, e)[n] = x.args[n]
    BY <1>1, SMTT(30)
  <2> HIDE DEF x
  <2> HIDE DEF more, all
  <2>5. /\ Len(more) = Len(x.args) + 1 /\ more[Len(x.args) + 1] = Append(x.cur, c)
        /\ \A n \in 1..Len(x.args) : more[n] = x.args[n]
    BY <2>1, <2>3, <2>4
  <2>6. CASE x.cur = <<>>
    <3>1. all = x.args /\ Len(x.args) = g /\ ArgOf(s, i + 1) = g + 1 /\ Len(x.cur) = 0
      BY <1>1, <1>3, <1>9, <2>2, <2>6
    <3>2. Size(i, g + 1) = 0
      <4>1. Part(s, i, g + 1) = {}
        <5>1. \A k \in Part(s, i, g + 1) : k \in Chars(s, i) /\ ArgOf(s, k) = g + 1
          BY <1>9 DEF Part
        <5>2. ~(g + 1 <= g)
          BY <1>9
        <5> HIDE DEF g
        <5> QED
          BY <1>9, <5>1, <5>2
      <4> QED
        BY <4>1, FS_EmptySet
    <3>3. PlaceOf(s, i + 1) = 1 /\ Size(i + 1, g + 1) = 1
      BY <2>2, <3>1, <3>2
    <3>4. Len(more) = g + 1 /\ Len(more[g + 1]) = 1 /\ more[g + 1][1] = c
          /\ \A n \in 1..g : more[n] = all[n]
      <4>1. Append(x.cur, c)[1] = c /\ Len(Append(x.cur, c)) = 1
        BY <2>3, <3>1
      <4> QED
        BY <2>5, <3>1, <4>1
    <3>5. \A n \in 1..g + 1 : Len(more[n]) = Size(i + 1, n)
      <4>1. \A n \in 1..g + 1 : n \in 1..g \/ n = g + 1
        BY <1>9
      <4>2. ASSUME NEW n \in 1..g PROVE Len(more[n]) = Size(i + 1, n)
        <5>1. n # ArgOf(s, i + 1)
          BY <1>9, <3>1
        <5>2. Size(i + 1, n) = Size(i, n)
          BY <2>2, <5>1
        <5>3. more[n] = all[n] /\ Len(all[n]) = Size(i, n)
          BY <1>3, <3>4
        <5> QED
          BY <5>2, <5>3
      <4> QED
        BY <3>3, <3>4, <4>1, <4>2
    <3>6. \A k \in Chars(s, i) : Placed(i + 1, k, more)
      <4> TAKE k \in Chars(s, i)
      <4>1. /\ ArgOf(s, k) \in 1..g /\ PlaceOf(s, k) \in 1..Size(i, ArgOf(s, k))
            /\ all[ArgOf(s, k)][PlaceOf(s, k)] = s[k]
        BY <1>3
      <4>2. ArgOf(s, k) \in 1..g + 1 /\ ArgOf(s, k) # g + 1
        BY <1>9, <4>1
      <4> QED
        BY <2>2, <3>1, <3>4, <4>1, <4>2
    <3>7. Placed(i + 1, i + 1, more)
      BY <1>9, <3>1, <3>3, <3>4 DEF c
    <3> QED
      BY <2>2, <3>1, <3>4, <3>5, <3>6, <3>7
  <2>7. CASE x.cur # <<>>
    <3>1. /\ all = Append(x.args, x.cur) /\ Len(x.args) + 1 = g /\ ArgOf(s, i + 1) = g
          /\ all[g] = x.cur /\ \A n \in 1..g - 1 : all[n] = x.args[n]
      <4>1. all = Append(x.args, x.cur) /\ ArgOf(s, i + 1) = g
        BY <1>1, <1>9, <2>2, <2>7
      <4>2. /\ Len(all) = Len(x.args) + 1 /\ all[Len(x.args) + 1] = x.cur
            /\ \A n \in 1..Len(x.args) : all[n] = x.args[n]
        BY <1>1, <2>4, <4>1
      <4>3. Len(x.args) = g - 1
        BY <1>3, <1>9, <2>3, <4>2
      <4> QED
        BY <1>3, <4>1, <4>2, <4>3
    <3>2. g \in 1..g
      BY <2>3, <3>1
    <3>3. Len(x.cur) = Size(i, g)
      BY <1>3, <3>1, <3>2
    <3>4. PlaceOf(s, i + 1) = Len(x.cur) + 1 /\ Size(i + 1, g) = Len(x.cur) + 1
      BY <2>2, <3>1, <3>3
    <3>5. /\ Len(more) = g /\ more[g] = Append(x.cur, c)
          /\ \A n \in 1..g - 1 : more[n] = all[n]
      BY <2>5, <3>1, SMTT(30)
    <3>6. \A n \in 1..g : Len(more[n]) = Size(i + 1, n)
      <4>1. \A n \in 1..g : (n \in 1..g - 1 /\ n # g) \/ n = g
        BY <1>9
      <4>2. ASSUME NEW n \in 1..g, n \in 1..g - 1, n # g
            PROVE  Len(more[n]) = Size(i + 1, n)
        <5>1. Size(i + 1, n) = Size(i, n)
          BY <2>2, <3>1, <4>2
        <5>2. more[n] = all[n] /\ Len(all[n]) = Size(i, n)
          BY <1>3, <3>5, <4>2
        <5> QED
          BY <5>1, <5>2
      <4>3. Len(more[g]) = Size(i + 1, g)
        BY <2>3, <3>4, <3>5
      <4> QED
        BY <4>1, <4>2, <4>3
    <3>7. \A k \in Chars(s, i) : Placed(i + 1, k, more)
      <4> TAKE k \in Chars(s, i)
      <4>1. /\ ArgOf(s, k) \in 1..g /\ PlaceOf(s, k) \in 1..Size(i, ArgOf(s, k))
            /\ all[ArgOf(s, k)][PlaceOf(s, k)] = s[k]
        BY <1>3
      <4>2. CASE ArgOf(s, k) = g
        <5>1. PlaceOf(s, k) \in 1..Len(x.cur) /\ x.cur[PlaceOf(s, k)] = s[k]
          BY <3>1, <3>3, <4>1, <4>2
        <5>2. Append(x.cur, c)[PlaceOf(s, k)] = s[k] /\ PlaceOf(s, k) \in 1..Len(x.cur) + 1
          BY <2>3, <5>1
        <5> QED
          BY <3>1, <3>2, <3>4, <3>5, <4>2, <5>2
      <4>3. CASE ArgOf(s, k) # g
        <5>1. ArgOf(s, k) \in 1..g - 1
          BY <1>9, <4>1, <4>3
        <5> QED
          BY <2>2, <3>1, <3>5, <4>1, <4>3, <5>1
      <4> QED
        BY <4>2, <4>3
    <3>8. Placed(i + 1, i + 1, more)
      BY <2>3, <3>1, <3>2, <3>4, <3>5 DEF c
    <3> QED
      BY <2>2, <3>1, <3>5, <3>6, <3>7, <3>8
  <2> QED
    BY <2>6, <2>7
<1> QED
  BY <1>10, <1>11

\* splitArgs gives the arguments of s, for every s.
LEMMA SplitIsRight ==
  ASSUME NEW s \in Seq(Token)
  PROVE  /\ ArgsOf(splitArgs(s), s) /\ splitArgs(s) \in Seq(Seq(Token))
         /\ \A i \in DOMAIN s : Scan(s)[i].inQuote <=> InQuote(s, i)
<1> DEFINE S == {i \in Nat : i <= Len(s) => LoopInv(s, i)}
<1>1. 0 \in S
  BY LoopStart
<1>2. ASSUME NEW i \in Nat, i \in S PROVE i + 1 \in S
  <2> SUFFICES ASSUME i + 1 <= Len(s) PROVE LoopInv(s, i + 1)
    OBVIOUS
  <2>1. i \in 0..Len(s) - 1 /\ LoopInv(s, i)
    BY <1>2
  <2> QED
    BY <2>1, LoopStep
<1>3. Nat \subseteq S
  <2> HIDE DEF S
  <2> QED
    BY <1>1, <1>2, SetInduction
<1>4. LoopInv(s, Len(s)) /\ Len(s) \in 0..Len(s)
  BY <1>3
<1>5. splitArgs(s) = All(s, Len(s))
  BY DEF splitArgs, All
<1>6. Chars(s, Len(s)) = ArgChars(s) /\ Starts(s, Len(s)) = ArgStarts(s)
  BY DEF Chars, Starts, ArgStarts, ArgChars
<1>7. ArgOf(s, Len(s)) = Cardinality(ArgStarts(s))
  BY <1>4, <1>6, PrefixFacts
<1>8. \A n : Part(s, Len(s), n) = {k \in ArgChars(s) : ArgOf(s, k) = n}
  BY DEF Part, ArgChars
<1>9. ArgsOf(splitArgs(s), s)
  BY <1>4, <1>5, <1>6, <1>7, <1>8 DEF ArgsOf, LoopInv
<1>10. splitArgs(s) \in Seq(Seq(Token))
  <2>1. Scan(s)[Len(s)] \in ScanState
    BY <1>4, ScanLoop
  <2>2. Flush(Scan(s)[Len(s)]) \in ScanState
    <3>1. "x" \in Token
      BY DEF Token
    <3> QED
      BY <2>1, <3>1, StepFacts
  <2> QED
    BY <2>2 DEF splitArgs, ScanState
<1>11. ASSUME NEW i \in DOMAIN s PROVE Scan(s)[i].inQuote <=> InQuote(s, i)
  <2>1. LoopInv(s, i)
    BY <1>3
  <2> QED
    BY <2>1 DEF LoopInv
<1> QED
  BY <1>9, <1>10, <1>11

-----------------------------------------------------------------------------
(* The check of the command (validateCommand in internal/handler/run.go).   *)

LEMMA MinMax ==
  ASSUME NEW n \in Nat, NEW S, S \subseteq 1..n, S # {}
  PROVE  /\ Min(S) \in S /\ \A k \in S : Min(S) <= k
         /\ Max(S) \in S /\ \A k \in S : k <= Max(S)
<1>1. \E x \in S : \A y \in S : x <= y
  <2>1. S \in SUBSET Nat
    OBVIOUS
  <2> QED
    BY <2>1, LeastExists
<1>2. \E x \in S : \A y \in S : y <= x
  <2> DEFINE T == {k \in Nat : \E x \in S : k = n - x}
  <2>1. T \in SUBSET Nat
    OBVIOUS
  <2>2. T # {}
    <3>1. PICK x \in S : TRUE
      OBVIOUS
    <3>2. n - x \in T
      OBVIOUS
    <3> QED
      BY <3>2
  <2>3. PICK z \in T : \A y \in T : z <= y
    <3> HIDE DEF T
    <3> QED
      BY <2>1, <2>2, LeastExists
  <2>4. PICK x \in S : z = n - x
    BY <2>3
  <2>5. ASSUME NEW y \in S PROVE y <= x
    <3>1. n - y \in T
      OBVIOUS
    <3>2. z <= n - y
      BY <2>3, <3>1
    <3> QED
      BY <2>4, <3>2
  <2> QED
    BY <2>5
<1> QED
  BY <1>1, <1>2, Zenon DEF Min, Max

\* A trimmed command is its own trim: what is checked is what is split.
LEMMA TrimFacts ==
  ASSUME NEW s \in Seq(Token)
  PROVE  /\ TrimSpace(s) \in Seq(Token)
         /\ TrimSpace(TrimSpace(s)) = TrimSpace(s)
<1> DEFINE text(r) == {i \in DOMAIN r : r[i] \notin White}
<1>1. CASE text(s) = {}
  <2>1. TrimSpace(s) = <<>>
    BY <1>1 DEF TrimSpace
  <2>2. TrimSpace(<<>>) = <<>>
    BY DEF TrimSpace
  <2> QED
    BY <2>1, <2>2
<1>2. CASE text(s) # {}
  <2> DEFINE T == text(s)
             a == Min(T)
             b == Max(T)
             t == SubSeq(s, a, b)
  <2>1. /\ a \in T /\ b \in T /\ \A k \in T : a <= k /\ k <= b
    <3>1. T \subseteq 1..Len(s) /\ Len(s) \in Nat /\ T # {}
      BY <1>2
    <3> HIDE DEF T
    <3> QED
      BY <3>1, MinMax
  <2>2. a \in 1..Len(s) /\ b \in 1..Len(s) /\ a <= b /\ s[a] \notin White /\ s[b] \notin White
    BY <2>1
  <2>3. TrimSpace(s) = t
    BY <1>2 DEF TrimSpace
  <2> HIDE DEF a, b
  <2>4. /\ t \in Seq(Token) /\ Len(t) = b - a + 1 /\ \A i \in 1..Len(t) : t[i] = s[a + i - 1]
    BY <2>2
  <2> DEFINE U == text(t)
  <2>5. Len(t) \in Nat /\ 1 \in U /\ Len(t) \in U /\ U \subseteq 1..Len(t)
    <3> HIDE DEF t
    <3>1. Len(t) \in Nat /\ Len(t) >= 1 /\ DOMAIN t = 1..Len(t)
      BY <2>2, <2>4
    <3>2. t[1] = s[a] /\ t[Len(t)] = s[b]
      BY <2>2, <2>4, <3>1
    <3> QED
      BY <2>2, <3>1, <3>2
  <2>7. Min(U) = 1 /\ Max(U) = Len(t)
    <3> HIDE DEF U, t
    <3>1. /\ Min(U) \in U /\ \A k \in U : Min(U) <= k
          /\ Max(U) \in U /\ \A k \in U : k <= Max(U)
      BY <2>5, MinMax
    <3>2. Min(U) <= 1 /\ Len(t) <= Max(U) /\ Min(U) \in 1..Len(t) /\ Max(U) \in 1..Len(t)
      BY <2>5, <3>1
    <3> QED
      BY <2>5, <3>2
  <2>8. TrimSpace(t) = SubSeq(t, 1, Len(t))
    <3>1. U # {}
      BY <2>5
    <3> HIDE DEF t
    <3> QED
      BY <2>7, <3>1 DEF TrimSpace
  <2>9. SubSeq(t, 1, Len(t)) = t
    <3> HIDE DEF t
    <3> QED
      BY <2>4, SubSeqFull
  <2> HIDE DEF t
  <2> QED
    BY <2>3, <2>4, <2>8, <2>9
<1> QED
  BY <1>1, <1>2

LEMMA OneToken ==
  ASSUME NEW s \in Seq(Token), NEW c
  PROVE  s = <<c>> <=> Len(s) = 1 /\ s[1] = c
  OBVIOUS

\* FirstField ends at the first white character.
LEMMA FirstFieldFacts ==
  ASSUME NEW s \in Seq(Token)
  PROVE  FirstField(s) = <<"name">> <=>
           /\ Len(s) >= 1 /\ s[1] = "name"
           /\ Len(s) > 1 => s[2] \in White
<1> DEFINE ends == {i \in DOMAIN s : s[i] \in White}
<1>1. "name" \notin White /\ "name" \in Token
  BY DEF White, Token
<1>2. CASE ends = {}
  <2>1. FirstField(s) = s
    BY <1>2 DEF FirstField
  <2>2. Len(s) > 1 => s[2] \notin White
    BY <1>2
  <2>3. s = <<"name">> <=> Len(s) = 1 /\ s[1] = "name"
    BY OneToken
  <2>4. Len(s) \in Nat
    OBVIOUS
  <2> QED
    BY <2>1, <2>2, <2>3, <2>4
<1>3. CASE ends # {}
  <2> DEFINE e == Min(ends)
             first == SubSeq(s, 1, e - 1)
  <2>1. e \in ends /\ \A k \in ends : e <= k
    <3>1. ends \subseteq 1..Len(s) /\ Len(s) \in Nat /\ ends # {}
      BY <1>3
    <3> HIDE DEF ends
    <3> QED
      BY <3>1, MinMax
  <2>2. e \in 1..Len(s) /\ s[e] \in White
    BY <2>1
  <2>3. FirstField(s) = first
    BY <1>3 DEF FirstField
  <2>4. \A k \in 1..Len(s) : s[k] \in White => e <= k
    BY <2>1
  <2> HIDE DEF e
  <2>5. first \in Seq(Token) /\ Len(first) = e - 1 /\ \A i \in 1..e - 1 : first[i] = s[i]
    BY <2>2
  <2>6. first = <<"name">> <=> Len(first) = 1 /\ first[1] = "name"
    <3> HIDE DEF first
    <3> QED
      BY <2>5, OneToken
  <2> HIDE DEF first, ends
  <2>7. ASSUME Len(first) = 1, first[1] = "name"
        PROVE  Len(s) >= 1 /\ s[1] = "name" /\ (Len(s) > 1 => s[2] \in White)
    <3>0. e \in Nat
      BY <2>2
    <3>1. e - 1 = 1
      BY <2>5, <2>7
    <3>2. e = 2 /\ 1 \in 1..e - 1 /\ Len(s) \in Nat
      BY <3>0, <3>1
    <3>3. s[1] = "name" /\ s[2] \in White
      BY <2>2, <2>5, <2>7, <3>2
    <3> QED
      BY <2>2, <3>2, <3>3
  <2>8. ASSUME Len(s) >= 1, s[1] = "name", Len(s) > 1 => s[2] \in White
        PROVE  Len(first) = 1 /\ first[1] = "name"
    <3>1. e # 1
      BY <1>1, <2>2, <2>8
    <3>2. e = 2
      BY <2>2, <2>4, <2>8, <3>1
    <3> QED
      BY <2>5, <2>8, <3>2
  <2> QED
    BY <2>3, <2>6, <2>7, <2>8
<1> QED
  BY <1>2, <1>3

\* The first argument of a command whose first word is "name" is that word, but for a tab.
LEMMA FirstArgument ==
  ASSUME NEW s \in Seq(Token), Len(s) >= 1, s[1] = "name", Len(s) > 1 => s[2] \in White,
         NEW args \in Seq(Seq(Token)), ArgsOf(args, s)
  PROVE  args # <<>> /\ (args[1] = <<"name">> \/ s[2] = "tab")
<1>1. /\ Len(s) \in Nat /\ 0 \in 0..Len(s) - 1 /\ 1 \in 1..Len(s) /\ 1 \in 0..Len(s)
      /\ "name" # "quote" /\ "name" # "blank" /\ "tab" # "quote" /\ "tab" # "blank"
  OBVIOUS
<1>2. 1 \in ArgChars(s) /\ ArgChars(s) \subseteq 1..Len(s) /\ ArgStarts(s) \subseteq ArgChars(s)
  BY <1>1 DEF ArgChars, ArgStarts, Separator
<1>3. 1 \in ArgStarts(s)
  BY <1>2 DEF ArgStarts
<1>4. ArgOf(s, 0) = 0 /\ Chars(s, 0) = {} /\ \A n : Part(s, 0, n) = {}
  <2>1. /\ Chars(s, 0) \in SUBSET (1..0) /\ Starts(s, 0) \in SUBSET Chars(s, 0)
        /\ ArgOf(s, 0) = Cardinality(Starts(s, 0))
        /\ \A n : Part(s, 0, n) \in SUBSET Chars(s, 0)
    <3>1. 0 \in 0..Len(s)
      OBVIOUS
    <3> QED
      BY <3>1, PrefixFacts
  <2>2. Chars(s, 0) = {} /\ Starts(s, 0) = {}
    BY <2>1
  <2> QED
    BY <2>1, <2>2, FS_EmptySet
<1>5. ArgOf(s, 1) = 1 /\ PlaceOf(s, 1) = 1 /\ Cardinality(Part(s, 1, 1)) = 1
  <2>1. /\ 0 + 1 = 1 /\ ArgOf(s, 0 + 1) = ArgOf(s, 0) + 1
        /\ PlaceOf(s, 0 + 1) = Cardinality(Part(s, 0, ArgOf(s, 0 + 1))) + 1
        /\ Cardinality(Part(s, 0 + 1, ArgOf(s, 0 + 1))) = PlaceOf(s, 0 + 1)
    BY <1>1, <1>2, <1>3, PrefixStep
  <2> QED
    BY <1>4, <2>1, FS_EmptySet
<1>6. args[1][1] = "name"
  BY <1>2, <1>5 DEF ArgsOf
<1> DEFINE firsts == {i \in ArgChars(s) : ArgOf(s, i) = 1}
<1>7. firsts \in SUBSET (1..Len(s)) /\ 1 \in firsts
  BY <1>2, <1>5
<1>8. 1 \in 1..Len(args) /\ args[1] \in Seq(Token) /\ Len(args[1]) = Cardinality(firsts)
  <2>1. ArgStarts(s) \in SUBSET (1..Len(s)) /\ ArgStarts(s) # {}
    BY <1>2, <1>3
  <2>2. Cardinality(ArgStarts(s)) \in Nat /\ Cardinality(ArgStarts(s)) # 0
    BY <1>1, <2>1, CountFacts
  <2>3. 1 \in 1..Len(args)
    BY <2>2 DEF ArgsOf
  <2> QED
    BY <2>3 DEF ArgsOf
<1>9. Len(args[1]) >= 1
  <2>1. Cardinality(firsts) \in Nat /\ Cardinality(firsts) # 0
    BY <1>1, <1>7, CountFacts
  <2> QED
    BY <1>8, <2>1
<1>10. ASSUME firsts = {1} PROVE args[1] = <<"name">>
  <2>1. Cardinality({1}) = 1
    BY FS_Singleton
  <2>2. Len(args[1]) = 1
    BY <1>8, <1>10, <2>1
  <2>3. \A t \in Seq(Token) : Len(t) = 1 /\ t[1] = "name" => t = <<"name">>
    BY OneToken
  <2> QED
    BY <1>6, <1>8, <2>2, <2>3
<1>11. args # <<>>
  BY <1>8
<1> SUFFICES args[1] = <<"name">> \/ s[2] = "tab"
  BY <1>11
<1>12. CASE Len(s) = 1
  <2>1. firsts = {1}
    BY <1>7, <1>12
  <2> QED
    BY <2>1, <1>10
<1>13. CASE Len(s) > 1 /\ s[2] = "tab"
  BY <1>13
<1>14. CASE Len(s) > 1 /\ s[2] = "blank"
  <2>1. Separator(s, 2)
    <3>1. {k \in 1..2 : s[k] = "quote"} = {}
      <4>1. \A k \in 1..2 : k = 1 \/ k = 2
        OBVIOUS
      <4> QED
        BY <1>1, <1>14, <4>1
    <3>2. ~InQuote(s, 2)
      <4> DEFINE quotes == {k \in 1..2 : s[k] = "quote"}
      <4>1. InQuote(s, 2) <=> Cardinality(quotes) % 2 = 1
        BY DEF InQuote
      <4> HIDE DEF quotes
      <4>2. quotes = {}
        BY <3>1 DEF quotes
      <4> QED
        BY <4>1, <4>2, FS_EmptySet
    <3> QED
      BY <1>14, <3>2 DEF Separator
  <2>2. 2 \notin ArgChars(s)
    BY <2>1 DEF ArgChars
  <2>3. ASSUME NEW i \in firsts, i # 1 PROVE FALSE
    <3> DEFINE later == ArgChars(s) \ {1}
    <3>1. later \in SUBSET Nat /\ i \in later
      BY <1>2, <2>3
    <3>2. PICK m \in later : \A k \in later : m <= k
      BY <3>1, LeastExists
    <3>3. m \in Nat /\ m > 2 /\ m <= i /\ i \in 1..Len(s)
      BY <1>2, <2>2, <3>1, <3>2
    <3>4. m \in ArgStarts(s)
      <4>1. ASSUME NEW k \in ArgChars(s), k < m PROVE \E n \in k..m : Separator(s, n)
        <5>1. k = 1
          BY <1>2, <3>2, <3>3, <4>1
        <5>2. 2 \in k..m
          BY <3>3, <5>1
        <5> QED
          BY <2>1, <5>2
      <4> QED
        BY <3>2, <4>1 DEF ArgStarts
    <3>5. {1, m} \subseteq Starts(s, i)
      BY <1>3, <3>3, <3>4 DEF Starts
    <3>6. Starts(s, i) \in SUBSET (1..Len(s))
      BY <1>2 DEF Starts
    <3>7. Cardinality({1, m}) = 2
      <4>1. IsFiniteSet({1}) /\ Cardinality({1}) = 1
        BY FS_Singleton
      <4>2. m \notin {1}
        BY <3>3
      <4>3. Cardinality({1} \cup {m}) = 1 + 1
        BY <4>1, <4>2, FS_AddElement
      <4>4. {1, m} = {1} \cup {m}
        OBVIOUS
      <4>5. Cardinality({1, m}) = 1 + 1
        BY <4>3, <4>4, Zenon
      <4> QED
        BY <4>5
    <3>8. Cardinality({1, m}) <= Cardinality(Starts(s, i))
      <4>1. IsFiniteSet(Starts(s, i))
        BY <1>1, <3>6, CountFacts
      <4> QED
        BY <3>5, <4>1, FS_Subset
    <3>9. Cardinality(Starts(s, i)) = 1
      BY <2>3 DEF ArgOf, Starts
    <3> QED
      BY <3>7, <3>8, <3>9
  <2>4. firsts = {1}
    BY <1>7, <2>3
  <2> QED
    BY <2>4, <1>10
<1>15. Len(s) > 1 => s[2] = "tab" \/ s[2] = "blank"
  BY DEF White
<1>16. Len(s) = 1 \/ Len(s) > 1
  <2>1. \A n \in Nat : n >= 1 => n = 1 \/ n > 1
    OBVIOUS
  <2> QED
    BY <1>1, <2>1
<1> QED
  BY <1>12, <1>13, <1>14, <1>15, <1>16

\* What an accepted command is.
LEMMA AcceptedFacts ==
  ASSUME NEW s \in Seq(Token), TrimSpace(s) = s, validateCommand(s) = ""
  PROVE  /\ FirstField(s) = <<"name">>
         /\ \A i \in DOMAIN s : Dangerous(s, i) => InQuote(s, i)
<1> DEFINE refused == \E i \in DOMAIN s : Dangerous(s, i) /\ ~InQuote(s, i)
           starts == FirstField(s) = <<"name">>
<1>1. validateCommand(s)
        = CASE s = <<>> -> "no command"
            [] s # <<>> /\ refused -> "syntax error"
            [] s # <<>> /\ ~refused /\ ~starts -> "not found"
            [] OTHER -> ""
  BY DEF validateCommand
<1> HIDE DEF refused, starts
<1>2. ~refused /\ starts
  BY <1>1
<1> QED
  BY <1>2 DEF refused, starts

-----------------------------------------------------------------------------
(* The contract interface (internal/handler/interface.go).                  *)

Fn == [name : STRING, params : Seq(STRING)]
ShownFn == {Parsed(fn) : fn \in Fn}
Fns == Seq(ShownFn)
Names(l) == {l[i].name : i \in DOMAIN l}

LEMMA ParsedFacts ==
  /\ \A fn \in Fn : Parsed(fn).name = fn.name /\ Parsed(fn) \in ShownFn
  /\ \A g \in ShownFn : g.category \in {"read", "write", "unknown"}
<1>1. \A fn : Parsed(fn).name = fn.name /\ Parsed(fn).category = inferCategory(fn.name)
  BY DEF Parsed
<1>2. \A fn : inferCategory(fn.name) \in {"read", "write", "unknown"}
  BY DEF inferCategory
<1> QED
  BY <1>1, <1>2, Zenon DEF ShownFn

LEMMA NamesFacts ==
  /\ <<>> \in Fns /\ Names(<<>>) = {}
  /\ \A l \in Fns, g \in ShownFn :
       Append(l, g) \in Fns /\ Names(Append(l, g)) = Names(l) \cup {g.name}
  /\ \A l, r \in Fns : l \o r \in Fns /\ Names(l \o r) = Names(l) \cup Names(r)
<1>1. <<>> \in Fns /\ Names(<<>>) = {}
  BY DEF Fns, Names
<1>2. ASSUME NEW l \in Fns, NEW g \in ShownFn
      PROVE  Append(l, g) \in Fns /\ Names(Append(l, g)) = Names(l) \cup {g.name}
  <2>1. /\ Append(l, g) \in Seq(ShownFn) /\ Len(l) \in Nat /\ DOMAIN l = 1..Len(l)
        /\ DOMAIN Append(l, g) = 1..Len(l) + 1
        /\ \A i \in 1..Len(l) : Append(l, g)[i] = l[i]
        /\ Append(l, g)[Len(l) + 1] = g
    BY DEF Fns
  <2>2. 1..Len(l) + 1 = (1..Len(l)) \cup {Len(l) + 1}
    BY <2>1
  <2> DEFINE w == Append(l, g)
             n == Len(l)
  <2>3. Names(w) = {w[i].name : i \in (1..n) \cup {n + 1}} /\ Names(l) = {l[i].name : i \in 1..n}
    BY <2>1, <2>2, Zenon DEF Names
  <2>4. (\A i \in 1..n : w[i] = l[i]) /\ w[n + 1] = g
    BY <2>1
  <2> HIDE DEF w, n
  <2>5. {w[i].name : i \in (1..n) \cup {n + 1}} = {l[i].name : i \in 1..n} \cup {g.name}
    BY <2>4
  <2> QED
    BY <2>1, <2>3, <2>5, Zenon DEF Fns, w
<1>3. ASSUME NEW l \in Fns, NEW r \in Fns
      PROVE  l \o r \in Fns /\ Names(l \o r) = Names(l) \cup Names(r)
  <2> DEFINE a == Len(l)
             b == Len(r)
  <2>1. /\ l \o r \in Seq(ShownFn) /\ a \in Nat /\ b \in Nat /\ DOMAIN l = 1..a /\ DOMAIN r = 1..b
        /\ DOMAIN (l \o r) = 1..a + b
        /\ \A i \in 1..a : (l \o r)[i] = l[i]
        /\ \A i \in 1..b : (l \o r)[a + i] = r[i]
    BY DEF Fns
  <2> HIDE DEF a, b
  <2>2. /\ \A i \in 1..a + b : i \in 1..a \/ \E k \in 1..b : i = a + k
        /\ \A i \in 1..a : i \in 1..a + b
        /\ \A k \in 1..b : a + k \in 1..a + b
    <3>1. \A i \in 1..a + b : i \notin 1..a => i - a \in 1..b /\ i = a + (i - a)
      BY <2>1
    <3> QED
      BY <2>1, <3>1
  <2> DEFINE w == l \o r
  <2>3. /\ Names(w) = {w[i].name : i \in 1..a + b} /\ Names(l) = {l[i].name : i \in 1..a}
        /\ Names(r) = {r[i].name : i \in 1..b}
    BY <2>1, Zenon DEF Names
  <2>4. (\A i \in 1..a : w[i] = l[i]) /\ (\A i \in 1..b : w[a + i] = r[i])
    BY <2>1
  <2> HIDE DEF w
  <2>5. Names(w) \subseteq Names(l) \cup Names(r)
    BY <2>2, <2>3, <2>4
  <2>6. Names(l) \subseteq Names(w)
    BY <2>2, <2>3, <2>4
  <2>7. Names(r) \subseteq Names(w)
    BY <2>2, <2>3, <2>4
  <2>8. Names(w) = Names(l) \cup Names(r)
    BY <2>5, <2>6, <2>7
  <2> QED
    BY <2>1, <2>8 DEF Fns, w
<1> QED
  BY <1>1, <1>2, <1>3

LEMMA FnsRuns ==
  \A n \in Nat : \A step \in [1..n -> [Fns -> Fns]] :
    \E f \in [0..n -> Fns] : f[0] = <<>> /\ \A i \in 1..n : f[i] = step[i][f[i - 1]]
  BY LoopRuns, NamesFacts

LEMMA ShownLoop ==
  ASSUME NEW m \in Seq(Fn)
  PROVE  /\ Shown(m)[0] = <<>>
         /\ \A i \in 1..Len(m) :
              Shown(m)[i] = IF m[i].name \in SkippedFns THEN Shown(m)[i - 1]
                            ELSE Append(Shown(m)[i - 1], Parsed(m[i]))
<1> DEFINE Step(x, i) == IF m[i].name \in SkippedFns THEN x ELSE Append(x, Parsed(m[i]))
           Body(g) == [i \in 0..Len(m) |->
                         IF i = 0 THEN <<>> ELSE Step(g[i - 1], i)]
           step == [i \in 1..Len(m) |-> [x \in Fns |-> Step(x, i)]]
<1>1. step \in [1..Len(m) -> [Fns -> Fns]]
  <2>1. \A i \in 1..Len(m) : Parsed(m[i]) \in ShownFn
    BY ParsedFacts
  <2> QED
    BY <2>1, NamesFacts
<1>2. PICK f \in [0..Len(m) -> Fns] :
        f[0] = <<>> /\ \A i \in 1..Len(m) : f[i] = step[i][f[i - 1]]
  <2> HIDE DEF step
  <2>1. PICK n \in Nat : n = Len(m)
    OBVIOUS
  <2> QED
    BY <1>1, <2>1, FnsRuns, Zenon
<1>3. \A i \in 1..Len(m) : f[i] = Step(f[i - 1], i)
  <2> TAKE i \in 1..Len(m)
  <2>1. f[i - 1] \in Fns
    BY <1>2
  <2> QED
    BY <1>2, <2>1
<1>4. f = Body(f)
  <2> HIDE DEF Step
  <2> QED
    BY <1>2, <1>3
<1>5. Shown(m) = Body(Shown(m))
  BY <1>4 DEF Shown
<1>6. 0 \in 0..Len(m) /\ \A i \in 1..Len(m) : i \in 0..Len(m) /\ i # 0
  OBVIOUS
<1>7. Shown(m)[0] = <<>> /\ \A i \in 1..Len(m) : Shown(m)[i] = Step(Shown(m)[i - 1], i)
  <2> HIDE DEF Step
  <2> QED
    BY <1>5, <1>6
<1> QED
  BY <1>7

\* A contract's functions are those of its matches that are not left out.
LEMMA ShownFacts ==
  ASSUME NEW m \in Seq(Fn)
  PROVE  /\ Shown(m)[Len(m)] \in Fns
         /\ Names(Shown(m)[Len(m)]) = {m[k].name : k \in 1..Len(m)} \ SkippedFns
<1> DEFINE Good(i) == /\ Shown(m)[i] \in Fns
                      /\ Names(Shown(m)[i]) = {m[k].name : k \in 1..i} \ SkippedFns
           S == {i \in Nat : i <= Len(m) => Good(i)}
<1>1. 0 \in S
  BY ShownLoop, NamesFacts
<1>2. ASSUME NEW i \in Nat, i \in S PROVE i + 1 \in S
  <2> SUFFICES ASSUME i + 1 <= Len(m) PROVE Good(i + 1)
    OBVIOUS
  <2>1. Good(i)
    BY <1>2
  <2>2. i + 1 \in 1..Len(m) /\ m[i + 1] \in Fn /\ i + 1 - 1 = i
        /\ 1..i + 1 = (1..i) \cup {i + 1}
    OBVIOUS
  <2>3. Shown(m)[i + 1] = IF m[i + 1].name \in SkippedFns THEN Shown(m)[i]
                          ELSE Append(Shown(m)[i], Parsed(m[i + 1]))
    BY <2>2, ShownLoop
  <2>4. {m[k].name : k \in 1..i + 1} = {m[k].name : k \in 1..i} \cup {m[i + 1].name}
    BY <2>2, Zenon
  <2>5. Parsed(m[i + 1]) \in ShownFn /\ Parsed(m[i + 1]).name = m[i + 1].name
    BY <2>2, ParsedFacts
  <2>6. CASE m[i + 1].name \in SkippedFns
    BY <2>1, <2>3, <2>4, <2>6
  <2>7. CASE m[i + 1].name \notin SkippedFns
    <3>1. Append(Shown(m)[i], Parsed(m[i + 1])) \in Fns
          /\ Names(Append(Shown(m)[i], Parsed(m[i + 1])))
               = Names(Shown(m)[i]) \cup {m[i + 1].name}
      BY <2>1, <2>5, NamesFacts
    <3> QED
      BY <2>1, <2>3, <2>4, <2>7, <3>1
  <2> QED
    BY <2>6, <2>7
<1>3. Nat \subseteq S
  <2> HIDE DEF S
  <2> QED
    BY <1>1, <1>2, SetInduction
<1>4. Len(m) \in Nat
  OBVIOUS
<1>5. Good(Len(m))
  <2> HIDE DEF Good
  <2> QED
    BY <1>3, <1>4
<1> QED
  BY <1>5

NoRepeats(l) == \A i, k \in DOMAIN l : l[i].name = l[k].name => i = k

\* A function is kept unless one of its name has been kept before.
LEMMA KeepFacts ==
  ASSUME NEW l \in Fns, NEW g \in ShownFn
  PROVE  /\ KeepFirst(l, g) \in Fns
         /\ Names(KeepFirst(l, g)) = Names(l) \cup {g.name}
         /\ NoRepeats(l) => NoRepeats(KeepFirst(l, g))
<1>1. g.name \in Names(l) <=> \E i \in DOMAIN l : l[i].name = g.name
  BY DEF Names
<1>2. CASE g.name \in Names(l)
  <2>1. KeepFirst(l, g) = l
    BY <1>1, <1>2 DEF KeepFirst
  <2> QED
    BY <1>2, <2>1
<1>3. CASE g.name \notin Names(l)
  <2>1. KeepFirst(l, g) = Append(l, g)
    BY <1>1, <1>3 DEF KeepFirst
  <2>2. Append(l, g) \in Fns /\ Names(Append(l, g)) = Names(l) \cup {g.name}
    BY NamesFacts
  <2>3. ASSUME NoRepeats(l) PROVE NoRepeats(Append(l, g))
    <3> DEFINE w == Append(l, g)
               n == Len(l)
    <3>1. /\ n \in Nat /\ DOMAIN l = 1..n /\ DOMAIN w = 1..n + 1
          /\ \A i \in 1..n : w[i] = l[i]
          /\ w[n + 1] = g
      BY DEF Fns
    <3> HIDE DEF w, n
    <3>2. \A i \in 1..n + 1 : i \in 1..n \/ i = n + 1
      BY <3>1
    <3>3. \A i \in 1..n : w[i].name = l[i].name /\ w[i].name # g.name
      BY <1>1, <1>3, <3>1
    <3>4. \A i, k \in 1..n : l[i].name = l[k].name => i = k
      BY <2>3, <3>1 DEF NoRepeats
    <3>5. \A i, k \in 1..n + 1 : w[i].name = w[k].name => i = k
      BY <3>1, <3>2, <3>3, <3>4
    <3>6. NoRepeats(w)
      BY <3>1, <3>5 DEF NoRepeats
    <3> QED
      BY <3>6 DEF w
  <2> QED
    BY <2>1, <2>2, <2>3
<1> QED
  BY <1>2, <1>3

LEMMA DedupedLoop ==
  ASSUME NEW l \in Fns
  PROVE  /\ Deduped(l)[0] = <<>>
         /\ \A i \in 1..Len(l) : Deduped(l)[i] = KeepFirst(Deduped(l)[i - 1], l[i])
<1> DEFINE Body(g) == [i \in 0..Len(l) |-> IF i = 0 THEN <<>> ELSE KeepFirst(g[i - 1], l[i])]
           step == [i \in 1..Len(l) |-> [x \in Fns |-> KeepFirst(x, l[i])]]
<1>1. Len(l) \in Nat /\ \A i \in 1..Len(l) : l[i] \in ShownFn
  BY DEF Fns
<1>2. step \in [1..Len(l) -> [Fns -> Fns]]
  BY <1>1, KeepFacts
<1>3. PICK f \in [0..Len(l) -> Fns] :
        f[0] = <<>> /\ \A i \in 1..Len(l) : f[i] = step[i][f[i - 1]]
  <2> HIDE DEF step
  <2>1. PICK n \in Nat : n = Len(l)
    BY <1>1
  <2> QED
    BY <1>2, <2>1, FnsRuns, Zenon
<1>4. \A i \in 1..Len(l) : f[i] = KeepFirst(f[i - 1], l[i])
  <2> TAKE i \in 1..Len(l)
  <2>1. f[i - 1] \in Fns
    BY <1>1, <1>3
  <2> QED
    BY <1>3, <2>1
<1>5. f = Body(f)
  BY <1>3, <1>4
<1>6. Deduped(l) = Body(Deduped(l))
  BY <1>5 DEF Deduped
<1>7. 0 \in 0..Len(l) /\ \A i \in 1..Len(l) : i \in 0..Len(l) /\ i # 0
  BY <1>1
<1> QED
  BY <1>6, <1>7

\* deduplicated: the same names, each once.
LEMMA DedupedFacts ==
  ASSUME NEW l \in Fns
  PROVE  /\ Deduped(l)[Len(l)] \in Fns /\ NoRepeats(Deduped(l)[Len(l)])
         /\ Names(Deduped(l)[Len(l)]) = Names(l)
<1> DEFINE Good(i) == /\ Deduped(l)[i] \in Fns /\ NoRepeats(Deduped(l)[i])
                      /\ Names(Deduped(l)[i]) = {l[k].name : k \in 1..i}
           S == {i \in Nat : i <= Len(l) => Good(i)}
<1>1. Len(l) \in Nat /\ DOMAIN l = 1..Len(l) /\ \A i \in 1..Len(l) : l[i] \in ShownFn
  BY DEF Fns
<1>2. 0 \in S
  <2>1. NoRepeats(<<>>)
    BY DEF NoRepeats
  <2> QED
    BY <2>1, DedupedLoop, NamesFacts
<1>3. ASSUME NEW i \in Nat, i \in S PROVE i + 1 \in S
  <2> SUFFICES ASSUME i + 1 <= Len(l) PROVE Good(i + 1)
    OBVIOUS
  <2>1. Good(i)
    BY <1>1, <1>3
  <2>2. i + 1 \in 1..Len(l) /\ l[i + 1] \in ShownFn /\ i + 1 - 1 = i
        /\ 1..i + 1 = (1..i) \cup {i + 1}
    BY <1>1
  <2>3. Deduped(l)[i + 1] = KeepFirst(Deduped(l)[i], l[i + 1])
    BY <2>2, DedupedLoop
  <2>4. {l[k].name : k \in 1..i + 1} = {l[k].name : k \in 1..i} \cup {l[i + 1].name}
    BY <2>2, Zenon
  <2> QED
    BY <2>1, <2>2, <2>3, <2>4, KeepFacts
<1>4. Nat \subseteq S
  <2> HIDE DEF S
  <2> QED
    BY <1>2, <1>3, SetInduction
<1>5. Good(Len(l))
  <2> HIDE DEF Good
  <2> QED
    BY <1>1, <1>4
<1> QED
  BY <1>1, <1>5, Zenon DEF Names

LEMMA CollectedLoop ==
  ASSUME NEW files, NEW n \in Nat, NEW order \in [1..n -> DOMAIN files],
         \A p \in DOMAIN files : files[p].fns \in Seq(Fn)
  PROVE  /\ Len(order) = n /\ Collected(files, order)[0] = <<>>
         /\ \A i \in 1..n : Collected(files, order)[i]
                              = Collected(files, order)[i - 1] \o parseContractFns(files[order[i]])
         /\ \A i \in 1..n : parseContractFns(files[order[i]]) \in Fns
<1> DEFINE More(i) == parseContractFns(files[order[i]])
           Body(g) == [i \in 0..Len(order) |-> IF i = 0 THEN <<>> ELSE g[i - 1] \o More(i)]
           step == [i \in 1..n |-> [x \in Fns |-> x \o More(i)]]
<1>1. order \in Seq(DOMAIN files) /\ Len(order) = n
  BY SeqDef
<1>2. \A i \in 1..n : More(i) \in Fns
  BY ShownFacts DEF parseContractFns
<1>3. step \in [1..n -> [Fns -> Fns]]
  <2> HIDE DEF More
  <2> QED
    BY <1>2, NamesFacts
<1>4. PICK f \in [0..n -> Fns] : f[0] = <<>> /\ \A i \in 1..n : f[i] = step[i][f[i - 1]]
  <2> HIDE DEF step
  <2> QED
    BY <1>3, FnsRuns, Zenon
<1>5. \A i \in 1..n : f[i] = f[i - 1] \o More(i)
  <2> TAKE i \in 1..n
  <2>1. f[i - 1] \in Fns
    BY <1>4
  <2> HIDE DEF More
  <2> QED
    BY <1>4, <2>1
<1>6. f = Body(f)
  <2> HIDE DEF More
  <2> DEFINE next(i) == f[i - 1] \o More(i)
  <2> HIDE DEF next, step
  <2>1. \A i \in 1..n : f[i] = next(i)
    BY <1>5 DEF next
  <2>2. f = [i \in 0..n |-> IF i = 0 THEN <<>> ELSE next(i)]
    BY <1>4, <2>1
  <2> QED
    BY <1>1, <2>2, Zenon DEF next
<1>7. Collected(files, order) = Body(Collected(files, order))
  BY <1>6 DEF Collected
<1>8. 0 \in 0..n /\ \A i \in 1..n : i \in 0..n /\ i # 0
  OBVIOUS
<1>9. /\ Collected(files, order)[0] = <<>>
      /\ \A i \in 1..n : Collected(files, order)[i] = Collected(files, order)[i - 1] \o More(i)
  <2> HIDE DEF More
  <2> QED
    BY <1>1, <1>7, <1>8
<1> QED
  BY <1>1, <1>2, <1>9

\* The answer has the functions of every file that was visited, each once.
LEMMA FunctionsFacts ==
  ASSUME NEW files, NEW n \in Nat, NEW order \in [1..n -> DOMAIN files],
         \A p \in DOMAIN files : files[p].fns \in Seq(Fn)
  PROVE  /\ functionsOf(files, order) \in Fns /\ NoRepeats(functionsOf(files, order))
         /\ Names(functionsOf(files, order))
              = UNION {Names(parseContractFns(files[order[k]])) : k \in 1..n}
<1> DEFINE C(i) == Collected(files, order)[i]
           N(k) == Names(parseContractFns(files[order[k]]))
           Good(i) == C(i) \in Fns /\ Names(C(i)) = UNION {N(k) : k \in 1..i}
           S == {i \in Nat : i <= n => Good(i)}
<1>1. /\ Len(order) = n /\ C(0) = <<>>
      /\ \A i \in 1..n : C(i) = C(i - 1) \o parseContractFns(files[order[i]])
      /\ \A i \in 1..n : parseContractFns(files[order[i]]) \in Fns
  BY CollectedLoop
<1> HIDE DEF C
<1>2. 0 \in S
  <2>1. UNION {N(k) : k \in 1..0} = {}
    OBVIOUS
  <2> QED
    BY <1>1, <2>1, NamesFacts
<1>3. ASSUME NEW i \in Nat, i \in S PROVE i + 1 \in S
  <2> SUFFICES ASSUME i + 1 <= n PROVE Good(i + 1)
    OBVIOUS
  <2>1. Good(i)
    BY <1>3
  <2>2. i + 1 \in 1..n /\ i + 1 - 1 = i /\ 1..i + 1 = (1..i) \cup {i + 1}
    OBVIOUS
  <2>3. C(i + 1) = C(i) \o parseContractFns(files[order[i + 1]])
        /\ parseContractFns(files[order[i + 1]]) \in Fns
    BY <1>1, <2>2
  <2>4. C(i + 1) \in Fns /\ Names(C(i + 1)) = Names(C(i)) \cup N(i + 1)
    <3>1. PICK more : C(i + 1) = C(i) \o more /\ more \in Fns /\ N(i + 1) = Names(more)
      BY <2>3
    <3>2. C(i) \in Fns
      BY <2>1
    <3>3. \A l, r \in Fns : l \o r \in Fns /\ Names(l \o r) = Names(l) \cup Names(r)
      BY NamesFacts, Zenon
    <3> HIDE DEF N
    <3> QED
      BY <3>1, <3>2, <3>3
  <2> HIDE DEF N
  <2>5. UNION {N(k) : k \in 1..i + 1} = (UNION {N(k) : k \in 1..i}) \cup N(i + 1)
    <3> DEFINE J == 1..i
               some == {N(k) : k \in J}
               all == {N(k) : k \in J \cup {i + 1}}
    <3>1. all = some \cup {N(i + 1)}
      <4> HIDE DEF J
      <4> QED
        BY Zenon
    <3>2. UNION (some \cup {N(i + 1)}) = (UNION some) \cup N(i + 1)
      <4> HIDE DEF some
      <4> QED
        OBVIOUS
    <3> QED
      BY <2>2, <3>1, <3>2, Zenon
  <2> QED
    BY <2>1, <2>4, <2>5
<1>4. Nat \subseteq S
  <2> HIDE DEF S
  <2> QED
    BY <1>2, <1>3, SetInduction
<1>5. Good(n)
  <2> HIDE DEF Good
  <2> QED
    BY <1>4
<1>6. functionsOf(files, order) = Deduped(C(n))[Len(C(n))]
  BY <1>1 DEF functionsOf, C
<1> QED
  BY <1>5, <1>6, DedupedFacts

LEMMA StartsWith ==
  ASSUME NEW T, NEW a \in Seq(T), NEW p \in Seq(T), Len(a) <= Len(p)
  PROVE  SubSeq(p, 1, Len(a)) = a <=> \A i \in 1..Len(a) : p[i] = a[i]
<1> DEFINE b == SubSeq(p, 1, Len(a))
<1>1. b \in Seq(T) /\ Len(b) = Len(a) /\ \A i \in 1..Len(a) : b[i] = p[i]
  OBVIOUS
<1> HIDE DEF b
<1>2. (\A i \in 1..Len(a) : b[i] = a[i]) => b = a
  BY <1>1, SeqEqual
<1>3. b = a <=> \A i \in 1..Len(a) : p[i] = a[i]
  BY <1>1, <1>2
<1> QED
  BY <1>3 DEF b

LEMMA WiderSeq ==
  ASSUME NEW S, NEW T, S \subseteq T, NEW p \in Seq(S)
  PROVE  p \in Seq(T)
  OBVIOUS

\* A path without its last segment when that is e, which stands for the empty one.
LEMMA TrimmedPath ==
  ASSUME NEW T, NEW e, NEW path \in Seq(T), path # <<>>, path # <<e>>,
         NEW c, c = IF Last(path) = e THEN Front(path) ELSE path
  PROVE  c \in Seq(T) /\ Len(c) \in Nat \ {0}
<1>1. Len(path) \in Nat \ {0}
  BY EmptySeq
<1>2. CASE Last(path) = e
  <2>1. Len(path) # 1
    <3>1. Len(path) = 1 => path = <<path[1]>>
      OBVIOUS
    <3>2. Len(path) = 1 => path[1] = e
      BY <1>2 DEF Last
    <3> QED
      BY <3>1, <3>2
  <2>2. c = SubSeq(path, 1, Len(path) - 1)
    BY <1>2 DEF Front
  <2>3. PICK n \in Nat \ {0} : n = Len(path) - 1
    <3>1. \A k \in Nat \ {0} : k # 1 => k - 1 \in Nat \ {0}
      OBVIOUS
    <3> QED
      BY <1>1, <2>1, <3>1, Zenon
  <2>4. \A i \in 1..n : path[i] \in T
    BY <1>1, <2>3
  <2>5. 1 \in Int /\ n \in Int /\ 1 <= n /\ n - 1 + 1 = n
    BY <2>3
  <2>6. SubSeq(path, 1, n) \in Seq(T) /\ Len(SubSeq(path, 1, n)) = n
    BY <2>4, <2>5, SubSeqProperties
  <2> QED
    BY <2>2, <2>3, <2>6
<1> QED
  BY <1>1, <1>2

\* A file is in a crate if the crate's path, and src after it, start the file's path.
LEMMA CrateFiles ==
  ASSUME NEW T, "src" \in T, NEW p \in Seq(T), NEW c \in Seq(T), Len(c) \in Nat \ {0}
  PROVE  IsStrictPrefix(c \o <<"src">>, p) <=>
           \E n \in 1..Len(p) - 2 : p[n + 1] = "src" /\ SubSeq(p, 1, n) = c
<1> DEFINE u == c \o <<"src">>
           m == Len(c)
<1>1. m \in Nat \ {0}
  OBVIOUS
<1>4. /\ u \in Seq(T) /\ Len(u) = m + 1 /\ u[m + 1] = "src"
      /\ \A i \in 1..m : u[i] = c[i]
  BY <1>1
<1>5. Len(p) \in Nat
  OBVIOUS
<1> HIDE DEF u
<1>6. IsStrictPrefix(u, p) <=>
        /\ Len(u) <= Len(p) /\ SubSeq(p, 1, Len(u)) = u
        /\ u # p
  <2>1. SubSeq(u, 1, Len(u)) = u
    BY <1>4, SubSeqFull
  <2> QED
    BY <2>1, Zenon DEF IsStrictPrefix, IsPrefix
<1>7. ASSUME IsStrictPrefix(u, p)
      PROVE  \E n \in 1..Len(p) - 2 : p[n + 1] = "src" /\ SubSeq(p, 1, n) = c
  <2>1. m + 1 <= Len(p) /\ \A i \in 1..m + 1 : p[i] = u[i]
    BY <1>4, <1>6, <1>7, StartsWith
  <2>2. Len(p) # m + 1
    BY <1>4, <1>6, <1>7, <2>1, SeqEqual
  <2>3. m \in 1..Len(p) - 2 /\ m <= Len(p)
    BY <1>1, <1>5, <2>1, <2>2
  <2>4. p[m + 1] = "src" /\ \A i \in 1..m : p[i] = c[i]
    BY <1>1, <1>4, <2>1
  <2>5. SubSeq(p, 1, m) = c
    BY <1>1, <2>3, <2>4, StartsWith
  <2> QED
    BY <2>3, <2>4, <2>5
<1>8. ASSUME NEW n \in 1..Len(p) - 2, p[n + 1] = "src", SubSeq(p, 1, n) = c
      PROVE  IsStrictPrefix(u, p)
  <2>1. n = m
    <3>1. Len(SubSeq(p, 1, n)) = n
      BY <1>5
    <3> QED
      BY <1>8, <3>1
  <2>2. m <= Len(p) /\ m + 1 <= Len(p) /\ m + 1 # Len(p)
    BY <1>1, <1>5, <2>1
  <2>3. \A i \in 1..m : p[i] = c[i]
    BY <1>1, <1>8, <2>1, <2>2, StartsWith
  <2>4. \A i \in 1..m + 1 : p[i] = u[i]
    <3>1. \A i \in 1..m + 1 : i \in 1..m \/ i = m + 1
      BY <1>1
    <3> QED
      BY <1>4, <1>8, <2>1, <2>3, <3>1
  <2>5. SubSeq(p, 1, Len(u)) = u
    BY <1>4, <2>2, <2>4, StartsWith
  <2>6. u # p
    BY <1>4, <2>2
  <2> QED
    BY <1>4, <1>6, <2>2, <2>5, <2>6
<1> QED
  BY <1>7, <1>8 DEF u

LEMMA InScopeFacts ==
  ASSUME NEW p \in Seq(STRING), NEW path \in Seq(STRING) \ {<<"">>}, path # <<>>
  PROVE  InScope(p, path) <=>
           \E n \in 1..Len(p) - 2 : p[n + 1] = "src" /\ SubSeq(p, 1, n) = TrimSlash(path)
<1>1. \E e : path # <<e>> /\ TrimSlash(path) = IF Last(path) = e THEN Front(path) ELSE path
  BY Zenon DEF TrimSlash
<1>2. TrimSlash(path) \in Seq(STRING) /\ Len(TrimSlash(path)) \in Nat \ {0}
  BY <1>1, TrimmedPath, Zenon
<1>3. PICK T : STRING \subseteq T /\ "src" \in T
  <2>1. STRING \subseteq STRING \cup {"src"} /\ "src" \in STRING \cup {"src"}
    OBVIOUS
  <2> QED
    BY <2>1, Zenon
<1>4. InScope(p, path) <=> IsStrictPrefix(TrimSlash(path) \o <<"src">>, p)
  BY Zenon DEF InScope
<1>5. \A r \in Seq(STRING) : r \in Seq(T)
  BY <1>3, WiderSeq, Zenon
<1>6. PICK c \in Seq(T) : c = TrimSlash(path) /\ Len(c) \in Nat \ {0}
  BY <1>2, <1>5, Zenon
<1>7. IsStrictPrefix(c \o <<"src">>, p) <=>
        \E n \in 1..Len(p) - 2 : p[n + 1] = "src" /\ SubSeq(p, 1, n) = c
  <2>1. p \in Seq(T)
    BY <1>5
  <2>2. \A r, d \in Seq(T) :
          Len(d) \in Nat \ {0} =>
            (IsStrictPrefix(d \o <<"src">>, r) <=>
               \E n \in 1..Len(r) - 2 : r[n + 1] = "src" /\ SubSeq(r, 1, n) = d)
    BY <1>3, CrateFiles
  <2> QED
    BY <1>6, <2>1, <2>2, Zenon
<1> QED
  BY <1>4, <1>6, <1>7, Zenon

-----------------------------------------------------------------------------
(* The inductive invariant: every answer is the one that the request has.   *)

\* Every operator of the invariant is of the request, which no step changes.
LEMMA SameRequest ==
  ASSUME input' = input
  PROVE  /\ Given' = Given /\ Scoped' = Scoped
         /\ ReadmeChoices' = ReadmeChoices /\ LibrsChoices' = LibrsChoices
         /\ SentCategory' = SentCategory
         /\ \A readme, first : Failed(readme, first)' = Failed(readme, first)
<1>1. Given' = Given
  BY Zenon DEF Given
<1>2. Scoped' = Scoped
  BY Zenon DEF Scoped
<1>3. ReadmeChoices' = ReadmeChoices /\ LibrsChoices' = LibrsChoices
  BY Zenon DEF ReadmeChoices, LibrsChoices
<1>4. SentCategory' = SentCategory
  BY Zenon DEF SentCategory
<1>5. \A readme, first : Failed(readme, first)' = Failed(readme, first)
  BY <1>4, Zenon DEF Failed
<1> QED
  BY <1>1, <1>2, <1>3, <1>4, <1>5

LEMMA SameAnswers ==
  ASSUME input' = input
  PROVE  /\ RanInv /\ ran' = ran => RanInv'
         /\ VerdictInv /\ verdicts' = verdicts => VerdictInv'
         /\ ListingInv /\ listings' = listings => ListingInv'
<1>1. ASSUME RanInv, ran' = ran PROVE RanInv'
  <2>1. Given' = Given
    BY SameRequest
  <2> QED
    BY <1>1, <2>1, ZenonT(30) DEF RanInv
<1>2. ASSUME VerdictInv, verdicts' = verdicts PROVE VerdictInv'
  BY <1>2, SameRequest DEF VerdictInv
<1>3. ASSUME ListingInv, listings' = listings PROVE ListingInv'
  BY <1>3, SameRequest DEF ListingInv
<1> QED
  BY <1>1, <1>2, <1>3

\* Init establishes the invariant, and every step keeps it.
THEOREM Invariant == Spec => []IInv
<1>1. Init => IInv
  BY DEF Init, IInv, RanInv, VerdictInv, ListingInv
<1>2. IInv /\ [Next]_vars => IInv'
  <2> SUFFICES ASSUME IInv, [Next]_vars PROVE IInv'
    OBVIOUS
  <2>1. CASE Run
    <3>1. UNCHANGED <<input, verdicts, listings>>
      BY <2>1 DEF Run
    <3>2. Given' = Given
      BY <3>1, SameRequest
    <3>3. RanInv'
      <4>1. /\ ran' # NoAnswer => ran'.status \in {202, 400}
            /\ ran'.status = 202 => validateCommand(Given) = "" /\ ran'.argv = splitArgs(Given)
        <5>1. CASE Refused(input.files) \/ validateCommand(Given) # ""
          <6>1. ran' = [status |-> 400, argv |-> <<>>]
            BY <2>1, <5>1, Zenon DEF Run
          <6> QED
            BY <6>1
        <5>2. CASE ~Refused(input.files) /\ validateCommand(Given) = ""
          <6>1. ran' = [status |-> 202, argv |-> splitArgs(Given)]
            BY <2>1, <5>2, Zenon DEF Run
          <6>2. ran'.status = 202 /\ ran'.argv = splitArgs(Given)
            BY <6>1
          <6> QED
            BY <5>2, <6>2, Zenon
        <5> QED
          BY <5>1, <5>2, Zenon
      <4> QED
        BY <3>2, <4>1, Zenon DEF RanInv
    <3>4. VerdictInv' /\ ListingInv' /\ (input \in Inputs)'
      BY <3>1, SameAnswers DEF IInv
    <3> QED
      BY <3>3, <3>4 DEF IInv
  <2>2. CASE Validate
    <3>1. UNCHANGED <<input, ran, listings>>
      BY <2>2 DEF Validate
    <3>2. PICK readme \in ReadmeChoices, first \in LibrsChoices :
            verdicts' = verdicts \cup
              {[category |-> SentCategory, failed |-> Failed(readme, first),
                status |-> IF Failed(readme, first) = {} THEN "valid" ELSE "invalid"]}
      BY <2>2, Zenon DEF Validate, ReadmeChoices, LibrsChoices, SentCategory, Failed
    <3>3. /\ ReadmeChoices' = ReadmeChoices /\ LibrsChoices' = LibrsChoices
          /\ SentCategory' = SentCategory /\ \A r, f : Failed(r, f)' = Failed(r, f)
      BY <3>1, SameRequest
    <3>4. VerdictInv'
      BY <3>2, <3>3 DEF IInv, VerdictInv
    <3>5. RanInv' /\ ListingInv' /\ (input \in Inputs)'
      BY <3>1, SameAnswers DEF IInv
    <3> QED
      BY <3>4, <3>5 DEF IInv
  <2>3. CASE Interface
    <3>1. UNCHANGED <<input, ran, verdicts>>
      BY <2>3 DEF Interface
    <3>2. PICK order \in [1..Cardinality(Scoped) -> Scoped] :
            /\ \A p \in Scoped : \E i \in DOMAIN order : order[i] = p
            /\ listings' = listings \cup {functionsOf(input.files, order)}
      BY <2>3 DEF Interface, Scoped
    <3>3. Scoped' = Scoped
      BY <3>1, SameRequest
    <3>4. ListingInv'
      BY <3>1, <3>2, <3>3 DEF IInv, ListingInv
    <3>5. RanInv' /\ VerdictInv' /\ (input \in Inputs)'
      BY <3>1, SameAnswers DEF IInv
    <3> QED
      BY <3>4, <3>5 DEF IInv
  <2>4. CASE UNCHANGED vars
    BY <2>4, SameAnswers DEF vars, IInv
  <2> QED
    BY <2>1, <2>2, <2>3, <2>4 DEF Next
<1> QED
  BY <1>1, <1>2, PTL DEF Spec
-----------------------------------------------------------------------------
LEMMA GivenFacts ==
  ASSUME input \in Inputs
  PROVE  Given \in Seq(Token) /\ TrimSpace(Given) = Given
<1>1. input.command \in Seq(Token)
  BY Assumptions
<1>2. DefaultCommand \in Seq(Token) /\ TrimSpace(DefaultCommand) = DefaultCommand
  <2> DEFINE d == DefaultCommand
             text == {i \in DOMAIN d : d[i] \notin White}
  <2>1. /\ d \in Seq(Token) /\ Len(d) = 5 /\ DOMAIN d = 1..5
        /\ d[1] \notin White /\ d[5] \notin White
    BY DEF DefaultCommand, Token, White
  <2> HIDE DEF d
  <2>2. text \subseteq 1..5 /\ 5 \in Nat /\ 1 \in text /\ 5 \in text
    BY <2>1
  <2>3. TrimSpace(d) = SubSeq(d, Min(text), Max(text))
    BY <2>2 DEF TrimSpace
  <2>4. Min(text) = 1 /\ Max(text) = 5
    <3> HIDE DEF text
    <3>1. /\ Min(text) \in text /\ Min(text) <= 1
          /\ Max(text) \in text /\ 5 <= Max(text)
      BY <2>2, MinMax
    <3>2. Min(text) \in 1..5 /\ Max(text) \in 1..5
      BY <2>2, <3>1
    <3> QED
      BY <3>1, <3>2
  <2>5. SubSeq(d, 1, 5) = d
    BY <2>1, SubSeqFull
  <2> QED
    BY <2>1, <2>3, <2>4, <2>5 DEF d
<1>3. /\ TrimSpace(input.command) \in Seq(Token)
      /\ TrimSpace(TrimSpace(input.command)) = TrimSpace(input.command)
  BY <1>1, TrimFacts
<1> QED
  BY <1>2, <1>3, Zenon DEF Given

\* Whatever the command, docker exec gets the arguments that blanks outside quotes separate,
\* and the program that was checked unless a tab follows it; no metacharacter that the check
\* took for quoted is outside quotes for the split.
THEOREM ArgvCheckedHolds == Spec => []ArgvChecked
<1>1. IInv => ArgvChecked
  <2> SUFFICES ASSUME IInv, ran # NoAnswer, ran.status = 202
               PROVE  /\ ArgsOf(ran.argv, Given)
                      /\ ran.argv # <<>> /\ (ran.argv[1] = <<"name">> \/ Given[2] = "tab")
                      /\ \A i \in DOMAIN Given : Dangerous(Given, i) => Scan(Given)[i].inQuote
    BY DEF ArgvChecked
  <2>1. Given \in Seq(Token) /\ TrimSpace(Given) = Given
    BY GivenFacts DEF IInv
  <2>2. validateCommand(Given) = "" /\ ran.argv = splitArgs(Given)
    BY Zenon DEF IInv, RanInv
  <2>3. FirstField(Given) = <<"name">>
        /\ \A i \in DOMAIN Given : Dangerous(Given, i) => InQuote(Given, i)
    BY <2>1, <2>2, AcceptedFacts, Zenon
  <2>4. Len(Given) >= 1 /\ Given[1] = "name" /\ (Len(Given) > 1 => Given[2] \in White)
    BY <2>1, <2>3, FirstFieldFacts
  <2>5. ArgsOf(splitArgs(Given), Given) /\ splitArgs(Given) \in Seq(Seq(Token))
    BY <2>1, SplitIsRight
  <2>6. splitArgs(Given) # <<>> /\ (splitArgs(Given)[1] = <<"name">> \/ Given[2] = "tab")
    BY <2>1, <2>4, <2>5, FirstArgument
  <2>7. ran.argv = splitArgs(Given)
    BY <2>2, Zenon
  <2>8. \A i \in DOMAIN Given : Scan(Given)[i].inQuote <=> InQuote(Given, i)
    BY <2>1, SplitIsRight
  <2> QED
    BY <2>3, <2>5, <2>6, <2>7, <2>8
<1> QED
  BY <1>1, Invariant, PTL
-----------------------------------------------------------------------------
LEMMA RequestFacts ==
  ASSUME input \in Inputs
  PROVE  /\ \A p \in DOMAIN input.files : input.files[p].fns \in Seq(Fn)
         /\ \A p \in DOMAIN input.files : p \in Seq(STRING)
         /\ input.contractPath \in Seq(STRING) \ {<<"">>}
         /\ Scoped \subseteq DOMAIN input.files /\ IsFiniteSet(DOMAIN input.files)
         /\ Cardinality(Scoped) \in Nat
<1>1. /\ \A p \in DOMAIN input.files : input.files[p].fns \in Seq(Fn)
      /\ \A p \in DOMAIN input.files : p \in Seq(STRING)
      /\ input.contractPath \in Seq(STRING) \ {<<"">>}
      /\ IsFiniteSet(DOMAIN input.files)
  BY Assumptions, Zenon DEF Fn
<1>2. Scoped \subseteq DOMAIN input.files
  BY DEF Scoped, ScopedLibrs
<1> QED
  BY <1>1, <1>2, FS_Subset, FS_CardinalityType

\* A listing has each function of the files in scope once.
LEMMA ListingFacts ==
  ASSUME IInv, NEW l \in listings
  PROVE  /\ l \in Fns /\ NoRepeats(l)
         /\ Names(l) = UNION {Names(parseContractFns(input.files[p])) : p \in Scoped}
<1>1. /\ \A p \in DOMAIN input.files : input.files[p].fns \in Seq(Fn)
      /\ Scoped \subseteq DOMAIN input.files
  BY RequestFacts DEF IInv
<1>2. PICK n \in Nat : n = Cardinality(Scoped)
  BY RequestFacts DEF IInv
<1>3. PICK order \in [1..n -> Scoped] :
        /\ \A p \in Scoped : \E i \in DOMAIN order : order[i] = p
        /\ l = functionsOf(input.files, order)
  BY <1>2 DEF IInv, ListingInv
<1>4. order \in [1..n -> DOMAIN input.files]
  BY <1>1, <1>3
<1>5. /\ l \in Fns /\ NoRepeats(l)
      /\ Names(l) = UNION {Names(parseContractFns(input.files[order[k]])) : k \in 1..n}
  <2>1. PICK files : files = input.files
    OBVIOUS
  <2>2. /\ functionsOf(files, order) \in Fns /\ NoRepeats(functionsOf(files, order))
        /\ Names(functionsOf(files, order))
             = UNION {Names(parseContractFns(files[order[k]])) : k \in 1..n}
    <3>1. order \in [1..n -> DOMAIN files] /\ \A p \in DOMAIN files : files[p].fns \in Seq(Fn)
      BY <1>1, <1>4, <2>1
    <3> QED
      BY <3>1, FunctionsFacts
  <2> QED
    BY <1>3, <2>1, <2>2
<1>6. /\ \A k \in 1..n : order[k] \in Scoped
      /\ \A p \in Scoped : \E k \in 1..n : order[k] = p
  BY <1>3
<1>7. {Names(parseContractFns(input.files[order[k]])) : k \in 1..n}
        = {Names(parseContractFns(input.files[p])) : p \in Scoped}
  BY <1>6
<1> QED
  BY <1>5, <1>7

\* Every answer has the form that the code gives it.
THEOREM TypeCorrect == Spec => []TypeOK
<1>1. IInv => TypeOK
  <2> SUFFICES ASSUME IInv PROVE TypeOK
    OBVIOUS
  <2>1. ran = NoAnswer \/ ran.status \in {202, 400}
    BY Zenon DEF IInv, RanInv
  <2>2. ASSUME NEW v \in verdicts PROVE v.category \in Category /\ v.status \in Status
    <3>1. PICK failed :
            v = [category |-> SentCategory, failed |-> failed,
                 status |-> IF failed = {} THEN "valid" ELSE "invalid"]
      BY DEF IInv, VerdictInv
    <3>2. v.category = SentCategory /\ v.status \in {"valid", "invalid"}
      BY <3>1
    <3> QED
      BY <3>2 DEF SentCategory, Category, Status
  <2>3. ASSUME NEW l \in listings, NEW i \in DOMAIN l
        PROVE  l[i].category \in {"read", "write", "unknown"}
    <3>1. l \in Seq(ShownFn)
      BY ListingFacts DEF Fns
    <3>2. l[i] \in ShownFn
      BY <3>1
    <3> QED
      BY <3>2, ParsedFacts
  <2> QED
    BY <2>1, <2>2, <2>3 DEF IInv, TypeOK
<1> QED
  BY <1>1, Invariant, PTL

\* A client that names a crate gets the public functions of that crate's files.
THEOREM ListsTheCrateHolds == Spec => []ListsTheCrate
<1>1. IInv => ListsTheCrate
  <2> SUFFICES ASSUME IInv PROVE ListsTheCrate
    OBVIOUS
  <2> DEFINE inCrate(p) ==
               \/ input.contractPath = <<>>
               \/ \E n \in 1..Len(p) - 2 :
                    p[n + 1] = "src" /\ SubSeq(p, 1, n) = TrimSlash(input.contractPath)
             crate == {q \in Librs(input.files) : inCrate(q)}
             matches(p) == {input.files[p].fns[i] : i \in DOMAIN input.files[p].fns}
             names == {fn.name : fn \in UNION {matches(p) : p \in crate}}
  <2>1. /\ \A p \in DOMAIN input.files : input.files[p].fns \in Seq(Fn) /\ p \in Seq(STRING)
        /\ input.contractPath \in Seq(STRING) \ {<<"">>}
        /\ Scoped \subseteq DOMAIN input.files
    BY RequestFacts DEF IInv
  <2>2. \A p \in DOMAIN input.files : InScope(p, input.contractPath) <=> inCrate(p)
    <3> TAKE p \in DOMAIN input.files
    <3>1. CASE input.contractPath = <<>>
      BY <3>1 DEF InScope
    <3>2. CASE input.contractPath # <<>>
      BY <2>1, <3>2, InScopeFacts, Zenon
    <3> QED
      BY <3>1, <3>2
  <2>3. Scoped = crate
    <3> HIDE DEF inCrate
    <3> QED
      BY <2>2 DEF Scoped, ScopedLibrs, Librs
  <2>4. \A p \in Scoped :
          Names(parseContractFns(input.files[p])) = {fn.name : fn \in matches(p)} \ SkippedFns
    <3> TAKE p \in Scoped
    <3> DEFINE m == input.files[p].fns
    <3>1. m \in Seq(Fn)
      BY <2>1
    <3>2. Names(Shown(m)[Len(m)]) = {m[k].name : k \in 1..Len(m)} \ SkippedFns
      <4> HIDE DEF m
      <4> QED
        BY <3>1, ShownFacts
    <3>3. DOMAIN m = 1..Len(m)
      BY <3>1
    <3>4. {fn.name : fn \in matches(p)} = {m[k].name : k \in 1..Len(m)}
      BY <3>3
    <3> QED
      BY <3>2, <3>4 DEF parseContractFns
  <2>5. UNION {Names(parseContractFns(input.files[p])) : p \in Scoped} = names \ SkippedFns
    <3> HIDE DEF crate, matches
    <3> QED
      BY <2>3, <2>4
  <2>6. ASSUME NEW l \in listings
        PROVE  /\ {l[i].name : i \in DOMAIN l} = names \ SkippedFns
               /\ \A i, k \in DOMAIN l : l[i].name = l[k].name => i = k
    <3>1. NoRepeats(l) /\ Names(l) = names \ SkippedFns
      BY <2>5, ListingFacts
    <3> QED
      BY <3>1 DEF NoRepeats, Names
  <2> QED
    BY <2>6, Zenon DEF ListsTheCrate
<1> QED
  BY <1>1, Invariant, PTL

LEMMA AtMostOne ==
  ASSUME NEW S, IsFiniteSet(S), Cardinality(S) <= 1
  PROVE  \A x, y \in S : x = y
<1>1. Cardinality(S) \in Nat
  BY FS_CardinalityType
<1>2. Cardinality(S) = 0 \/ Cardinality(S) = 1
  BY <1>1
<1> QED
  BY <1>2, FS_EmptySet, FS_Singleton

\* Which of the checks finds the project logic.
LEMMA LogicCheck ==
  ASSUME NEW readme, NEW first
  PROVE  "librs-project-logic-present" \notin Failed(readme, first)
           <=> checkLibrsHasProjectLogic(input.files, first)
<1> DEFINE id == "librs-project-logic-present"
           logic == checkLibrsHasProjectLogic(input.files, first)
<1>1. \A d, b : d # id => id \notin Passed(d, b)
  BY DEF Passed
<1>2. id \notin Passed(id, logic) <=> logic
  <2> HIDE DEF logic
  <2> QED
    BY Zenon DEF Passed
<1>3. id \in Failed(readme, first) <=> id \in Passed(id, logic)
  BY <1>1 DEF Failed, runChecks
<1> QED
  BY <1>2, <1>3

\* The verdict on a project follows from it, and agrees with the contract interface.
THEOREM VerdictFollowsHolds == Spec => []VerdictFollows
<1>1. IInv => VerdictFollows
  <2> DEFINE libs == {p \in DOMAIN input.files : Last(p) \in LibrsNames}
             id == "librs-project-logic-present"
  <2> SUFFICES ASSUME IInv, Cardinality(Readmes(input.files)) <= 1, Cardinality(libs) <= 1
               PROVE  /\ \A v, w \in verdicts : v = w
                      /\ \A v \in verdicts, l \in listings :
                           input.contractPath = <<>> =>
                             (id \notin v.failed
                                <=> \E i \in DOMAIN l : l[i].name \notin Placeholders)
    BY Zenon DEF VerdictFollows
  <2>1. libs = Librs(input.files)
    BY DEF Librs, IsLibrs
  <2>2. /\ Readmes(input.files) \subseteq DOMAIN input.files
        /\ Librs(input.files) \subseteq DOMAIN input.files
    BY DEF Readmes, Librs
  <2>3. IsFiniteSet(Readmes(input.files)) /\ IsFiniteSet(libs)
    <3>1. IsFiniteSet(DOMAIN input.files)
      BY RequestFacts DEF IInv
    <3> HIDE DEF libs
    <3> QED
      BY <2>1, <2>2, <3>1, FS_Subset
  <2> HIDE DEF libs
  <2>4. \A p, q \in Readmes(input.files) : p = q
    BY <2>3, AtMostOne
  <2>5. \A p, q \in Librs(input.files) : p = q
    BY <2>1, <2>3, AtMostOne
  <2>6. \A a, b \in ReadmeChoices : a = b
    BY <2>4 DEF ReadmeChoices
  <2>7. \A a, b \in LibrsChoices : a = b
    BY <2>5 DEF LibrsChoices
  <2>8. \A v, w \in verdicts : v = w
    BY <2>6, <2>7, Zenon DEF IInv, VerdictInv
  <2>9. ASSUME NEW v \in verdicts, NEW l \in listings, input.contractPath = <<>>
        PROVE  id \notin v.failed <=> \E i \in DOMAIN l : l[i].name \notin Placeholders
    <3>1. PICK readme \in ReadmeChoices, first \in LibrsChoices : v.failed = Failed(readme, first)
      <4>1. PICK readme \in ReadmeChoices, first \in LibrsChoices :
              v = [category |-> SentCategory, failed |-> Failed(readme, first),
                   status |-> IF Failed(readme, first) = {} THEN "valid" ELSE "invalid"]
        BY DEF IInv, VerdictInv
      <4>2. v.failed = Failed(readme, first)
        BY <4>1
      <4> QED
        BY <4>2
    <3> DEFINE fns == parseContractFns(input.files[first])
    <3>2. id \notin v.failed
            <=> Librs(input.files) # {} /\ \E i \in DOMAIN fns : fns[i].name \notin Placeholders
      BY <3>1, LogicCheck DEF checkLibrsHasProjectLogic
    <3>3. Scoped = Librs(input.files)
      BY <2>9 DEF Scoped, ScopedLibrs, InScope, Librs
    <3>4. Names(l) = UNION {Names(parseContractFns(input.files[p])) : p \in Librs(input.files)}
      BY <3>3, ListingFacts
    <3>5. (\E i \in DOMAIN l : l[i].name \notin Placeholders)
            <=> \E n \in Names(l) : n \notin Placeholders
      BY DEF Names
    <3>6. (\E i \in DOMAIN fns : fns[i].name \notin Placeholders)
            <=> \E n \in Names(fns) : n \notin Placeholders
      BY DEF Names
    <3>7. CASE Librs(input.files) = {}
      BY <3>2, <3>4, <3>5, <3>7
    <3>8. CASE Librs(input.files) # {}
      <4>1. Librs(input.files) = {first}
        BY <2>5, <3>1, <3>8 DEF LibrsChoices
      <4>2. Names(l) = Names(fns)
        BY <3>4, <4>1
      <4> QED
        BY <3>2, <3>5, <3>6, <3>8, <4>2
    <3> QED
      BY <3>7, <3>8
  <2> QED
    BY <2>8, <2>9
<1> QED
  BY <1>1, Invariant, PTL
=============================================================================
