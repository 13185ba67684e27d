------------------------ MODULE RetryScheduleProofs ------------------------
(***************************************************************************)
(* Proofs about RetrySchedule, for any width of the machine's integers,    *)
(* any unit of time, cap, settings and errors: the loop's types, when it   *)
(* ends, and how long it waits.  The functions of RetryPolicy are          *)
(* recursive; what they compute is proved by induction, in the form "there *)
(* is no least number for which it fails".                                 *)
(***************************************************************************)
EXTENDS RetrySchedule, WellFoundedInduction, TLAPS

-----------------------------------------------------------------------------
(* The machine's integers.                                                 *)

\* What fits is kept, and everything is made to fit.
LEMMA WrapFacts ==
    /\ \A n \in Int : Wrap(n) \in (-MaxInt - 1)..MaxInt
    /\ \A n \in (-MaxInt - 1)..MaxInt : Wrap(n) = n
    /\ Wrap(MaxInt + 1) = -MaxInt - 1
  <1> DEFINE w == 2 * (MaxInt + 1)
  <1>1. MaxInt \in Nat /\ w \in Nat \ {0}
    BY WidthAssumption
  <1>2. \A n \in Int : Wrap(n) = ((n + MaxInt + 1) % w) - MaxInt - 1
    BY DEF Wrap
  <1>3. \A n \in (-MaxInt - 1)..MaxInt : n + MaxInt + 1 \in 0..(w - 1)
    BY <1>1
  <1>4. w = MaxInt + MaxInt + 2
    BY <1>1
  <1> HIDE DEF w
  <1>5. \A m \in Int : m % w \in 0..(w - 1)
    BY <1>1
  <1>6. \A m \in 0..(w - 1) : m % w = m
    BY <1>1
  <1>7. ASSUME NEW n \in Int PROVE Wrap(n) \in (-MaxInt - 1)..MaxInt
    <2>1. (n + MaxInt + 1) % w \in 0..(w - 1)
      BY <1>1, <1>5
    <2> QED
      BY <1>1, <1>2, <1>4, <2>1
  <1>8. ASSUME NEW n \in (-MaxInt - 1)..MaxInt PROVE Wrap(n) = n
    <2>1. (n + MaxInt + 1) % w = n + MaxInt + 1
      BY <1>3, <1>6
    <2> QED
      BY <1>1, <1>2, <2>1
  <1>9. Wrap(MaxInt + 1) = -MaxInt - 1
    <2>1. w % w = 0
      BY <1>1
    <2> QED
      BY <1>1, <1>2, <1>4, <2>1
  <1> QED
    BY <1>7, <1>8, <1>9

-----------------------------------------------------------------------------
(* Induction.                                                              *)

\* A set of natural numbers that is not empty has a least element.
LEMMA LeastNatural ==
    ASSUME NEW T, T \subseteq Nat, T # {}
    PROVE  \E x \in T : \A y \in T : x <= y
  <1> DEFINE R == OpToRel(<, Nat)
  <1>1. IsWellFoundedOn(R, Nat)
    BY NatLessThanWellFounded, Zenon
  <1>2. \A x, y \in Nat : y < x => <<y, x>> \in R
    BY Zenon DEF OpToRel
  <1> HIDE DEF R
  <1>3. PICK x \in T : \A y \in T : ~(<<y, x>> \in R)
    BY <1>1, WFMin
  <1>4. ASSUME NEW y \in T PROVE x <= y
    <2>1. x \in Nat /\ y \in Nat /\ ~(y < x)
      BY <1>2, <1>3
    <2> QED
      BY <2>1
  <1> QED
    BY <1>4

\* A set that holds 1, and i + 1 when it holds i, holds every number from 1 to n.
LEMMA Induction ==
    ASSUME NEW n \in Nat, NEW P, 1 \in P,
           \A i \in 1..n : i \in P /\ i + 1 \in 1..n => i + 1 \in P
    PROVE  1..n \subseteq P
  <1> SUFFICES ASSUME (1..n) \ P # {} PROVE FALSE
    OBVIOUS
  <1>1. PICK x \in (1..n) \ P : \A y \in (1..n) \ P : x <= y
    <2>1. (1..n) \ P \subseteq Nat
      OBVIOUS
    <2> QED
      BY <2>1, LeastNatural
  <1>2. x \in 1..n /\ x # 1
    OBVIOUS
  <1>3. x - 1 \in 1..n /\ (x - 1) + 1 = x
    BY <1>2
  <1>4. x - 1 \in P
    BY <1>1, <1>2, <1>3
  <1> QED
    BY <1>3, <1>4

\* What starts with x and goes on with F.
Iterates(d, n, x, F) == \A i \in 1..n : d[i] = IF i = 1 THEN x ELSE F[d[i-1]]

\* It exists, for any length.
LEMMA IteratesExist ==
    ASSUME NEW n \in Nat \ {0}, NEW S, NEW x \in S, NEW F \in [S -> S]
    PROVE  \E d \in [1..n -> S] : Iterates(d, n, x, F)
  <1> DEFINE P == {m \in Nat : \E d \in [1..m -> S] : Iterates(d, m, x, F)}
  <1>1. 1 \in P
    <2>1. [i \in 1..1 |-> x] \in [1..1 -> S] /\ Iterates([i \in 1..1 |-> x], 1, x, F)
      BY DEF Iterates
    <2> QED
      BY <2>1
  <1>2. ASSUME NEW m \in 1..n, m \in P PROVE m + 1 \in P
    <2>1. PICK d \in [1..m -> S] : Iterates(d, m, x, F)
      BY <1>2
    <2> DEFINE e == [i \in 1..(m + 1) |-> IF i = m + 1 THEN F[d[m]] ELSE d[i]]
    <2>2. m \in 1..m /\ d[m] \in S /\ F[d[m]] \in S
      OBVIOUS
    <2>3. \A i \in 1..(m + 1) : i \in 1..m \/ i = m + 1
      OBVIOUS
    <2>4. e \in [1..(m + 1) -> S]
      BY <2>2, <2>3
    <2>5. Iterates(e, m + 1, x, F)
      <3> SUFFICES ASSUME NEW i \in 1..(m + 1)
                   PROVE  e[i] = IF i = 1 THEN x ELSE F[e[i-1]]
        BY DEF Iterates
      <3>1. CASE i = m + 1
        BY <3>1
      <3>2. CASE i \in 1..m
        <4>1. e[i] = d[i] /\ (i # 1 => i - 1 \in 1..m /\ e[i-1] = d[i-1])
          BY <3>2
        <4> QED
          BY <2>1, <3>2, <4>1 DEF Iterates
      <3> QED
        BY <2>3, <3>1, <3>2
    <2> HIDE DEF e
    <2> QED
      BY <2>4, <2>5
  <1> HIDE DEF P
  <1>3. n \in P
    BY <1>1, <1>2, Induction
  <1> QED
    BY <1>3 DEF P

\* Two that start and go on alike are the same.
GoOnAlike(d, e, n) == \A i \in 1..n : i + 1 \in 1..n /\ d[i] = e[i] => d[i + 1] = e[i + 1]

LEMMA IteratesAreUnique ==
    ASSUME NEW n \in Nat \ {0}, NEW d, NEW e, d[1] = e[1], GoOnAlike(d, e, n)
    PROVE  d[n] = e[n]
  <1> DEFINE P == {i \in 1..n : d[i] = e[i]}
  <1>1. 1 \in P /\ \A i \in 1..n : i \in P /\ i + 1 \in 1..n => i + 1 \in P
    BY DEF GoOnAlike
  <1>2. 1..n \subseteq P
    <2> HIDE DEF P
    <2> QED
      BY <1>1, Induction
  <1> QED
    BY <1>2

\* Doubled doubles.
LEMMA DoubledIterates ==
    ASSUME NEW n \in Nat \ {0}, NEW x \in Int
    PROVE  \E d \in [1..n -> Int] : /\ Doubled(x, n) = d[n] /\ d[1] = x
                                    /\ \A i \in 2..n : d[i] = 2 * d[i-1]
  <1> DEFINE F == [y \in Int |-> 2 * y]
             Def(g) == [i \in 1..n |-> IF i = 1 THEN x ELSE 2 * g[i-1]]
             d == CHOOSE g : g = Def(g)
  <1>1. F \in [Int -> Int]
    OBVIOUS
  <1>2. PICK e \in [1..n -> Int] : Iterates(e, n, x, F)
    <2> HIDE DEF F
    <2> QED
      BY <1>1, IteratesExist
  <1>3. ASSUME NEW i \in 1..n PROVE e[i] = IF i = 1 THEN x ELSE 2 * e[i-1]
    <2>1. i # 1 => i - 1 \in 1..n /\ e[i-1] \in Int
      OBVIOUS
    <2> QED
      BY <1>2, <2>1 DEF Iterates
  <1>4. e = Def(e)
    BY <1>3
  <1>5. d = Def(d)
    <2> HIDE DEF Def
    <2> QED
      BY <1>4
  <1>6. Doubled(x, n) = d[n]
    BY DEF Doubled
  <1> HIDE DEF d
  <1>7. \A i \in 1..n : d[i] = IF i = 1 THEN x ELSE 2 * d[i-1]
    BY <1>5
  <1>8. 1 \in 1..n /\ n \in 1..n /\ \A i \in 1..n : (i + 1) - 1 = i /\ i + 1 # 1
    OBVIOUS
  <1>9. ASSUME NEW i \in 1..n, i + 1 \in 1..n, d[i] = e[i] PROVE d[i + 1] = e[i + 1]
    <2>1. d[i + 1] = 2 * d[(i + 1) - 1] /\ e[i + 1] = 2 * e[(i + 1) - 1] /\ (i + 1) - 1 = i
      BY <1>3, <1>7, <1>8, <1>9
    <2> QED
      BY <1>9, <2>1
  <1>10. d[1] = e[1]
    BY <1>3, <1>7, <1>8
  <1>11. d[n] = e[n]
    BY <1>9, <1>10, IteratesAreUnique DEF GoOnAlike
  <1>12. \A i \in 2..n : i \in 1..n /\ i # 1
    OBVIOUS
  <1> QED
    BY <1>3, <1>6, <1>8, <1>11, <1>12

\* What nominalBackoff computes: the doublings go on while they are below the cap.
LEMMA NominalIterates ==
    ASSUME NEW n \in Nat \ {0}, NEW x \in 1..MaxInt
    PROVE  \E d \in [1..n -> 1..MaxInt] :
              /\ nominalBackoff(n, x) = IF d[n] > MaxBackoff THEN MaxBackoff ELSE d[n]
              /\ d[1] = x
              /\ \A i \in 2..n : d[i] = IF d[i-1] < MaxBackoff THEN 2 * d[i-1] ELSE d[i-1]
  <1> DEFINE S == 1..MaxInt
             Step(y) == IF y < MaxBackoff THEN Wrap(2 * y) ELSE y
             F == [y \in S |-> Step(y)]
             Def(g) == [i \in 1..n |-> IF i = 1 THEN x
                                       ELSE IF g[i-1] < MaxBackoff THEN Wrap(2 * g[i-1]) ELSE g[i-1]]
             d == CHOOSE g : g = Def(g)
  <1>1. ASSUME NEW y \in S
        PROVE  Step(y) = (IF y < MaxBackoff THEN 2 * y ELSE y) /\ Step(y) \in S
    <2>1. MaxInt \in Nat /\ MaxBackoff \in Nat /\ 2 * MaxBackoff <= MaxInt /\ y \in Nat \ {0}
      BY WidthAssumption
    <2>2. CASE y < MaxBackoff
      <3>1. 2 * y \in 1..MaxInt
        BY <2>1, <2>2
      <3>2. Wrap(2 * y) = 2 * y
        BY <2>1, <3>1, WrapFacts
      <3> QED
        BY <2>2, <3>1, <3>2
    <2>3. CASE ~(y < MaxBackoff)
      BY <2>3
    <2> QED
      BY <2>2, <2>3
  <1>2. F \in [S -> S]
    BY <1>1
  <1>3. PICK e \in [1..n -> S] : Iterates(e, n, x, F)
    <2> HIDE DEF F
    <2> QED
      BY <1>2, IteratesExist
  <1>4. ASSUME NEW i \in 1..n
        PROVE  e[i] = (IF i = 1 THEN x ELSE Step(e[i-1])) /\ (i # 1 => e[i-1] \in S)
    <2>1. i # 1 => i - 1 \in 1..n /\ e[i-1] \in S
      OBVIOUS
    <2> QED
      BY <1>3, <2>1 DEF Iterates
  <1>5. e = Def(e)
    BY <1>4
  <1>6. d = Def(d)
    <2> HIDE DEF Def
    <2> QED
      BY <1>5
  <1>7. nominalBackoff(n, x) = IF d[n] > MaxBackoff THEN MaxBackoff ELSE d[n]
    BY DEF nominalBackoff
  <1> HIDE DEF d
  <1>8. \A i \in 1..n : d[i] = IF i = 1 THEN x ELSE Step(d[i-1])
    BY <1>6
  <1>9. 1 \in 1..n /\ n \in 1..n /\ \A i \in 1..n : (i + 1) - 1 = i /\ i + 1 # 1
    OBVIOUS
  <1> HIDE DEF Step, S, F
  <1>10. \A i \in 1..n : i + 1 \in 1..n /\ d[i] = e[i] => d[i + 1] = e[i + 1]
    BY <1>4, <1>8, <1>9
  <1>11. d[1] = e[1]
    BY <1>4, <1>8, <1>9
  <1>12. d[n] = e[n]
    BY <1>10, <1>11, IteratesAreUnique DEF GoOnAlike
  <1>13. ASSUME NEW i \in 2..n
         PROVE  e[i] = IF e[i-1] < MaxBackoff THEN 2 * e[i-1] ELSE e[i-1]
    <2>1. i \in 1..n /\ i # 1
      OBVIOUS
    <2> QED
      BY <1>1, <1>4, <2>1
  <1>14. e[1] = x
    BY <1>4, <1>9
  <1> QED
    BY <1>7, <1>12, <1>13, <1>14 DEF S

-----------------------------------------------------------------------------
(* The waits.                                                              *)

\* Up to the cap the nominal wait is the base doubled without overflow, and no
\* doubling is lost to the cap before it is reached.
LEMMA NominalIsDoubled ==
    ASSUME NEW n \in Nat \ {0}, NEW x \in 1..MaxInt
    PROVE  /\ Doubled(x, n) \in Int
           /\ nominalBackoff(n, x) = IF Doubled(x, n) < MaxBackoff THEN Doubled(x, n) ELSE MaxBackoff
  <1>0. MaxInt \in Nat /\ MaxBackoff \in Nat /\ x \in Int
    BY WidthAssumption
  <1>1. PICK e \in [1..n -> Int] : /\ Doubled(x, n) = e[n] /\ e[1] = x
                                   /\ \A i \in 2..n : e[i] = 2 * e[i-1]
    BY <1>0, DoubledIterates
  <1>2. PICK d \in [1..n -> 1..MaxInt] :
           /\ nominalBackoff(n, x) = IF d[n] > MaxBackoff THEN MaxBackoff ELSE d[n]
           /\ d[1] = x
           /\ \A i \in 2..n : d[i] = IF d[i-1] < MaxBackoff THEN 2 * d[i-1] ELSE d[i-1]
    BY NominalIterates
  <1> DEFINE Alike(i) == d[i] = e[i] \/ (d[i] >= MaxBackoff /\ e[i] >= MaxBackoff)
             P == {i \in 1..n : Alike(i)}
  <1>3. 1 \in P
    BY <1>1, <1>2
  <1>4. ASSUME NEW i \in 1..n, i \in P, i + 1 \in 1..n PROVE i + 1 \in P
    <2>1. i + 1 \in 2..n /\ (i + 1) - 1 = i /\ d[i] \in Int /\ e[i] \in Int
      BY <1>0, <1>4
    <2>2. e[i + 1] = 2 * e[i] /\ d[i + 1] = IF d[i] < MaxBackoff THEN 2 * d[i] ELSE d[i]
      BY <1>1, <1>2, <2>1
    <2>3. Alike(i)
      BY <1>4
    <2>4. Alike(i + 1)
      BY <1>0, <2>1, <2>2, <2>3
    <2> QED
      BY <1>4, <2>4
  <1>5. 1..n \subseteq P
    <2> HIDE DEF P
    <2> QED
      BY <1>3, <1>4, Induction
  <1>6. n \in 1..n /\ e[n] \in Int /\ d[n] \in Int
    BY <1>0
  <1>7. Alike(n)
    BY <1>5, <1>6
  <1> QED
    BY <1>0, <1>1, <1>2, <1>6, <1>7

\* Nothing doubled is nothing.
LEMMA DoubledZero ==
    ASSUME NEW n \in Nat \ {0}
    PROVE  Doubled(0, n) = 0
  <1>0. PICK x \in Int : x = 0
    OBVIOUS
  <1>p. PICK e \in [1..n -> Int] : /\ Doubled(x, n) = e[n] /\ e[1] = x
                                   /\ \A i \in 2..n : e[i] = 2 * e[i-1]
    BY DoubledIterates
  <1>1. /\ Doubled(0, n) = e[n] /\ e[1] = 0
        /\ \A i \in 2..n : e[i] = 2 * e[i-1]
    BY <1>0, <1>p
  <1> DEFINE P == {i \in 1..n : e[i] = 0}
  <1>2. 1 \in P
    BY <1>1
  <1>3. ASSUME NEW i \in 1..n, i \in P, i + 1 \in 1..n PROVE i + 1 \in P
    <2>1. i + 1 \in 2..n /\ (i + 1) - 1 = i
      BY <1>3
    <2> QED
      BY <1>1, <1>3, <2>1
  <1>4. 1..n \subseteq P
    <2> HIDE DEF P
    <2> QED
      BY <1>2, <1>3, Induction
  <1> QED
    BY <1>1, <1>4

\* A wait is one of the machine's durations, whatever the base, and the jitter
\* takes it past the cap by a quarter at most.
LEMMA WaitsFit ==
    ASSUME NEW n \in Nat \ {0}, NEW b \in (-MaxInt - 1)..MaxInt, NEW w \in retryBackoff(n, b)
    PROVE  w \in 0..MaxInt /\ 4 * w <= 5 * MaxBackoff
  <1>0. /\ MaxInt \in Nat /\ MaxBackoff \in Nat /\ 2 * MaxBackoff <= MaxInt
    BY WidthAssumption
  <1>1. CASE b <= 0
    BY <1>0, <1>1 DEF retryBackoff
  <1>2. CASE ~(b <= 0)
    <2>1. b \in 1..MaxInt
      BY <1>0, <1>2
    <2> DEFINE d == nominalBackoff(n, b)
    <2>2. w \in 0..(2 * d) /\ 4 * w < 5 * d
      BY <1>2 DEF retryBackoff
    <2>3. d \in Int /\ d <= MaxBackoff
      BY <1>0, <2>1, NominalIsDoubled
    <2> HIDE DEF d
    <2> QED
      BY <1>0, <2>2, <2>3
  <1> QED
    BY <1>1, <1>2

-----------------------------------------------------------------------------
(* The loop.                                                               *)

\* While the loop runs, and once an attempt was made, it is within its attempts.
LoopFits == phase # "over" \/ err # None => 1 <= attempt /\ attempt <= totalAttempts

\* It waits only for a retry that is left, after an error that may pass.
WaitFits ==
    phase = "wait" => /\ err \in Failure /\ isRetryableError(err)
                      /\ attempt < totalAttempts
                      /\ wait \in retryBackoff(attempt, base)

\* It gives up for want of attempts or on an error that will not pass.
OverFits == phase = "over" /\ err # None => attempt >= totalAttempts \/ ~isRetryableError(err)

IndInv == TypeOK /\ LoopFits /\ WaitFits /\ OverFits

\* The settings are durations and counts of the machine; a positive number of
\* attempts is one more than the retries.
LEMMA SettingsFacts ==
    ASSUME maxRetries \in Retries, delaySeconds \in Delays
    PROVE  /\ settings.maxRetries \in 0..MaxInt /\ settings.delaySeconds \in 0..MaxInt
           /\ base \in (-MaxInt - 1)..MaxInt
           /\ totalAttempts \in Int
           /\ 1 <= totalAttempts => totalAttempts = settings.maxRetries + 1
  <1>0. MaxInt \in Nat /\ 2 <= MaxInt /\ Second \in Nat
    BY WidthAssumption
  <1>1. settings.maxRetries \in 0..MaxInt /\ settings.delaySeconds \in 0..MaxInt
    BY <1>0, ScheduleAssumption
       DEF settings, RetrySettings, Setting, DefaultMaxRetries, DefaultRetryDelaySeconds
  <1>2. base \in (-MaxInt - 1)..MaxInt
    <2> DEFINE product == settings.delaySeconds * Second
    <2>1. product \in Int
      BY <1>0, <1>1
    <2>2. base = Wrap(product)
      BY DEF base, BaseDelay
    <2> HIDE DEF product
    <2> QED
      BY <2>1, <2>2, WrapFacts
  <1> DEFINE m == settings.maxRetries
  <1>3. totalAttempts = Wrap(m + 1)
    BY DEF totalAttempts, TotalAttempts
  <1> HIDE DEF m
  <1>4. m \in 0..MaxInt
    BY <1>1 DEF m
  <1>5. CASE m = MaxInt
    BY <1>0, <1>1, <1>2, <1>3, <1>5, WrapFacts
  <1>6. CASE m # MaxInt
    <2>1. m + 1 \in (-MaxInt - 1)..MaxInt
      BY <1>0, <1>4, <1>6
    <2>2. totalAttempts = m + 1
      BY <1>3, <2>1, WrapFacts
    <2> QED
      BY <1>1, <1>2, <1>4, <2>2 DEF m
  <1> QED
    BY <1>5, <1>6

\* The initial state satisfies the inductive invariant.
LEMMA InitInv == Init => IndInv
  <1> SUFFICES ASSUME Init PROVE IndInv
    OBVIOUS
  <1>0. MaxInt \in Nat /\ MaxFailures \in Nat \ {0} /\ totalAttempts \in Int
    BY WidthAssumption, ScheduleAssumption, SettingsFacts DEF Init
  <1> QED
    BY <1>0 DEF Init, IndInv, TypeOK, LoopFits, WaitFits, OverFits

\* Every step keeps it.
LEMMA InvStep == IndInv /\ [Next]_vars => IndInv'
  <1> SUFFICES ASSUME IndInv, [Next]_vars PROVE IndInv'
    OBVIOUS
  <1>0. /\ TypeOK /\ LoopFits /\ WaitFits /\ OverFits
        /\ MaxInt \in Nat /\ MaxFailures \in Nat \ {0}
        /\ totalAttempts \in Int /\ base \in (-MaxInt - 1)..MaxInt
        /\ attempt \in Nat
    BY WidthAssumption, ScheduleAssumption, SettingsFacts DEF IndInv, TypeOK
  <1>1. ASSUME NEW e \in Failure, Fail(e) PROVE IndInv'
    <2>1. /\ UNCHANGED <<maxRetries, delaySeconds, attempt>> /\ err' = e /\ phase = "try"
          /\ \/ /\ phase' = "over" /\ wait' = wait
                /\ attempt >= totalAttempts \/ ~isRetryableError(e)
             \/ /\ phase' = "wait" /\ wait' \in retryBackoff(attempt, base)
                /\ attempt < totalAttempts /\ isRetryableError(e)
      BY <1>1 DEF Fail
    <2>2. totalAttempts' = totalAttempts /\ base' = base
      BY <2>1 DEF totalAttempts, base, settings
    <2>3. 1 <= attempt /\ attempt <= totalAttempts
      BY <1>0, <2>1 DEF LoopFits
    <2>4. TypeOK'
      <3>1. wait' \in 0..MaxInt
        BY <1>0, <2>1, <2>3, WaitsFit DEF TypeOK
      <3> QED
        BY <1>0, <2>1, <3>1 DEF TypeOK
    <2> QED
      BY <2>1, <2>2, <2>3, <2>4 DEF IndInv, LoopFits, WaitFits, OverFits
  <1>2. CASE NextAttempt
    <2>1. totalAttempts' = totalAttempts
      BY <1>2 DEF NextAttempt, totalAttempts, settings
    <2>2. TypeOK'
      BY <1>0, <1>2 DEF NextAttempt, TypeOK
    <2> QED
      BY <1>0, <1>2, <2>1, <2>2 DEF NextAttempt, IndInv, LoopFits, WaitFits, OverFits
  <1>3. CASE UNCHANGED vars
    <2>1. totalAttempts' = totalAttempts /\ base' = base
      BY <1>3 DEF vars, totalAttempts, base, settings
    <2> QED
      BY <1>0, <1>3, <2>1 DEF vars, IndInv, TypeOK, LoopFits, WaitFits, OverFits
  <1> QED
    BY <1>1, <1>2, <1>3 DEF Next

\* The inductive invariant holds in every state the loop reaches.
THEOREM IndInvHolds == Spec => []IndInv
  BY InitInv, InvStep, PTL DEF Spec

\* The loop's variables have their types: above all, no wait overflows, for any
\* settings the config file can hold and any width of the integers.
THEOREM TypeCorrect == Spec => []TypeOK
  BY IndInvHolds, PTL DEF IndInv

\* A wait is the base doubled after each attempt, up to the cap, give or take the
\* jitter, unless the setting does not fit the machine's durations: no wait is
\* lost to an overflow on the way to the cap.
THEOREM WaitsDoubleToTheCap == Spec => []BackoffDoublesToTheCap
  <1> DEFINE x == settings.delaySeconds * Second
             exact == Doubled(x, attempt)
             ideal == IF exact < MaxBackoff THEN exact ELSE MaxBackoff
  <1>1. ASSUME IndInv, phase = "wait", x <= MaxInt
        PROVE  /\ 4 * wait + 4 > 3 * ideal \/ wait = ideal
               /\ 4 * wait <= 5 * ideal
    <2>0. /\ MaxInt \in Nat /\ Second \in Nat /\ MaxBackoff \in Nat /\ MaxBackoff > 0
          /\ settings.delaySeconds \in Nat
          /\ attempt \in Nat \ {0} /\ wait \in retryBackoff(attempt, base) /\ wait \in Int
      BY <1>1, WidthAssumption, ScheduleAssumption, SettingsFacts
         DEF IndInv, TypeOK, LoopFits, WaitFits
    <2>1. x \in 0..MaxInt
      <3>1. x \in Nat
        BY <2>0
      <3> HIDE DEF x
      <3> QED
        BY <1>1, <2>0, <3>1
    <2>2. base = x
      <3>1. base = Wrap(x)
        BY DEF base, BaseDelay
      <3> HIDE DEF x
      <3> QED
        BY <2>0, <2>1, <3>1, WrapFacts
    <2> HIDE DEF x
    <2>3. CASE x = 0
      <3>1. wait = 0
        BY <2>0, <2>2, <2>3 DEF retryBackoff
      <3>2. exact = 0
        BY <2>0, <2>3, DoubledZero
      <3> QED
        BY <2>0, <3>1, <3>2
    <2>4. CASE x # 0
      <3>1. x \in 1..MaxInt
        BY <2>0, <2>1, <2>4
      <3>2. nominalBackoff(attempt, x) = ideal /\ exact \in Int
        BY <2>0, <3>1, NominalIsDoubled
      <3>3. 3 * ideal < 4 * wait + 4 /\ 4 * wait < 5 * ideal
        BY <2>0, <2>2, <3>1, <3>2 DEF retryBackoff
      <3> HIDE DEF exact
      <3> QED
        BY <2>0, <3>2, <3>3
    <2> QED
      BY <2>3, <2>4
  <1>2. IndInv => BackoffDoublesToTheCap
    BY <1>1 DEF BackoffDoublesToTheCap
  <1> QED
    BY IndInvHolds, <1>2, PTL

\* A transient failure is reported after exactly one attempt more than the
\* configured retries, and a permanent one is never retried.
THEOREM RetriesFollowTheDocs == Spec => []RetriesAsDocumented
  <1>1. IndInv => RetriesAsDocumented
    <2> SUFFICES ASSUME IndInv PROVE RetriesAsDocumented
      OBVIOUS
    <2>0. /\ attempt \in Int /\ totalAttempts \in Int /\ settings.maxRetries \in Int
          /\ 1 <= totalAttempts => totalAttempts = settings.maxRetries + 1
      BY ScheduleAssumption, WidthAssumption, SettingsFacts DEF IndInv, TypeOK
    <2>1. ASSUME phase = "over", err # None, DocumentedTransient(err)
          PROVE  attempt = settings.maxRetries + 1
      <3>1. isRetryableError(err)
        BY <2>1 DEF DocumentedTransient, isRetryableError, retryableStatus
      <3> QED
        BY <2>0, <2>1, <3>1 DEF IndInv, LoopFits, OverFits
    <2>2. ASSUME phase = "wait"
          PROVE  ~DocumentedPermanent(err) /\ attempt <= settings.maxRetries
      <3>1. isRetryableError(err) /\ 1 <= attempt /\ attempt < totalAttempts
        BY <2>2 DEF IndInv, LoopFits, WaitFits
      <3>2. ~DocumentedPermanent(err)
        BY <3>1 DEF DocumentedPermanent, isRetryableError, retryableStatus
      <3> QED
        BY <2>0, <3>1, <3>2
    <2> QED
      BY <2>1, <2>2 DEF RetriesAsDocumented
  <1> QED
    BY IndInvHolds, <1>1, PTL

\* How far WaitIsCapped is wrong: no wait is longer than five quarters of the cap,
\* even where the setting overflows.
THEOREM WaitsStayNearTheCap == Spec => [](phase = "wait" => 4 * wait <= 5 * MaxBackoff)
  <1>1. IndInv => (phase = "wait" => 4 * wait <= 5 * MaxBackoff)
    <2> SUFFICES ASSUME IndInv, phase = "wait" PROVE 4 * wait <= 5 * MaxBackoff
      OBVIOUS
    <2>1. /\ attempt \in Nat \ {0} /\ base \in (-MaxInt - 1)..MaxInt
          /\ wait \in retryBackoff(attempt, base)
      BY ScheduleAssumption, SettingsFacts DEF IndInv, TypeOK, LoopFits, WaitFits
    <2> QED
      BY <2>1, WaitsFit
  <1> QED
    BY IndInvHolds, <1>1, PTL

=============================================================================
