----------------------------- MODULE WeeklyHours -----------------------------
(***************************************************************************)
(* The hours of a set of rides, where a ride is a pair <<event, rider>> or *)
(* <<course, rider>> and dur[e] is how long e lasts: the sum that Stages   *)
(* and CourseHorses write with MapThenSumSet, and what becomes of it when  *)
(* a ride comes or goes.                                                   *)
(*                                                                         *)
(* The sum is a recursive function on the subsets of the set.  What holds  *)
(* of every finite set is proved from a smallest set of which it does not  *)
(* hold (SmallestSet).                                                     *)
(***************************************************************************)
EXTENDS Integers, FiniteSets, FiniteSetsExt, FiniteSetTheorems, WellFoundedInduction, TLAPS

\* The hours of the rides of S.
HoursOf(dur, S) == MapThenSumSet(LAMBDA x : dur[x[1]], S)

\* The rides of S have a duration.
Timed(dur, S) == \A x \in S : dur[x[1]] \in Int

\* The ride that is counted first.
First(S) == CHOOSE x \in S : TRUE

\* g gives the hours of every subset of S.
Counts(g, dur, S) ==
    g = [s \in SUBSET S |->
            IF s = {} THEN 0 ELSE dur[First(s)[1]] + g[s \ {First(s)}]]

\* Among finite sets there is one of which no other is a part.
LEMMA SmallestSet ==
    ASSUME NEW Bad, Bad # {}, \A s \in Bad : IsFiniteSet(s)
    PROVE  \E s \in Bad : \A t \in Bad : t \subseteq s => t = s
  <1> DEFINE Sizes == {Cardinality(s) : s \in Bad}
  <1>1. Sizes \subseteq Nat /\ Sizes # {}  BY FS_CardinalityType
  <1>2. PICK n \in Sizes : \A m \in Sizes : <<m, n>> \notin OpToRel(<, Nat)
    BY <1>1, NatLessThanWellFounded, WFMin
  <1>3. PICK s \in Bad : Cardinality(s) = n  BY <1>2
  <1>4. ASSUME NEW t \in Bad, t \subseteq s PROVE t = s
    <2>1. Cardinality(t) \in Nat /\ Cardinality(t) \in Sizes /\ n \in Nat  BY <1>1
    <2>2. ~(Cardinality(t) < n)  BY <1>2, <2>1 DEF OpToRel
    <2>3. t # s => Cardinality(t) < Cardinality(s)
      BY <1>4, FS_Subset, FS_CardinalityType
    <2> QED BY <1>3, <2>2, <2>3
  <1> QED BY <1>4

LEMMA FirstIsIn == ASSUME NEW S, S # {} PROVE First(S) \in S
  BY DEF First

\* Two functions that count agree where both do.
LEMMA CountsAgree ==
    ASSUME NEW dur, NEW S, NEW T, NEW g, NEW h, Counts(g, dur, S), Counts(h, dur, T),
           NEW R, R \subseteq S, R \subseteq T, IsFiniteSet(R)
    PROVE  g[R] = h[R]
  <1> DEFINE Bad == {s \in SUBSET R : g[s] # h[s]}
  <1> SUFFICES ASSUME Bad # {} PROVE FALSE  OBVIOUS
  <1>1. \A s \in Bad : IsFiniteSet(s)  BY FS_Subset
  <1>2. PICK s \in Bad : \A t \in Bad : t \subseteq s => t = s
    <2> HIDE DEF Bad
    <2> QED BY <1>1, SmallestSet
  <1>3. /\ g[s] = IF s = {} THEN 0 ELSE dur[First(s)[1]] + g[s \ {First(s)}]
        /\ h[s] = IF s = {} THEN 0 ELSE dur[First(s)[1]] + h[s \ {First(s)}]
    BY DEF Counts
  <1>4. s # {}  BY <1>3
  <1>5. First(s) \in s  BY <1>4, FirstIsIn
  <1>6. s \ {First(s)} \subseteq s /\ s \ {First(s)} # s /\ s \ {First(s)} \subseteq R
    BY <1>5
  <1>7. g[s \ {First(s)}] = h[s \ {First(s)}]  BY <1>2, <1>6
  <1> QED BY <1>3, <1>7

\* A finite set can be counted.
LEMMA CountExists ==
    ASSUME NEW dur, NEW S, IsFiniteSet(S)
    PROVE  \E g : Counts(g, dur, S)
  <1> DEFINE Bad == {s \in SUBSET S : ~ \E g : Counts(g, dur, s)}
  <1> SUFFICES ASSUME Bad # {} PROVE FALSE  OBVIOUS
  <1>1. \A s \in Bad : IsFiniteSet(s)  BY FS_Subset
  <1>2. PICK s \in Bad : \A t \in Bad : t \subseteq s => t = s
    <2> HIDE DEF Bad
    <2> QED BY <1>1, SmallestSet
  <1> DEFINE Count(t) == CHOOSE g : Counts(g, dur, t)
             Rest(t)  == t \ {First(t)}
             all == [t \in SUBSET s |->
                       IF t = {} THEN 0 ELSE dur[First(t)[1]] + Count(Rest(t))[Rest(t)]]
  <1>3. ASSUME NEW t \in SUBSET s, t # {} PROVE Rest(t) \subseteq s /\ Rest(t) # s
    BY <1>3, FirstIsIn
  <1>4. ASSUME NEW t, t \subseteq s, t # s PROVE Counts(Count(t), dur, t)
    <2>1. t \notin Bad  BY <1>2, <1>4
    <2>2. \E g : Counts(g, dur, t)  BY <1>4, <2>1
    <2> QED BY <2>2
  <1>5. ASSUME NEW t, t \subseteq s, t # s PROVE all[t] = Count(t)[t]
    <2>1. CASE t = {}
      <3>1. Counts(Count(t), dur, t)
        <4> HIDE DEF Count
        <4> QED BY <1>4, <1>5
      <3> HIDE DEF Count
      <3>2. Count(t)[t] = 0  BY <2>1, <3>1 DEF Counts
      <3> QED BY <1>5, <2>1, <3>2
    <2>2. CASE t # {}
      <3>1. Rest(t) \subseteq t /\ Rest(t) \subseteq s /\ Rest(t) # s  BY <1>3, <1>5, <2>2
      <3>2. Counts(Count(t), dur, t) /\ Counts(Count(Rest(t)), dur, Rest(t))
        <4> HIDE DEF Rest, Count
        <4> QED BY <1>4, <1>5, <3>1
      <3>3. IsFiniteSet(Rest(t))  BY <3>1, FS_Subset
      <3>4. Count(t)[Rest(t)] = Count(Rest(t))[Rest(t)]
        <4> HIDE DEF Rest, Count
        <4> QED BY <3>1, <3>2, <3>3, CountsAgree
      <3>5. Count(t)[t] = dur[First(t)[1]] + Count(t)[Rest(t)]
        BY <2>2, <3>2 DEF Counts
      <3> QED BY <1>5, <2>2, <3>4, <3>5
    <2> QED BY <2>1, <2>2
  <1>6. ASSUME NEW t \in SUBSET s, t # {} PROVE all[Rest(t)] = Count(Rest(t))[Rest(t)]
    <2> HIDE DEF all, Rest, Count
    <2> QED BY <1>3, <1>5, <1>6
  <1>7. all = [t \in SUBSET s |-> IF t = {} THEN 0 ELSE dur[First(t)[1]] + all[Rest(t)]]
    <2> DEFINE body(t) == IF t = {} THEN 0
                          ELSE dur[First(t)[1]] + Count(Rest(t))[Rest(t)]
               next(t) == IF t = {} THEN 0 ELSE dur[First(t)[1]] + all[Rest(t)]
    <2>1. ASSUME NEW t \in SUBSET s PROVE body(t) = next(t)
      <3> HIDE DEF all, Rest, Count
      <3> QED BY <1>6
    <2>2. all = [t \in SUBSET s |-> body(t)]  OBVIOUS
    <2> HIDE DEF all, body, next
    <2>3. all = [t \in SUBSET s |-> next(t)]  BY <2>1, <2>2
    <2> QED BY <2>3 DEF next
  <1>8. Counts(all, dur, s)
    <2> HIDE DEF all
    <2> QED BY <1>7 DEF Counts
  <1> QED BY <1>8

\* What the sum is: nothing for no ride, else the first ride and the rest.
LEMMA HoursDef ==
    ASSUME NEW dur, NEW S, IsFiniteSet(S)
    PROVE  HoursOf(dur, S) = IF S = {} THEN 0
                               ELSE dur[First(S)[1]] + HoursOf(dur, S \ {First(S)})
  <1> DEFINE Count(T) == CHOOSE g : Counts(g, dur, T)
  <1>1. ASSUME NEW T PROVE HoursOf(dur, T) = Count(T)[T]
    BY DEF HoursOf, MapThenSumSet, MapThenFoldSet, Counts, First
  <1>2. ASSUME NEW T, T \subseteq S PROVE Counts(Count(T), dur, T)
    BY <1>2, CountExists, FS_Subset
  <1> HIDE DEF Count
  <1>3. Counts(Count(S), dur, S)  BY <1>2
  <1>4. Count(S)[S] = IF S = {} THEN 0 ELSE dur[First(S)[1]] + Count(S)[S \ {First(S)}]
    BY <1>3 DEF Counts
  <1>5. Count(S)[S \ {First(S)}] = Count(S \ {First(S)})[S \ {First(S)}]
    <2>1. S \ {First(S)} \subseteq S /\ IsFiniteSet(S \ {First(S)})  BY FS_Subset
    <2>2. Counts(Count(S \ {First(S)}), dur, S \ {First(S)})  BY <1>2, <2>1
    <2> QED BY <1>3, <2>1, <2>2, CountsAgree
  <1> QED BY <1>1, <1>4, <1>5

LEMMA HoursOfNone == ASSUME NEW dur PROVE HoursOf(dur, {}) = 0
  BY HoursDef, FS_EmptySet

\* The hours of finitely many rides are a number.
LEMMA HoursType ==
    ASSUME NEW dur, NEW S, IsFiniteSet(S), Timed(dur, S)
    PROVE  HoursOf(dur, S) \in Int
  <1> DEFINE Bad == {s \in SUBSET S : HoursOf(dur, s) \notin Int}
  <1> SUFFICES ASSUME Bad # {} PROVE FALSE  OBVIOUS
  <1>1. \A s \in Bad : IsFiniteSet(s)  BY FS_Subset
  <1>2. PICK s \in Bad : \A t \in Bad : t \subseteq s => t = s
    <2> HIDE DEF Bad
    <2> QED BY <1>1, SmallestSet
  <1>3. HoursOf(dur, s) = IF s = {} THEN 0
                            ELSE dur[First(s)[1]] + HoursOf(dur, s \ {First(s)})
    BY <1>1, HoursDef
  <1>4. s # {}  BY <1>3
  <1>5. First(s) \in s  BY <1>4, FirstIsIn
  <1>6. HoursOf(dur, s \ {First(s)}) \in Int  BY <1>2, <1>5
  <1>7. dur[First(s)[1]] \in Int  BY <1>5 DEF Timed
  <1> QED BY <1>3, <1>4, <1>6, <1>7

\* The order in which rides are counted does not matter.
LEMMA HoursWithout ==
    ASSUME NEW dur, NEW S, NEW x \in S, IsFiniteSet(S), Timed(dur, S)
    PROVE  HoursOf(dur, S) = dur[x[1]] + HoursOf(dur, S \ {x})
  <1> DEFINE Law(s) == \A y \in s : HoursOf(dur, s) = dur[y[1]] + HoursOf(dur, s \ {y})
             Bad == {s \in SUBSET S : ~Law(s)}
  <1> SUFFICES ASSUME Bad # {} PROVE FALSE  OBVIOUS
  <1>1. \A s \in SUBSET S : IsFiniteSet(s)  BY FS_Subset
  <1>2. PICK s \in Bad : \A t \in Bad : t \subseteq s => t = s
    <2>1. \A t \in Bad : IsFiniteSet(t)  BY <1>1
    <2> HIDE DEF Bad
    <2> QED BY <2>1, SmallestSet
  <1>3. PICK y \in s : HoursOf(dur, s) # dur[y[1]] + HoursOf(dur, s \ {y})  OBVIOUS
  <1> DEFINE f == First(s)
             rest == (s \ {y}) \ {f}
  <1>4. f \in s  BY <1>3, FirstIsIn
  <1>5. HoursOf(dur, s) = dur[f[1]] + HoursOf(dur, s \ {f})
    BY <1>1, <1>3, HoursDef
  <1>6. f # y  BY <1>3, <1>5
  <1> HIDE DEF f
  <1>7. HoursOf(dur, s \ {f}) = dur[y[1]] + HoursOf(dur, rest)
    <2>1. s \ {f} \in SUBSET S /\ s \ {f} # s /\ y \in s \ {f} /\ (s \ {f}) \ {y} = rest
      BY <1>3, <1>4, <1>6
    <2>2. s \ {f} \notin Bad  BY <1>2, <2>1
    <2>3. Law(s \ {f})  BY <2>1, <2>2
    <2> QED BY <2>1, <2>3
  <1>8. HoursOf(dur, s \ {y}) = dur[f[1]] + HoursOf(dur, rest)
    <2>1. s \ {y} \in SUBSET S /\ s \ {y} # s /\ f \in s \ {y}  BY <1>3, <1>4, <1>6
    <2>2. s \ {y} \notin Bad  BY <1>2, <2>1
    <2>3. Law(s \ {y})  BY <2>1, <2>2
    <2> QED BY <2>1, <2>3
  <1>9. HoursOf(dur, rest) \in Int
    <2>1. rest \in SUBSET S /\ Timed(dur, rest)  BY DEF Timed
    <2> QED BY <1>1, <2>1, HoursType
  <1>10. dur[y[1]] \in Int /\ dur[f[1]] \in Int  BY <1>4 DEF Timed
  <1> QED BY <1>3, <1>5, <1>7, <1>8, <1>9, <1>10

\* A ride more.
LEMMA HoursWith ==
    ASSUME NEW dur, NEW S, IsFiniteSet(S), NEW x, x \notin S, Timed(dur, S \cup {x})
    PROVE  HoursOf(dur, S \cup {x}) = HoursOf(dur, S) + dur[x[1]]
  <1> DEFINE T == S \cup {x}
  <1>1. IsFiniteSet(T)  BY FS_AddElement
  <1>2. x \in T /\ Timed(dur, T)  OBVIOUS
  <1>3. T \ {x} = S  OBVIOUS
  <1>4. HoursOf(dur, S) \in Int /\ dur[x[1]] \in Int  BY HoursType DEF Timed
  <1>5. HoursOf(dur, T) = dur[x[1]] + HoursOf(dur, T \ {x})
    <2>1. ASSUME NEW R, x \in R, IsFiniteSet(R), Timed(dur, R)
          PROVE  HoursOf(dur, R) = dur[x[1]] + HoursOf(dur, R \ {x})
      BY <2>1, HoursWithout
    <2> HIDE DEF T
    <2> QED BY <1>1, <1>2, <2>1, Zenon
  <1>6. HoursOf(dur, T) = dur[x[1]] + HoursOf(dur, S)  BY <1>3, <1>5, Zenon
  <1> QED BY <1>4, <1>6

\* A ride less.
LEMMA HoursLess ==
    ASSUME NEW dur, NEW S, NEW x \in S, IsFiniteSet(S), Timed(dur, S)
    PROVE  HoursOf(dur, S \ {x}) = HoursOf(dur, S) - dur[x[1]]
  <1>1. HoursOf(dur, S) = dur[x[1]] + HoursOf(dur, S \ {x})  BY HoursWithout
  <1>2. dur[x[1]] \in Int  BY DEF Timed
  <1>3. HoursOf(dur, S \ {x}) \in Int
    <2>1. IsFiniteSet(S \ {x}) /\ Timed(dur, S \ {x})  BY FS_Subset DEF Timed
    <2> QED BY <2>1, HoursType
  <1> QED BY <1>1, <1>2, <1>3

\* What lasts as long as before counts as before.
LEMMA HoursSame ==
    ASSUME NEW dur, NEW old, NEW S, IsFiniteSet(S), \A x \in S : dur[x[1]] = old[x[1]]
    PROVE  HoursOf(dur, S) = HoursOf(old, S)
  <1> DEFINE Bad == {s \in SUBSET S : HoursOf(dur, s) # HoursOf(old, s)}
  <1> SUFFICES ASSUME Bad # {} PROVE FALSE  OBVIOUS
  <1>1. \A s \in Bad : IsFiniteSet(s)  BY FS_Subset
  <1>2. PICK s \in Bad : \A t \in Bad : t \subseteq s => t = s
    <2> HIDE DEF Bad
    <2> QED BY <1>1, SmallestSet
  <1>3. ASSUME NEW f
        PROVE  HoursOf(f, s) = IF s = {} THEN 0 ELSE f[First(s)[1]] + HoursOf(f, s \ {First(s)})
    BY <1>1, HoursDef
  <1>4. s # {}  BY <1>3
  <1>5. First(s) \in s  BY <1>4, FirstIsIn
  <1>6. HoursOf(dur, s \ {First(s)}) = HoursOf(old, s \ {First(s)})  BY <1>2, <1>5
  <1> QED BY <1>3, <1>4, <1>5, <1>6
==============================================================================
