---------------------- MODULE OperationMigrationProofs ----------------------
(***************************************************************************)
(* What refactor-sdk promises of the files, for every package: any         *)
(* declarations and references among them, any layout, any number of       *)
(* faults.  The split passes its checks whatever a declaration is taken to *)
(* reach: one that has a single owner moves, any other stays.  That an     *)
(* operation stays where it was put does depend on it, and so it is first  *)
(* shown that Reached computes a closure.                                  *)
(***************************************************************************)
EXTENDS OperationMigration, FiniteSetTheorems, WellFoundedInduction, TLAPS

(* While files are written each of them is as it was or as it shall be.    *)
WriteInv ==
  pc = "write" =>
    /\ todo \subseteq Touched
    /\ \A f \in Files : files[f] = IF f \in todo THEN before[f] ELSE goal[f]

(* The legacy files come last.                                             *)
OrderInv ==
  pc = "write" =>
    \A f \in Legacy : f \in Touched \ todo => todo \cap Ops = {}

(* The checks see what the analyzer answered.                              *)
CheckInv == pc = "check" => files = goal

(* While files are restored each is put back or will be.                   *)
RestoreInv ==
  pc = "restore" =>
    \A f \in Files : f \notin todo => files[f] = before[f]

(* The answer is the analyzer's, of a plan that was not blocked.           *)
PlanInv ==
  pc \in {"write", "check"} =>
    /\ route \subseteq LegacyOps(before) /\ ~Blocked(before)
    /\ Separable(before, route)
    /\ goal = Goal(before, route)

MigrationInv ==
  /\ TypeOK
  /\ WriteInv /\ OrderInv /\ CheckInv /\ RestoreInv /\ PlanInv
  /\ RefusalRestores

-----------------------------------------------------------------------------
(* Induction. *)

(* Of a set of numbers that is not empty one is the least: the provers'    *)
(* induction, for a theorem with a predicate for parameter cannot be used. *)
LEMMA Least ==
  ASSUME NEW N \in SUBSET Nat, N # {}
  PROVE  \E m \in N : \A n \in N : m <= n
<1>1. PICK m \in N : \A n \in N : <<n, m>> \notin OpToRel(<, Nat)
  BY WFMin, NatLessThanWellFounded, Zenon
<1>2. \A n \in N : ~(n < m)
  BY <1>1, Zenon DEF OpToRel
<1> QED BY <1>2

(* What holds of 0 and of the successor of each of its members is all of Nat. *)
LEMMA Induction ==
  ASSUME NEW N \in SUBSET Nat, 0 \in N, \A n \in N : n + 1 \in N
  PROVE  N = Nat
<1> SUFFICES ASSUME Nat \ N # {}
             PROVE  FALSE
  OBVIOUS
<1>1. PICK m \in Nat \ N : \A n \in Nat \ N : m <= n
  BY Least
<1>2. m # 0 /\ m - 1 \in Nat
  BY <1>1
<1>3. m - 1 \in N
  BY <1>1, <1>2
<1>4. (m - 1) + 1 = m
  OBVIOUS
<1> QED BY <1>1, <1>3, <1>4

(* A step that is taken again and again makes a sequence.                  *)
LEMMA Iteration ==
  ASSUME NEW T, NEW s \in T, NEW step \in [T -> T]
  PROVE  \E f \in [Nat -> T] :
           f = [n \in Nat |-> IF n = 0 THEN s ELSE step[f[n - 1]]]
<1> DEFINE Starts(g, n) ==
             /\ g \in [0..n -> T]
             /\ g[0] = s
             /\ \A i \in 1..n : g[i] = step[g[i - 1]]
<1>1. \A n \in Nat : \E g : Starts(g, n)
  <2> DEFINE N == {n \in Nat : \E g : Starts(g, n)}
  <2>1. 0 \in N
    <3>1. Starts([i \in 0..0 |-> s], 0)
      OBVIOUS
    <3> QED BY <3>1
  <2>2. ASSUME NEW n \in N
        PROVE  n + 1 \in N
    <3>1. PICK g : Starts(g, n)
      BY <2>2
    <3> DEFINE h == [i \in 0..(n + 1) |-> IF i <= n THEN g[i] ELSE step[g[n]]]
    <3>2. h \in [0..(n + 1) -> T]
      BY <3>1
    <3>3. h[0] = s
      BY <3>1
    <3>4. \A i \in 1..(n + 1) : h[i] = step[h[i - 1]]
      BY <3>1
    <3>5. Starts(h, n + 1)
      BY <3>2, <3>3, <3>4
    <3> HIDE DEF Starts, h
    <3> QED BY <3>5
  <2> HIDE DEF N, Starts
  <2>3. N \in SUBSET Nat
    BY DEF N
  <2>4. N = Nat
    BY <2>1, <2>2, <2>3, Induction
  <2> QED BY <2>4 DEF N
<1>2. ASSUME NEW n \in Nat, NEW g, NEW h, Starts(g, n), Starts(h, n + 1)
      PROVE  \A i \in 0..n : g[i] = h[i]
  <2> DEFINE N == {i \in Nat : i <= n => g[i] = h[i]}
  <2>1. 0 \in N
    BY <1>2
  <2>2. ASSUME NEW i \in N
        PROVE  i + 1 \in N
    <3> SUFFICES ASSUME i + 1 <= n
                 PROVE  g[i + 1] = h[i + 1]
      OBVIOUS
    <3>1. i + 1 \in 1..n /\ i + 1 \in 1..(n + 1) /\ (i + 1) - 1 = i
      OBVIOUS
    <3>2. g[i + 1] = step[g[i]] /\ h[i + 1] = step[h[i]]
      BY <1>2, <3>1
    <3>3. g[i] = h[i]
      BY <2>2
    <3> QED BY <3>2, <3>3
  <2> HIDE DEF N, Starts
  <2>3. N \in SUBSET Nat
    BY DEF N
  <2>4. N = Nat
    BY <2>1, <2>2, <2>3, Induction
  <2> QED BY <2>4 DEF N
<1> DEFINE G(n) == CHOOSE g : Starts(g, n)
           f == [n \in Nat |-> G(n)[n]]
<1>3. \A n \in Nat : Starts(G(n), n)
  BY <1>1
<1> HIDE DEF G
<1>4. f \in [Nat -> T]
  BY <1>3
<1>5. ASSUME NEW n \in Nat
      PROVE  f[n] = IF n = 0 THEN s ELSE step[f[n - 1]]
  <2>1. CASE n = 0
    BY <2>1, <1>3
  <2>2. CASE n # 0
    <3>1. n - 1 \in Nat /\ (n - 1) + 1 = n /\ n - 1 \in 0..(n - 1) /\ n \in 1..n
      BY <2>2
    <3>2. G(n)[n] = step[G(n)[n - 1]]
      BY <3>1, <1>3
    <3>3. G(n - 1)[n - 1] = G(n)[n - 1]
      <4>1. Starts(G(n - 1), n - 1) /\ Starts(G(n), (n - 1) + 1)
        BY <1>3, <3>1
      <4> HIDE DEF Starts
      <4> QED BY <4>1, <3>1, <1>2
    <3> QED BY <2>2, <3>1, <3>2, <3>3
  <2> QED BY <2>1, <2>2
<1> QED BY <1>4, <1>5

-----------------------------------------------------------------------------
(* What a declaration reaches. *)

(* C has all of D that it names.                                           *)
Closed(D, C) == \A e \in C, d \in D : Named(d, e) => d \in C

(* One round of the Go program's search through a file.                    *)
Round(D, X) == UNION {{e} \cup {d \in D : Named(d, e)} : e \in X}

LEMMA RoundAdds ==
  ASSUME NEW D, NEW X \in SUBSET D
  PROVE  /\ Round(D, X) \in SUBSET D
         /\ X \subseteq Round(D, X)
         /\ Round(D, X) = X => Closed(D, X)
         /\ \A C : X \subseteq C /\ Closed(D, C) => Round(D, X) \subseteq C
BY DEF Round, Closed

(* Reached is the result of as many rounds as the file has declarations.   *)
LEMMA ReachedInRounds ==
  ASSUME NEW D, NEW S \in SUBSET D
  PROVE  \E w \in [Nat -> SUBSET D] :
           /\ w[0] = S
           /\ \A n \in Nat : w[n + 1] = Round(D, w[n])
           /\ Reached(D, S) = w[Cardinality(D)]
<1> DEFINE step == [X \in SUBSET D |-> Round(D, X)]
           IsSearch(w) == w = [n \in Nat |->
             IF n = 0 THEN S
             ELSE UNION {{e} \cup {d \in D : Named(d, e)} : e \in w[n - 1]}]
           search == CHOOSE w : IsSearch(w)
<1>1. step \in [SUBSET D -> SUBSET D]
  BY RoundAdds
<1>2. PICK f \in [Nat -> SUBSET D] :
        f = [n \in Nat |-> IF n = 0 THEN S ELSE step[f[n - 1]]]
  <2> DEFINE T == SUBSET D
  <2>1. S \in T /\ step \in [T -> T]
    BY <1>1
  <2> HIDE DEF step, T
  <2>2. \E f \in [Nat -> T] : f = [n \in Nat |-> IF n = 0 THEN S ELSE step[f[n - 1]]]
    BY <2>1, Iteration
  <2> QED BY <2>2 DEF T
<1>3. IsSearch(f)
  <2>1. ASSUME NEW n \in Nat
        PROVE  f[n] = IF n = 0 THEN S ELSE Round(D, f[n - 1])
    <3>1. f[n] = IF n = 0 THEN S ELSE step[f[n - 1]]
      BY <1>2
    <3>2. n # 0 => f[n - 1] \in SUBSET D
      <4>1. n # 0 => n - 1 \in Nat
        OBVIOUS
      <4> QED BY <4>1
    <3> QED BY <3>1, <3>2
  <2> QED BY <1>2, <2>1 DEF Round
<1>4. IsSearch(search)
  <2> HIDE DEF IsSearch
  <2> QED BY <1>3
<1>5. Reached(D, S) = search[Cardinality(D)]
  BY DEF Reached
<1> HIDE DEF search
<1>6. /\ DOMAIN search = Nat /\ search[0] = S
      /\ \A n \in Nat : n # 0 => search[n] = Round(D, search[n - 1])
      /\ search = [n \in Nat |-> search[n]]
  BY <1>4 DEF Round
<1>7. ASSUME NEW n \in Nat
      PROVE  search[n + 1] = Round(D, search[n])
  <2>1. n + 1 \in Nat /\ n + 1 # 0 /\ (n + 1) - 1 = n
    OBVIOUS
  <2> QED BY <2>1, <1>6
<1>8. search \in [Nat -> SUBSET D]
  <2> DEFINE N == {n \in Nat : search[n] \in SUBSET D}
  <2>1. 0 \in N
    BY <1>6
  <2>2. \A n \in N : n + 1 \in N
    BY <1>7, RoundAdds
  <2> HIDE DEF N
  <2>3. N \in SUBSET Nat
    BY DEF N
  <2>4. N = Nat
    BY <2>1, <2>2, <2>3, Induction
  <2> QED BY <2>4, <1>6 DEF N
<1> QED BY <1>5, <1>6, <1>7, <1>8

(* As many rounds are enough: each that is not the last adds a declaration. *)
LEMMA RoundsSuffice ==
  ASSUME NEW D, IsFiniteSet(D), NEW w \in [Nat -> SUBSET D],
         \A n \in Nat : w[n + 1] = Round(D, w[n])
  PROVE  Closed(D, w[Cardinality(D)])
<1> DEFINE last == Cardinality(D)
<1>1. last \in Nat
  BY FS_CardinalityType
<1>2. \A n \in Nat : /\ w[n] \subseteq w[n + 1]
                     /\ w[n + 1] = w[n] => Closed(D, w[n])
  BY RoundAdds
<1>3. \A n \in Nat : /\ IsFiniteSet(w[n]) /\ Cardinality(w[n]) \in Nat
                     /\ Cardinality(w[n]) <= last
  BY FS_Subset, FS_CardinalityType
<1>4. \A n \in Nat : w[n + 1] = w[n] => w[n + 2] = w[n + 1]
  <2>1. \A n \in Nat : n + 1 \in Nat /\ (n + 1) + 1 = n + 2
    OBVIOUS
  <2> QED BY <2>1
<1> DEFINE N == {n \in Nat : Cardinality(w[n]) >= n \/ w[n + 1] = w[n]}
<1>5. 0 \in N
  BY <1>3
<1>6. ASSUME NEW n \in N
      PROVE  n + 1 \in N
  <2>1. n \in Nat /\ n + 1 \in Nat /\ (n + 1) + 1 = n + 2
    OBVIOUS
  <2>2. CASE w[n + 1] = w[n]
    BY <2>1, <2>2, <1>4
  <2>3. CASE w[n + 1] # w[n]
    <3>1. Cardinality(w[n]) >= n
      BY <2>3
    <3>2. Cardinality(w[n]) <= Cardinality(w[n + 1])
      BY <2>1, <1>2, <1>3, FS_Subset
    <3>3. Cardinality(w[n]) # Cardinality(w[n + 1])
      BY <2>1, <2>3, <1>2, <1>3, FS_Subset
    <3>4. Cardinality(w[n + 1]) >= n + 1
      BY <2>1, <3>1, <3>2, <3>3, <1>3
    <3> QED BY <2>1, <3>4
  <2> QED BY <2>2, <2>3
<1>7. N = Nat
  <2> HIDE DEF N
  <2>1. N \in SUBSET Nat
    BY DEF N
  <2> QED BY <1>5, <1>6, <2>1, Induction
<1>8. last + 1 \in N /\ last \in N /\ last + 1 \in Nat /\ (last + 1) + 1 = last + 2
  BY <1>1, <1>7
<1>9. w[last + 2] = w[last + 1]
  BY <1>1, <1>3, <1>8
<1>10. w[last + 1] = w[last]
  <2> SUFFICES ASSUME w[last + 1] # w[last]
               PROVE  FALSE
    OBVIOUS
  <2>1. Cardinality(w[last]) >= last
    BY <1>8
  <2>2. Cardinality(w[last]) = Cardinality(D)
    BY <2>1, <1>1, <1>3
  <2>3. w[last] = D
    BY <2>2, <1>1, FS_Subset
  <2>4. w[last] \subseteq w[last + 1] /\ w[last + 1] \subseteq D
    BY <1>1, <1>2
  <2> QED BY <2>3, <2>4
<1> QED BY <1>1, <1>2, <1>10

(* Reached is the least set that has S and what its members name.          *)
LEMMA ReachedIsClosure ==
  ASSUME NEW D \in SUBSET Decls, NEW S \in SUBSET D
  PROVE  /\ S \subseteq Reached(D, S) /\ Reached(D, S) \subseteq D
         /\ Closed(D, Reached(D, S))
         /\ \A C : S \subseteq C /\ Closed(D, C) => Reached(D, S) \subseteq C
<1>1. IsFiniteSet(D) /\ Cardinality(D) \in Nat
  BY MigrationAssumption, FS_Subset, FS_CardinalityType
<1>2. PICK w \in [Nat -> SUBSET D] :
        /\ w[0] = S
        /\ \A n \in Nat : w[n + 1] = Round(D, w[n])
        /\ Reached(D, S) = w[Cardinality(D)]
  BY ReachedInRounds
<1>3. Closed(D, Reached(D, S))
  BY <1>1, <1>2, RoundsSuffice
<1>4. S \subseteq Reached(D, S)
  <2> DEFINE N == {n \in Nat : S \subseteq w[n]}
  <2>1. 0 \in N /\ \A n \in N : n + 1 \in N
    BY <1>2, RoundAdds
  <2> HIDE DEF N
  <2>2. N = Nat
    <3>1. N \in SUBSET Nat
      BY DEF N
    <3> QED BY <2>1, <3>1, Induction
  <2> QED BY <1>1, <1>2, <2>2 DEF N
<1>5. ASSUME NEW C, S \subseteq C, Closed(D, C)
      PROVE  Reached(D, S) \subseteq C
  <2> DEFINE N == {n \in Nat : w[n] \subseteq C}
  <2>1. 0 \in N /\ \A n \in N : n + 1 \in N
    BY <1>2, <1>5, RoundAdds
  <2> HIDE DEF N
  <2>2. N = Nat
    <3>1. N \in SUBSET Nat
      BY DEF N
    <3> QED BY <2>1, <3>1, Induction
  <2> QED BY <1>1, <1>2, <2>2 DEF N
<1> QED BY <1>1, <1>2, <1>3, <1>4, <1>5

(* In a larger package more is reached from more.                          *)
LEMMA ReachedGrows ==
  ASSUME NEW E \in SUBSET Decls, NEW D \in SUBSET E,
         NEW T \in SUBSET E, NEW S \in SUBSET D, S \subseteq T
  PROVE  Reached(D, S) \subseteq Reached(E, T)
<1>1. T \subseteq Reached(E, T) /\ Closed(E, Reached(E, T))
  BY ReachedIsClosure
<1>2. Closed(D, Reached(E, T))
  BY <1>1 DEF Closed
<1> QED BY <1>1, <1>2, ReachedIsClosure

-----------------------------------------------------------------------------
(* The split. *)

(* A route's operations have no file yet.                                  *)
LEMMA NoTargets ==
  ASSUME NEW fs \in Checkout, NEW r \in SUBSET LegacyOps(fs), ~Blocked(fs),
         NEW o \in r
  PROVE  /\ o \in Ops /\ o \in Files /\ o \in Decls
         /\ fs[o] = Absent /\ Held(fs, o) = {}
<1>1. o \in Ops /\ o \in LegacyOps(fs)
  BY DEF LegacyOps
<1>2. fs[o] = Absent
  BY <1>1 DEF Blocked
<1> QED BY <1>1, <1>2, MigrationAssumption DEF Held, Files

(* What a file holds are declarations.                                     *)
LEMMA HeldDecls ==
  ASSUME NEW fs \in Checkout, NEW f \in Files
  PROVE  Held(fs, f) \subseteq Decls
BY DEF Checkout, Held

(* What the answer holds, file by file: what one route operation alone     *)
(* owns in one file is in that operation's file, all else stays.           *)
LEMMA TargetHolds ==
  ASSUME NEW fs \in Checkout, NEW r \in SUBSET LegacyOps(fs), ~Blocked(fs),
         NEW f \in Files
  PROVE  /\ f \in r => Held(Goal(fs, r), f) =
              UNION {Moved(Held(fs, s), Of(fs, s, r), f) : s \in DeclaredIn(fs, f)}
         /\ f \notin r => Held(Goal(fs, r), f) =
              IF f \in Sources(fs, r) THEN Rest(Held(fs, f), Of(fs, f, r))
                                      ELSE Held(fs, f)
         /\ Goal(fs, r)[f] \in {Absent} \cup SUBSET Decls
<1>1. Goal(fs, r)[f] = Target(fs, r, f)
  BY DEF Goal
<1>2. \A s \in Files, o \in Files : Moved(Held(fs, s), Of(fs, s, r), o) \subseteq Decls
  BY HeldDecls DEF Moved
<1>3. CASE f \in r
  <2> DEFINE all == UNION {Moved(Held(fs, s), Of(fs, s, r), f) : s \in DeclaredIn(fs, f)}
  <2>1. Target(fs, r, f) = all
    BY <1>3 DEF Target
  <2>2. all \subseteq Decls
    BY <1>2 DEF DeclaredIn
  <2>3. all # Absent
    BY <2>2, MigrationAssumption
  <2> QED BY <1>1, <1>3, <2>1, <2>2, <2>3 DEF Held
<1>4. CASE f \notin r /\ f \in Sources(fs, r)
  <2> DEFINE rest == Rest(Held(fs, f), Of(fs, f, r))
  <2>1. Target(fs, r, f) = IF rest = {} /\ f \in Legacy THEN Absent ELSE rest
    BY <1>4 DEF Target
  <2>2. rest \subseteq Decls
    BY HeldDecls DEF Rest
  <2>3. rest # Absent
    BY <2>2, MigrationAssumption
  <2> QED BY <1>1, <1>4, <2>1, <2>2, <2>3 DEF Held
<1>5. CASE f \notin r /\ f \notin Sources(fs, r)
  <2>1. Target(fs, r, f) = IF f \in Legacy /\ fs[f] = {} THEN Absent ELSE fs[f]
    BY <1>5 DEF Target
  <2>2. fs[f] \in {Absent} \cup SUBSET Decls
    BY DEF Checkout
  <2> QED BY <1>1, <1>5, <2>1, <2>2 DEF Held
<1> QED BY <1>3, <1>4, <1>5

(* A declaration moves to one operation's file or stays.                   *)
LEMMA MovedOrStays ==
  ASSUME NEW fs \in Checkout, NEW r \in SUBSET LegacyOps(fs), ~Blocked(fs),
         NEW f \in Files, NEW d \in Held(fs, f)
  PROVE  \/ d \in Held(Goal(fs, r), f)
         \/ /\ f \in Sources(fs, r)
            /\ \E o \in r : d \in Held(Goal(fs, r), o)
<1>1. f \notin r
  BY NoTargets
<1>2. CASE f \notin Sources(fs, r)
  BY <1>1, <1>2, TargetHolds
<1>3. CASE f \in Sources(fs, r) /\ d \in Rest(Held(fs, f), Of(fs, f, r))
  BY <1>1, <1>3, TargetHolds
<1>4. CASE f \in Sources(fs, r) /\ d \notin Rest(Held(fs, f), Of(fs, f, r))
  <2>1. PICK o \in Of(fs, f, r) : d \in Moved(Held(fs, f), Of(fs, f, r), o)
    BY <1>4 DEF Rest
  <2>2. o \in r /\ f \in DeclaredIn(fs, o)
    BY DEF Of, DeclaredIn
  <2>3. o \in Files
    BY <2>2, NoTargets
  <2>4. d \in Held(Goal(fs, r), o)
    BY <2>1, <2>2, <2>3, TargetHolds
  <2> QED BY <1>4, <2>2, <2>4
<1> QED BY <1>2, <1>3, <1>4

(* Where a declaration of the answer comes from.                           *)
LEMMA ComesFrom ==
  ASSUME NEW fs \in Checkout, NEW r \in SUBSET LegacyOps(fs), ~Blocked(fs),
         NEW f \in Files, NEW d \in Held(Goal(fs, r), f)
  PROVE  \E s \in Files :
           /\ d \in Held(fs, s)
           /\ \/ /\ f \in Of(fs, s, r)
                 /\ d \in Moved(Held(fs, s), Of(fs, s, r), f)
              \/ /\ f \notin r /\ f = s
                 /\ f \in Sources(fs, r) => d \in Rest(Held(fs, f), Of(fs, f, r))
<1>1. CASE f \in r
  <2>1. PICK s \in DeclaredIn(fs, f) : d \in Moved(Held(fs, s), Of(fs, s, r), f)
    BY <1>1, TargetHolds
  <2>2. s \in Files /\ d \in Held(fs, s) /\ f \in Of(fs, s, r)
    BY <1>1, <2>1 DEF DeclaredIn, Moved, Of
  <2> QED BY <2>1, <2>2
<1>2. CASE f \notin r
  <2>1. d \in Held(fs, f) /\ (f \in Sources(fs, r) => d \in Rest(Held(fs, f), Of(fs, f, r)))
    BY <1>2, TargetHolds DEF Rest
  <2> QED BY <1>2, <2>1
<1> QED BY <1>1, <1>2

(* No declaration moves to two operations, or moves and stays.             *)
LEMMA MovedOnce ==
  ASSUME NEW D, NEW ops, NEW o \in ops, NEW d \in Moved(D, ops, o)
  PROVE  /\ \A p \in ops : d \in Moved(D, ops, p) => p = o
         /\ d \notin Rest(D, ops)
BY DEF Moved, Rest

(* The answer passes the declaration checks.                               *)
LEMMA GoalPasses ==
  ASSUME NEW fs \in Checkout, NEW r \in SUBSET LegacyOps(fs), ~Blocked(fs),
         Separable(fs, r), Single(fs)
  PROVE  SameDeclarations(fs, Goal(fs, r)) /\ InOwnFiles(Goal(fs, r), r)
<1> DEFINE new == Goal(fs, r)
<1>1. Present(fs) = Present(new)
  <2>1. ASSUME NEW f \in Files, NEW d \in Held(fs, f)
        PROVE  d \in Present(new)
    <3>1. \/ d \in Held(new, f)
          \/ \E o \in r : d \in Held(new, o)
      BY MovedOrStays
    <3>2. \A o \in r : o \in Files
      BY NoTargets
    <3> QED BY <3>1, <3>2 DEF Present
  <2>2. ASSUME NEW f \in Files, NEW d \in Held(new, f)
        PROVE  d \in Present(fs)
    <3>1. \E s \in Files : d \in Held(fs, s)
      BY ComesFrom
    <3> QED BY <3>1 DEF Present
  <2> QED BY <2>1, <2>2 DEF Present
<1>2. Single(new)
  <2> SUFFICES ASSUME NEW d \in Decls, NEW f \in Files, NEW g \in Files,
                      d \in Held(new, f), d \in Held(new, g)
               PROVE  f = g
    BY DEF Single, DeclaredIn
  <2>1. PICK s \in Files :
          /\ d \in Held(fs, s)
          /\ \/ /\ f \in Of(fs, s, r)
                /\ d \in Moved(Held(fs, s), Of(fs, s, r), f)
             \/ /\ f \notin r /\ f = s
                /\ f \in Sources(fs, r) => d \in Rest(Held(fs, f), Of(fs, f, r))
    BY ComesFrom
  <2>2. PICK t \in Files :
          /\ d \in Held(fs, t)
          /\ \/ /\ g \in Of(fs, t, r)
                /\ d \in Moved(Held(fs, t), Of(fs, t, r), g)
             \/ /\ g \notin r /\ g = t
                /\ g \in Sources(fs, r) => d \in Rest(Held(fs, g), Of(fs, g, r))
    BY ComesFrom
  <2>3. s = t
    BY <2>1, <2>2 DEF Single, DeclaredIn
  <2>4. \A o \in Of(fs, s, r) : s \in Sources(fs, r)
    BY DEF Sources
  <2> QED BY <2>1, <2>2, <2>3, <2>4, MovedOnce
<1>3. InOwnFiles(new, r)
  <2> SUFFICES ASSUME NEW o \in r, NEW f \in Files, o \in Held(new, f)
               PROVE  f = o
    BY DEF InOwnFiles, DeclaredIn
  <2>1. PICK s \in Files :
          /\ o \in Held(fs, s)
          /\ \/ /\ f \in Of(fs, s, r)
                /\ o \in Moved(Held(fs, s), Of(fs, s, r), f)
             \/ /\ f \notin r /\ f = s
                /\ f \in Sources(fs, r) => o \in Rest(Held(fs, f), Of(fs, f, r))
    BY ComesFrom
  <2>2. o \in Of(fs, s, r) /\ s \in Sources(fs, r)
    BY <2>1 DEF Of, Sources
  <2>3. o \in Moved(Held(fs, s), Of(fs, s, r), o)
    BY <2>2 DEF Separable
  <2> QED BY <2>1, <2>2, <2>3, MovedOnce
<1> QED BY <1>1, <1>2, <1>3 DEF SameDeclarations

(* No operation's file is deleted.                                         *)
LEMMA OperationsStay ==
  ASSUME NEW fs \in Checkout, NEW r \in SUBSET LegacyOps(fs), NEW o \in Ops,
         Goal(fs, r)[o] = Absent
  PROVE  Goal(fs, r)[o] = fs[o]
<1>1. o \in Files /\ o \notin Legacy
  BY MigrationAssumption DEF Files
<1>2. Target(fs, r, o) = Absent
  BY <1>1 DEF Goal
<1>3. o \notin r
  <2> SUFFICES ASSUME o \in r
               PROVE  FALSE
    OBVIOUS
  <2> DEFINE all == UNION {Moved(Held(fs, s), Of(fs, s, r), o) : s \in DeclaredIn(fs, o)}
  <2>1. all \subseteq Decls
    BY HeldDecls DEF Moved, DeclaredIn
  <2> QED BY <1>2, <2>1, MigrationAssumption DEF Target
<1>4. o \notin Sources(fs, r)
  <2> SUFFICES ASSUME o \in Sources(fs, r)
               PROVE  FALSE
    OBVIOUS
  <2>1. Rest(Held(fs, o), Of(fs, o, r)) \subseteq Decls
    BY <1>1, HeldDecls DEF Rest
  <2>2. Target(fs, r, o) = Rest(Held(fs, o), Of(fs, o, r))
    BY <1>1, <1>3 DEF Target
  <2> QED BY <1>2, <2>1, <2>2, MigrationAssumption
<1> QED BY <1>1, <1>3, <1>4 DEF Goal, Target

(* A route consists of operations that are still to move.                  *)
LEMMA RoutesAreLegacy ==
  ASSUME NEW fs, NEW r \in Routes(fs)
  PROVE  r \subseteq LegacyOps(fs) /\ r \subseteq Ops
BY DEF Routes, LegacyOps

-----------------------------------------------------------------------------
(* Steps. *)

(* At first nothing is under way.                                          *)
LEMMA MigrationInit == Init => MigrationInv
<1> SUFFICES ASSUME Init
             PROVE  MigrationInv
  OBVIOUS
<1>1. files \in Checkout
  BY MigrationAssumption DEF Init, Checkout
<1>2. TypeOK
  BY <1>1, MigrationAssumption DEF Init, TypeOK
<1> QED
  BY <1>2 DEF Init, MigrationInv, WriteInv, OrderInv, CheckInv, RestoreInv,
     PlanInv, RefusalRestores

(* The plan is made and the analyzer answers.                              *)
LEMMA PlanKeeps ==
  ASSUME MigrationInv,
         (\E r \in Routes(files) : Analyze(r) \/ Inseparable(r)) \/ BlockPlan
  PROVE  MigrationInv'
<1>1. TypeOK
  BY DEF MigrationInv
<1>2. ASSUME NEW r \in Routes(files), Analyze(r)
      PROVE  MigrationInv'
  <2>1. /\ route' = r /\ before' = files /\ goal' = Goal(files, r)
        /\ todo' = Touched' /\ pc' = "write"
        /\ UNCHANGED <<files, committed, litter, outcome, faults>>
        /\ ~Blocked(files) /\ Separable(files, r)
    BY <1>2 DEF Analyze, Plan
  <2>2. r \in SUBSET LegacyOps(files) /\ r \subseteq Ops
    BY RoutesAreLegacy
  <2>3. files \in Checkout
    BY <1>1 DEF TypeOK
  <2>4. goal' \in Checkout
    BY <2>1, <2>2, <2>3, TargetHolds DEF Checkout, Goal
  <2>5. Touched' = {f \in Files : goal'[f] # files[f]}
    BY <2>1 DEF Touched
  <2>6. TypeOK'
    BY <1>1, <2>1, <2>2, <2>4, <2>5 DEF TypeOK
  <2>7. WriteInv' /\ OrderInv'
    BY <2>1, <2>5 DEF WriteInv, OrderInv
  <2>8. PlanInv'
    BY <2>1, <2>2 DEF PlanInv
  <2>9. CheckInv' /\ RestoreInv' /\ RefusalRestores'
    BY <2>1 DEF CheckInv, RestoreInv, RefusalRestores
  <2> QED BY <2>6, <2>7, <2>8, <2>9 DEF MigrationInv
<1>3. ASSUME NEW r \in Routes(files), Inseparable(r)
      PROVE  MigrationInv'
  <2>1. /\ route' = r /\ before' = files /\ goal' = files /\ pc' = "idle"
        /\ outcome' = "refused"
        /\ UNCHANGED <<files, committed, litter, todo, faults>>
    BY <1>3 DEF Inseparable, Plan
  <2>2. r \subseteq Ops
    BY RoutesAreLegacy
  <2> QED BY <1>1, <2>1, <2>2 DEF MigrationInv, TypeOK, WriteInv, OrderInv,
             CheckInv, RestoreInv, PlanInv, RefusalRestores
<1>4. CASE BlockPlan
  <2>1. /\ pc' = "idle" /\ outcome' = "blocked"
        /\ UNCHANGED <<files, committed, litter, route, before, goal, todo, faults>>
    BY <1>4 DEF BlockPlan
  <2> QED BY <1>1, <2>1 DEF MigrationInv, TypeOK, WriteInv, OrderInv,
             CheckInv, RestoreInv, PlanInv, RefusalRestores
<1> QED BY <1>2, <1>3, <1>4

(* A file gets its answer, or is deleted.                                  *)
LEMMA WriteKeeps ==
  ASSUME MigrationInv, NEW f \in Files, WriteFile(f) \/ RemoveFile(f)
  PROVE  MigrationInv'
<1>1. /\ TypeOK /\ WriteInv /\ OrderInv /\ PlanInv
      /\ files \in Checkout /\ goal \in Checkout /\ before \in Checkout
      /\ todo \subseteq Files
  BY DEF MigrationInv, TypeOK
<1>2. /\ pc = "write" /\ f \in todo
      /\ files' = [files EXCEPT ![f] = goal[f]]
      /\ todo' = todo \ {f}
      /\ pc' = IF todo' = {} THEN "check" ELSE "write"
      /\ UNCHANGED <<committed, litter, route, before, goal, outcome, faults>>
      /\ FirstOf(Writes, f) \/ Writes = {}
  BY DEF WriteFile, RemoveFile, Put, NextWrite, FirstOf, Writes
<1>3. /\ todo \subseteq Touched
      /\ \A g \in Files : files[g] = IF g \in todo THEN before[g] ELSE goal[g]
  BY <1>1, <1>2 DEF WriteInv
<1>4. Touched' = Touched
  BY <1>2 DEF Touched
<1>5. TypeOK'
  <2>1. files' \in Checkout
    BY <1>1, <1>2 DEF Checkout
  <2> QED BY <1>1, <1>2, <2>1 DEF TypeOK
<1>6. \A g \in Files : files'[g] = IF g \in todo' THEN before'[g] ELSE goal'[g]
  BY <1>1, <1>2, <1>3 DEF Checkout
<1>7. WriteInv'
  BY <1>2, <1>3, <1>4, <1>6 DEF WriteInv
<1>8. CheckInv'
  <2> SUFFICES ASSUME todo' = {}
               PROVE  files' = goal'
    BY <1>2 DEF CheckInv
  <2>1. files' \in Checkout /\ goal' \in Checkout
    BY <1>5 DEF TypeOK
  <2> QED BY <1>6, <2>1 DEF Checkout
<1>9. OrderInv'
  <2> SUFFICES ASSUME NEW l \in Legacy, l \in Touched \ todo', NEW o \in todo' \cap Ops
               PROVE  FALSE
    BY <1>4 DEF OrderInv
  <2>1. l = f
    BY <1>1, <1>2 DEF OrderInv
  <2>2. o \in Touched /\ o \in todo
    BY <1>2, <1>3
  <2>3. goal[o] # Absent
    <3>1. goal = Goal(before, route) /\ route \subseteq LegacyOps(before)
      BY <1>1, <1>2 DEF PlanInv
    <3> QED BY <1>1, <2>2, <3>1, OperationsStay DEF Touched
  <2>4. o \in Writes
    BY <2>2, <2>3 DEF Writes
  <2>5. Precedes(f, o)
    BY <1>2, <2>4 DEF FirstOf
  <2>6. PICK i \in DOMAIN Order, j \in DOMAIN Order :
          Order[i] = f /\ Order[j] = o /\ i <= j
    BY <2>5 DEF Precedes
  <2>7. j < i
    BY <2>1, <2>6, OrderAssumption
  <2>8. i \in Nat /\ j \in Nat
    BY MigrationAssumption
  <2> QED BY <2>6, <2>7, <2>8
<1>10. PlanInv' /\ RestoreInv' /\ RefusalRestores'
  BY <1>1, <1>2 DEF PlanInv, RestoreInv, RefusalRestores
<1> QED BY <1>5, <1>7, <1>8, <1>9, <1>10 DEF MigrationInv

(* The roll-back begins.                                                   *)
LEMMA RollBackKeeps ==
  ASSUME MigrationInv, WriteFails \/ Reject \/ TestsFail
  PROVE  MigrationInv'
<1>1. /\ TypeOK /\ WriteInv /\ CheckInv
      /\ pc \in {"write", "check"} /\ pc' = "restore" /\ todo' = Touched
      /\ litter' \subseteq litter \cup Files
      /\ UNCHANGED <<files, committed, route, before, goal, outcome>>
      /\ faults' = faults \/ (faults < MaxFaults /\ faults' = faults + 1)
  BY DEF MigrationInv, WriteFails, Reject, TestsFail, RollBack, BackedUp, Fault,
     TypeOK, Writes
<1>2. faults' \in 0..MaxFaults
  BY <1>1, MigrationAssumption DEF TypeOK
<1>3. TypeOK'
  BY <1>1, <1>2 DEF TypeOK, Touched
<1>4. \A f \in Files : f \notin Touched => files[f] = before[f]
  BY <1>1 DEF WriteInv, CheckInv, Touched
<1>5. RestoreInv'
  BY <1>1, <1>4 DEF RestoreInv
<1> QED BY <1>1, <1>3, <1>5 DEF MigrationInv, WriteInv, OrderInv, CheckInv,
           PlanInv, RefusalRestores

(* A file is put back.                                                     *)
LEMMA RestoreKeeps ==
  ASSUME MigrationInv, NEW f \in Files, RestoreFile(f)
  PROVE  MigrationInv'
<1>1. /\ TypeOK /\ RestoreInv
      /\ files \in Checkout /\ before \in Checkout
      /\ pc = "restore"
      /\ files' = [files EXCEPT ![f] = before[f]]
      /\ todo' = todo \ {f}
      /\ \/ todo' = {} /\ pc' = "idle" /\ outcome' = "refused"
         \/ todo' # {} /\ UNCHANGED <<pc, outcome>>
      /\ UNCHANGED <<committed, litter, route, before, goal, faults>>
  BY DEF MigrationInv, TypeOK, RestoreFile, Put
<1>2. files' \in Checkout
  BY <1>1 DEF Checkout
<1>3. TypeOK'
  BY <1>1, <1>2 DEF TypeOK
<1>4. \A g \in Files : g \notin todo' => files'[g] = before'[g]
  BY <1>1 DEF RestoreInv, Checkout
<1>5. RefusalRestores'
  <2> SUFFICES ASSUME todo' = {}
               PROVE  files' = before'
    BY <1>1 DEF RefusalRestores
  <2> QED BY <1>1, <1>2, <1>4 DEF Checkout
<1>6. RestoreInv'
  BY <1>4 DEF RestoreInv
<1> QED BY <1>1, <1>3, <1>5, <1>6 DEF MigrationInv, WriteInv, OrderInv,
           CheckInv, PlanInv

(* The end of a run, and what the operator does.                           *)
LEMMA EndKeeps ==
  ASSUME MigrationInv, Accept \/ Stop \/ Commit \/ Reset
  PROVE  MigrationInv'
<1>1. /\ TypeOK
      /\ pc' = "idle" /\ outcome' \in {"applied", "stopped", "none"}
      /\ todo' \in {todo, {}} /\ litter' \in {litter, {}}
      /\ files' \in {files, committed} /\ committed' \in {files, committed}
      /\ UNCHANGED <<route, before, goal>>
      /\ faults' = faults \/ (faults < MaxFaults /\ faults' = faults + 1)
  BY DEF MigrationInv, Accept, Stop, Commit, Reset, Fault
<1>2. faults' \in 0..MaxFaults
  BY <1>1, MigrationAssumption DEF TypeOK
<1>3. TypeOK'
  BY <1>1, <1>2 DEF TypeOK
<1> QED BY <1>1, <1>3 DEF MigrationInv, WriteInv, OrderInv, CheckInv,
           RestoreInv, PlanInv, RefusalRestores

-----------------------------------------------------------------------------
(* Theorems. *)

(* The invariant holds through every write, failure, stop and reset.       *)
THEOREM MigrationInvariant == Spec => []MigrationInv
<1>1. MigrationInv /\ [Next]_vars => MigrationInv'
  <2> SUFFICES ASSUME MigrationInv, [Next]_vars
               PROVE  MigrationInv'
    OBVIOUS
  <2>1. CASE (\E r \in Routes(files) : Analyze(r) \/ Inseparable(r)) \/ BlockPlan
    BY <2>1, PlanKeeps
  <2>2. CASE Apply
    BY <2>2, WriteKeeps, RestoreKeeps, RollBackKeeps, EndKeeps DEF Apply
  <2>3. CASE WriteFails \/ TestsFail
    BY <2>3, RollBackKeeps
  <2>4. CASE Stop \/ Commit \/ Reset
    BY <2>4, EndKeeps
  <2>5. CASE UNCHANGED vars
    BY <2>5 DEF vars, MigrationInv, TypeOK, WriteInv, OrderInv, CheckInv,
       RestoreInv, PlanInv, RefusalRestores, Touched
  <2> QED BY <2>1, <2>2, <2>3, <2>4, <2>5 DEF Next
<1> QED BY <1>1, MigrationInit, PTL DEF Spec

(* The checkout, the plan and the answer keep their types.                 *)
THEOREM TypeCorrect == Spec => []TypeOK
<1>1. MigrationInv => TypeOK
  BY DEF MigrationInv
<1> QED BY <1>1, MigrationInvariant, PTL

(* A refused migration has put every file back (the except branch of       *)
(* apply_operation_file_migration), whatever failed and however often; the *)
(* copy a failed write was making (litter) is none of them.                *)
THEOREM RefusalsRestore == Spec => []RefusalRestores
<1>1. MigrationInv => RefusalRestores
  BY DEF MigrationInv
<1> QED BY <1>1, MigrationInvariant, PTL

(* The split of the Go program passes the checks that follow it            *)
(* (validate_semantic_preservation, validate_operation_file_correspondence)*)
(* in every package that declares everything once; they do not ask which   *)
(* file a helper is in.                                                    *)
THEOREM SplitsPass == Spec => []SplitPassesChecks
<1>1. MigrationInv => SplitPassesChecks
  <2> SUFFICES ASSUME MigrationInv, pc = "check", Single(before)
               PROVE  ChecksPass
    BY DEF SplitPassesChecks
  <2>1. files = Goal(before, route) /\ route \in SUBSET LegacyOps(before)
        /\ ~Blocked(before) /\ Separable(before, route) /\ before \in Checkout
    BY DEF MigrationInv, CheckInv, PlanInv, TypeOK
  <2> QED BY <2>1, GoalPasses DEF ChecksPass
<1> QED BY <1>1, MigrationInvariant, PTL

(* Whenever a process is killed while it writes or checks, what a legacy   *)
(* file declared is in some file: operations' files are written before the *)
(* legacy files shrink.                                                    *)
THEOREM NothingIsLost == Spec => []NothingLostByRoute
<1>1. MigrationInv => NothingLostByRoute
  <2> SUFFICES ASSUME MigrationInv, pc \in {"write", "check"},
                      NEW f \in Legacy, NEW d \in Held(before, f)
               PROVE  d \in Present(files)
    BY DEF NothingLostByRoute
  <2>1. /\ goal = Goal(before, route) /\ route \in SUBSET LegacyOps(before)
        /\ ~Blocked(before) /\ before \in Checkout /\ f \in Files
    BY DEF MigrationInv, PlanInv, TypeOK, Files
  <2>2. CASE files[f] = before[f]
    BY <2>1, <2>2 DEF Held, Present
  <2>3. CASE files[f] # before[f]
    <3>1. \/ d \in Held(goal, f)
          \/ \E o \in route : d \in Held(goal, o)
      BY <2>1, MovedOrStays
    <3>2. PICK g \in Files : d \in Held(goal, g) /\ (g = f \/ g \in Ops)
      BY <2>1, <3>1, NoTargets
    <3>3. files[g] = goal[g]
      <4>1. CASE pc = "check"
        BY <4>1 DEF MigrationInv, CheckInv
      <4>2. CASE pc = "write"
        <5>1. \A h \in Files : files[h] = IF h \in todo THEN before[h] ELSE goal[h]
          BY <4>2 DEF MigrationInv, WriteInv
        <5>2. f \in Touched \ todo
          BY <2>1, <2>3, <5>1 DEF Touched
        <5>3. todo \cap Ops = {}
          BY <4>2, <5>2 DEF MigrationInv, OrderInv
        <5> QED BY <3>2, <5>1, <5>2, <5>3
      <4> QED BY <4>1, <4>2
    <3> QED BY <3>2, <3>3 DEF Held, Present
  <2> QED BY <2>2, <2>3
<1> QED BY <1>1, MigrationInvariant, PTL

-----------------------------------------------------------------------------
(* Operations that have their files. *)

(* The names that begin with an operation's, and what they reach in the    *)
(* whole package: all that the operation may ever take with it.            *)
Roots(o) == {d \in Decls : \E i \in DOMAIN Begins[d] : Begins[d][i] = o}

Pulls(o) == Reached(Decls, Roots(o))

(* No two operations pull each other.                                      *)
PullOneWay == \A o, p \in Ops : o \in Pulls(p) /\ p \in Pulls(o) => o = p

(* An operation's file has only operations that it pulls; it does when the *)
(* tool made it.                                                           *)
PulledTogether(fs) == \A p, o \in Ops : o \in Held(fs, p) => o \in Pulls(p)

(* Every operation that had its file has it still.                         *)
StaysPut == \A o \in Ops : o \in Held(before, o) => o \in Held(files, o)

StayInv ==
  /\ PulledTogether(files) /\ PulledTogether(committed)
  /\ PulledTogether(before) /\ PulledTogether(goal)
  /\ pc \in {"write", "check"} \/ outcome = "applied" => StaysPut

(* Whatever moves to an operation's file is pulled by the operation.       *)
LEMMA MovedIsPulled ==
  ASSUME NEW D \in SUBSET Decls, NEW ops, NEW o \in ops, NEW d \in Moved(D, ops, o)
  PROVE  d \in Pulls(o)
<1> DEFINE S == {e \in D : DirectOwner(e, ops, o)}
<1>1. d \in Reached(D, S)
  BY DEF Moved, Owners
<1>2. S \in SUBSET D /\ S \subseteq Roots(o) /\ Roots(o) \in SUBSET Decls
  BY DEF DirectOwner, Roots
<1> HIDE DEF S
<1>3. Reached(D, S) \subseteq Reached(Decls, Roots(o))
  BY <1>2, ReachedGrows
<1> QED BY <1>1, <1>3 DEF Pulls

(* The answer's files are pulled together if the plan's were.              *)
LEMMA GoalPulledTogether ==
  ASSUME NEW fs \in Checkout, NEW r \in SUBSET LegacyOps(fs), ~Blocked(fs),
         PulledTogether(fs)
  PROVE  PulledTogether(Goal(fs, r))
<1> SUFFICES ASSUME NEW p \in Ops, NEW o \in Ops, o \in Held(Goal(fs, r), p)
             PROVE  o \in Pulls(p)
  BY DEF PulledTogether
<1>1. p \in Files
  BY DEF Files
<1>2. PICK s \in Files :
        /\ o \in Held(fs, s)
        /\ \/ /\ p \in Of(fs, s, r)
              /\ o \in Moved(Held(fs, s), Of(fs, s, r), p)
           \/ p \notin r /\ p = s
  BY <1>1, ComesFrom
<1>3. Held(fs, s) \in SUBSET Decls
  BY HeldDecls
<1> QED BY <1>2, <1>3, MovedIsPulled DEF PulledTogether

(* No route takes an operation out of its own file (Rest): whoever took it *)
(* would have been pulled there by the operation it pulls.                 *)
LEMMA GoalStaysPut ==
  ASSUME PullOneWay,
         NEW fs \in Checkout, NEW r \in SUBSET LegacyOps(fs), ~Blocked(fs),
         PulledTogether(fs),
         NEW p \in Ops, p \in Held(fs, p)
  PROVE  p \in Held(Goal(fs, r), p)
<1>1. p \in Files /\ Held(fs, p) \in SUBSET Decls
  BY HeldDecls DEF Files
<1>2. p \notin r
  BY NoTargets
<1>3. CASE p \notin Sources(fs, r)
  BY <1>1, <1>2, <1>3, TargetHolds
<1>4. CASE p \in Sources(fs, r)
  <2> SUFFICES ASSUME NEW o \in Of(fs, p, r), p \in Moved(Held(fs, p), Of(fs, p, r), o)
               PROVE  FALSE
    BY <1>1, <1>2, <1>4, TargetHolds DEF Rest
  <2>1. o \in r /\ o \in Ops /\ o \in Held(fs, p)
    BY DEF Of, LegacyOps
  <2>2. p \in Pulls(o)
    BY <1>1, MovedIsPulled
  <2>3. o \in Pulls(p)
    BY <2>1 DEF PulledTogether
  <2> QED BY <1>2, <2>1, <2>2, <2>3 DEF PullOneWay
<1> QED BY <1>3, <1>4

(* Every step of refactor-sdk, of the operator and of the disk.            *)
LEMMA StayKeeps ==
  ASSUME PullOneWay, MigrationInv, StayInv, Next
  PROVE  StayInv'
<1>1. TypeOK /\ files \in Checkout /\ goal \in Checkout /\ before \in Checkout
  BY DEF MigrationInv, TypeOK
<1>2. ASSUME NEW r \in Routes(files), Analyze(r)
      PROVE  StayInv'
  <2>1. r \in SUBSET LegacyOps(files)
    BY RoutesAreLegacy
  <2>2. /\ ~Blocked(files) /\ before' = files /\ goal' = Goal(files, r)
        /\ UNCHANGED <<files, committed>>
    BY <1>2 DEF Analyze, Plan
  <2>3. PulledTogether(goal')
    BY <1>1, <2>1, <2>2, GoalPulledTogether DEF StayInv
  <2> QED BY <2>2, <2>3 DEF StayInv, StaysPut, PulledTogether, Held
<1>3. ASSUME NEW r \in Routes(files), Inseparable(r)
      PROVE  StayInv'
  BY <1>3 DEF Inseparable, Plan, StayInv, StaysPut, PulledTogether, Held
<1>4. CASE BlockPlan
  BY <1>4 DEF BlockPlan, StayInv, StaysPut, PulledTogether, Held
<1>5. ASSUME NEW f \in Files, WriteFile(f) \/ RemoveFile(f)
      PROVE  StayInv'
  <2>1. /\ pc = "write" /\ files' = [files EXCEPT ![f] = goal[f]]
        /\ UNCHANGED <<committed, before, goal>>
    BY <1>5 DEF WriteFile, RemoveFile, Put
  <2>2. \A g \in Files : files'[g] = IF g = f THEN goal[g] ELSE files[g]
    BY <1>1, <2>1 DEF Checkout
  <2>3. PulledTogether(files')
    BY <2>2 DEF PulledTogether, Held, StayInv, Files
  <2>4. StaysPut'
    <3> SUFFICES ASSUME NEW o \in Ops, o \in Held(before, o)
                 PROVE  o \in Held(files', o)
      BY <2>1 DEF StaysPut, Held
    <3>1. o \in Held(files, o) /\ PulledTogether(before)
      BY <2>1 DEF StayInv, StaysPut
    <3>2. /\ goal = Goal(before, route) /\ route \in SUBSET LegacyOps(before)
          /\ ~Blocked(before)
      BY <2>1 DEF MigrationInv, PlanInv
    <3>3. o \in Held(goal, o)
      BY <1>1, <3>1, <3>2, GoalStaysPut
    <3> QED BY <2>2, <3>1, <3>3 DEF Held, Files
  <2> QED BY <2>1, <2>3, <2>4 DEF StayInv, PulledTogether, Held
<1>6. ASSUME NEW f \in Files, RestoreFile(f)
      PROVE  StayInv'
  <2>1. /\ pc = "restore" /\ files' = [files EXCEPT ![f] = before[f]]
        /\ UNCHANGED <<committed, before, goal>>
        /\ pc' \in {"restore", "idle"} /\ outcome' \in {outcome, "refused"}
    BY <1>6 DEF RestoreFile, Put
  <2>2. \A g \in Files : files'[g] = IF g = f THEN before[g] ELSE files[g]
    BY <1>1, <2>1 DEF Checkout
  <2>3. PulledTogether(files')
    BY <2>2 DEF PulledTogether, Held, StayInv, Files
  <2>4. StaysPut => StaysPut'
    BY <2>1, <2>2 DEF StaysPut, Held, Files
  <2> QED BY <2>1, <2>3, <2>4 DEF StayInv, PulledTogether, Held
<1>7. CASE Accept \/ Reject \/ WriteFails \/ TestsFail \/ Stop
  <2>1. /\ UNCHANGED <<files, committed, before, goal>>
        /\ outcome' = "applied" => outcome = "applied" \/ pc = "check"
        /\ pc' \in {"restore", "idle"}
    BY <1>7 DEF Accept, Reject, WriteFails, TestsFail, Stop, RollBack
  <2> QED BY <2>1 DEF StayInv, StaysPut, PulledTogether, Held
<1>8. CASE Commit \/ Reset
  BY <1>8 DEF Commit, Reset, StayInv, PulledTogether, Held
<1> QED BY <1>2, <1>3, <1>4, <1>5, <1>6, <1>7, <1>8 DEF Next, Apply

(* An operation that has its file keeps it when other routes are migrated, *)
(* in any order, with any faults, in every package whose operations do not *)
(* pull each other and whose operations' files were made by the tool.      *)
THEOREM MigratedStays ==
  ASSUME PullOneWay, \A fs \in Layouts : PulledTogether(fs)
  PROVE  Spec => MigratedStaysInPlace
<1>1. Init => StayInv
  BY DEF Init, StayInv, StaysPut
<1>2. MigrationInv /\ StayInv /\ [Next]_vars => StayInv'
  <2>1. StayInv /\ UNCHANGED vars => StayInv'
    BY DEF vars, StayInv, StaysPut, PulledTogether, Held
  <2> QED BY <2>1, StayKeeps
<1>3. StayInv /\ [Next]_vars =>
        [outcome' = "applied" =>
           \A o \in Ops : o \in Held(before, o) => o \in Held(files, o)]_vars
  <2> SUFFICES ASSUME StayInv, Next, outcome' = "applied"
               PROVE  outcome = "applied" \/ pc = "check"
    BY DEF StayInv, StaysPut
  <2> QED BY DEF Next, Apply, Analyze, Inseparable, BlockPlan, WriteFile, RemoveFile,
             RestoreFile, Accept, Reject, WriteFails, TestsFail, Stop, Commit, Reset,
             RollBack, Fault
<1> QED BY <1>1, <1>2, <1>3, MigrationInvariant, PTL DEF Spec, MigratedStaysInPlace
=============================================================================
