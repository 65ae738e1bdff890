-------------------------- MODULE DurabilityProofs --------------------------
(***************************************************************************)
(* What survives a restart, for any number of windows, deaths, faults and  *)
(* presses of the button: a halt stands until a human acts, a window is    *)
(* entered once per life, and the two files tell what happened, but for    *)
(* what each death and each failed write can cost.                         *)
(*                                                                         *)
(* Sum is a fold, that is a recursive function on the subsets of a domain. *)
(* What is needed of it is proved by descent: a least counterexample among *)
(* the subsets of a finite set has a smaller one.                          *)
(***************************************************************************)
EXTENDS Durability, FiniteSetTheorems, SequenceTheorems, WellFoundedInduction, TLAPS

(* A row is being written from the settlement to the end of its save; a     *)
(* process that is down runs no handler.                                    *)
RowOK ==
    /\ pc = "append" => row # None
    /\ pc \in {"idle", "enter"} => row = None
    /\ ~newline => ledger # <<>>
    /\ ~up => pc = "idle" /\ after = "idle" /\ ~resume_flag

(* A halt that nothing lifted is in force, in memory or on disk.            *)
HaltOK ==
    owed /\ ~hole => IF up THEN st.halted /\ ~resume_flag /\ pc # "enter" /\ after # "enter"
                     ELSE DiskHalted

(* The window of the clock may be entered once more only if its last entry  *)
(* was made in a life that is over.                                         *)
EntryOK ==
    /\ OneEntryPerLife
    /\ \A w \in Windows : w > window => entries[w] = 0
    /\ last_played # window => entries[window] <= restarts[window]

(* The row still to be appended, and the one whose save is under way.       *)
Pending == IF pc = "append" THEN 1 ELSE 0
Settling == IF row # None THEN 1 ELSE 0

(* The memory, the ledger and the state file count the same windows, but    *)
(* for the settlement under way, the deaths and the failed writes.          *)
CountOK ==
    /\ up /\ pc = "rename" => tmp = st
    /\ ~unread => /\ Saved <= Rows + faults
                  /\ Rows + Pending <= Saved + Crashes + faults + Settling
                  /\ up => /\ st.windows_played <= Rows + faults + Pending
                           /\ Rows + Pending <= st.windows_played + Crashes + faults

(* The lines that cannot be read, and the last one when a death or a fault  *)
(* left it without its newline: the next row will join it.                  *)
Doubtful == {i \in DOMAIN ledger : \/ Len(ledger[i]) # 1 \/ i \in torn
                                   \/ i = Len(ledger) /\ ~newline /\ pc # "newline"}
LineOK == Cardinality(Doubtful) <= Crashes + faults

(* The inductive invariant.                                                 *)
DInv == TypeOK /\ RowOK /\ HaltOK /\ EntryOK /\ EntriesAreTold /\ CountOK /\ LineOK

-----------------------------------------------------------------------------
(* Sum, unfolded: the element the fold picks, the recursive function, and   *)
(* its value on a subset s of the domain S.                                 *)
Pick(s) == CHOOSE x \in s : TRUE
Adds(f, S, g) ==
    g = [s \in SUBSET S |-> IF s = {} THEN 0 ELSE f[Pick(s)] + g[s \ {Pick(s)}]]
SumOver(f, S, s) == (CHOOSE g : Adds(f, S, g))[s]

(* The fold of the community modules is that function.                      *)
LEMMA SumIs == ASSUME NEW f PROVE Sum(f) = SumOver(f, DOMAIN f, DOMAIN f)
BY Zenon DEF Sum, SumOver, Adds, Pick, FoldFunction, FoldFunctionOnSet, MapThenFoldSet

(* A set of naturals has a least element ...                                *)
LEMMA Least ==
    ASSUME NEW N \in SUBSET Nat, N # {}
    PROVE  \E n \in N : \A m \in N : n <= m
<1>1. PICK n \in N : \A m \in N : <<m, n>> \notin OpToRel(<, Nat)
  BY NatLessThanWellFounded, WFMin
<1>2. \A m \in N : ~(m < n)
  BY <1>1 DEF OpToRel
<1>. QED
  BY <1>2

(* ... and a family of finite sets one that contains no other.              *)
LEMMA LeastSet ==
    ASSUME NEW S, IsFiniteSet(S), NEW F \in SUBSET SUBSET S, F # {}
    PROVE  \E T \in F : \A U \in F : ~(U \subseteq T /\ U # T)
<1>. DEFINE N == {Cardinality(T) : T \in F}
<1>1. \A T \in F : IsFiniteSet(T) /\ Cardinality(T) \in Nat
  BY FS_Subset, FS_CardinalityType
<1>2. N \in SUBSET Nat /\ N # {}
  BY <1>1
<1>. HIDE DEF N
<1>3. PICK n \in N : \A m \in N : n <= m
  BY <1>2, Least
<1>4. PICK T \in F : n = Cardinality(T)
  BY DEF N
<1>5. ASSUME NEW U \in F, U \subseteq T, U # T
      PROVE  FALSE
  <2>1. Cardinality(U) <= Cardinality(T) /\ Cardinality(U) # Cardinality(T)
    BY <1>1, <1>5, FS_Subset
  <2>2. n <= Cardinality(U)
    BY <1>3 DEF N
  <2>. QED
    BY <1>1, <1>4, <2>1, <2>2
<1>. QED
  BY <1>5

(* The recursion defines a function: on the subsets of at most n elements,  *)
(* for each n, or there would be a least n for which it does not.           *)
LEMMA SumExists ==
    ASSUME NEW f, NEW S, IsFiniteSet(S)
    PROVE  \E g : Adds(f, S, g)
<1>. DEFINE Below(n) == {s \in SUBSET S : Cardinality(s) <= n}
            Value(g, s) == IF s = {} THEN 0 ELSE f[Pick(s)] + g[s \ {Pick(s)}]
            Builds(n, g) == g = [s \in Below(n) |-> Value(g, s)]
            N == {n \in Nat : ~ \E g : Builds(n, g)}
<1>1. \A s \in SUBSET S : IsFiniteSet(s) /\ Cardinality(s) \in Nat
  BY FS_Subset, FS_CardinalityType
<1>2. N = {}
  <2>. SUFFICES ASSUME N # {} PROVE FALSE
    OBVIOUS
  <2>1. PICK n \in N : \A m \in N : n <= m
    BY Least
  <2>2. n \in Nat /\ ~ \E g : Builds(n, g)
    OBVIOUS
  <2>3. CASE n = 0
    <3>. DEFINE h == [s \in Below(n) |-> 0]
    <3>1. \A s \in Below(n) : s = {}
      BY <1>1, <2>3, FS_EmptySet
    <3>2. Builds(n, h)
      BY <3>1
    <3>. QED
      BY <2>2, <3>2
  <2>4. CASE n # 0
    <3>1. n - 1 \in Nat /\ n - 1 \notin N
      <4>1. n - 1 \in Nat /\ ~(n <= n - 1)
        BY <2>2, <2>4
      <4>. HIDE DEF N
      <4>. QED
        BY <2>1, <4>1
    <3>2. PICK g : Builds(n - 1, g)
      BY <3>1
    <3>. DEFINE h == [s \in Below(n) |-> Value(g, s)]
    <3>3. \A s \in Below(n - 1) : s \in Below(n) /\ h[s] = g[s]
      <4>. SUFFICES ASSUME NEW s \in Below(n - 1) PROVE s \in Below(n) /\ h[s] = g[s]
        OBVIOUS
      <4>1. s \in Below(n)
        BY <1>1, <2>2
      <4>2. g[s] = Value(g, s)
        BY <3>2
      <4>. QED
        BY <4>1, <4>2
    <3>4. \A s \in Below(n) : s # {} => s \ {Pick(s)} \in Below(n - 1)
      <4>. SUFFICES ASSUME NEW s \in Below(n), s # {} PROVE s \ {Pick(s)} \in Below(n - 1)
        OBVIOUS
      <4>1. Pick(s) \in s
        BY DEF Pick
      <4>2. Cardinality(s \ {Pick(s)}) = Cardinality(s) - 1
        BY <1>1, <4>1, FS_RemoveElement
      <4>. QED
        BY <1>1, <2>2, <4>2
    <3>5. \A s \in Below(n) : Value(h, s) = Value(g, s)
      BY <3>3, <3>4
    <3>6. Builds(n, h)
      BY <3>5
    <3>. QED
      BY <2>2, <3>6
  <2>. QED
    BY <2>3, <2>4
<1>3. Cardinality(S) \in Nat /\ Cardinality(S) \notin N
  BY <1>2, FS_CardinalityType
<1>4. PICK g : Builds(Cardinality(S), g)
  BY <1>3
<1>5. Below(Cardinality(S)) = SUBSET S
  BY FS_Subset
<1>. QED
  BY <1>4, <1>5 DEF Adds

(* ... and the function satisfies the recursion.                            *)
LEMMA SumOverDef ==
    ASSUME NEW f, NEW S, IsFiniteSet(S), NEW s \in SUBSET S
    PROVE  SumOver(f, S, s) = IF s = {} THEN 0
                              ELSE f[Pick(s)] + SumOver(f, S, s \ {Pick(s)})
<1>. DEFINE G == CHOOSE g : Adds(f, S, g)
<1>1. Adds(f, S, G)
  BY SumExists, Zenon
<1>2. SumOver(f, S, s) = G[s] /\ SumOver(f, S, s \ {Pick(s)}) = G[s \ {Pick(s)}]
  BY DEF SumOver
<1>. HIDE DEF G
<1>3. G = [t \in SUBSET S |-> IF t = {} THEN 0 ELSE f[Pick(t)] + G[t \ {Pick(t)}]]
  BY <1>1 DEF Adds
<1>4. G[s] = IF s = {} THEN 0 ELSE f[Pick(s)] + G[s \ {Pick(s)}]
  BY <1>3
<1>. QED
  BY <1>2, <1>4

(* Sums of naturals are naturals.                                           *)
LEMMA SumOverType ==
    ASSUME NEW S, IsFiniteSet(S), NEW f \in [S -> Nat], NEW s \in SUBSET S
    PROVE  SumOver(f, S, s) \in Nat
<1>. DEFINE F == {t \in SUBSET S : SumOver(f, S, t) \notin Nat}
<1>1. SUFFICES ASSUME F # {} PROVE FALSE
  OBVIOUS
<1>2. PICK t \in F : \A u \in F : ~(u \subseteq t /\ u # t)
  <2>1. F \in SUBSET SUBSET S
    OBVIOUS
  <2>. HIDE DEF F
  <2>. QED
    BY <1>1, <2>1, LeastSet
<1>3. t # {}
  BY SumOverDef
<1>4. Pick(t) \in t
  BY <1>3 DEF Pick
<1>5. t \ {Pick(t)} \in SUBSET S /\ t \ {Pick(t)} \notin F
  <2>1. t \ {Pick(t)} \subseteq t /\ t \ {Pick(t)} # t /\ t \ {Pick(t)} \in SUBSET S
    BY <1>4
  <2>. HIDE DEF F
  <2>. QED
    BY <1>2, <2>1
<1>6. SumOver(f, S, t \ {Pick(t)}) \in Nat /\ f[Pick(t)] \in Nat
  BY <1>4, <1>5
<1>. QED
  BY <1>3, <1>6, SumOverDef

(* The order in which elements are picked does not matter.                  *)
LEMMA SumOverRemove ==
    ASSUME NEW S, IsFiniteSet(S), NEW f \in [S -> Nat], NEW s \in SUBSET S, NEW x \in s
    PROVE  SumOver(f, S, s) = f[x] + SumOver(f, S, s \ {x})
<1>. DEFINE Right(t, y) == SumOver(f, S, t) = f[y] + SumOver(f, S, t \ {y})
            F == {t \in SUBSET S : \E y \in t : ~ Right(t, y)}
<1>1. SUFFICES ASSUME F # {} PROVE FALSE
  OBVIOUS
<1>2. PICK t \in F : \A u \in F : ~(u \subseteq t /\ u # t)
  <2>1. F \in SUBSET SUBSET S
    OBVIOUS
  <2>. HIDE DEF F
  <2>. QED
    BY <1>1, <2>1, LeastSet
<1>3. PICK y \in t : ~ Right(t, y)
  OBVIOUS
<1>. DEFINE z == Pick(t)
<1>4. z \in t
  BY <1>3 DEF Pick
<1>. HIDE DEF z
<1>5. SumOver(f, S, t) = f[z] + SumOver(f, S, t \ {z})
  BY <1>4, SumOverDef DEF z
<1>6. y # z
  BY <1>3, <1>5
<1>7. \A v \in {y, z} : \A w \in t \ {v} : Right(t \ {v}, w)
  <2>. SUFFICES ASSUME NEW v \in {y, z} PROVE t \ {v} \notin F
    BY <1>3, <1>4
  <2>1. t \ {v} \subseteq t /\ t \ {v} # t
    BY <1>3, <1>4
  <2>. HIDE DEF F
  <2>. QED
    BY <1>2, <2>1
<1>8. Right(t \ {z}, y) /\ Right(t \ {y}, z)
  BY <1>3, <1>4, <1>6, <1>7
<1>9. (t \ {z}) \ {y} = (t \ {y}) \ {z}
  OBVIOUS
<1>10. /\ SumOver(f, S, t \ {z}) \in Nat /\ SumOver(f, S, t \ {y}) \in Nat
       /\ SumOver(f, S, (t \ {z}) \ {y}) \in Nat
       /\ f[y] \in Nat /\ f[z] \in Nat
  BY <1>3, <1>4, SumOverType
<1>. QED
  BY <1>3, <1>5, <1>8, <1>9, <1>10

(* A sum depends on nothing outside the set.                                *)
LEMMA SumOverAgrees ==
    ASSUME NEW S, IsFiniteSet(S), NEW f, NEW T, IsFiniteSet(T), NEW g,
           NEW s, s \subseteq S, s \subseteq T, \A x \in s : f[x] = g[x]
    PROVE  SumOver(f, S, s) = SumOver(g, T, s)
<1>. DEFINE F == {t \in SUBSET s : SumOver(f, S, t) # SumOver(g, T, t)}
<1>1. SUFFICES ASSUME F # {} PROVE FALSE
  OBVIOUS
<1>2. IsFiniteSet(s)
  BY FS_Subset
<1>3. PICK t \in F : \A u \in F : ~(u \subseteq t /\ u # t)
  <2>1. F \in SUBSET SUBSET s
    OBVIOUS
  <2>. HIDE DEF F
  <2>. QED
    BY <1>1, <1>2, <2>1, LeastSet
<1>4. t \in SUBSET S /\ t \in SUBSET T
  OBVIOUS
<1>5. t # {}
  BY <1>4, SumOverDef
<1>6. Pick(t) \in t
  BY <1>5 DEF Pick
<1>7. t \ {Pick(t)} \in SUBSET s /\ t \ {Pick(t)} \notin F
  <2>1. t \ {Pick(t)} \subseteq t /\ t \ {Pick(t)} # t /\ t \ {Pick(t)} \in SUBSET s
    BY <1>6
  <2>. HIDE DEF F
  <2>. QED
    BY <1>3, <2>1
<1>8. SumOver(f, S, t \ {Pick(t)}) = SumOver(g, T, t \ {Pick(t)}) /\ f[Pick(t)] = g[Pick(t)]
  BY <1>6, <1>7
<1>. QED
  BY <1>4, <1>5, <1>8, SumOverDef

-----------------------------------------------------------------------------
(* What the proofs use of Sum.                                              *)
LEMMA SumType ==
    ASSUME NEW S, IsFiniteSet(S), NEW f \in [S -> Nat]
    PROVE  Sum(f) \in Nat
BY SumIs, SumOverType

(* A sum is 0 when all its terms are.                                       *)
LEMMA SumZero ==
    ASSUME NEW S, IsFiniteSet(S)
    PROVE  Sum([x \in S |-> 0]) = 0
<1>. DEFINE f == [x \in S |-> 0]
            F == {t \in SUBSET S : SumOver(f, S, t) # 0}
<1>1. SUFFICES ASSUME F # {} PROVE FALSE
  BY SumIs
<1>2. PICK t \in F : \A u \in F : ~(u \subseteq t /\ u # t)
  <2>1. F \in SUBSET SUBSET S
    OBVIOUS
  <2>. HIDE DEF F
  <2>. QED
    BY <1>1, <2>1, LeastSet
<1>3. t # {}
  BY SumOverDef
<1>4. Pick(t) \in t
  BY <1>3 DEF Pick
<1>5. t \ {Pick(t)} \in SUBSET S /\ t \ {Pick(t)} \notin F
  <2>1. t \ {Pick(t)} \subseteq t /\ t \ {Pick(t)} # t /\ t \ {Pick(t)} \in SUBSET S
    BY <1>4
  <2>. HIDE DEF F
  <2>. QED
    BY <1>2, <2>1
<1>. QED
  BY <1>3, <1>4, <1>5, SumOverDef

(* One more term.                                                           *)
LEMMA SumExtends ==
    ASSUME NEW S, IsFiniteSet(S), NEW f \in [S -> Nat], NEW x \in S,
           NEW g \in [S \ {x} -> Nat], \A y \in S \ {x} : f[y] = g[y]
    PROVE  Sum(f) = Sum(g) + f[x]
<1>1. IsFiniteSet(S \ {x})
  BY FS_RemoveElement
<1>2. SumOver(f, S, S) = f[x] + SumOver(f, S, S \ {x})
  BY SumOverRemove
<1>3. SumOver(f, S, S \ {x}) = SumOver(g, S \ {x}, S \ {x})
  BY <1>1, SumOverAgrees
<1>4. SumOver(f, S, S \ {x}) \in Nat /\ f[x] \in Nat
  BY SumOverType
<1>. QED
  BY <1>2, <1>3, <1>4, SumIs

(* A term that changes.                                                     *)
LEMMA SumChanges ==
    ASSUME NEW S, IsFiniteSet(S), NEW f \in [S -> Nat], NEW x \in S,
           NEW h \in [S -> Nat], \A y \in S \ {x} : h[y] = f[y]
    PROVE  Sum(h) = Sum(f) - f[x] + h[x]
<1>. DEFINE g == [y \in S \ {x} |-> f[y]]
<1>1. g \in [S \ {x} -> Nat] /\ \A y \in S \ {x} : f[y] = g[y] /\ h[y] = g[y]
  OBVIOUS
<1>2. IsFiniteSet(S \ {x})
  BY FS_RemoveElement
<1>. HIDE DEF g
<1>3. Sum(f) = Sum(g) + f[x] /\ Sum(h) = Sum(g) + h[x]
  BY <1>1, SumExtends
<1>4. Sum(g) \in Nat /\ f[x] \in Nat /\ h[x] \in Nat
  BY <1>1, <1>2, SumType
<1>. QED
  BY <1>3, <1>4

-----------------------------------------------------------------------------
(* The constants, and the values the variables take.                        *)
LEMMA Constants ==
    /\ MaxWindow \in Nat /\ MaxWindow >= 1
    /\ MaxCrashes \in Nat /\ MaxFaults \in Nat /\ MaxPresses \in Nat
    /\ Windows \subseteq Nat /\ None \notin Windows /\ 1 \in Windows
    /\ IsFiniteSet(Windows)
<1>1. /\ MaxWindow \in Nat /\ MaxWindow >= 1
      /\ MaxCrashes \in Nat /\ MaxFaults \in Nat /\ MaxPresses \in Nat
  BY DurabilityAssumption
<1>2. IsFiniteSet(Windows)
  BY <1>1, FS_Interval DEF Windows
<1>. QED
  BY <1>1, <1>2 DEF Windows, None

(* A fault is counted.                                                      *)
LEMMA FaultType ==
    ASSUME faults \in 0 .. MaxFaults, Fault
    PROVE  faults' \in 0 .. MaxFaults /\ faults' = faults + 1
BY Constants DEF Fault

(* The states the program writes and reads.                                 *)
LEMMA StateType ==
    /\ Fresh \in States
    /\ \A s \in States : /\ [s EXCEPT !.halted = TRUE] \in States
                         /\ [s EXCEPT !.halted = TRUE].halted
                         /\ [s EXCEPT !.halted = TRUE].windows_played = s.windows_played
                         /\ [s EXCEPT !.halted = FALSE] \in States
                         /\ [s EXCEPT !.halted = FALSE].windows_played = s.windows_played
                         /\ s.windows_played \in Nat /\ s.halted \in BOOLEAN
<1>1. Fresh \in States
  BY DEF Fresh, States
<1>2. ASSUME NEW s \in States
      PROVE  /\ [s EXCEPT !.halted = TRUE] \in States
             /\ [s EXCEPT !.halted = TRUE].halted
             /\ [s EXCEPT !.halted = TRUE].windows_played = s.windows_played
             /\ [s EXCEPT !.halted = FALSE] \in States
             /\ [s EXCEPT !.halted = FALSE].windows_played = s.windows_played
             /\ s.windows_played \in Nat /\ s.halted \in BOOLEAN
  BY DEF States
<1>. QED
  BY <1>1, <1>2

(* A settlement counts its window and may raise the halt.                   *)
LEMMA SettleIs ==
    ASSUME TypeOK, Settle
    PROVE  /\ st' \in States
           /\ st'.windows_played = st.windows_played + 1
           /\ st.halted => st'.halted
           /\ reconciling' \subseteq Windows
           /\ \/ st'.halted /\ Raised
              \/ owed' = owed /\ hole' = hole
<1>1. PICK halting \in BOOLEAN, diverging \in BOOLEAN :
        /\ st' = [windows_played |-> st.windows_played + 1, halted |-> st.halted \/ halting]
        /\ reconciling' = IF diverging THEN reconciling \cup {open} ELSE reconciling
        /\ IF halting THEN Raised ELSE owed' = owed /\ hole' = hole
  BY DEF Settle
<1>2. st.windows_played + 1 \in Nat /\ st.halted \in BOOLEAN
  BY DEF TypeOK, States
<1>3. (st.halted \/ halting) \in BOOLEAN
  OBVIOUS
<1>4. st' \in States
  BY <1>1, <1>2, <1>3 DEF States
<1>5. st'.windows_played = st.windows_played + 1 /\ st'.halted = (st.halted \/ halting)
  BY <1>1
<1>6. reconciling' \subseteq Windows
  BY <1>1 DEF TypeOK, Settle
<1>. QED
  BY <1>1, <1>2, <1>4, <1>5, <1>6, Zenon

(* A counter of the current window goes up.                                 *)
LEMMA Bumped ==
    ASSUME NEW f \in [Windows -> Nat], window \in Windows
    PROVE  [f EXCEPT ![window] = @ + 1] \in [Windows -> Nat]
OBVIOUS

(* One more line.                                                           *)
LEMMA Appended ==
    ASSUME NEW s \in Seq(Seq(Windows)), NEW t \in Seq(Windows)
    PROVE  /\ Append(s, t) \in Seq(Seq(Windows)) /\ Append(s, t) # <<>>
           /\ DOMAIN Append(s, t) = 1 .. Len(s) + 1 /\ Len(Append(s, t)) = Len(s) + 1
           /\ Append(s, t)[Len(s) + 1] = t
           /\ \A i \in 1 .. Len(s) : Append(s, t)[i] = s[i]
<1>1. /\ Append(s, t) \in Seq(Seq(Windows)) /\ Len(Append(s, t)) = Len(s) + 1
      /\ Append(s, t)[Len(s) + 1] = t
      /\ \A i \in 1 .. Len(s) : Append(s, t)[i] = s[i]
  OBVIOUS
<1>2. DOMAIN Append(s, t) = 1 .. Len(s) + 1
  BY <1>1
<1>3. Append(s, t) # <<>>
  BY <1>1
<1>. QED
  BY <1>1, <1>2, <1>3

(* A row on a line of its own, or joined to an unended line.                *)
LEMMA LedgerType ==
    ASSUME TypeOK, RowOK, pc = "append",
           ledger' = IF newline THEN Append(ledger, <<row>>)
                     ELSE [ledger EXCEPT ![Len(ledger)] = Append(@, row)]
    PROVE  /\ ledger' \in Seq(Seq(Windows)) /\ ledger' # <<>>
           /\ DOMAIN ledger \subseteq DOMAIN ledger'
<1>1. row \in Windows /\ <<row>> \in Seq(Windows)
  BY DEF TypeOK, RowOK
<1>2. ledger \in Seq(Seq(Windows)) /\ DOMAIN ledger = 1 .. Len(ledger) /\ Len(ledger) \in Nat
  BY DEF TypeOK
<1>3. CASE newline
  <2>1. ledger' = Append(ledger, <<row>>)
    BY <1>3
  <2>2. /\ ledger' \in Seq(Seq(Windows)) /\ DOMAIN ledger' = 1 .. Len(ledger) + 1
        /\ ledger' # <<>>
    BY <1>1, <1>2, <2>1, Appended
  <2>. QED
    BY <1>2, <2>2
<1>4. CASE ~newline
  <2>1. Len(ledger) \in 1 .. Len(ledger)
    BY <1>2, <1>4 DEF RowOK
  <2>2. Append(ledger[Len(ledger)], row) \in Seq(Windows)
    BY <1>1, <1>2, <2>1
  <2>. QED
    BY <1>2, <1>4, <2>1, <2>2
<1>. QED
  BY <1>3, <1>4

(* Part of a row, on a line of its own or on an unended one, leaves every   *)
(* whole row where it was.                                                  *)
LEMMA PartType ==
    ASSUME TypeOK, RowOK, Part
    PROVE  /\ ledger' \in Seq(Seq(Windows)) /\ ledger' # <<>>
           /\ torn' \subseteq DOMAIN ledger' /\ newline' = FALSE
           /\ DOMAIN ledger \subseteq DOMAIN ledger'
           /\ \A i \in DOMAIN ledger : ledger'[i] = ledger[i]
           /\ \/ ledger' = ledger /\ torn' = torn \cup {Len(ledger)} /\ ~newline
              \/ ledger' = Append(ledger, <<>>) /\ torn' = torn \cup {Len(ledger) + 1} /\ newline
<1>1. /\ ledger \in Seq(Seq(Windows)) /\ torn \subseteq DOMAIN ledger
      /\ DOMAIN ledger = 1 .. Len(ledger) /\ Len(ledger) \in Nat
  BY DEF TypeOK
<1>2. torn' = torn \cup {Len(ledger')} /\ newline' = FALSE
  BY DEF Part
<1>3. CASE newline
  <2>1. ledger' = Append(ledger, <<>>)
    BY <1>3 DEF Part
  <2>2. /\ ledger' \in Seq(Seq(Windows)) /\ DOMAIN ledger' = 1 .. Len(ledger) + 1
        /\ ledger' # <<>> /\ Len(ledger') = Len(ledger) + 1
        /\ \A i \in 1 .. Len(ledger) : ledger'[i] = ledger[i]
    <3>1. <<>> \in Seq(Windows)
      OBVIOUS
    <3>. QED
      BY <1>1, <2>1, <3>1, Appended
  <2>. QED
    BY <1>1, <1>2, <1>3, <2>1, <2>2
<1>4. CASE ~newline
  <2>1. ledger' = ledger /\ ledger # <<>>
    BY <1>4 DEF Part, RowOK
  <2>2. Len(ledger) \in DOMAIN ledger
    BY <1>1, <2>1
  <2>. QED
    BY <1>1, <1>2, <1>4, <2>1, <2>2
<1>. QED
  BY <1>3, <1>4

-----------------------------------------------------------------------------
(* Every step keeps each part of the invariant: the types ...               *)
LEMMA NextTypeOK ==
    ASSUME TypeOK, RowOK, [Next]_vars
    PROVE  TypeOK'
<1>. USE DEF vars, process, files, history
<1>1. CASE Resume
  BY <1>1, Constants, FaultType, StateType DEF TypeOK, RowOK, Resume
<1>2. CASE Enter
  <2>1. entries' \in [Windows -> Nat]
    BY <1>2, Bumped DEF TypeOK, Enter
  <2>2. row' = None
    BY <1>2 DEF TypeOK, RowOK, Enter
  <2>. QED
    BY <1>2, <2>1, <2>2 DEF TypeOK, Enter
<1>3. CASE NoEntry
  BY <1>3, Constants, FaultType, StateType DEF TypeOK, RowOK, NoEntry
<1>4. CASE Settle
  BY <1>4, Constants, SettleIs DEF TypeOK, RowOK, Settle, Raised
<1>5. CASE AppendRow
  <2>1. faults' \in 0 .. MaxFaults
    BY <1>5, FaultType DEF TypeOK, AppendRow
  <2>2. ledger' \in Seq(Seq(Windows)) /\ torn' \subseteq DOMAIN ledger'
    BY <1>5, LedgerType, PartType DEF TypeOK, AppendRow
  <2>3. newline' \in BOOLEAN /\ pc' \in {"newline", "save"}
    BY <1>5, PartType DEF TypeOK, AppendRow
  <2>. QED
    BY <1>5, <2>1, <2>2, <2>3 DEF TypeOK, AppendRow
<1>6. CASE EndLine
  <2>1. faults' \in 0 .. MaxFaults
    BY <1>6, FaultType DEF TypeOK, EndLine
  <2>2. newline' \in BOOLEAN
    BY <1>6 DEF TypeOK, EndLine
  <2>. QED
    BY <1>6, <2>1, <2>2 DEF TypeOK, EndLine
<1>7. CASE SaveTmp
  <2>1. faults' \in 0 .. MaxFaults
    BY <1>7, FaultType DEF TypeOK, SaveTmp
  <2>2. /\ pc' \in {"rename", "idle", "enter"} /\ after' \in {"idle", "enter"}
        /\ {open', row'} \subseteq Windows \cup {None} /\ (row' # None => row' = open')
    BY <1>7 DEF TypeOK, SaveTmp, Return
  <2>3. tmp' \in States \cup {NoFile}
    BY <1>7 DEF TypeOK, SaveTmp
  <2>. QED
    BY <1>7, <2>1, <2>2, <2>3 DEF TypeOK, SaveTmp
<1>8. CASE Rename
  <2>1. faults' \in 0 .. MaxFaults
    BY <1>8, FaultType DEF TypeOK, Rename
  <2>2. /\ pc' \in {"idle", "enter"} /\ after' \in {"idle", "enter"}
        /\ {open', row'} \subseteq Windows \cup {None} /\ (row' # None => row' = open')
    BY <1>8 DEF TypeOK, Rename, Return
  <2>3. disk' \in States \cup {NoFile}
    BY <1>8 DEF TypeOK, Rename
  <2>. QED
    BY <1>8, <2>1, <2>2, <2>3 DEF TypeOK, Rename
<1>9. CASE ReconcileHalt
  <2>1. st' \in States
    <3>1. st' = st \/ st' = [st EXCEPT !.halted = TRUE]
      BY <1>9 DEF ReconcileHalt
    <3>2. st \in States
      BY DEF TypeOK
    <3>3. [st EXCEPT !.halted = TRUE] \in States
      BY <3>2, StateType
    <3>. QED
      BY <3>1, <3>2, <3>3
  <2>2. owed' \in BOOLEAN
    BY <1>9 DEF TypeOK, ReconcileHalt, Raised
  <2>3. hole' \in BOOLEAN
    BY <1>9 DEF TypeOK, ReconcileHalt, Raised
  <2>4. pc' \in {"idle", "save"}
    BY <1>9 DEF TypeOK, ReconcileHalt
  <2>. QED
    BY <1>9, <2>1, <2>2, <2>3, <2>4 DEF TypeOK, ReconcileHalt
<1>10. CASE Verdict
  BY <1>10, Constants, FaultType, StateType DEF TypeOK, RowOK, Verdict
<1>11. CASE VerdictTimeout
  BY <1>11 DEF TypeOK, RowOK, VerdictTimeout
<1>12. CASE Crash
  <2>1. /\ ledger' \in Seq(Seq(Windows)) /\ torn' \subseteq DOMAIN ledger'
        /\ newline' \in BOOLEAN
    BY <1>12, PartType DEF TypeOK, Crash
  <2>2. restarts' \in [Windows -> Nat]
    BY <1>12, Bumped DEF TypeOK, Crash
  <2>. QED
    BY <1>12, <2>1, <2>2, StateType DEF TypeOK, Crash
<1>13. CASE Boot
  <2>1. st' \in States
    BY <1>13, StateType DEF TypeOK, Boot, Loaded
  <2>2. faults' \in 0 .. MaxFaults
    BY <1>13, FaultType DEF TypeOK, Boot
  <2>3. unread' \in BOOLEAN
    BY <1>13 DEF TypeOK, Boot
  <2>4. hole' \in BOOLEAN
    BY <1>13 DEF TypeOK, Boot
  <2>. QED
    BY <1>13, <2>1, <2>2, <2>3, <2>4 DEF TypeOK, Boot
<1>14. CASE PressResume
  <2>1. presses' \in 0 .. MaxPresses
    BY <1>14, Constants DEF TypeOK, PressResume
  <2>. QED
    BY <1>14, <2>1 DEF TypeOK, PressResume
<1>15. CASE EditState
  <2>1. disk' \in States
    BY <1>15, StateType DEF TypeOK, EditState, DiskHalted
  <2>. QED
    BY <1>15, <2>1 DEF TypeOK, EditState
<1>16. CASE NextWindow
  <2>1. window' \in Windows
    BY <1>16, Constants DEF TypeOK, NextWindow, Windows
  <2>. QED
    BY <1>16, <2>1 DEF TypeOK, NextWindow
<1>17. CASE UNCHANGED vars
  BY <1>17 DEF TypeOK
<1>. QED
  BY <1>1, <1>2, <1>3, <1>4, <1>5, <1>6, <1>7, <1>8, <1>9, <1>10, <1>11, <1>12, <1>13, <1>14,
     <1>15, <1>16, <1>17 DEF Next, Handlers, Outside

(* ... the row and the handler ...                                          *)
LEMMA NextRowOK ==
    ASSUME TypeOK, RowOK, [Next]_vars
    PROVE  RowOK'
<1>. USE DEF vars, process, files, history
<1>1. CASE Resume
  BY <1>1, Constants DEF TypeOK, RowOK, Resume, States, Fresh, NoFile, None
<1>2. CASE Enter
  BY <1>2, Constants DEF TypeOK, RowOK, Enter, States, Fresh, NoFile, None
<1>3. CASE NoEntry
  BY <1>3, Constants DEF TypeOK, RowOK, NoEntry, States, Fresh, NoFile, None
<1>4. CASE Settle
  BY <1>4, Constants DEF TypeOK, RowOK, Settle, Raised, States, Fresh, NoFile, None
<1>5. CASE AppendRow
  <2>1. ~newline' => ledger' # <<>>
    <3>1. CASE Part
      BY <3>1, PartType
    <3>2. CASE UNCHANGED <<ledger, newline>>
      BY <3>2 DEF RowOK
    <3>3. CASE ledger' = IF newline THEN Append(ledger, <<row>>)
                         ELSE [ledger EXCEPT ![Len(ledger)] = Append(@, row)]
      BY <1>5, <3>3, LedgerType DEF AppendRow
    <3>. QED
      BY <1>5, <3>1, <3>2, <3>3 DEF AppendRow
  <2>. QED
    BY <1>5, <2>1 DEF RowOK, AppendRow
<1>6. CASE EndLine
  BY <1>6, Constants DEF TypeOK, RowOK, EndLine, Fault, States, Fresh, NoFile, None
<1>7. CASE SaveTmp
  BY <1>7, Constants
     DEF TypeOK, RowOK, SaveTmp, Fault, Return, States, Fresh, NoFile, None
<1>8. CASE Rename
  BY <1>8, Constants
     DEF TypeOK, RowOK, Rename, Fault, Return, States, Fresh, NoFile, None
<1>9. CASE ReconcileHalt
  BY <1>9, Constants
     DEF TypeOK, RowOK, ReconcileHalt, Raised, States, Fresh, NoFile, None
<1>10. CASE Verdict
  BY <1>10, Constants DEF TypeOK, RowOK, Verdict, States, Fresh, NoFile, None
<1>11. CASE VerdictTimeout
  BY <1>11, Constants DEF TypeOK, RowOK, VerdictTimeout, States, Fresh, NoFile, None
<1>12. CASE Crash
  <2>1. ~newline' => ledger' # <<>>
    <3>1. CASE Part
      BY <3>1, PartType
    <3>2. CASE UNCHANGED <<ledger, newline>>
      BY <3>2 DEF RowOK
    <3>. QED
      BY <1>12, <3>1, <3>2 DEF Crash
  <2>. QED
    BY <1>12, <2>1 DEF RowOK, Crash
<1>13. CASE Boot
  BY <1>13, Constants DEF TypeOK, RowOK, Boot, Fault, Loaded, States, Fresh, NoFile, None
<1>14. CASE PressResume
  BY <1>14, Constants DEF TypeOK, RowOK, PressResume, States, Fresh, NoFile, None
<1>15. CASE EditState
  BY <1>15, Constants DEF TypeOK, RowOK, EditState, States, Fresh, NoFile, None
<1>16. CASE NextWindow
  BY <1>16, Constants DEF TypeOK, RowOK, NextWindow, States, Fresh, NoFile, None
<1>17. CASE UNCHANGED vars
  BY <1>17 DEF RowOK
<1>. QED
  BY <1>1, <1>2, <1>3, <1>4, <1>5, <1>6, <1>7, <1>8, <1>9, <1>10, <1>11, <1>12, <1>13, <1>14,
     <1>15, <1>16, <1>17 DEF Next, Handlers, Outside

(* ... the halt, which only Resume lifts, and Resume needs a press ...      *)
LEMMA NextHaltOK ==
    ASSUME TypeOK, RowOK, HaltOK, [Next]_vars
    PROVE  HaltOK'
<1>. USE DEF vars, process, files, history
<1>1. CASE Resume
  BY <1>1, Constants DEF TypeOK, RowOK, HaltOK, Resume, DiskHalted, States, Fresh, NoFile, None
<1>2. CASE Enter
  BY <1>2, Constants DEF TypeOK, RowOK, HaltOK, Enter, DiskHalted, States, Fresh, NoFile, None
<1>3. CASE NoEntry
  BY <1>3, Constants DEF TypeOK, RowOK, HaltOK, NoEntry, DiskHalted, States, Fresh, NoFile, None
<1>4. CASE Settle
  BY <1>4, Constants, SettleIs DEF TypeOK, RowOK, HaltOK, Settle, Raised, DiskHalted
<1>5. CASE AppendRow
  BY <1>5, Constants
     DEF TypeOK, RowOK, HaltOK, AppendRow, Fault, DiskHalted, States, Fresh, NoFile, None
<1>6. CASE EndLine
  BY <1>6, Constants
     DEF TypeOK, RowOK, HaltOK, EndLine, Fault, DiskHalted, States, Fresh, NoFile, None
<1>7. CASE SaveTmp
  BY <1>7, Constants
     DEF TypeOK, RowOK, HaltOK, SaveTmp, Fault, Return, DiskHalted, States, Fresh, NoFile, None
<1>8. CASE Rename
  BY <1>8, Constants
     DEF TypeOK, RowOK, HaltOK, Rename, Fault, Return, DiskHalted, States, Fresh, NoFile, None
<1>9. CASE ReconcileHalt
  BY <1>9, Constants
     DEF TypeOK, RowOK, HaltOK, ReconcileHalt, Raised, DiskHalted, States, Fresh, NoFile, None
<1>10. CASE Verdict
  BY <1>10, Constants
     DEF TypeOK, RowOK, HaltOK, Verdict, DiskHalted, States, Fresh, NoFile, None
<1>11. CASE VerdictTimeout
  BY <1>11, Constants
     DEF TypeOK, RowOK, HaltOK, VerdictTimeout, DiskHalted, States, Fresh, NoFile, None
<1>12. CASE Crash
  BY <1>12, Constants DEF TypeOK, RowOK, HaltOK, Crash, DiskHalted, States, Fresh, NoFile, None
<1>13. CASE Boot
  <2>. SUFFICES ASSUME owed', ~hole'
                PROVE  up' /\ st'.halted /\ ~resume_flag' /\ pc' # "enter" /\ after' # "enter"
    BY DEF HaltOK
  <2>1. owed /\ ~hole /\ st' = Loaded
    BY <1>13 DEF Boot, TypeOK
  <2>2. DiskHalted
    BY <1>13, <2>1 DEF HaltOK, Boot
  <2>. QED
    BY <1>13, <2>1, <2>2 DEF RowOK, Boot, Loaded, DiskHalted
<1>14. CASE PressResume
  BY <1>14, Constants
     DEF TypeOK, RowOK, HaltOK, PressResume, DiskHalted, States, Fresh, NoFile, None
<1>15. CASE EditState
  BY <1>15, Constants
     DEF TypeOK, RowOK, HaltOK, EditState, DiskHalted, States, Fresh, NoFile, None
<1>16. CASE NextWindow
  BY <1>16, Constants
     DEF TypeOK, RowOK, HaltOK, NextWindow, DiskHalted, States, Fresh, NoFile, None
<1>17. CASE UNCHANGED vars
  BY <1>17 DEF HaltOK, DiskHalted
<1>. QED
  BY <1>1, <1>2, <1>3, <1>4, <1>5, <1>6, <1>7, <1>8, <1>9, <1>10, <1>11, <1>12, <1>13, <1>14,
     <1>15, <1>16, <1>17 DEF Next, Handlers, Outside

(* ... and the entries: last_played_window stands until a death.            *)
LEMMA NextEntryOK ==
    ASSUME TypeOK, EntryOK, [Next]_vars
    PROVE  EntryOK'
<1>. USE DEF vars, process, files, history
<1>. SUFFICES
        /\ \A w \in Windows : entries'[w] <= 1 + restarts'[w]
        /\ \A w \in Windows : w > window' => entries'[w] = 0
        /\ last_played' # window' => entries'[window'] <= restarts'[window']
  BY DEF EntryOK, OneEntryPerLife
<1>0. /\ window \in Windows /\ Windows \subseteq Nat
      /\ \A w \in Windows : entries[w] \in Nat /\ restarts[w] \in Nat
      /\ \A w \in Windows : entries[w] <= 1 + restarts[w]
  BY Constants DEF TypeOK, EntryOK, OneEntryPerLife
<1>1. CASE Enter
  <2>1. /\ window' = window /\ last_played' = window /\ restarts' = restarts
        /\ entries[window] <= restarts[window]
    BY <1>1 DEF Enter, EntryOK
  <2>2. \A w \in Windows : entries'[w] = IF w = window THEN entries[w] + 1 ELSE entries[w]
    BY <1>1 DEF Enter, TypeOK
  <2>3. \A w \in Windows : w > window => entries'[w] = 0
    BY <1>0, <2>2 DEF EntryOK
  <2>. QED
    BY <1>0, <2>1, <2>2, <2>3
<1>2. CASE Crash
  <2>1. window' = window /\ entries' = entries
    BY <1>2 DEF Crash
  <2>2. \A w \in Windows : restarts'[w] = IF w = window THEN restarts[w] + 1 ELSE restarts[w]
    BY <1>2 DEF Crash, TypeOK
  <2>. QED
    BY <1>0, <2>1, <2>2 DEF EntryOK
<1>3. CASE NextWindow
  <2>1. window' = window + 1 /\ entries' = entries /\ restarts' = restarts /\ window' \in Windows
    BY <1>3, Constants DEF NextWindow, TypeOK, Windows
  <2>. QED
    BY <1>0, <2>1 DEF EntryOK
<1>4. CASE UNCHANGED <<window, entries, restarts, last_played>>
  BY <1>4 DEF EntryOK, OneEntryPerLife
<1>. QED
  BY <1>1, <1>2, <1>3, <1>4
     DEF Next, Handlers, Outside, Resume, NoEntry, Settle, AppendRow, EndLine, SaveTmp, Rename,
         ReconcileHalt, Verdict, VerdictTimeout, Boot, PressResume, EditState

-----------------------------------------------------------------------------
(* The totals, and the only steps that change them.                         *)
Lens == [i \in DOMAIN ledger |-> Len(ledger[i])]

(* They are naturals.                                                       *)
LEMMA Totals ==
    ASSUME TypeOK
    PROVE  /\ Sum(entries) \in Nat /\ Crashes \in Nat /\ Rows \in Nat /\ faults \in Nat
           /\ ledger \in Seq(Seq(Windows))
           /\ DOMAIN ledger = 1 .. Len(ledger) /\ Len(ledger) \in Nat
           /\ IsFiniteSet(DOMAIN ledger) /\ Lens \in [DOMAIN ledger -> Nat]
<1>1. /\ DOMAIN ledger = 1 .. Len(ledger) /\ Len(ledger) \in Nat
      /\ ledger \in Seq(Seq(Windows))
  BY DEF TypeOK
<1>2. IsFiniteSet(DOMAIN ledger)
  BY <1>1, FS_Interval
<1>3. Lens \in [DOMAIN ledger -> Nat]
  BY <1>1 DEF Lens
<1>4. Rows \in Nat
  BY <1>2, <1>3, SumType DEF Rows, Lens
<1>5. Sum(entries) \in Nat /\ Crashes \in Nat
  BY Constants, SumType DEF TypeOK, Crashes
<1>6. faults \in Nat
  BY Constants DEF TypeOK
<1>. QED
  BY <1>1, <1>2, <1>3, <1>4, <1>5, <1>6

(* An entry counts for one ...                                              *)
LEMMA EntryCounts ==
    ASSUME TypeOK, Enter
    PROVE  Sum(entries') = Sum(entries) + 1
<1>1. /\ entries \in [Windows -> Nat] /\ entries' \in [Windows -> Nat] /\ window \in Windows
      /\ entries'[window] = entries[window] + 1
      /\ \A w \in Windows \ {window} : entries'[w] = entries[w]
  BY DEF TypeOK, Enter
<1>2. Sum(entries') = Sum(entries) - entries[window] + entries'[window]
  <2>1. IsFiniteSet(Windows)
    BY Constants
  <2>. QED
    BY <1>1, <2>1, SumChanges
<1>3. Sum(entries) \in Nat /\ entries[window] \in Nat
  BY <1>1, Constants, SumType
<1>. QED
  BY <1>1, <1>2, <1>3

(* ... a death too ...                                                      *)
LEMMA CrashCounts ==
    ASSUME TypeOK, Crash
    PROVE  Crashes' = Crashes + 1
<1>1. /\ restarts \in [Windows -> Nat] /\ restarts' \in [Windows -> Nat] /\ window \in Windows
      /\ restarts'[window] = restarts[window] + 1
      /\ \A w \in Windows \ {window} : restarts'[w] = restarts[w]
  BY DEF TypeOK, Crash
<1>2. Sum(restarts') = Sum(restarts) - restarts[window] + restarts'[window]
  <2>1. IsFiniteSet(Windows)
    BY Constants
  <2>. QED
    BY <1>1, <2>1, SumChanges
<1>3. Sum(restarts) \in Nat /\ restarts[window] \in Nat
  BY <1>1, Constants, SumType
<1>. QED
  BY <1>1, <1>2, <1>3 DEF Crashes

(* ... part of a row for none ...                                           *)
LEMMA PartCounts ==
    ASSUME TypeOK, RowOK, Part
    PROVE  Rows' = Rows
<1>1. CASE ledger' = ledger
  BY <1>1 DEF Rows
<1>2. CASE ledger' = Append(ledger, <<>>)
  <2>. DEFINE n == Len(ledger) + 1
              D == DOMAIN ledger'
  <2>1. /\ D = 1 .. n /\ n \in D /\ D \ {n} = DOMAIN ledger
        /\ Len(ledger'[n]) = 0 /\ \A i \in DOMAIN ledger : ledger'[i] = ledger[i]
    BY <1>2, Totals
  <2>2. IsFiniteSet(D)
    BY <2>1, Totals, FS_Interval
  <2>. HIDE DEF n, D
  <2>3. Lens \in [D \ {n} -> Nat] /\ \A i \in D \ {n} : Lens[i] = Len(ledger[i])
    BY <2>1, Totals DEF Lens
  <2>4. Lens' = [i \in D |-> Len(ledger'[i])]
    BY DEF Lens, D
  <2>5. \A i \in D \ {n} : Len(ledger'[i]) = Lens[i] /\ Lens[i] \in Nat
    BY <2>1, <2>3
  <2>6. Lens'[n] = 0 /\ \A i \in D \ {n} : Lens'[i] = Lens[i]
    BY <2>1, <2>4, <2>5
  <2>7. Lens' \in [D -> Nat]
    BY <2>1, <2>4, <2>5
  <2>8. Sum(Lens') = Sum(Lens) + Lens'[n]
    <3>1. Lens \in [D \ {n} -> Nat]
      BY <2>3
    <3>2. n \in D
      BY <2>1
    <3>3. \A y \in D \ {n} : Lens'[y] = Lens[y]
      BY <2>6
    <3>. QED
      BY <2>2, <2>7, <3>1, <3>2, <3>3, SumExtends
  <2>9. Sum(Lens) \in Nat
    BY Totals, SumType
  <2>. QED
    BY <2>6, <2>8, <2>9 DEF Rows, Lens
<1>. QED
  BY <1>1, <1>2, PartType

LEMMA CrashRows ==
    ASSUME TypeOK, RowOK, Crash
    PROVE  Rows' = Rows
BY PartCounts DEF Crash, Rows

(* ... and so does a row, or the fault that lost it.                        *)
LEMMA RowCounts ==
    ASSUME TypeOK, RowOK, AppendRow
    PROVE  \/ Rows' = Rows + 1 /\ faults' = faults /\ pc' = "newline"
           \/ Rows' = Rows /\ faults' = faults + 1 /\ pc' = "save"
<1>1. CASE Fault /\ pc' = "save"
  <2>1. Rows' = Rows
    BY <1>1, PartCounts DEF AppendRow, Rows
  <2>. QED
    BY <1>1, <2>1 DEF Fault
<1>2. CASE newline /\ ledger' = Append(ledger, <<row>>) /\ UNCHANGED faults /\ pc' = "newline"
  <2>. DEFINE n == Len(ledger) + 1
              D == DOMAIN ledger'
  <2>1. /\ D = 1 .. n /\ n \in D /\ D \ {n} = DOMAIN ledger
        /\ ledger'[n] = <<row>> /\ \A i \in DOMAIN ledger : ledger'[i] = ledger[i]
    BY <1>2, Totals
  <2>2. IsFiniteSet(D)
    BY <2>1, Totals, FS_Interval
  <2>. HIDE DEF n, D
  <2>3. Lens \in [D \ {n} -> Nat] /\ \A i \in D \ {n} : Lens[i] = Len(ledger[i])
    BY <2>1, Totals DEF Lens
  <2>4. Lens' = [i \in D |-> Len(ledger'[i])]
    BY DEF Lens, D
  <2>5. n \in D /\ Len(ledger'[n]) = 1
    BY <2>1
  <2>6. \A i \in D \ {n} : Len(ledger'[i]) = Lens[i] /\ Lens[i] \in Nat
    BY <2>1, <2>3
  <2>7. Lens'[n] = 1 /\ \A i \in D \ {n} : Lens'[i] = Lens[i]
    BY <2>4, <2>5, <2>6
  <2>8. Lens' \in [D -> Nat]
    BY <2>4, <2>5, <2>6
  <2>9. Sum(Lens') = Sum(Lens) + Lens'[n]
    <3>1. Lens \in [D \ {n} -> Nat]
      BY <2>3
    <3>2. n \in D
      BY <2>5
    <3>3. \A y \in D \ {n} : Lens'[y] = Lens[y]
      BY <2>7
    <3>. QED
      BY <2>2, <2>8, <3>1, <3>2, <3>3, SumExtends
  <2>. QED
    BY <1>2, <2>7, <2>9 DEF Rows, Lens
<1>3. CASE /\ ~newline /\ ledger' = [ledger EXCEPT ![Len(ledger)] = Append(@, row)]
           /\ UNCHANGED faults /\ pc' = "newline"
  <2>. DEFINE n == Len(ledger)
  <2>1. n \in DOMAIN ledger /\ row \in Windows /\ ledger[n] \in Seq(Windows)
    BY <1>3, Totals DEF RowOK, TypeOK, AppendRow
  <2>2. Len(Append(ledger[n], row)) = Len(ledger[n]) + 1
    BY <2>1
  <2>3. /\ DOMAIN ledger' = DOMAIN ledger
        /\ Len(ledger'[n]) = Len(ledger[n]) + 1
        /\ \A i \in DOMAIN ledger \ {n} : ledger'[i] = ledger[i]
    BY <1>3, <2>1, <2>2, Totals
  <2>4. /\ Lens' \in [DOMAIN ledger -> Nat]
        /\ Lens'[n] = Lens[n] + 1 /\ \A i \in DOMAIN ledger \ {n} : Lens'[i] = Lens[i]
    <3>1. Lens' = [i \in DOMAIN ledger |-> Len(ledger'[i])]
      BY <2>3 DEF Lens
    <3>2. \A i \in DOMAIN ledger : Lens[i] = Len(ledger[i]) /\ Lens[i] \in Nat
      BY Totals DEF Lens
    <3>3. \A i \in DOMAIN ledger : Lens'[i] = Len(ledger'[i]) /\ Len(ledger'[i]) \in Nat
      BY <2>1, <2>3, <3>1, <3>2
    <3>4. Lens' \in [DOMAIN ledger -> Nat]
      BY <3>1, <3>3
    <3>. QED
      BY <2>1, <2>3, <3>2, <3>3, <3>4
  <2>. HIDE DEF n
  <2>5. Sum(Lens') = Sum(Lens) - Lens[n] + Lens'[n]
    BY <2>1, <2>4, Totals, SumChanges
  <2>6. Sum(Lens) \in Nat /\ Lens[n] \in Nat
    BY <2>1, Totals, SumType
  <2>7. Sum(Lens') = Sum(Lens) + 1
    BY <2>4, <2>5, <2>6
  <2>. QED
    BY <1>3, <2>7 DEF Rows, Lens
<1>. QED
  BY <1>1, <1>2, <1>3 DEF AppendRow


(* Every other step leaves the totals alone.                                *)
LEMMA OtherCounts ==
    ASSUME TypeOK, [Next]_vars, ~Enter, ~Crash, ~AppendRow
    PROVE  /\ Sum(entries') = Sum(entries) /\ Crashes' = Crashes /\ Rows' = Rows
           /\ faults' \in Nat /\ faults' >= faults
<1>. USE DEF vars, process, files, history
<1>1. entries' = entries /\ restarts' = restarts /\ ledger' = ledger
  BY DEF Next, Handlers, Outside, Resume, NoEntry, Settle, EndLine, SaveTmp, Rename,
         ReconcileHalt, Verdict, VerdictTimeout, Boot, PressResume, EditState, NextWindow
<1>2. faults' = faults \/ faults' = faults + 1
  BY DEF Next, Handlers, Outside, Resume, NoEntry, Settle, EndLine, SaveTmp, Rename, Fault,
         ReconcileHalt, Verdict, VerdictTimeout, Boot, PressResume, EditState, NextWindow
<1>3. faults' \in Nat /\ faults' >= faults
  BY <1>2, Totals
<1>. QED
  BY <1>1, <1>3 DEF Crashes, Rows

(* Only an entry makes a position whose row is still to be written; only    *)
(* the append and a death take it away.                                     *)
LEMMA UnwrittenStays ==
    ASSUME TypeOK, RowOK, [Next]_vars, ~Enter, ~Crash, ~AppendRow
    PROVE  Unwritten' = Unwritten
<1>. USE DEF vars, process, files, history, Unwritten
<1>1. CASE Settle
  BY <1>1, Constants DEF Settle, RowOK, TypeOK
<1>2. CASE SaveTmp
  BY <1>2, Constants DEF SaveTmp, Return, RowOK, TypeOK
<1>3. CASE Rename
  BY <1>3, Constants DEF Rename, Return, RowOK, TypeOK
<1>4. CASE Resume \/ NoEntry \/ EndLine \/ ReconcileHalt
  BY <1>4 DEF Resume, NoEntry, EndLine, ReconcileHalt, RowOK
<1>5. CASE UNCHANGED <<open, row, pc>>
  BY <1>5
<1>. QED
  BY <1>1, <1>2, <1>3, <1>4, <1>5
     DEF Next, Handlers, Outside, Verdict, VerdictTimeout, Boot, PressResume, EditState, NextWindow

(* Entries, rows, deaths and faults stay in balance.                        *)
LEMMA NextTold ==
    ASSUME TypeOK, RowOK, EntriesAreTold, [Next]_vars
    PROVE  EntriesAreTold'
<1>. DEFINE e == Sum(entries)
            u == e - Rows - Unwritten
<1>1. /\ e \in Nat /\ Rows \in Nat /\ Crashes \in Nat /\ faults \in Nat
      /\ Unwritten \in {0, 1}
      /\ u >= 0 /\ u <= Crashes + faults
  BY Totals DEF EntriesAreTold, Unwritten
<1>. HIDE DEF u
<1>2. CASE Enter
  <2>1. e' = e + 1 /\ Rows' = Rows /\ Crashes' = Crashes /\ faults' = faults
    BY <1>2, EntryCounts DEF Enter, Rows, Crashes, files
  <2>2. Unwritten = 0 /\ Unwritten' = 1
    BY <1>2, Constants DEF Enter, Unwritten, TypeOK, RowOK
  <2>. QED
    BY <1>1, <2>1, <2>2 DEF EntriesAreTold, u
<1>3. CASE Crash
  <2>1. e' = e /\ Rows' = Rows /\ Crashes' = Crashes + 1 /\ faults' = faults
    BY <1>3, CrashCounts, CrashRows DEF Crash
  <2>2. Unwritten' = 0
    BY <1>3 DEF Crash, Unwritten
  <2>. QED
    BY <1>1, <2>1, <2>2 DEF EntriesAreTold, u
<1>4. CASE AppendRow
  <2>1. e' = e /\ Crashes' = Crashes
    BY <1>4 DEF AppendRow, Crashes
  <2>2. Unwritten = 1 /\ Unwritten' = 0
    BY <1>4 DEF AppendRow, Unwritten, TypeOK, RowOK
  <2>3. \/ Rows' = Rows + 1 /\ faults' = faults
        \/ Rows' = Rows /\ faults' = faults + 1
    BY <1>4, RowCounts
  <2>. QED
    BY <1>1, <2>1, <2>2, <2>3 DEF EntriesAreTold, u
<1>5. CASE ~Enter /\ ~Crash /\ ~AppendRow
  <2>1. /\ e' = e /\ Rows' = Rows /\ Crashes' = Crashes
        /\ faults' \in Nat /\ faults' >= faults /\ Unwritten' = Unwritten
    BY <1>5, OtherCounts, UnwrittenStays
  <2>. QED
    BY <1>1, <2>1 DEF EntriesAreTold, u
<1>. QED
  BY <1>2, <1>3, <1>4, <1>5

-----------------------------------------------------------------------------
(* What CountOK compares.                                                   *)
LEMMA CountTypes ==
    ASSUME TypeOK
    PROVE  /\ Saved \in Nat /\ st.windows_played \in Nat
           /\ Pending \in {0, 1} /\ Settling \in {0, 1}
           /\ Rows \in Nat /\ Crashes \in Nat /\ faults \in Nat
BY Totals, StateType DEF TypeOK, Saved, Pending, Settling, NoFile

(* Memory, ledger and state file stay in balance.                           *)
LEMMA NextCountOK ==
    ASSUME TypeOK, RowOK, CountOK, [Next]_vars
    PROVE  CountOK'
<1>. DEFINE m == st.windows_played
<1>. SUFFICES
        /\ up' /\ pc' = "rename" => tmp' = st'
        /\ ~unread' => /\ Saved' <= Rows' + faults'
                       /\ Rows' + Pending' <= Saved' + Crashes' + faults' + Settling'
                       /\ up' => /\ m' <= Rows' + faults' + Pending'
                                 /\ Rows' + Pending' <= m' + Crashes' + faults'
  BY DEF CountOK
<1>. USE DEF vars, process, files, history
<1>0. /\ Saved \in Nat /\ m \in Nat /\ Pending \in {0, 1} /\ Settling \in {0, 1}
      /\ Rows \in Nat /\ Crashes \in Nat /\ faults \in Nat
      /\ up /\ pc = "rename" => tmp = st
      /\ ~unread => /\ Saved <= Rows + faults
                    /\ Rows + Pending <= Saved + Crashes + faults + Settling
                    /\ up => /\ m <= Rows + faults + Pending
                             /\ Rows + Pending <= m + Crashes + faults
  BY CountTypes DEF CountOK
<1>1. CASE Enter
  <2>1. /\ Rows' = Rows /\ Crashes' = Crashes /\ faults' = faults /\ up' = up /\ unread' = unread
        /\ Saved' = Saved /\ m' = m
    BY <1>1 DEF Enter, Rows, Crashes, Saved
  <2>2. Pending' = Pending /\ Settling' = Settling /\ pc' # "rename"
    BY <1>1 DEF Enter, Pending, Settling
  <2>. QED
    BY <1>0, <2>1, <2>2
<1>2. CASE Crash
  <2>1. /\ Rows' = Rows /\ Crashes' = Crashes + 1 /\ faults' = faults /\ ~up' /\ unread' = unread
        /\ Saved' = Saved
    BY <1>2, CrashCounts, CrashRows DEF Crash, Saved
  <2>2. Pending' = 0 /\ Settling' = 0
    BY <1>2 DEF Crash, Pending, Settling
  <2>. QED
    BY <1>0, <2>1, <2>2
<1>3. CASE AppendRow
  <2>1. /\ Crashes' = Crashes /\ up' = up /\ unread' = unread
        /\ Saved' = Saved /\ m' = m /\ Settling' = Settling
    BY <1>3 DEF AppendRow, Crashes, Saved, Settling
  <2>2. Pending = 1 /\ Pending' = 0 /\ Settling = 1 /\ pc' # "rename"
    BY <1>3 DEF AppendRow, Pending, Settling, RowOK
  <2>3. \/ Rows' = Rows + 1 /\ faults' = faults
        \/ Rows' = Rows /\ faults' = faults + 1
    BY <1>3, RowCounts
  <2>. QED
    BY <1>0, <2>1, <2>2, <2>3
<1>4. ASSUME ~Enter, ~Crash, ~AppendRow
      PROVE  /\ Rows' = Rows /\ Crashes' = Crashes /\ faults' \in Nat /\ faults' >= faults
  BY <1>4, OtherCounts
<1>5. CASE Settle
  <2>1. /\ m' = m + 1 /\ up' = up /\ unread' = unread /\ Saved' = Saved
        /\ Rows' = Rows /\ Crashes' = Crashes /\ faults' = faults /\ pc' # "rename"
    BY <1>5, SettleIs DEF Settle, Saved, Rows, Crashes
  <2>2. Pending = 0 /\ Pending' = 1 /\ Settling = 0 /\ Settling' = 1
    BY <1>5, Constants DEF Settle, Pending, Settling, RowOK
  <2>. QED
    BY <1>0, <2>1, <2>2
<1>6. CASE Rename
  <2>1. /\ m' = m /\ up' = up /\ unread' = unread /\ up
        /\ Rows' = Rows /\ Crashes' = Crashes /\ pc' # "rename"
    BY <1>6 DEF Rename, Return, TypeOK, Rows, Crashes
  <2>2. Pending = 0 /\ Pending' = 0 /\ Settling' = 0
    BY <1>6 DEF Rename, Return, TypeOK, Pending, Settling
  <2>3. \/ Saved' = m /\ faults' = faults
        \/ Saved' = Saved /\ faults' = faults + 1
    <3>1. tmp = st
      BY <1>0, <1>6 DEF Rename
    <3>2. CASE disk' = tmp /\ faults' = faults
      BY <3>1, <3>2 DEF Saved, NoFile
    <3>3. CASE disk' = disk /\ faults' = faults + 1
      BY <3>3 DEF Saved
    <3>. QED
      BY <1>6, <3>2, <3>3 DEF Rename, Fault
  <2>. QED
    BY <1>0, <2>1, <2>2, <2>3
<1>7. CASE SaveTmp
  <2>1. /\ m' = m /\ up' = up /\ unread' = unread /\ up /\ st' = st
        /\ Rows' = Rows /\ Crashes' = Crashes /\ Saved' = Saved
    BY <1>7 DEF SaveTmp, Rows, Crashes, Saved
  <2>2. Pending = 0 /\ Pending' = 0
    BY <1>7 DEF SaveTmp, Return, TypeOK, Pending
  <2>3. \/ Settling' = Settling /\ faults' = faults /\ tmp' = st
        \/ Settling' = 0 /\ faults' = faults + 1 /\ pc' # "rename"
    BY <1>7 DEF SaveTmp, Return, TypeOK, Settling, Fault
  <2>. QED
    BY <1>0, <2>1, <2>2, <2>3
<1>8. CASE Boot
  <2>1. /\ Pending' = Pending /\ Settling' = Settling /\ Pending = 0 /\ Settling = 0
        /\ Saved' = Saved /\ Rows' = Rows /\ Crashes' = Crashes /\ pc' # "rename"
    BY <1>8 DEF Boot, RowOK, Pending, Settling, Saved, Rows, Crashes
  <2>2. \/ m' = Saved /\ faults' = faults /\ unread' = unread
        \/ unread'
    BY <1>8 DEF Boot, Loaded, Saved, Fresh
  <2>. QED
    BY <1>0, <2>1, <2>2
<1>9. CASE Resume \/ NoEntry \/ ReconcileHalt \/ EndLine
  <2>1. /\ m' = m /\ up' /\ up /\ Saved' = Saved
        /\ Rows' = Rows /\ Crashes' = Crashes
        /\ Settling' = Settling /\ Pending = 0 /\ Pending' = 0 /\ pc' # "rename"
    BY <1>9
       DEF Resume, NoEntry, ReconcileHalt, EndLine, Pending, Settling, Saved, Rows, Crashes,
                TypeOK, States
  <2>2. faults' = faults \/ faults' = faults + 1
    BY <1>9 DEF Resume, NoEntry, ReconcileHalt, EndLine, Fault
  <2>3. unread' => unread
    BY <1>9 DEF Resume, NoEntry, ReconcileHalt, EndLine
  <2>4. unread => unread'
    BY <1>9 DEF Resume, NoEntry, ReconcileHalt, EndLine
  <2>. QED
    BY <1>0, <2>1, <2>2, <2>3, <2>4
<1>10. CASE EditState
  <2>1. Saved' = Saved
    BY <1>10, StateType DEF EditState, DiskHalted, TypeOK, Saved, NoFile
  <2>. QED
    BY <1>0, <1>10, <2>1 DEF EditState, Rows, Crashes, Pending, Settling
<1>11. CASE UNCHANGED <<up, pc, st, row, tmp, disk, ledger, restarts, faults, unread>>
  BY <1>11 DEF CountOK, Saved, Rows, Crashes, Pending, Settling
<1>. QED
  BY <1>1, <1>2, <1>3, <1>5, <1>6, <1>7, <1>8, <1>9, <1>10, <1>11
     DEF Next, Handlers, Outside, Verdict, VerdictTimeout, PressResume, NextWindow


-----------------------------------------------------------------------------
(* A set that gains at most one element.                                    *)
LEMMA Grows ==
    ASSUME NEW S, IsFiniteSet(S), NEW T, NEW x,
           T \subseteq S \/ T \subseteq S \cup {x}
    PROVE  /\ IsFiniteSet(T) /\ Cardinality(T) \in Nat /\ Cardinality(S) \in Nat
           /\ Cardinality(T) <= Cardinality(S) + 1
           /\ T \subseteq S => Cardinality(T) <= Cardinality(S)
<1>1. IsFiniteSet(S \cup {x}) /\ Cardinality(S \cup {x}) <= Cardinality(S) + 1
  <2>1. Cardinality(S) \in Nat
    BY FS_CardinalityType
  <2>2. /\ IsFiniteSet(S \cup {x})
        /\ Cardinality(S \cup {x}) = IF x \in S THEN Cardinality(S) ELSE Cardinality(S) + 1
    BY FS_AddElement
  <2>. QED
    BY <2>1, <2>2
<1>2. T \subseteq S \cup {x}
  OBVIOUS
<1>3. IsFiniteSet(T) /\ Cardinality(T) <= Cardinality(S \cup {x})
  BY <1>1, <1>2, FS_Subset
<1>4. Cardinality(T) \in Nat /\ Cardinality(S) \in Nat /\ Cardinality(S \cup {x}) \in Nat
  BY <1>1, <1>3, FS_CardinalityType
<1>5. T \subseteq S => Cardinality(T) <= Cardinality(S)
  BY FS_Subset
<1>. QED
  BY <1>1, <1>3, <1>4, <1>5

(* A line becomes doubtful by a death or a failed write, one at a time ...  *)
LEMMA DoubtfulAfter ==
    ASSUME TypeOK, RowOK, [Next]_vars
    PROVE  \/ Doubtful' \subseteq Doubtful
           \/ (Crash \/ Fault) /\ \E x : Doubtful' \subseteq Doubtful \cup {x}
<1>. USE DEF vars, process, files, history
<1>1. CASE Part /\ pc = "append" /\ (Crash \/ Fault)
  <2>1. CASE ledger' = ledger /\ torn' = torn \cup {Len(ledger)} /\ ~newline
    BY <1>1, <2>1 DEF Doubtful
  <2>2. CASE ledger' = Append(ledger, <<>>) /\ torn' = torn \cup {Len(ledger) + 1}
    <3>1. /\ DOMAIN ledger' = DOMAIN ledger \cup {Len(ledger) + 1}
          /\ Len(ledger') = Len(ledger) + 1
          /\ \A i \in DOMAIN ledger : ledger'[i] = ledger[i]
      <4>1. /\ ledger \in Seq(Seq(Windows)) /\ <<>> \in Seq(Windows)
            /\ DOMAIN ledger = 1 .. Len(ledger) /\ Len(ledger) \in Nat
        BY Totals
      <4>2. \A n \in Nat : 1 .. n + 1 = 1 .. n \cup {n + 1}
        OBVIOUS
      <4>. QED
        BY <2>2, <4>1, <4>2, Appended
    <3>2. Doubtful' \subseteq Doubtful \cup {Len(ledger) + 1}
      BY <2>2, <3>1 DEF Doubtful
    <3>. QED
      BY <1>1, <3>2
  <2>. QED
    BY <1>1, <2>1, <2>2, PartType
<1>2. CASE AppendRow /\ ~(Fault /\ pc' = "save")
  <2>1. UNCHANGED torn /\ pc' = "newline" /\ pc = "append"
    BY <1>2 DEF AppendRow
  <2>2. CASE newline /\ ledger' = Append(ledger, <<row>>)
    <3>1. /\ DOMAIN ledger' = 1 .. Len(ledger) + 1
          /\ ledger'[Len(ledger) + 1] = <<row>> /\ Len(<<row>>) = 1
          /\ \A j \in 1 .. Len(ledger) : ledger'[j] = ledger[j]
      <4>1. <<row>> \in Seq(Windows)
        BY <1>2 DEF TypeOK, RowOK, AppendRow
      <4>2. Len(<<row>>) = 1
        OBVIOUS
      <4>3. ledger \in Seq(Seq(Windows))
        BY Totals
      <4>. QED
        BY <2>2, <4>1, <4>2, <4>3, Appended
    <3>2. Len(ledger) + 1 \notin torn
      BY Totals DEF TypeOK
    <3>3. ASSUME NEW i \in Doubtful' PROVE i \in Doubtful
      <4>1. i \in DOMAIN ledger' /\ (Len(ledger'[i]) # 1 \/ i \in torn)
        BY <2>1, <3>3 DEF Doubtful
      <4>2. i # Len(ledger) + 1
        BY <3>1, <3>2, <4>1
      <4>3. i \in DOMAIN ledger /\ ledger'[i] = ledger[i]
        BY <3>1, <4>1, <4>2, Totals
      <4>. QED
        BY <4>1, <4>3 DEF Doubtful
    <3>. QED
      BY <3>3
  <2>3. CASE ~newline /\ ledger' = [ledger EXCEPT ![Len(ledger)] = Append(@, row)]
    <3>1. ASSUME NEW i \in Doubtful' PROVE i \in Doubtful
      <4>1. i \in DOMAIN ledger /\ (Len(ledger'[i]) # 1 \/ i \in torn)
        BY <2>1, <2>3, <3>1, Totals DEF Doubtful
      <4>2. CASE i = Len(ledger)
        BY <2>1, <2>3, <4>1, <4>2 DEF Doubtful
      <4>3. CASE i # Len(ledger)
        BY <2>3, <4>1, <4>3, Totals DEF Doubtful
      <4>. QED
        BY <4>2, <4>3
    <3>. QED
      BY <3>1
  <2>. QED
    BY <1>2, <2>2, <2>3 DEF AppendRow
<1>3. CASE UNCHANGED <<ledger, torn, newline>> /\ (pc = "append" \/ Crash \/ (EndLine /\ Fault))
           /\ (Crash \/ Fault)
  <2>1. Doubtful' \subseteq Doubtful \cup {Len(ledger)}
    BY <1>3 DEF Doubtful
  <2>. QED
    BY <1>3, <2>1
<1>4. CASE EndLine /\ UNCHANGED faults
  <2>1. UNCHANGED <<ledger, torn>> /\ newline'
    BY <1>4, Totals DEF EndLine, Fault
  <2>. QED
    BY <2>1 DEF Doubtful
<1>5. CASE UNCHANGED <<ledger, torn, newline>> /\ (pc' = "newline" <=> pc = "newline")
  BY <1>5 DEF Doubtful
<1>6. CASE AppendRow
  BY <1>1, <1>2, <1>3, <1>6 DEF AppendRow
<1>7. CASE EndLine
  BY <1>3, <1>4, <1>7 DEF EndLine
<1>8. CASE Crash
  BY <1>1, <1>3, <1>8 DEF Crash
<1>. QED
  BY <1>5, <1>6, <1>7, <1>8
     DEF Next, Handlers, Outside, Resume, Enter, NoEntry, Settle, SaveTmp, Rename, Return, TypeOK,
         ReconcileHalt, Verdict, VerdictTimeout, Boot, PressResume, EditState, NextWindow

(* ... each of which is counted.                                            *)
LEMMA NextLineOK ==
    ASSUME TypeOK, RowOK, LineOK, [Next]_vars
    PROVE  LineOK'
<1>1. IsFiniteSet(Doubtful)
  BY Totals, FS_Subset DEF Doubtful
<1>2. /\ Cardinality(Doubtful') \in Nat /\ Cardinality(Doubtful) \in Nat
      /\ Cardinality(Doubtful') <= Cardinality(Doubtful) + 1
      /\ Doubtful' \subseteq Doubtful => Cardinality(Doubtful') <= Cardinality(Doubtful)
  BY <1>1, DoubtfulAfter, Grows
<1>3. Crashes \in Nat /\ faults \in Nat /\ Cardinality(Doubtful) <= Crashes + faults
  BY Totals DEF LineOK
<1>4. CASE Crash
  <2>1. Crashes' = Crashes + 1 /\ faults' = faults
    BY <1>4, CrashCounts DEF Crash
  <2>. QED
    BY <1>2, <1>3, <2>1 DEF LineOK
<1>5. ASSUME ~Crash
      PROVE  Crashes' = Crashes /\ faults' \in Nat /\ faults' >= faults
  <2>1. CASE Enter
    BY <1>3, <2>1 DEF Enter, Crashes
  <2>2. CASE AppendRow
    <3>1. Crashes' = Crashes
      BY <2>2 DEF AppendRow, Crashes
    <3>. QED
      BY <1>3, <2>2, <3>1, RowCounts
  <2>. QED
    BY <1>5, <2>1, <2>2, OtherCounts
<1>6. CASE Fault /\ ~Crash
  <2>1. Crashes' = Crashes /\ faults' = faults + 1
    BY <1>5, <1>6 DEF Fault
  <2>. QED
    BY <1>2, <1>3, <2>1 DEF LineOK
<1>7. CASE Doubtful' \subseteq Doubtful /\ ~Crash
  BY <1>2, <1>3, <1>5, <1>7 DEF LineOK
<1>. QED
  BY <1>4, <1>6, <1>7, DoubtfulAfter

-----------------------------------------------------------------------------
(* The invariant holds at the first boot ...                                *)
LEMMA InitDInv == Init => DInv
<1>. SUFFICES ASSUME Init PROVE DInv
  OBVIOUS
<1>1. TypeOK
  <2>1. faults \in 0 .. MaxFaults /\ presses \in 0 .. MaxPresses
    BY Constants DEF Init
  <2>2. /\ entries \in [Windows -> Nat] /\ restarts \in [Windows -> Nat]
        /\ window \in Windows /\ ledger \in Seq(Seq(Windows))
    BY Constants DEF Init
  <2>. QED
    BY <2>1, <2>2, StateType DEF Init, TypeOK
<1>2. RowOK /\ HaltOK
  BY DEF Init, RowOK, HaltOK
<1>3. EntryOK
  BY Constants DEF Init, EntryOK, OneEntryPerLife
<1>4. Sum(entries) = 0 /\ Crashes = 0
  BY Constants, SumZero DEF Init, Crashes
<1>5. Rows = 0
  <2>1. [i \in DOMAIN ledger |-> Len(ledger[i])] = [i \in {} |-> 0]
    BY DEF Init
  <2>. QED
    BY <2>1, SumZero, FS_EmptySet DEF Rows
<1>6. EntriesAreTold
  BY <1>4, <1>5 DEF Init, EntriesAreTold, Unwritten
<1>7. CountOK
  BY <1>4, <1>5 DEF Init, CountOK, Saved, Pending, Settling, Fresh
<1>8. LineOK
  <2>1. Doubtful = {}
    BY DEF Init, Doubtful
  <2>. QED
    BY <1>4, <2>1, FS_EmptySet DEF LineOK, Init
<1>. QED
  BY <1>1, <1>2, <1>3, <1>6, <1>7, <1>8 DEF DInv

(* ... and every step keeps it.                                             *)
LEMMA NextDInv == DInv /\ [Next]_vars => DInv'
BY NextTypeOK, NextRowOK, NextHaltOK, NextEntryOK, NextTold, NextCountOK, NextLineOK DEF DInv

(* The inductive invariant holds in every reachable state.                  *)
THEOREM DInvHolds == Spec => []DInv
BY InitDInv, NextDInv, PTL DEF Spec

(* The variables keep their types.                                          *)
THEOREM DurabilityTypeCorrect == Spec => []TypeOK
<1>1. DInv => TypeOK
  BY DEF DInv
<1>. QED
  BY <1>1, DInvHolds, PTL

(* try_enter(): a window is entered again only after a death within it.     *)
THEOREM OneEntryPerLifeHolds == Spec => []OneEntryPerLife
<1>1. DInv => OneEntryPerLife
  BY DEF DInv, EntryOK
<1>. QED
  BY <1>1, DInvHolds, PTL

(* settle(), append_window(): every entry is the open position or has one   *)
(* row in the ledger, but for one per death or failed write at most.        *)
THEOREM EntriesAreToldHolds == Spec => []EntriesAreTold
<1>1. DInv => EntriesAreTold
  BY DEF DInv
<1>. QED
  BY <1>1, DInvHolds, PTL

(* save(), append_window(): state file and ledger drift apart by at most a  *)
(* window per death or failed write.                                        *)
THEOREM FilesAgreeHolds == Spec => []FilesAgree
<1>1. ASSUME DInv
      PROVE  FilesAgree
  <2>1. TypeOK /\ CountOK
    BY <1>1 DEF DInv
  <2>. QED
    BY <2>1, CountTypes DEF CountOK, FilesAgree, Pending, Settling
<1>. QED
  BY <1>1, DInvHolds, PTL

(* append_window(): at most one unreadable line per death or failed write.  *)
THEOREM LedgerReadableHolds == Spec => []LedgerReadable
<1>1. ASSUME DInv
      PROVE  LedgerReadable
  <2>. DEFINE Unread == {i \in DOMAIN ledger : Len(ledger[i]) # 1 \/ i \in torn}
  <2>1. TypeOK /\ LineOK
    BY <1>1 DEF DInv
  <2>2. IsFiniteSet(Doubtful) /\ Unread \subseteq Doubtful
    BY <2>1, Totals, FS_Subset DEF Doubtful
  <2>3. /\ Cardinality(Unread) \in Nat /\ Cardinality(Doubtful) \in Nat
        /\ Cardinality(Unread) <= Cardinality(Doubtful)
    BY <2>2, Grows
  <2>. HIDE DEF Unread
  <2>4. Cardinality(Unread) <= Crashes + faults
    BY <2>1, <2>3, Totals DEF LineOK
  <2>. QED
    BY <2>4 DEF LedgerReadable, Unread
<1>. QED
  BY <1>1, DInvHolds, PTL

(* settle(), load(), try_enter(): no window is entered while a halt is owed *)
(* to a human, unless the halt had a hole.                                  *)
THEOREM HaltsNeedAHumanHolds == Spec => HaltsNeedAHuman
<1>1. ASSUME DInv, [Next]_vars, Entered, owed
      PROVE  hole
  <2>1. TypeOK /\ HaltOK
    BY <1>1 DEF DInv
  <2>2. Enter
    <3>1. entries' # entries
      BY <1>1, <2>1, Constants DEF Entered, TypeOK
    <3>. QED
      BY <1>1, <3>1 DEF vars, history, process, files, Next, Handlers, Outside,
         Resume, NoEntry, Settle, AppendRow, EndLine, SaveTmp, Rename, ReconcileHalt,
         Verdict, VerdictTimeout, Crash, Boot, PressResume, EditState, NextWindow
  <2>. QED
    BY <1>1, <2>1, <2>2 DEF HaltOK, Enter
<1>2. DInv /\ [Next]_vars => [Entered /\ owed => hole]_vars
  BY <1>1
<1>. QED
  BY <1>2, DInvHolds, PTL DEF Spec, HaltsNeedAHuman

=============================================================================
