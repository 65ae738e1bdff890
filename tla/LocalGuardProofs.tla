------------------------- MODULE LocalGuardProofs -------------------------
(***************************************************************************)
(* What LocalGuard.tla guarantees for every look-back, every threshold and *)
(* every number of ticks, prices and waits: its types, and that the radar  *)
(* judges a tick by the moves of the last look-back and by no older one.   *)
(***************************************************************************)
EXTENDS LocalGuard, FunctionTheorems, FiniteSetTheorems, SequenceTheorems, TLAPS

Marks == [age : 0 .. Old, price : 0 .. MaxPrice, handled : BOOLEAN]

(* The points of s that a tick of the given age, or a later one, may be     *)
(* judged by; the ticks of t among them that the loop handled.              *)
Young(s, age) == {i \in DOMAIN s : s[i].age <= Lookback + age}
Seen(t, age)  == {j \in Young(t, age) : t[j].handled}

(* f finds the points of the history h among the ticks of the trail t, in   *)
(* their order, and leaves out none that was handled.                       *)
Follows(f, h, t, age) ==
    /\ f \in [Young(h, age) -> Seen(t, age)]
    /\ \A i, j \in Young(h, age) : i < j => f[i] < f[j]
    /\ \A i \in Young(h, age) : t[f[i]].age = h[i].age /\ t[f[i]].price = h[i].price
    /\ \A j \in Seen(t, age) : \E i \in Young(h, age) : f[i] = j
Tracks(h, t, age) == \E f : Follows(f, h, t, age)

(* A history that a tick joins; a trail whose last tick is handled.         *)
Joined(h, age, price) == Recent(Append(h, [age |-> age, price |-> price]), age)
Handled(t) == [t EXCEPT ![Len(t)].handled = TRUE]

(* The oldest first.                                                        *)
Sorted(s) == \A i, j \in DOMAIN s : i <= j => s[i].age >= s[j].age

(* A tick that waits is the last of the trail, and all the trail is young   *)
(* to it; the handler that keeps it waiting ends in time.                   *)
TickInv ==
    /\ unseen => tick.age + stall <= MaxLag
    /\ ~unseen => tick.age = 0
    /\ unseen /\ tick.price # NoPrice =>
          /\ Len(trail) > 0
          /\ trail[Len(trail)] = [age |-> tick.age, price |-> tick.price, handled |-> FALSE]
          /\ \A j \in DOMAIN trail : trail[j].age <= Lookback + tick.age

(* Points come in the order of time, and none is younger than the tick.     *)
AgeInv ==
    /\ Sorted(trail) /\ Sorted(history)
    /\ \A i \in DOMAIN history : tick.age <= history[i].age

(* The inductive invariant: as far back as it matters, the history is the   *)
(* ticks of the trail that were handled.                                    *)
IInv == TypeOK /\ RadarVerdict /\ TickInv /\ AgeInv /\ Tracks(history, trail, tick.age)

-----------------------------------------------------------------------------
(* Lemmas on sequences of points.                                           *)

(* The constants are numbers.                                               *)
LEMMA Constants ==
    /\ Lookback \in Nat /\ Lookback > 0 /\ Threshold \in Nat /\ Zombie \in Nat /\ Zombie > 0
    /\ MinBackoff \in Nat /\ MinBackoff > 0 /\ MaxBackoff \in Nat /\ MinBackoff <= MaxBackoff
    /\ MaxPrice \in Nat /\ MaxStall \in Nat /\ MaxLag \in Nat /\ MaxStall <= MaxLag
    /\ MaxTrail \in Nat /\ MaxTrail > 0
    /\ Old = Lookback + MaxLag + 1 /\ NoPrice = -1
BY LocalGuardAssumption DEF Old, NoPrice

(* The purge of a sequence in the order of time drops the points that are   *)
(* too old, and those only.                                                 *)
LEMMA RecentIs ==
    ASSUME NEW T, \A e \in T : e.age \in Nat, NEW s \in Seq(T), Sorted(s), NEW age \in Nat
    PROVE  \E d \in 0 .. Len(s) :
              /\ Recent(s, age) \in Seq(T) /\ Len(Recent(s, age)) = Len(s) - d
              /\ \A i \in 1 .. Len(s) - d : Recent(s, age)[i] = s[i + d]
              /\ \A i \in 1 .. Len(s) : i <= d <=> s[i].age > Lookback + age
<1> DEFINE young(n) == s[n].age - age <= Lookback
           ends(n)  == n < Len(s) => young(n + 1)
           Ends     == {n \in Nat : ends(n)}
<1>0. Len(s) \in Nat /\ DOMAIN s = 1 .. Len(s) /\ \A i \in 1 .. Len(s) : s[i] \in T
  BY LenProperties, ElementOfSeq
<1>4. Lookback \in Nat
  BY Constants
<1>1. \E n \in 0 .. Len(s) : TooOld(n, s, age)
  <2>1. Len(s) \in Ends
    BY <1>0
  <2>2. PICK n \in Ends : \A m \in Ends : <<m, n>> \notin OpToRel(<, Nat)
    <3>1. Ends \subseteq Nat /\ Ends # {}
      BY <2>1
    <3> HIDE DEF Ends
    <3> QED
      BY <3>1, NatLessThanWellFounded, WFMin
  <2>3. n \in Nat /\ ends(n)
    BY <2>2
  <2>31. ASSUME NEW m \in 0 .. n - 1 PROVE ~ends(m)
    <3>1. m \in Nat /\ m < n
      BY <2>3
    <3>2. <<m, n>> \in OpToRel(<, Nat)
      BY <3>1, <2>3 DEF OpToRel
    <3>3. m \notin Ends
      BY <3>2, <2>2
    <3> QED
      BY <3>1, <3>3
  <2>4. n <= Len(s)
    <3>1. n > Len(s) => Len(s) \in 0 .. n - 1
      BY <1>0, <2>3
    <3> QED
      BY <3>1, <2>31, <1>0, <2>3
  <2>5. ASSUME NEW i \in 1 .. n PROVE s[i].age - age > Lookback
    <3>1. i - 1 \in 0 .. n - 1 /\ (i - 1) + 1 = i
      BY <2>3
    <3>2. ~ends(i - 1)
      BY <3>1, <2>31
    <3>3. i < Len(s) + 1 /\ s[i].age \in Nat
      BY <2>4, <1>0, <2>3
    <3> QED
      BY <3>1, <3>2, <3>3, <1>4
  <2> QED
    BY <2>3, <2>4, <2>5, <1>0 DEF TooOld
<1> DEFINE d == CHOOSE n \in 0 .. Len(s) : TooOld(n, s, age)
<1>2. d \in 0 .. Len(s) /\ TooOld(d, s, age)
  BY <1>1
<1>3. Recent(s, age) = SubSeq(s, d + 1, Len(s))
  <2>1. Recent(s, age) = SubSeq(s, 1 + d, Len(s))
    BY DEF Recent
  <2> HIDE DEF d
  <2>2. 1 + d = d + 1
    BY <1>0, <1>2
  <2> QED
    BY <2>1, <2>2
<1> HIDE DEF d
<1>5. /\ Recent(s, age) \in Seq(T) /\ Len(Recent(s, age)) = Len(s) - d
      /\ \A i \in 1 .. Len(s) - d : Recent(s, age)[i] = s[i + d]
  <2> DEFINE r == Recent(s, age)
  <2>1. d + 1 \in 1 .. Len(s) + 1 /\ Len(s) \in d .. Len(s)
    BY <1>0, <1>2
  <2>2. /\ SubSeq(s, d + 1, Len(s)) \in Seq(T)
        /\ Len(SubSeq(s, d + 1, Len(s))) =
              IF d + 1 <= Len(s) THEN Len(s) - (d + 1) + 1 ELSE 0
        /\ \A i \in 1 .. Len(s) - (d + 1) + 1 :
              SubSeq(s, d + 1, Len(s))[i] = s[(d + 1) + i - 1]
    BY <2>1, <1>0, SubSeqProperties
  <2>3. r \in Seq(T) /\ Len(r) = (IF d + 1 <= Len(s) THEN Len(s) - (d + 1) + 1 ELSE 0)
    BY <2>2, <1>3
  <2>4. ASSUME NEW i \in 1 .. Len(s) - d PROVE r[i] = s[i + d]
    <3>1. i \in 1 .. Len(s) - (d + 1) + 1 /\ (d + 1) + i - 1 = i + d
      BY <1>0, <1>2
    <3> QED
      BY <3>1, <2>2, <1>3
  <2>5. Len(r) = Len(s) - d
    <3> HIDE DEF r
    <3>1. d \in Nat /\ d <= Len(s)
      BY <1>0, <1>2
    <3>2. Len(s) \in Nat
      BY <1>0
    <3>3. CASE d = Len(s)
      BY <3>1, <3>2, <3>3, <2>3
    <3>4. CASE d < Len(s)
      BY <3>1, <3>2, <3>4, <2>3
    <3> QED
      BY <3>1, <3>2, <3>3, <3>4
  <2> QED
    BY <2>3, <2>4, <2>5
<1>6. ASSUME NEW i \in 1 .. Len(s) PROVE i <= d <=> s[i].age > Lookback + age
  <2>1. s[i].age \in Nat
    BY <1>0
  <2>2. CASE i <= d
    BY <2>1, <2>2, <1>0, <1>2, <1>4 DEF TooOld
  <2>3. CASE i > d
    <3>1. d + 1 \in 1 .. Len(s) /\ d + 1 <= i /\ d < Len(s)
      BY <2>3, <1>0, <1>2
    <3>2. s[d + 1].age >= s[i].age /\ s[d + 1].age \in Nat
      BY <3>1, <1>0 DEF Sorted
    <3>3. s[d + 1].age - age <= Lookback
      BY <3>1, <1>2 DEF TooOld
    <3> QED
      BY <3>2, <3>3, <2>1, <2>3, <1>4, <1>2
  <2> QED
    BY <2>2, <2>3, <1>2
<1> QED
  BY <1>2, <1>5, <1>6

(* A unit of time: the same points, each older by one as far as it matters. *)
LEMMA AgedIs ==
    ASSUME NEW T, T \in {Points, Marks}, NEW s \in Seq(T)
    PROVE  /\ Aged(s) \in Seq(T) /\ Len(Aged(s)) = Len(s) /\ DOMAIN Aged(s) = DOMAIN s
           /\ \A i \in DOMAIN s :
                 /\ s[i] \in T
                 /\ s[i].age < Old => Aged(s)[i].age = s[i].age + 1
                 /\ s[i].age >= Old => Aged(s)[i].age = Old
                 /\ Aged(s)[i].price = s[i].price
                 /\ T = Marks => Aged(s)[i].handled = s[i].handled
<1>1. Len(s) \in Nat /\ DOMAIN s = 1 .. Len(s) /\ \A i \in 1 .. Len(s) : s[i] \in T
  BY LenProperties, ElementOfSeq
<1>2. ASSUME NEW e \in T
      PROVE  /\ e.age \in 0 .. Old
             /\ [e EXCEPT !.age = Lesser(@ + 1, Old)] \in T
             /\ [e EXCEPT !.age = Lesser(@ + 1, Old)].age = Lesser(e.age + 1, Old)
             /\ [e EXCEPT !.age = Lesser(@ + 1, Old)].price = e.price
             /\ T = Marks => [e EXCEPT !.age = Lesser(@ + 1, Old)].handled = e.handled
             /\ e.age < Old => Lesser(e.age + 1, Old) = e.age + 1
             /\ e.age >= Old => Lesser(e.age + 1, Old) = Old
  <2>1. Old \in Nat
    BY Constants
  <2>2. CASE T = Points
    <3>1. e.age \in 0 .. Old
      BY <2>2 DEF Points
    <3>2. Lesser(e.age + 1, Old) \in 0 .. Old
      BY <2>1, <3>1 DEF Lesser
    <3> QED
      BY <2>1, <2>2, <3>1, <3>2 DEF Points, Lesser
  <2>3. CASE T = Marks
    <3>1. e.age \in 0 .. Old
      BY <2>3 DEF Marks
    <3>2. Lesser(e.age + 1, Old) \in 0 .. Old
      BY <2>1, <3>1 DEF Lesser
    <3> QED
      BY <2>1, <2>3, <3>1, <3>2 DEF Marks, Lesser
  <2> QED
    BY <2>2, <2>3
<1>3. /\ DOMAIN Aged(s) = 1 .. Len(s)
      /\ \A i \in 1 .. Len(s) : Aged(s)[i] = [s[i] EXCEPT !.age = Lesser(@ + 1, Old)]
  BY <1>1 DEF Aged
<1>4. Aged(s) \in [1 .. Len(s) -> T]
  <2>1. \A i \in 1 .. Len(s) : [s[i] EXCEPT !.age = Lesser(@ + 1, Old)] \in T
    BY <1>1, <1>2
  <2> QED
    BY <2>1, <1>1 DEF Aged
<1>5. Aged(s) \in Seq(T) /\ Len(Aged(s)) = Len(s)
  BY <1>4, <1>1, SeqDef, LenProperties
<1>6. ASSUME NEW i \in 1 .. Len(s)
      PROVE  /\ s[i].age < Old => Aged(s)[i].age = s[i].age + 1
             /\ s[i].age >= Old => Aged(s)[i].age = Old
             /\ Aged(s)[i].price = s[i].price
             /\ T = Marks => Aged(s)[i].handled = s[i].handled
  <2> DEFINE e == s[i]
  <2>1. e \in T /\ Aged(s)[i] = [e EXCEPT !.age = Lesser(@ + 1, Old)]
    BY <1>1, <1>3
  <2> HIDE DEF e
  <2>2. /\ e.age < Old => Aged(s)[i].age = e.age + 1
        /\ e.age >= Old => Aged(s)[i].age = Old
        /\ Aged(s)[i].price = e.price
        /\ T = Marks => Aged(s)[i].handled = e.handled
    BY <1>2, <2>1
  <2> QED
    BY <2>2 DEF e
<1> QED
  BY <1>1, <1>3, <1>5, <1>6

(* A unit of time keeps the order of a sequence.                            *)
LEMMA AgedSorted ==
    ASSUME NEW T, T \in {Points, Marks}, NEW s \in Seq(T), Sorted(s)
    PROVE  Sorted(Aged(s))
<1> SUFFICES ASSUME NEW i \in DOMAIN s, NEW j \in DOMAIN s, i <= j
             PROVE  Aged(s)[i].age >= Aged(s)[j].age
  BY AgedIs DEF Sorted
<1>1. s[i].age >= s[j].age
  BY DEF Sorted
<1>2. s[i].age \in 0 .. Old /\ s[j].age \in 0 .. Old
  BY AgedIs DEF Points, Marks
<1>3. ASSUME NEW n \in DOMAIN s
      PROVE  /\ s[n].age < Old => Aged(s)[n].age = s[n].age + 1
             /\ s[n].age >= Old => Aged(s)[n].age = Old
  BY AgedIs
<1>4. Old \in Nat
  BY Constants
<1> QED
  BY <1>1, <1>2, <1>3, <1>4

(* So does what a purge leaves ...                                          *)
LEMMA RecentSorted ==
    ASSUME NEW T, \A e \in T : e.age \in Nat, NEW s \in Seq(T), Sorted(s), NEW age \in Nat
    PROVE  Sorted(Recent(s, age))
<1> DEFINE r == Recent(s, age)
<1>1. PICK d \in 0 .. Len(s) :
              /\ r \in Seq(T) /\ Len(r) = Len(s) - d
              /\ \A i \in 1 .. Len(s) - d : r[i] = s[i + d]
  BY RecentIs
<1>2. Len(s) \in Nat /\ DOMAIN s = 1 .. Len(s) /\ DOMAIN r = 1 .. Len(r)
  BY <1>1, LenProperties
<1> HIDE DEF r
<1>3. ASSUME NEW i \in 1 .. Len(s) - d, NEW j \in 1 .. Len(s) - d, i <= j
      PROVE  r[i].age >= r[j].age
  <2>1. i + d \in DOMAIN s /\ j + d \in DOMAIN s /\ i + d <= j + d
    BY <1>2, <1>3
  <2>2. s[i + d].age >= s[j + d].age
    BY <2>1 DEF Sorted
  <2> QED
    BY <2>2, <1>1
<1>4. Sorted(r)
  BY <1>1, <1>2, <1>3 DEF Sorted
<1> QED
  BY <1>4 DEF r

(* ... and a point that is no older than those before it.                   *)
LEMMA AppendSorted ==
    ASSUME NEW T, \A e \in T : e.age \in Nat, NEW s \in Seq(T), Sorted(s), NEW e \in T,
           \A i \in DOMAIN s : e.age <= s[i].age
    PROVE  Sorted(Append(s, e))
<1> DEFINE r == Append(s, e)
<1>1. /\ r \in Seq(T) /\ Len(r) = Len(s) + 1 /\ r[Len(s) + 1] = e
      /\ \A i \in 1 .. Len(s) : r[i] = s[i]
  BY AppendProperties
<1>2. Len(s) \in Nat /\ DOMAIN s = 1 .. Len(s) /\ DOMAIN r = 1 .. Len(s) + 1
  BY <1>1, LenProperties
<1> HIDE DEF r
<1>3. ASSUME NEW i \in 1 .. Len(s) + 1, NEW j \in 1 .. Len(s) + 1, i <= j
      PROVE  r[i].age >= r[j].age
  <2>1. CASE j <= Len(s)
    <3>1. i \in DOMAIN s /\ j \in DOMAIN s
      BY <1>2, <1>3, <2>1
    <3> QED
      BY <3>1, <1>1, <1>2, <1>3 DEF Sorted
  <2>2. CASE j = Len(s) + 1 /\ i <= Len(s)
    <3>1. i \in DOMAIN s /\ s[i] \in T
      BY <1>2, <2>2, ElementOfSeq
    <3>2. r[i] = s[i] /\ r[j] = e
      BY <3>1, <1>1, <1>2, <2>2
    <3>3. e.age <= s[i].age /\ e.age \in Nat /\ s[i].age \in Nat
      BY <3>1
    <3> QED
      BY <3>2, <3>3
  <2>3. CASE j = Len(s) + 1 /\ i = Len(s) + 1
    <3>1. e.age \in Nat
      OBVIOUS
    <3> QED
      BY <2>3, <1>1, <3>1
  <2> QED
    BY <2>1, <2>2, <2>3, <1>2, <1>3
<1>4. Sorted(r)
  BY <1>2, <1>3 DEF Sorted
<1> QED
  BY <1>4 DEF r

-----------------------------------------------------------------------------
(* The history follows the trail.                                           *)

(* What a step leaves young of both is found as before, if the step changes *)
(* neither their order nor who was handled, and their ages alike.           *)
LEMMA FollowsOn ==
    ASSUME NEW h, NEW t, NEW age \in Nat, Tracks(h, t, age), DOMAIN h \subseteq Nat,
           NEW g, NEW u, NEW late \in Nat, DOMAIN g = DOMAIN h, DOMAIN u = DOMAIN t,
           Young(g, late) \subseteq Young(h, age), Young(u, late) \subseteq Young(t, age),
           \A i \in DOMAIN h, j \in DOMAIN t : h[i].age = t[j].age => g[i].age = u[j].age,
           \A i \in DOMAIN h : g[i].price = h[i].price,
           \A j \in DOMAIN t : u[j].price = t[j].price /\ u[j].handled = t[j].handled
    PROVE  Tracks(g, u, late)
<1>1. PICK f : Follows(f, h, t, age)
  BY DEF Tracks
<1> DEFINE k == [i \in Young(g, late) |-> f[i]]
<1>2. ASSUME NEW i \in Young(g, late)
      PROVE  /\ i \in DOMAIN h /\ i \in Young(h, age) /\ f[i] \in DOMAIN t /\ t[f[i]].handled
             /\ g[i].age = u[f[i]].age /\ g[i].price = u[f[i]].price
  <2>1. i \in DOMAIN h /\ i \in Young(h, age)
    BY DEF Young
  <2>2. f[i] \in DOMAIN t /\ t[f[i]].handled
    BY <1>1, <2>1 DEF Follows, Seen, Young
  <2>3. t[f[i]].age = h[i].age /\ t[f[i]].price = h[i].price
    BY <1>1, <2>1 DEF Follows
  <2> QED
    BY <2>1, <2>2, <2>3
<1>3. ASSUME NEW i \in Young(g, late) PROVE f[i] \in Seen(u, late)
  <2>1. g[i].age <= Lookback + late
    BY DEF Young
  <2> QED
    BY <1>2, <2>1 DEF Seen, Young
<1>4. ASSUME NEW j \in Seen(u, late) PROVE \E i \in Young(g, late) : f[i] = j
  <2>1. j \in DOMAIN t /\ j \in Seen(t, age) /\ u[j].age <= Lookback + late
    BY DEF Seen, Young
  <2>2. PICK i \in Young(h, age) : f[i] = j
    BY <1>1, <2>1 DEF Follows
  <2>3. i \in DOMAIN h /\ t[j].age = h[i].age
    BY <1>1, <2>2 DEF Follows, Young
  <2>4. g[i].age = u[j].age
    BY <2>1, <2>3
  <2>5. i \in Young(g, late)
    BY <2>1, <2>3, <2>4 DEF Young
  <2> QED
    BY <2>2, <2>5
<1>5. \A i, j \in Young(g, late) : i < j => f[i] < f[j]
  BY <1>1, <1>2 DEF Follows
<1>6. k \in [Young(g, late) -> Seen(u, late)] /\ \A i \in Young(g, late) : k[i] = f[i]
  BY <1>3
<1> HIDE DEF k
<1>7. Follows(k, g, u, late)
  BY <1>2, <1>4, <1>5, <1>6 DEF Follows
<1> QED
  BY <1>7 DEF Tracks

(* A tick that joins the trail, whose old ticks leave it.                   *)
LEMMA FollowsBook ==
    ASSUME NEW h \in Seq(Points), NEW t \in Seq(Marks), NEW age \in Nat,
           Tracks(h, t, age), Sorted(t), NEW m \in Marks, ~m.handled
    PROVE  Tracks(h, Append(Recent(t, 0), m), 0)
<1> DEFINE r == Recent(t, 0)
           u == Append(r, m)
<1>1. PICK f : Follows(f, h, t, age)
  BY DEF Tracks
<1>2. PICK d \in 0 .. Len(t) :
              /\ r \in Seq(Marks) /\ Len(r) = Len(t) - d
              /\ \A i \in 1 .. Len(t) - d : r[i] = t[i + d]
              /\ \A i \in 1 .. Len(t) : i <= d <=> t[i].age > Lookback + 0
  <2>1. \A e \in Marks : e.age \in Nat
    BY Constants DEF Marks
  <2> QED
    BY <2>1, RecentIs
<1> HIDE DEF r
<1>3. /\ Len(u) = Len(r) + 1 /\ DOMAIN u = 1 .. Len(r) + 1 /\ u[Len(r) + 1] = m
      /\ \A i \in 1 .. Len(r) : u[i] = r[i]
  <2>1. /\ u \in Seq(Marks) /\ Len(u) = Len(r) + 1 /\ u[Len(r) + 1] = m
        /\ \A i \in 1 .. Len(r) : u[i] = r[i]
    BY <1>2, AppendProperties
  <2> QED
    BY <2>1, LenProperties
<1>4. /\ Len(t) \in Nat /\ DOMAIN t = 1 .. Len(t) /\ DOMAIN h = 1 .. Len(h) /\ Len(h) \in Nat
      /\ \A j \in 1 .. Len(t) : t[j].age \in Nat
      /\ \A i \in 1 .. Len(h) : h[i].age \in Nat
      /\ Lookback \in Nat
  <2>1. \A j \in 1 .. Len(t) : t[j] \in Marks
    BY ElementOfSeq
  <2>2. \A i \in 1 .. Len(h) : h[i] \in Points
    BY ElementOfSeq
  <2> QED
    BY <2>1, <2>2, LenProperties, Constants DEF Marks, Points
<1> HIDE DEF u
<1> DEFINE k == [i \in Young(h, 0) |-> f[i] - d]
<1>5. ASSUME NEW i \in Young(h, 0)
      PROVE  /\ i \in Young(h, age) /\ f[i] \in d + 1 .. Len(t) /\ f[i] - d \in 1 .. Len(r)
             /\ u[f[i] - d] = t[f[i]] /\ f[i] - d \in Seen(u, 0)
             /\ u[f[i] - d].age = h[i].age /\ u[f[i] - d].price = h[i].price
  <2>1. i \in 1 .. Len(h) /\ h[i].age <= Lookback /\ i \in Young(h, age)
    BY <1>4 DEF Young
  <2>2. f[i] \in 1 .. Len(t) /\ t[f[i]].handled /\ t[f[i]].age = h[i].age
        /\ t[f[i]].price = h[i].price
    BY <1>1, <1>4, <2>1 DEF Follows, Seen, Young
  <2>3. ~(f[i] <= d)
    BY <2>1, <2>2, <1>2, <1>4
  <2>4. f[i] \in d + 1 .. Len(t) /\ f[i] - d \in 1 .. Len(r) /\ (f[i] - d) + d = f[i]
    BY <2>2, <2>3, <1>2, <1>4
  <2>5. u[f[i] - d] = t[f[i]]
    BY <2>4, <1>2, <1>3
  <2>6. f[i] - d \in DOMAIN u
    BY <2>4, <1>2, <1>3, <1>4
  <2>7. f[i] - d \in Seen(u, 0)
    BY <2>1, <2>2, <2>5, <2>6, <1>4 DEF Seen, Young
  <2> QED
    BY <2>1, <2>2, <2>4, <2>5, <2>7
<1>6. ASSUME NEW j \in Seen(u, 0) PROVE \E i \in Young(h, 0) : f[i] - d = j
  <2>1. j \in 1 .. Len(r) + 1 /\ u[j].handled /\ u[j].age <= Lookback + 0
    BY <1>3 DEF Seen, Young
  <2>2. j # Len(r) + 1
    BY <2>1, <1>3
  <2>3. j \in 1 .. Len(r) /\ j + d \in 1 .. Len(t)
    BY <2>1, <2>2, <1>2, <1>4
  <2>4. u[j] = t[j + d]
    BY <2>3, <1>2, <1>3
  <2>5. j + d \in Seen(t, age)
    BY <2>1, <2>3, <2>4, <1>4 DEF Seen, Young
  <2>6. PICK i \in Young(h, age) : f[i] = j + d
    BY <1>1, <2>5 DEF Follows
  <2>7. h[i].age = u[j].age /\ i \in DOMAIN h
    BY <1>1, <2>4, <2>6 DEF Follows, Young
  <2>8. i \in Young(h, 0)
    BY <2>1, <2>7 DEF Young
  <2>9. f[i] - d = j
    BY <2>3, <2>6, <1>2
  <2> QED
    BY <2>8, <2>9
<1>7. ASSUME NEW i \in Young(h, 0), NEW j \in Young(h, 0), i < j PROVE f[i] - d < f[j] - d
  <2>1. f[i] < f[j]
    BY <1>1, <1>5, <1>7 DEF Follows
  <2>2. f[i] \in Nat /\ f[j] \in Nat /\ d \in Nat
    BY <1>2, <1>4, <1>5
  <2> QED
    BY <2>1, <2>2
<1>8. k \in [Young(h, 0) -> Seen(u, 0)] /\ \A i \in Young(h, 0) : k[i] = f[i] - d
  BY <1>5
<1> HIDE DEF k
<1>9. Follows(k, h, u, 0)
  <2>1. \A i, j \in Young(h, 0) : i < j => k[i] < k[j]
    BY <1>7, <1>8
  <2>2. \A i \in Young(h, 0) : u[k[i]].age = h[i].age /\ u[k[i]].price = h[i].price
    BY <1>5, <1>8
  <2>3. \A j \in Seen(u, 0) : \E i \in Young(h, 0) : k[i] = j
    BY <1>6, <1>8
  <2> QED
    BY <1>8, <2>1, <2>2, <2>3 DEF Follows
<1> QED
  BY <1>9 DEF Tracks, u, r

(* The last tick of the trail is handled: its price joins the history, what *)
(* is too old for it leaves.                                                *)
LEMMA FollowsHandle ==
    ASSUME NEW h \in Seq(Points), NEW t \in Seq(Marks), NEW age \in 0 .. Old,
           NEW price \in 0 .. MaxPrice,
           Tracks(h, t, age), Sorted(h), \A i \in DOMAIN h : age <= h[i].age,
           Len(t) > 0, t[Len(t)] = [age |-> age, price |-> price, handled |-> FALSE],
           \A j \in DOMAIN t : t[j].age <= Lookback + age,
           NEW g, g = Joined(h, age, price), NEW u, u = Handled(t)
    PROVE  /\ Tracks(g, u, age) /\ g \in Seq(Points) /\ Sorted(g) /\ u \in Seq(Marks)
           /\ Len(g) > 0 /\ g[Len(g)] = [age |-> age, price |-> price]
           /\ \A i \in DOMAIN g : age <= g[i].age /\ g[i].age <= Lookback + age
           /\ Len(u) = Len(t)
           /\ \A j \in DOMAIN t : u[j].age = t[j].age /\ u[j].price = t[j].price
           /\ u[Len(t)].handled
<1> DEFINE p == [age |-> age, price |-> price]
           a == Append(h, p)
<1>1. PICK f : Follows(f, h, t, age)
  BY DEF Tracks
<1>2. Lookback \in Nat /\ Old \in Nat /\ age \in Nat
  BY Constants
<1>3. p \in Points /\ p.age = age /\ p.price = price
  BY DEF Points
<1>4. /\ Len(t) \in Nat /\ DOMAIN t = 1 .. Len(t) /\ DOMAIN h = 1 .. Len(h) /\ Len(h) \in Nat
      /\ \A j \in 1 .. Len(t) : t[j] \in Marks /\ t[j].age \in Nat
      /\ \A i \in 1 .. Len(h) : h[i] \in Points /\ h[i].age \in Nat
  <2>1. \A j \in 1 .. Len(t) : t[j] \in Marks
    BY ElementOfSeq
  <2>2. \A i \in 1 .. Len(h) : h[i] \in Points
    BY ElementOfSeq
  <2>3. /\ \A e \in Marks : e.age \in Nat
        /\ \A e \in Points : e.age \in Nat
    BY <1>2 DEF Marks, Points
  <2> QED
    BY <2>1, <2>2, <2>3, LenProperties
<1>5. \A e \in Points : e.age \in Nat
  BY <1>2 DEF Points
<1> HIDE DEF p
<1>6. /\ a \in Seq(Points) /\ Len(a) = Len(h) + 1 /\ a[Len(h) + 1] = p
      /\ \A i \in 1 .. Len(h) : a[i] = h[i]
  BY <1>3, AppendProperties
<1>7. Sorted(a)
  BY <1>3, <1>5, AppendSorted
<1> HIDE DEF a
<1>8. g = Recent(a, age)
  BY DEF a, p, Joined
<1>9. PICK d \in 0 .. Len(a) :
              /\ g \in Seq(Points) /\ Len(g) = Len(a) - d
              /\ \A i \in 1 .. Len(a) - d : g[i] = a[i + d]
              /\ \A i \in 1 .. Len(a) : i <= d <=> a[i].age > Lookback + age
  <2>1. \E d \in 0 .. Len(a) :
              /\ Recent(a, age) \in Seq(Points) /\ Len(Recent(a, age)) = Len(a) - d
              /\ \A i \in 1 .. Len(a) - d : Recent(a, age)[i] = a[i + d]
              /\ \A i \in 1 .. Len(a) : i <= d <=> a[i].age > Lookback + age
    BY <1>2, <1>5, <1>6, <1>7, RecentIs
  <2> QED
    BY <2>1, <1>8
<1>10. Sorted(g)
  BY <1>2, <1>5, <1>6, <1>7, <1>8, RecentSorted
<1>11. d \in 0 .. Len(h) /\ Len(g) = Len(h) + 1 - d /\ Len(g) > 0 /\ DOMAIN g = 1 .. Len(g)
       /\ Len(g) \in Nat
  <2>1. ~(Len(h) + 1 <= d)
    <3>1. Len(h) + 1 \in 1 .. Len(a) /\ a[Len(h) + 1].age = age
      BY <1>3, <1>4, <1>6
    <3>2. Len(h) + 1 <= d => a[Len(h) + 1].age > Lookback + age
      BY <3>1, <1>9
    <3> QED
      BY <3>1, <3>2, <1>2
  <2> QED
    BY <2>1, <1>4, <1>6, <1>9, LenProperties
<1>12. g[Len(g)] = p
  <2>1. Len(g) \in 1 .. Len(a) - d /\ Len(g) + d = Len(h) + 1
    BY <1>4, <1>6, <1>11
  <2> QED
    BY <2>1, <1>6, <1>9
<1>13. ASSUME NEW i \in 1 .. Len(g), i # Len(g)
       PROVE  /\ i + d \in Young(h, age) /\ i + d \in 1 .. Len(h) /\ g[i] = h[i + d]
              /\ h[i + d].age <= Lookback + age
  <2>1. i + d \in 1 .. Len(h) /\ i \in 1 .. Len(a) - d /\ i + d \in 1 .. Len(a) /\ ~(i + d <= d)
    BY <1>4, <1>6, <1>11, <1>13
  <2>2. g[i] = h[i + d] /\ a[i + d] = h[i + d]
    BY <2>1, <1>6, <1>9
  <2>3. h[i + d].age <= Lookback + age
    BY <2>1, <2>2, <1>2, <1>4, <1>9
  <2> QED
    BY <2>1, <2>2, <2>3, <1>4 DEF Young
<1>14. ASSUME NEW i \in 1 .. Len(g) PROVE age <= g[i].age /\ g[i].age <= Lookback + age
  <2>1. CASE i = Len(g)
    BY <2>1, <1>2, <1>3, <1>12
  <2>2. CASE i # Len(g)
    BY <2>2, <1>4, <1>13
  <2> QED
    BY <2>1, <2>2
<1>15. Young(g, age) = 1 .. Len(g)
  BY <1>11, <1>14 DEF Young
<1>16. /\ u \in Seq(Marks) /\ Len(u) = Len(t) /\ DOMAIN u = 1 .. Len(t)
       /\ u[Len(t)].handled
       /\ \A j \in 1 .. Len(t) :
             /\ u[j].age = t[j].age /\ u[j].price = t[j].price
             /\ j # Len(t) => u[j] = t[j]
  <2>1. DOMAIN u = 1 .. Len(t) /\ Len(t) \in 1 .. Len(t)
    BY <1>4 DEF Handled
  <2>2. \A j \in 1 .. Len(t) : j # Len(t) => u[j] = t[j]
    BY <1>4 DEF Handled
  <2>3. u[Len(t)] = [t[Len(t)] EXCEPT !.handled = TRUE]
    BY <1>4, <2>1 DEF Handled
  <2>4. /\ u[Len(t)].age = age /\ u[Len(t)].price = price /\ u[Len(t)].handled
        /\ t[Len(t)].age = age /\ t[Len(t)].price = price
    BY <2>3
  <2>5. u[Len(t)] \in Marks
    <3>1. t[Len(t)] \in Marks
      BY <1>4, <2>1
    <3> QED
      BY <2>3, <3>1 DEF Marks
  <2>6. \A j \in 1 .. Len(t) : u[j] \in Marks
    BY <2>2, <2>5, <1>4
  <2>7. u \in [1 .. Len(t) -> Marks]
    <3>1. u = [j \in 1 .. Len(t) |-> u[j]]
      BY <2>1 DEF Handled
    <3> QED
      BY <2>6, <3>1
  <2>8. u \in Seq(Marks)
    <3>1. Len(t) \in Nat
      BY <1>4
    <3> QED
      BY <2>7, <3>1, SeqDef
  <2>9. Len(u) = Len(t)
    <3>1. DOMAIN u = 1 .. Len(u) /\ Len(u) \in Nat
      BY <2>8, LenProperties
    <3>2. \A j : j \in 1 .. Len(u) <=> j \in 1 .. Len(t)
      BY <3>1, <2>1
    <3>3. Len(t) \in 1 .. Len(u) /\ Len(t) \in Nat
      BY <3>2, <2>1, <1>4
    <3>4. Len(u) \in 1 .. Len(u)
      BY <3>1, <3>3
    <3>5. Len(u) \in 1 .. Len(t)
      BY <3>2, <3>4
    <3> QED
      BY <3>1, <3>3, <3>5
  <2> QED
    BY <2>1, <2>2, <2>4, <2>8, <2>9
<1>161. ASSUME NEW j \in 1 .. Len(t), u[j].handled PROVE j \in Seen(u, age)
  <2>1. j \in DOMAIN u /\ u[j].age <= Lookback + age
    BY <1>4, <1>16
  <2> QED
    BY <2>1, <1>161 DEF Seen, Young
<1> DEFINE k == [i \in 1 .. Len(g) |-> IF i = Len(g) THEN Len(t) ELSE f[i + d]]
<1>17. ASSUME NEW i \in 1 .. Len(g), i # Len(g)
       PROVE  /\ f[i + d] \in 1 .. Len(t) /\ f[i + d] # Len(t) /\ t[f[i + d]].handled
              /\ t[f[i + d]].age = g[i].age /\ t[f[i + d]].price = g[i].price
  <2>1. i + d \in Young(h, age) /\ g[i] = h[i + d]
    BY <1>13, <1>17
  <2>2. f[i + d] \in 1 .. Len(t) /\ t[f[i + d]].handled
    BY <1>1, <1>4, <2>1 DEF Follows, Seen, Young
  <2>3. f[i + d] # Len(t)
    BY <2>2
  <2> QED
    BY <1>1, <2>1, <2>2, <2>3 DEF Follows
<1>18. ASSUME NEW i \in 1 .. Len(g)
       PROVE  /\ k[i] \in Seen(u, age)
              /\ u[k[i]].age = g[i].age /\ u[k[i]].price = g[i].price
  <2>1. CASE i = Len(g)
    <3>1. k[i] = Len(t) /\ Len(t) \in 1 .. Len(t)
      BY <2>1, <1>4
    <3>2. u[Len(t)].age = age /\ u[Len(t)].price = price /\ u[Len(t)].handled
      <4>1. t[Len(t)].age = age /\ t[Len(t)].price = price
        OBVIOUS
      <4>2. u[Len(t)].age = t[Len(t)].age /\ u[Len(t)].price = t[Len(t)].price
        BY <3>1, <1>16
      <4> QED
        BY <4>1, <4>2, <1>16
    <3>3. g[i].age = age /\ g[i].price = price
      BY <2>1, <1>3, <1>12
    <3> HIDE DEF k
    <3> QED
      BY <3>1, <3>2, <3>3, <1>161
  <2>2. CASE i # Len(g)
    <3>1. k[i] = f[i + d]
      BY <2>2
    <3> HIDE DEF k
    <3>2. k[i] \in 1 .. Len(t) /\ u[k[i]] = t[k[i]] /\ t[k[i]].handled
      BY <3>1, <2>2, <1>16, <1>17
    <3>3. k[i] \in Seen(u, age)
      BY <3>2, <1>161
    <3> QED
      BY <3>1, <3>2, <3>3, <2>2, <1>17
  <2> QED
    BY <2>1, <2>2
<1>19. ASSUME NEW i \in 1 .. Len(g), NEW j \in 1 .. Len(g), i < j PROVE k[i] < k[j]
  <2>1. i # Len(g) /\ k[i] = f[i + d]
    BY <1>11, <1>19
  <2>2. f[i + d] \in 1 .. Len(t) /\ f[i + d] # Len(t)
    BY <2>1, <1>17
  <2>3. CASE j = Len(g)
    BY <2>1, <2>2, <2>3, <1>4
  <2>4. CASE j # Len(g)
    <3>1. k[j] = f[j + d]
      BY <2>4
    <3> HIDE DEF k
    <3>2. i + d \in Young(h, age) /\ j + d \in Young(h, age)
      BY <2>1, <2>4, <1>13
    <3>3. i + d < j + d
      BY <1>11, <1>19
    <3> QED
      BY <2>1, <3>1, <3>2, <3>3, <1>1 DEF Follows
  <2> QED
    BY <2>3, <2>4
<1>20. ASSUME NEW j \in Seen(u, age) PROVE \E i \in 1 .. Len(g) : k[i] = j
  <2>1. j \in 1 .. Len(t) /\ u[j].handled
    BY <1>16 DEF Seen, Young
  <2>2. CASE j = Len(t)
    <3>1. Len(g) \in 1 .. Len(g)
      BY <1>11
    <3>2. k[Len(g)] = Len(t)
      BY <3>1
    <3> QED
      BY <3>1, <3>2, <2>2
  <2>3. CASE j # Len(t)
    <3>1. j \in Seen(t, age)
      BY <2>1, <2>3, <1>4, <1>16 DEF Seen, Young
    <3>2. PICK i \in Young(h, age) : f[i] = j
      BY <3>1, <1>1 DEF Follows
    <3>3. i \in 1 .. Len(h) /\ h[i].age <= Lookback + age
      BY <1>4 DEF Young
    <3>4. ~(i <= d)
      BY <3>3, <1>2, <1>4, <1>6, <1>9
    <3>5. i - d \in 1 .. Len(g) /\ i - d # Len(g) /\ (i - d) + d = i
      BY <3>3, <3>4, <1>4, <1>11
    <3>6. k[i - d] = j
      BY <3>2, <3>5
    <3> QED
      BY <3>5, <3>6
  <2> QED
    BY <2>2, <2>3
<1>21. k \in [Young(g, age) -> Seen(u, age)]
  <2>1. DOMAIN k = Young(g, age)
    BY <1>15
  <2>2. k \in [Young(g, age) -> Seen(u, age)]
    BY <1>15, <1>18
  <2> QED
    BY <2>2
<1> HIDE DEF k
<1>22. Follows(k, g, u, age)
  BY <1>15, <1>18, <1>19, <1>20, <1>21 DEF Follows
<1>23. Tracks(g, u, age)
  BY <1>22 DEF Tracks
<1> QED
  BY <1>4, <1>9, <1>10, <1>11, <1>12, <1>14, <1>16, <1>23 DEF p

(* A crash over the ticks from one on is a matter of two prices.            *)
LEMMA CrashOfSuffix ==
    ASSUME NEW T, NEW s \in Seq(T), NEW i \in DOMAIN s, NEW x \in BOOLEAN
    PROVE  Crash(SubSeq(s, i, Len(s)), x) <=>
              /\ i < Len(s)
              /\ x
              /\ Abs(s[Len(s)].price - s[i].price) >= Threshold
<1> DEFINE r == SubSeq(s, i, Len(s))
<1>1. Len(s) \in Nat /\ i \in 1 .. Len(s)
  BY LenProperties
<1>2. /\ Len(r) = IF i <= Len(s) THEN Len(s) - i + 1 ELSE 0
      /\ \A j \in 1 .. Len(s) - i + 1 : r[j] = s[i + j - 1]
  <2>1. i \in 1 .. Len(s) + 1 /\ Len(s) \in i - 1 .. Len(s)
    BY <1>1
  <2> QED
    BY <2>1, SubSeqProperties
<1> HIDE DEF r
<1>3. Len(r) = Len(s) - i + 1 /\ Len(r) \in Nat
  BY <1>1, <1>2
<1>4. r[1] = s[i] /\ r[Len(r)] = s[Len(s)]
  <2>1. 1 \in 1 .. Len(s) - i + 1 /\ i + 1 - 1 = i
    BY <1>1
  <2>2. Len(r) \in 1 .. Len(s) - i + 1
    BY <1>1, <1>3
  <2>3. i + Len(r) - 1 = Len(s)
    <3>1. i \in Nat /\ Len(s) \in Nat /\ Len(r) \in Nat /\ Len(r) = Len(s) - i + 1
      BY <1>1, <1>3
    <3> QED
      BY ONLY <3>1
  <2> QED
    BY <2>1, <2>2, <2>3, <1>2
<1>5. Len(r) >= 2 <=> i < Len(s)
  BY <1>1, <1>3
<1>6. Crash(r, x) <=> /\ Len(r) >= 2
                      /\ x
                      /\ Abs(s[Len(s)].price - s[i].price) >= Threshold
  BY <1>4 DEF Crash
<1> QED
  BY <1>5, <1>6 DEF r

(* The history of a tick just handled says of the trail what RadarVerdict   *)
(* asks, and is no longer.                                                  *)
LEMMA Verdict ==
    ASSUME NEW g \in Seq(Points), NEW u \in Seq(Marks), NEW age \in Nat, Tracks(g, u, age),
           Len(g) > 0, Len(u) > 0,
           g[Len(g)].price = u[Len(u)].price, u[Len(u)].handled,
           \A i \in DOMAIN g : g[i].age <= Lookback + age,
           \A j \in DOMAIN u : u[j].age <= Lookback + age,
           NEW x \in BOOLEAN
    PROVE  /\ Len(g) <= Len(u)
           /\ Crash(g, x) => \E i \in DOMAIN u : Crash(SubSeq(u, i, Len(u)), x)
           /\ (\A i \in DOMAIN u : u[i].handled) => (Crash(g, x) <=> Crash(u, x))
<1> DEFINE m == Len(g)
           n == Len(u)
<1>1. m \in Nat \ {0} /\ n \in Nat \ {0} /\ DOMAIN g = 1 .. m /\ DOMAIN u = 1 .. n
  BY LenProperties
<1>2. Young(g, age) = 1 .. m /\ Young(u, age) = 1 .. n
  BY <1>1 DEF Young
<1>3. PICK f : Follows(f, g, u, age)
  BY DEF Tracks
<1>4. /\ f \in [1 .. m -> 1 .. n]
      /\ \A i, j \in 1 .. m : i < j => f[i] < f[j]
      /\ \A i \in 1 .. m : u[f[i]].price = g[i].price
      /\ \A j \in 1 .. n : u[j].handled => \E i \in 1 .. m : f[i] = j
  <2>1. Seen(u, age) \subseteq 1 .. n
    BY <1>2 DEF Seen
  <2>2. f \in [1 .. m -> 1 .. n]
    BY <2>1, <1>2, <1>3 DEF Follows
  <2>3. \A j \in 1 .. n : u[j].handled => j \in Seen(u, age)
    BY <1>2 DEF Seen
  <2> QED
    BY <2>2, <2>3, <1>2, <1>3 DEF Follows
<1> HIDE DEF m, n
<1>5. m <= n
  <2>1. \A i, j \in 1 .. m : f[i] = f[j] => i = j
    <3> SUFFICES ASSUME NEW i \in 1 .. m, NEW j \in 1 .. m, f[i] = f[j], i # j PROVE FALSE
      OBVIOUS
    <3>1. f[i] \in 1 .. n /\ f[j] \in 1 .. n
      BY <1>4
    <3>2. i < j \/ j < i
      BY <1>1
    <3> QED
      BY <3>1, <3>2, <1>1, <1>4
  <2>2. f \in Injection(1 .. m, 1 .. n)
    BY <2>1, <1>4, Fun_IsInj
  <2>3. ASSUME NEW k \in Nat \ {0} PROVE IsFiniteSet(1 .. k) /\ Cardinality(1 .. k) = k
    <3>1. 1 \in Int /\ k \in Int /\ ~(1 > k) /\ k - 1 + 1 = k
      OBVIOUS
    <3>2. /\ IsFiniteSet(1 .. k)
          /\ Cardinality(1 .. k) = IF 1 > k THEN 0 ELSE k - 1 + 1
      BY <3>1, FS_Interval
    <3> QED
      BY <3>1, <3>2
  <2>4. Cardinality(1 .. m) <= Cardinality(1 .. n)
    BY <2>2, <2>3, <1>1, FS_Injection
  <2>5. Cardinality(1 .. n) = n /\ Cardinality(1 .. m) = m
    BY <2>3, <1>1
  <2> QED
    BY <2>4, <2>5
<1>6. f[m] = n
  <2>1. n \in 1 .. n /\ m \in 1 .. m /\ u[n].handled
    BY <1>1 DEF n
  <2>2. PICK i \in 1 .. m : f[i] = n
    BY <2>1, <1>4
  <2>3. i < m => f[i] < f[m]
    BY <2>1, <1>4
  <2>4. f[m] \in 1 .. n
    BY <2>1, <1>4
  <2> QED
    BY <2>1, <2>2, <2>3, <2>4, <1>1
<1>7. Crash(g, x) <=> m >= 2 /\ x /\ Abs(u[n].price - u[f[1]].price) >= Threshold
  <2>1. 1 \in 1 .. m
    BY <1>1
  <2>2. u[f[1]].price = g[1].price /\ g[m].price = u[n].price
    BY <2>1, <1>4 DEF m, n
  <2>3. Crash(g, x) <=> m >= 2 /\ x /\ Abs(g[m].price - g[1].price) >= Threshold
    BY DEF Crash, m
  <2> QED
    BY <2>2, <2>3
<1>8. ASSUME Crash(g, x) PROVE \E i \in DOMAIN u : Crash(SubSeq(u, i, Len(u)), x)
  <2>1. m >= 2 /\ 1 \in 1 .. m /\ m \in 1 .. m
    BY <1>1, <1>7, <1>8
  <2>2. f[1] \in 1 .. n /\ f[1] < n
    BY <2>1, <1>4, <1>6
  <2>3. f[1] \in DOMAIN u /\ f[1] < Len(u)
    BY <2>2, <1>1 DEF n
  <2>4. Crash(SubSeq(u, f[1], Len(u)), x)
    BY <2>3, <1>7, <1>8, CrashOfSuffix DEF n
  <2> QED
    BY <2>3, <2>4
<1>9. ASSUME \A i \in DOMAIN u : u[i].handled PROVE Crash(g, x) <=> Crash(u, x)
  <2>1. \A j \in 1 .. n : \E i \in 1 .. m : f[i] = j
    BY <1>1, <1>4, <1>9
  <2>2. 1 \in 1 .. m /\ 1 \in 1 .. n
    BY <1>1
  <2>3. f[1] = 1
    <3>1. PICK i \in 1 .. m : f[i] = 1
      BY <2>1, <2>2
    <3>2. 1 < i => f[1] < f[i]
      BY <2>2, <1>4
    <3>3. f[1] \in 1 .. n
      BY <2>2, <1>4
    <3> QED
      BY <3>1, <3>2, <3>3
  <2>4. m >= 2 <=> n >= 2
    <3>1. ASSUME n >= 2 PROVE m >= 2
      <4>1. m # 1
        BY <3>1, <2>3, <1>6, <1>1
      <4> QED
        BY <4>1, <1>1
    <3>2. ASSUME m >= 2 PROVE n >= 2
      BY <3>2, <1>1, <1>5
    <3> QED
      BY <3>1, <3>2
  <2>5. Crash(u, x) <=> n >= 2 /\ x /\ Abs(u[n].price - u[1].price) >= Threshold
    BY DEF Crash, n
  <2> QED
    BY <2>3, <2>4, <2>5, <1>7
<1> QED
  BY <1>5, <1>8, <1>9 DEF m, n

-----------------------------------------------------------------------------
(* The invariant, step by step.                                             *)

(* Initially nothing is waited for and nothing is remembered.               *)
LEMMA InitInvariant == Init => IInv
<1> SUFFICES ASSUME Init PROVE IInv
  OBVIOUS
<1>1. <<>> \in Seq(Points) /\ <<>> \in Seq(Marks) /\ Len(<<>>) = 0 /\ DOMAIN <<>> = {}
  OBVIOUS
<1>2. TypeOK
  <2>1. history = <<>> /\ trail = <<>>
    BY DEF Init
  <2>2. history \in Seq(Points) /\ Len(history) <= MaxTrail
    BY <2>1, <1>1, Constants
  <2>3. trail \in Seq(Marks) /\ Len(trail) <= MaxTrail
    BY <2>1, <1>1, Constants
  <2>4. tick \in [age : 0 .. MaxLag, price : NoPrice .. MaxPrice, extreme : BOOLEAN]
    BY Constants DEF Init
  <2>5. backoff \in MinBackoff .. MaxBackoff
    BY Constants DEF Init
  <2>6. nap \in 0 .. MaxBackoff /\ silent \in 0 .. Zombie /\ stall \in 0 .. MaxStall
    BY Constants DEF Init
  <2>7. /\ conn \in {"connecting", "session", "sleeping"}
        /\ dead \in BOOLEAN /\ unseen \in BOOLEAN /\ kill \in BOOLEAN
    BY DEF Init
  <2> QED
    BY <2>2, <2>3, <2>4, <2>5, <2>6, <2>7 DEF TypeOK, Marks
<1>3. RadarVerdict
  BY DEF Init, RadarVerdict
<1>4. TickInv
  BY DEF Init, TickInv
<1>5. AgeInv
  BY <1>1 DEF Init, AgeInv, Sorted
<1>6. Tracks(history, trail, tick.age)
  <2>1. Young(history, tick.age) = {} /\ Seen(trail, tick.age) = {}
    BY <1>1 DEF Init, Young, Seen
  <2>2. Follows(<<>>, history, trail, tick.age)
    <3>1. <<>> \in [{} -> {}]
      OBVIOUS
    <3> QED
      BY <2>1, <3>1 DEF Follows
  <2> QED
    BY <2>2 DEF Tracks
<1> QED
  BY <1>2, <1>3, <1>4, <1>5, <1>6 DEF IInv

(* The connection's own steps concern none of the ticks.                    *)
LEMMA LineInvariant ==
    ASSUME IInv, UNCHANGED <<tick, unseen, trail, radar, stall>>,
           \/ Connected \/ Broken \/ Closed \/ Timeout \/ Wake
           \/ OtherMessage \/ LineDies \/ UNCHANGED link
    PROVE  IInv'
<1>1. TypeOK'
  <2> USE Constants DEF IInv, TypeOK, radar, link
  <2>0. ASSUME NEW clean \in BOOLEAN, Ended(clean) PROVE TypeOK'
    <3>1. nap' \in Nat /\ MinBackoff <= nap' /\ nap' <= MaxBackoff
      BY <2>0 DEF Ended
    <3>2. backoff' \in MinBackoff .. MaxBackoff
      BY <2>0, <3>1 DEF Ended, Lesser
    <3>3. /\ conn' = "sleeping" /\ dead' = FALSE /\ silent' = 0 /\ silent' \in 0 .. Zombie
          /\ nap' \in 0 .. MaxBackoff
      BY <2>0, <3>1 DEF Ended
    <3> QED
      BY <3>2, <3>3
  <2>1. CASE Connected
    BY <2>1 DEF Connected
  <2>2. CASE Broken \/ Closed \/ Timeout
    BY <2>0, <2>2 DEF Broken, Closed, Timeout
  <2>3. CASE Wake
    BY <2>3 DEF Wake
  <2>4. CASE OtherMessage
    BY <2>4 DEF OtherMessage
  <2>5. CASE LineDies
    BY <2>5 DEF LineDies
  <2>6. CASE UNCHANGED link
    BY <2>6
  <2> QED
    BY <2>1, <2>2, <2>3, <2>4, <2>5, <2>6
<1>2. RadarVerdict'
  BY DEF IInv, RadarVerdict, radar
<1>3. TickInv' /\ AgeInv' /\ Tracks(history, trail, tick.age)'
  BY DEF IInv, TickInv, AgeInv, radar
<1> QED
  BY <1>1, <1>2, <1>3 DEF IInv

(* A handler that is no tick's keeps a tick waiting no longer than it may.  *)
LEMMA OtherInvariant ==
    ASSUME IInv, HandleOther
    PROVE  IInv'
<1> USE DEF HandleOther, radar, link
<1>1. TypeOK'
  BY Constants DEF IInv, TypeOK
<1>2. TickInv'
  BY DEF IInv, TickInv
<1>3. RadarVerdict' /\ AgeInv' /\ Tracks(history, trail, tick.age)'
  BY DEF IInv, RadarVerdict, AgeInv
<1> QED
  BY <1>1, <1>2, <1>3 DEF IInv

(* A book joins the trail, or has no price.                                 *)
LEMMA BookInvariant ==
    ASSUME IInv, NEW price \in NoPrice .. MaxPrice, NEW extreme \in BOOLEAN,
           Book(price, extreme)
    PROVE  IInv'
<1> DEFINE m == [age |-> 0, price |-> price, handled |-> FALSE]
<1>1. /\ tick' = [age |-> 0, price |-> price, extreme |-> extreme] /\ unseen' = TRUE
      /\ silent' = 0 /\ conn' = conn /\ backoff' = backoff /\ nap' = nap /\ dead' = dead
      /\ history' = history /\ kill' = kill /\ stall' = stall
      /\ tick'.age = 0 /\ tick'.price = price
  BY DEF Book, radar
<1>2. history \in Seq(Points) /\ trail \in Seq(Marks) /\ tick.age \in Nat /\ stall \in 0 .. MaxStall
  BY Constants DEF IInv, TypeOK, Marks
<1>3. \A e \in Marks : e.age \in Nat
  BY Constants DEF Marks
<1>4. /\ DOMAIN history = 1 .. Len(history) /\ DOMAIN trail = 1 .. Len(trail)
      /\ \A i \in DOMAIN history : history[i] \in Points
  BY <1>2, LenProperties, ElementOfSeq
<1>5. /\ trail' \in Seq(Marks) /\ Sorted(trail') /\ Tracks(history, trail', 0)
      /\ Len(trail') <= MaxTrail
      /\ price # NoPrice => /\ Len(trail') > 0 /\ trail'[Len(trail')] = m
                            /\ \A j \in DOMAIN trail' : trail'[j].age <= Lookback
  <2>1. CASE price = NoPrice
    <3>1. trail' = trail /\ price = NoPrice
      BY <2>1 DEF Book
    <3>2. Tracks(history, trail, 0)
      <4>1. /\ Young(history, 0) \subseteq Young(history, tick.age)
            /\ Young(trail, 0) \subseteq Young(trail, tick.age)
        <5>1. /\ \A i \in DOMAIN history : history[i].age \in Nat
              /\ \A j \in DOMAIN trail : trail[j].age \in Nat
          BY <1>2, <1>3, <1>4, ElementOfSeq, Constants DEF Points
        <5> QED
          BY <5>1, <1>2, Constants DEF Young
      <4>2. Tracks(history, trail, tick.age) /\ DOMAIN history \subseteq Nat
        BY <1>4 DEF IInv
      <4> QED
        BY <4>1, <4>2, <1>2, FollowsOn
    <3> QED
      BY <3>1, <3>2, <1>2 DEF IInv, TypeOK, AgeInv
  <2>2. CASE price # NoPrice
    <3> DEFINE r == Recent(trail, 0)
    <3>1. trail' = Append(r, m) /\ Len(trail') <= MaxTrail
      BY <2>2 DEF Book
    <3>2. m \in Marks /\ ~m.handled /\ m.age = 0
      <4>1. price \in 0 .. MaxPrice /\ 0 \in 0 .. Old
        BY <2>2, Constants
      <4> QED
        BY <4>1 DEF Marks
    <3>3. Sorted(trail)
      BY DEF IInv, AgeInv
    <3>4. Tracks(history, Append(r, m), 0)
      <4>1. Tracks(history, trail, tick.age)
        BY DEF IInv
      <4> HIDE DEF m
      <4> QED
        BY <4>1, <3>2, <3>3, <1>2, FollowsBook
    <3>5. PICK d \in 0 .. Len(trail) :
              /\ r \in Seq(Marks) /\ Len(r) = Len(trail) - d
              /\ \A i \in 1 .. Len(trail) - d : r[i] = trail[i + d]
              /\ \A i \in 1 .. Len(trail) : i <= d <=> trail[i].age > Lookback + 0
      BY <1>2, <1>3, <3>3, RecentIs
    <3>6. Sorted(r)
      BY <1>2, <1>3, <3>3, RecentSorted
    <3> HIDE DEF r, m
    <3>7. /\ Len(r) \in Nat /\ DOMAIN r = 1 .. Len(r) /\ Len(trail) \in Nat
          /\ \A i \in 1 .. Len(r) : r[i] \in Marks /\ r[i].age \in Nat
      BY <3>5, <1>2, <1>3, LenProperties, ElementOfSeq
    <3>8. Sorted(Append(r, m))
      <4>1. \A i \in DOMAIN r : m.age <= r[i].age
        BY <3>2, <3>7
      <4> QED
        BY <4>1, <3>2, <3>5, <3>6, <1>3, AppendSorted
    <3>9. /\ Append(r, m) \in Seq(Marks) /\ Len(Append(r, m)) = Len(r) + 1
          /\ Append(r, m)[Len(r) + 1] = m
          /\ \A i \in 1 .. Len(r) : Append(r, m)[i] = r[i]
      BY <3>2, <3>5, AppendProperties
    <3>10. DOMAIN Append(r, m) = 1 .. Len(r) + 1
      BY <3>9, LenProperties
    <3>11. ASSUME NEW j \in 1 .. Len(r) + 1 PROVE Append(r, m)[j].age <= Lookback
      <4>1. CASE j = Len(r) + 1
        BY <4>1, <3>2, <3>9, Constants
      <4>2. CASE j # Len(r) + 1
        <5>1. j \in 1 .. Len(r) /\ j + d \in 1 .. Len(trail) /\ ~(j + d <= d)
          BY <4>2, <3>5, <3>7
        <5>2. Append(r, m)[j] = trail[j + d] /\ trail[j + d].age \in Nat
          BY <5>1, <3>5, <3>7, <3>9
        <5> QED
          BY <5>1, <5>2, <3>5, Constants
      <4> QED
        BY <4>1, <4>2
    <3> QED
      BY <3>1, <3>4, <3>7, <3>8, <3>9, <3>10, <3>11
  <2> QED
    BY <2>1, <2>2
<1>6. TypeOK'
  <2>1. tick' \in [age : 0 .. MaxLag, price : NoPrice .. MaxPrice, extreme : BOOLEAN]
    BY <1>1, Constants
  <2>2. silent' \in 0 .. Zombie
    BY <1>1, Constants
  <2> QED
    BY <2>1, <2>2, <1>1, <1>5 DEF IInv, TypeOK, Marks
<1>7. RadarVerdict'
  BY <1>1 DEF RadarVerdict
<1>8. TickInv'
  <2>1. 0 + stall <= MaxLag
    BY <1>2, Constants
  <2>2. unseen' => tick'.age + stall' <= MaxLag
    BY <2>1, <1>1
  <2>3. ASSUME tick'.price # NoPrice
        PROVE  /\ Len(trail') > 0
               /\ trail'[Len(trail')] = [age |-> tick'.age, price |-> tick'.price, handled |-> FALSE]
               /\ \A j \in DOMAIN trail' : trail'[j].age <= Lookback + tick'.age
    <3>1. price # NoPrice
      BY <1>1, <2>3
    <3>2. Lookback + 0 = Lookback
      BY Constants
    <3> QED
      BY <3>1, <3>2, <1>1, <1>5
  <2> QED
    BY <2>2, <2>3, <1>1 DEF TickInv
<1>9. AgeInv'
  <2>1. \A i \in DOMAIN history : 0 <= history[i].age
    BY <1>4, Constants DEF Points
  <2> QED
    BY <2>1, <1>1, <1>5 DEF IInv, AgeInv
<1>10. Tracks(history', trail', tick'.age)
  BY <1>1, <1>5
<1> QED
  BY <1>6, <1>7, <1>8, <1>9, <1>10 DEF IInv

(* A tick is handled.                                                       *)
LEMMA TickInvariant ==
    ASSUME IInv, HandleTick
    PROVE  IInv'
<1>1. /\ unseen /\ unseen' = FALSE /\ stall' \in 0 .. MaxStall
      /\ tick' = [tick EXCEPT !.age = 0] /\ RadarTick
      /\ conn' = conn /\ backoff' = backoff /\ nap' = nap /\ silent' = silent /\ dead' = dead
  BY DEF HandleTick, link
<1>2. /\ tick \in [age : 0 .. MaxLag, price : NoPrice .. MaxPrice, extreme : BOOLEAN]
      /\ history \in Seq(Points) /\ trail \in Seq(Marks)
      /\ Len(history) <= MaxTrail /\ Len(trail) <= MaxTrail
  BY DEF IInv, TypeOK, Marks
<1>3. /\ tick.age \in 0 .. MaxLag /\ tick.age \in Nat /\ tick.extreme \in BOOLEAN
      /\ tick'.age = 0 /\ tick'.price = tick.price /\ tick'.extreme = tick.extreme
      /\ tick' \in [age : 0 .. MaxLag, price : NoPrice .. MaxPrice, extreme : BOOLEAN]
  BY <1>1, <1>2, Constants
<1>4. Tracks(history, trail, tick.age) /\ Sorted(history) /\ Sorted(trail)
      /\ \A i \in DOMAIN history : tick.age <= history[i].age
  BY DEF IInv, AgeInv
<1>5. /\ history' \in Seq(Points) /\ Len(history') <= MaxTrail
      /\ trail' \in Seq(Marks) /\ Len(trail') <= MaxTrail
      /\ kill' \in BOOLEAN
      /\ Sorted(history') /\ Sorted(trail') /\ Tracks(history', trail', tick.age)
      /\ tick.price # NoPrice =>
            /\ kill' => \E i \in DOMAIN trail' :
                           Crash(SubSeq(trail', i, Len(trail')), tick.extreme)
            /\ (\A i \in DOMAIN trail' : trail'[i].handled) =>
                  (kill' <=> Crash(trail', tick.extreme))
  <2>1. CASE tick.price = NoPrice
    <3>1. kill' = FALSE /\ history' = history /\ trail' = trail
      BY <1>1, <2>1 DEF RadarTick
    <3> QED
      BY <3>1, <2>1, <1>2, <1>4
  <2>2. CASE tick.price # NoPrice
    <3> DEFINE g == Joined(history, tick.age, tick.price)
               u == Handled(trail)
    <3>1. history' = g /\ kill' = Crash(g, tick.extreme) /\ trail' = u
      BY <1>1, <2>2 DEF RadarTick, Joined, Handled
    <3>2. /\ Len(trail) > 0
          /\ trail[Len(trail)] = [age |-> tick.age, price |-> tick.price, handled |-> FALSE]
          /\ \A j \in DOMAIN trail : trail[j].age <= Lookback + tick.age
      BY <1>1, <2>2 DEF IInv, TickInv
    <3>3. tick.age \in 0 .. Old /\ tick.price \in 0 .. MaxPrice
      BY <1>2, <2>2, Constants
    <3> HIDE DEF g, u
    <3>4. /\ Tracks(g, u, tick.age) /\ g \in Seq(Points) /\ Sorted(g) /\ u \in Seq(Marks)
          /\ Len(g) > 0 /\ g[Len(g)] = [age |-> tick.age, price |-> tick.price]
          /\ \A i \in DOMAIN g : tick.age <= g[i].age /\ g[i].age <= Lookback + tick.age
          /\ Len(u) = Len(trail)
          /\ \A j \in DOMAIN trail : u[j].age = trail[j].age /\ u[j].price = trail[j].price
          /\ u[Len(trail)].handled
      <4> DEFINE a == tick.age
                 c == tick.price
      <4>1. g = Joined(history, a, c) /\ u = Handled(trail)
        BY DEF g, u
      <4>2. /\ a \in 0 .. Old /\ c \in 0 .. MaxPrice
            /\ Tracks(history, trail, a) /\ \A i \in DOMAIN history : a <= history[i].age
            /\ trail[Len(trail)] = [age |-> a, price |-> c, handled |-> FALSE]
            /\ \A j \in DOMAIN trail : trail[j].age <= Lookback + a
        BY <3>2, <3>3, <1>4
      <4> HIDE DEF a, c
      <4>3. /\ Tracks(g, u, a) /\ g \in Seq(Points) /\ Sorted(g) /\ u \in Seq(Marks)
            /\ Len(g) > 0 /\ g[Len(g)] = [age |-> a, price |-> c]
            /\ \A i \in DOMAIN g : a <= g[i].age /\ g[i].age <= Lookback + a
            /\ Len(u) = Len(trail)
            /\ \A j \in DOMAIN trail : u[j].age = trail[j].age /\ u[j].price = trail[j].price
            /\ u[Len(trail)].handled
        BY <4>1, <4>2, <3>2, <1>2, <1>4, FollowsHandle
      <4> QED
        BY <4>3 DEF a, c
    <3>5. DOMAIN u = DOMAIN trail /\ Len(trail) \in DOMAIN trail
      BY <3>2, <3>4, <1>2, LenProperties
    <3>6. \A j \in DOMAIN u : u[j].age <= Lookback + tick.age
      BY <3>2, <3>4, <3>5
    <3>7. g[Len(g)].price = u[Len(u)].price
      BY <3>2, <3>4, <3>5
    <3>8. /\ Len(g) <= Len(u)
          /\ Crash(g, tick.extreme) =>
                \E i \in DOMAIN u : Crash(SubSeq(u, i, Len(u)), tick.extreme)
          /\ (\A i \in DOMAIN u : u[i].handled) =>
                (Crash(g, tick.extreme) <=> Crash(u, tick.extreme))
      <4>1. Len(u) > 0 /\ u[Len(u)].handled
        BY <3>2, <3>4
      <4> DEFINE a == tick.age
                 x == tick.extreme
      <4>2. /\ a \in Nat /\ x \in BOOLEAN /\ Tracks(g, u, a)
            /\ \A i \in DOMAIN g : g[i].age <= Lookback + a
            /\ \A j \in DOMAIN u : u[j].age <= Lookback + a
        BY <3>4, <3>6, <1>3
      <4> HIDE DEF a, x
      <4>3. /\ Len(g) <= Len(u)
            /\ Crash(g, x) => \E i \in DOMAIN u : Crash(SubSeq(u, i, Len(u)), x)
            /\ (\A i \in DOMAIN u : u[i].handled) => (Crash(g, x) <=> Crash(u, x))
        BY <4>1, <4>2, <3>4, <3>7, Verdict
      <4> QED
        BY <4>3 DEF x
    <3>9. Sorted(u)
      BY <3>4, <3>5, <1>4 DEF Sorted
    <3>10. Len(g) <= MaxTrail /\ Len(u) <= MaxTrail
      <4>1. Len(g) \in Nat /\ Len(u) \in Nat
        BY <3>4, LenProperties
      <4> QED
        BY <4>1, <3>4, <3>8, <1>2, Constants
    <3>11. Crash(g, tick.extreme) \in BOOLEAN
      BY <1>3 DEF Crash
    <3> QED
      BY <3>1, <3>4, <3>8, <3>9, <3>10, <3>11
  <2> QED
    BY <2>1, <2>2
<1>6. TypeOK'
  BY <1>1, <1>3, <1>5 DEF IInv, TypeOK, Marks
<1>7. TickInv'
  <2>1. tick'.age = 0 /\ unseen' = FALSE
    BY <1>1, <1>3
  <2> QED
    BY <2>1 DEF TickInv
<1>8. /\ DOMAIN history' \subseteq Nat
      /\ \A i \in DOMAIN history' : history'[i].age \in Nat
      /\ \A j \in DOMAIN trail' : trail'[j].age \in Nat
  <2>1. DOMAIN history' \subseteq Nat
    BY <1>5, LenProperties
  <2>2. \A e \in Points \cup Marks : e.age \in Nat
    BY Constants DEF Points, Marks
  <2>3. \A i \in DOMAIN history' : history'[i] \in Points
    BY <1>5, LenProperties, ElementOfSeq
  <2>4. \A j \in DOMAIN trail' : trail'[j] \in Marks
    BY <1>5, LenProperties, ElementOfSeq
  <2> QED
    BY <2>1, <2>2, <2>3, <2>4
<1>9. AgeInv'
  <2>1. \A i \in DOMAIN history' : tick'.age <= history'[i].age
    BY <1>3, <1>8
  <2> QED
    BY <2>1, <1>5 DEF AgeInv
<1>10. Tracks(history', trail', tick'.age)
  <2>1. /\ Young(history', 0) \subseteq Young(history', tick.age)
        /\ Young(trail', 0) \subseteq Young(trail', tick.age)
    BY <1>3, <1>8, Constants DEF Young
  <2>2. Tracks(history', trail', 0)
    BY <2>1, <1>3, <1>5, <1>8, FollowsOn
  <2> QED
    BY <2>2, <1>3
<1>11. RadarVerdict'
  <2>1. (kill' <=> Crash(trail', tick.extreme)) => kill' = Crash(trail', tick.extreme)
    <3>1. Crash(trail', tick.extreme) \in BOOLEAN
      BY DEF Crash
    <3> QED
      BY <3>1, <1>5
  <2> QED
    BY <2>1, <1>3, <1>5 DEF RadarVerdict
<1> QED
  BY <1>6, <1>7, <1>9, <1>10, <1>11 DEF IInv

(* What ages keeps following what ages with it, up to a tick that ages no   *)
(* faster and is not older than a tick may be.                              *)
LEMMA FollowsAged ==
    ASSUME NEW h \in Seq(Points), NEW t \in Seq(Marks), NEW age \in Nat, Tracks(h, t, age),
           NEW late \in 0 .. MaxLag, late <= age + 1
    PROVE  Tracks(Aged(h), Aged(t), late)
<1>1. /\ DOMAIN Aged(h) = DOMAIN h /\ DOMAIN h \subseteq Nat
      /\ DOMAIN Aged(t) = DOMAIN t
  BY AgedIs, LenProperties
<1>2. ASSUME NEW i \in DOMAIN h
      PROVE  /\ h[i].age < Old => Aged(h)[i].age = h[i].age + 1
             /\ h[i].age >= Old => Aged(h)[i].age = Old
             /\ Aged(h)[i].price = h[i].price
             /\ h[i].age \in 0 .. Old
  <2>1. h[i] \in Points
    BY AgedIs
  <2>2. h[i].age \in 0 .. Old
    BY <2>1 DEF Points
  <2> QED
    BY <2>2, AgedIs
<1>3. ASSUME NEW j \in DOMAIN t
      PROVE  /\ t[j].age < Old => Aged(t)[j].age = t[j].age + 1
             /\ t[j].age >= Old => Aged(t)[j].age = Old
             /\ Aged(t)[j].price = t[j].price
             /\ t[j].age \in 0 .. Old
  <2>1. t[j] \in Marks
    BY AgedIs
  <2>2. t[j].age \in 0 .. Old
    BY <2>1 DEF Marks
  <2> QED
    BY <2>2, AgedIs
<1>4. Old = Lookback + MaxLag + 1 /\ Old \in Nat /\ Lookback \in Nat /\ MaxLag \in Nat
  BY Constants
<1>5. ASSUME NEW i \in Young(Aged(h), late) PROVE i \in Young(h, age)
  <2>1. i \in DOMAIN h /\ Aged(h)[i].age <= Lookback + late
    BY <1>1 DEF Young
  <2>2. h[i].age < Old /\ Aged(h)[i].age = h[i].age + 1 /\ h[i].age \in Nat
    <3>1. /\ h[i].age < Old => Aged(h)[i].age = h[i].age + 1
          /\ h[i].age >= Old => Aged(h)[i].age = Old
          /\ h[i].age \in 0 .. Old
      BY <2>1, <1>2
    <3>2. Lookback + late < Old
      BY <1>4
    <3> QED
      BY <3>1, <3>2, <2>1, <1>4
  <2>3. h[i].age <= Lookback + age
    BY <2>1, <2>2, <1>4
  <2> QED
    BY <2>1, <2>3 DEF Young
<1>6. ASSUME NEW j \in Young(Aged(t), late) PROVE j \in Young(t, age)
  <2>1. j \in DOMAIN t /\ Aged(t)[j].age <= Lookback + late
    BY <1>1 DEF Young
  <2>2. t[j].age < Old /\ Aged(t)[j].age = t[j].age + 1 /\ t[j].age \in Nat
    <3>1. /\ t[j].age < Old => Aged(t)[j].age = t[j].age + 1
          /\ t[j].age >= Old => Aged(t)[j].age = Old
          /\ t[j].age \in 0 .. Old
      BY <2>1, <1>3
    <3>2. Lookback + late < Old
      BY <1>4
    <3> QED
      BY <3>1, <3>2, <2>1, <1>4
  <2>3. t[j].age <= Lookback + age
    BY <2>1, <2>2, <1>4
  <2> QED
    BY <2>1, <2>3 DEF Young
<1>7. ASSUME NEW i \in DOMAIN h, NEW j \in DOMAIN t, h[i].age = t[j].age
      PROVE  Aged(h)[i].age = Aged(t)[j].age
  <2>1. h[i].age \in 0 .. Old
    BY <1>2
  <2>2. CASE h[i].age < Old
    <3>1. Aged(h)[i].age = h[i].age + 1
      BY <2>2, <1>2
    <3>2. Aged(t)[j].age = t[j].age + 1
      BY <2>2, <1>3, <1>7
    <3> QED
      BY <3>1, <3>2, <1>7
  <2>3. CASE h[i].age >= Old
    <3>1. Aged(h)[i].age = Old
      BY <2>3, <1>2
    <3>2. Aged(t)[j].age = Old
      BY <2>3, <1>3, <1>7
    <3> QED
      BY <3>1, <3>2
  <2> QED
    BY <2>1, <2>2, <2>3, <1>4
<1>8. late \in Nat
  BY <1>4
<1>9. /\ Young(Aged(h), late) \subseteq Young(h, age)
      /\ Young(Aged(t), late) \subseteq Young(t, age)
  BY <1>5, <1>6
<1>10. /\ \A i \in DOMAIN h : Aged(h)[i].price = h[i].price
       /\ \A j \in DOMAIN t :
             Aged(t)[j].price = t[j].price /\ Aged(t)[j].handled = t[j].handled
  <2>1. \A j \in DOMAIN t : Aged(t)[j].handled = t[j].handled
    BY AgedIs
  <2> QED
    BY <2>1, <1>2, <1>3
<1>11. \A i \in DOMAIN h, j \in DOMAIN t :
          h[i].age = t[j].age => Aged(h)[i].age = Aged(t)[j].age
  BY <1>7
<1> QED
  BY <1>1, <1>8, <1>9, <1>10, <1>11, FollowsOn

(* A tick that waits is only the older for it.                              *)
LEMMA Older ==
    ASSUME NEW a, NEW b, NEW p, NEW h, NEW e, e = [age |-> a, price |-> p, handled |-> h]
    PROVE  [e EXCEPT !.age = b] = [age |-> b, price |-> p, handled |-> h]
OBVIOUS

(* Time ages the trail and the history alike.                               *)
LEMMA AdvanceInvariant ==
    ASSUME IInv, Advance
    PROVE  IInv'
<1>1. /\ ~(Ready /\ unseen) /\ trail' = Aged(trail) /\ history' = Aged(history)
      /\ tick' = (IF unseen THEN [tick EXCEPT !.age = @ + 1] ELSE tick)
      /\ conn' = conn /\ backoff' = backoff /\ dead' = dead /\ unseen' = unseen /\ kill' = kill
      /\ stall' = IF stall > 0 THEN stall - 1 ELSE 0
  BY DEF Advance
<1>2. /\ tick \in [age : 0 .. MaxLag, price : NoPrice .. MaxPrice, extreme : BOOLEAN]
      /\ history \in Seq(Points) /\ trail \in Seq(Marks) /\ stall \in 0 .. MaxStall
      /\ Len(history) <= MaxTrail /\ Len(trail) <= MaxTrail /\ unseen \in BOOLEAN
  BY DEF IInv, TypeOK, Marks
<1>3. /\ tick.age \in 0 .. MaxLag /\ tick.age \in Nat /\ tick.extreme \in BOOLEAN
      /\ tick'.price = tick.price /\ tick'.extreme = tick.extreme
      /\ unseen => tick'.age = tick.age + 1
      /\ ~unseen => tick'.age = tick.age
  BY <1>1, <1>2, Constants
<1>4. /\ stall' \in 0 .. MaxStall
      /\ unseen => stall' = stall - 1
  BY <1>1, <1>2, Constants DEF Ready
<1>5. unseen => tick'.age + stall' <= MaxLag
  BY <1>2, <1>3, <1>4, Constants DEF IInv, TickInv
<1>6. tick'.age \in 0 .. MaxLag /\ tick'.age <= tick.age + 1
  BY <1>3, <1>4, <1>5, Constants
<1>7. /\ Aged(trail) \in Seq(Marks) /\ Len(Aged(trail)) = Len(trail)
      /\ DOMAIN Aged(trail) = DOMAIN trail
      /\ \A j \in DOMAIN trail :
            /\ trail[j].age < Old => Aged(trail)[j].age = trail[j].age + 1
            /\ trail[j].age >= Old => Aged(trail)[j].age = Old
            /\ Aged(trail)[j].price = trail[j].price /\ Aged(trail)[j].handled = trail[j].handled
            /\ trail[j] \in Marks
  BY <1>2, AgedIs
<1>8. /\ Aged(history) \in Seq(Points) /\ Len(Aged(history)) = Len(history)
      /\ DOMAIN Aged(history) = DOMAIN history
      /\ \A i \in DOMAIN history :
            /\ history[i].age < Old => Aged(history)[i].age = history[i].age + 1
            /\ history[i].age >= Old => Aged(history)[i].age = Old
            /\ history[i] \in Points
  BY <1>2, AgedIs
<1>9. TypeOK'
  <2>1. tick' \in [age : 0 .. MaxLag, price : NoPrice .. MaxPrice, extreme : BOOLEAN]
    BY <1>1, <1>2, <1>3, <1>6
  <2>2. nap' \in 0 .. MaxBackoff
    <3>1. nap \in 0 .. MaxBackoff /\ MaxBackoff \in Nat
      BY Constants DEF IInv, TypeOK
    <3>2. nap' = IF conn = "sleeping" THEN nap - 1 ELSE nap
      BY DEF Advance
    <3>3. conn = "sleeping" => nap > 0
      BY DEF Advance
    <3> QED
      BY <3>1, <3>2, <3>3
  <2>3. silent' \in 0 .. Zombie
    <3>1. silent \in 0 .. Zombie /\ Zombie \in Nat
      BY Constants DEF IInv, TypeOK
    <3>2. silent' = IF conn = "session" THEN silent + 1 ELSE silent
      BY DEF Advance
    <3>3. conn = "session" => silent < Zombie
      BY DEF Advance
    <3> QED
      BY <3>1, <3>2, <3>3
  <2> QED
    BY <2>1, <2>2, <2>3, <1>1, <1>2, <1>4, <1>7, <1>8 DEF IInv, TypeOK, Marks
<1>10. TickInv'
  <2>1. ~unseen => tick'.age = 0
    BY <1>3 DEF IInv, TickInv
  <2>2. ASSUME unseen, tick.price # NoPrice
        PROVE  /\ Len(trail') > 0
               /\ trail'[Len(trail')] = [age |-> tick'.age, price |-> tick'.price, handled |-> FALSE]
               /\ \A j \in DOMAIN trail' : trail'[j].age <= Lookback + tick'.age
    <3>1. /\ Len(trail) > 0
          /\ trail[Len(trail)] = [age |-> tick.age, price |-> tick.price, handled |-> FALSE]
          /\ \A j \in DOMAIN trail : trail[j].age <= Lookback + tick.age
      BY <2>2 DEF IInv, TickInv
    <3>2. Len(trail) \in DOMAIN trail
      BY <3>1, <1>2, LenProperties
    <3>3. ASSUME NEW j \in DOMAIN trail PROVE Aged(trail)[j].age <= Lookback + tick'.age
      <4>1. trail[j].age \in 0 .. Old
        BY <1>7 DEF Marks
      <4>2. trail[j].age < Old /\ trail[j].age <= Lookback + tick.age
        BY <3>1, <4>1, <1>3, Constants
      <4> QED
        BY <4>1, <4>2, <2>2, <1>3, <1>7, Constants
    <3>4. Aged(trail)[Len(trail)] = [age |-> tick'.age, price |-> tick.price, handled |-> FALSE]
      <4>1. Aged(trail)[Len(trail)] = [trail[Len(trail)] EXCEPT !.age = Lesser(@ + 1, Old)]
        BY <3>2 DEF Aged
      <4>2. Lesser(tick.age + 1, Old) = tick'.age
        BY <2>2, <1>3, <1>6, Constants DEF Lesser
      <4>3. trail[Len(trail)].age = tick.age
        BY <3>1
      <4>4. Aged(trail)[Len(trail)] = [trail[Len(trail)] EXCEPT !.age = tick'.age]
        BY <4>1, <4>2, <4>3
      <4> DEFINE no == FALSE
                 e == trail[Len(trail)]
                 a == tick.age
                 b == tick'.age
                 p == tick.price
      <4>5. e = [age |-> a, price |-> p, handled |-> no]
        BY <3>1
      <4>6. Aged(trail)[Len(trail)] = [e EXCEPT !.age = b]
        BY <4>4
      <4> HIDE DEF no, e, a, b, p
      <4>7. Aged(trail)[Len(trail)] = [age |-> b, price |-> p, handled |-> no]
        BY <4>5, <4>6, Older
      <4> QED
        BY <4>7 DEF no, b, p
    <3> QED
      BY <3>1, <3>3, <3>4, <1>1, <1>3, <1>7
  <2> QED
    BY <2>1, <2>2, <1>1, <1>3, <1>5 DEF TickInv
<1>11. AgeInv'
  <2>1. Sorted(Aged(trail)) /\ Sorted(Aged(history))
    BY <1>2, AgedSorted DEF IInv, AgeInv
  <2>2. ASSUME NEW i \in DOMAIN history PROVE tick'.age <= Aged(history)[i].age
    <3>1. history[i].age \in 0 .. Old /\ tick.age <= history[i].age
      BY <1>8 DEF Points, IInv, AgeInv
    <3> QED
      BY <3>1, <1>3, <1>6, <1>8, Constants
  <2> QED
    BY <2>1, <2>2, <1>1, <1>8 DEF AgeInv
<1>12. Tracks(history', trail', tick'.age)
  <2>1. Tracks(history, trail, tick.age)
    BY DEF IInv
  <2> DEFINE late == tick'.age
             age == tick.age
  <2>2. late \in 0 .. MaxLag /\ late <= age + 1 /\ age \in Nat /\ Tracks(history, trail, age)
    BY <2>1, <1>3, <1>6
  <2> HIDE DEF late, age
  <2>3. Tracks(Aged(history), Aged(trail), late)
    BY <2>2, <1>2, FollowsAged
  <2> QED
    BY <2>3, <1>1 DEF late
<1>13. RadarVerdict'
  <2> SUFFICES ASSUME ~unseen, tick.price # NoPrice
               PROVE  /\ kill => \E i \in DOMAIN trail' :
                                   Crash(SubSeq(trail', i, Len(trail')), tick.extreme)
                      /\ (\A i \in DOMAIN trail' : trail'[i].handled) =>
                            kill = Crash(trail', tick.extreme)
    BY <1>1, <1>3 DEF RadarVerdict
  <2> DEFINE x == tick.extreme
             u == Aged(trail)
  <2>1. /\ kill => \E i \in DOMAIN trail : Crash(SubSeq(trail, i, Len(trail)), x)
        /\ (\A i \in DOMAIN trail : trail[i].handled) => kill = Crash(trail, x)
    BY DEF IInv, RadarVerdict
  <2>2. /\ x \in BOOLEAN /\ trail' = u
        /\ u \in Seq(Marks) /\ Len(u) = Len(trail) /\ DOMAIN u = DOMAIN trail
        /\ \A j \in DOMAIN trail : u[j].price = trail[j].price /\ u[j].handled = trail[j].handled
    BY <1>1, <1>3, <1>7
  <2> HIDE DEF x, u
  <2>3. DOMAIN trail = 1 .. Len(trail) /\ Len(trail) \in Nat
    BY <1>2, LenProperties
  <2>4. Crash(u, x) = Crash(trail, x)
    <3>1. CASE Len(trail) >= 2
      <4>1. 1 \in DOMAIN trail /\ Len(trail) \in DOMAIN trail
        BY <2>3, <3>1
      <4>2. u[Len(u)].price = trail[Len(trail)].price /\ u[1].price = trail[1].price
        BY <4>1, <2>2
      <4> QED
        BY <4>2, <2>2 DEF Crash
    <3>2. CASE ~(Len(trail) >= 2)
      BY <3>2, <2>2 DEF Crash
    <3> QED
      BY <3>1, <3>2
  <2>5. ASSUME NEW i \in DOMAIN trail, Crash(SubSeq(trail, i, Len(trail)), x)
        PROVE  Crash(SubSeq(u, i, Len(u)), x)
    <3>1. /\ i < Len(trail) /\ x
          /\ Abs(trail[Len(trail)].price - trail[i].price) >= Threshold
      BY <2>2, <2>5, <1>2, CrashOfSuffix
    <3>2. Len(trail) \in DOMAIN trail /\ i \in DOMAIN u
      BY <2>2, <2>3, <3>1
    <3>3. u[Len(u)].price = trail[Len(trail)].price /\ u[i].price = trail[i].price
      BY <2>2, <3>2
    <3> QED
      BY <3>1, <3>2, <3>3, <2>2, CrashOfSuffix
  <2>6. ASSUME kill PROVE \E i \in DOMAIN u : Crash(SubSeq(u, i, Len(u)), x)
    BY <2>1, <2>2, <2>5, <2>6
  <2>7. ASSUME \A i \in DOMAIN u : u[i].handled PROVE kill = Crash(u, x)
    BY <2>1, <2>2, <2>4, <2>7
  <2> QED
    BY <2>2, <2>6, <2>7 DEF x
<1> QED
  BY <1>9, <1>10, <1>11, <1>12, <1>13 DEF IInv

(* The invariant of every step.                                             *)
LEMMA NextInvariant == IInv /\ [Next]_vars => IInv'
<1> SUFFICES ASSUME IInv, [Next]_vars PROVE IInv'
  OBVIOUS
<1>1. CASE Advance
  BY <1>1, AdvanceInvariant
<1>2. CASE Connected \/ Broken \/ Closed \/ Timeout \/ Wake \/ OtherMessage \/ LineDies
  <2>1. UNCHANGED <<tick, unseen, trail, radar, stall>>
    BY <1>2 DEF Connected, Broken, Closed, Timeout, Wake, OtherMessage, LineDies
  <2> QED
    BY <1>2, <2>1, LineInvariant
<1>3. CASE \E price \in NoPrice .. MaxPrice, extreme \in BOOLEAN : Book(price, extreme)
  BY <1>3, BookInvariant
<1>4. CASE HandleTick
  BY <1>4, TickInvariant
<1>5. CASE HandleOther
  BY <1>5, OtherInvariant
<1>6. CASE UNCHANGED vars
  BY <1>6, LineInvariant DEF vars
<1> QED
  BY <1>1, <1>2, <1>3, <1>4, <1>5, <1>6 DEF Next

(* The radar's history is what the loop handled of the last look-back, in   *)
(* every state: radar.rs and grinder.rs.                                    *)
THEOREM RadarInvariance == Spec => []IInv
<1>1. Init => IInv
  BY InitInvariant
<1>2. IInv /\ [Next]_vars => IInv'
  BY NextInvariant
<1> QED
  BY <1>1, <1>2, PTL DEF Spec

(* The types of the connection, the channel and the radar; among them the   *)
(* bounds of the wait and of the silence, and that the radar remembers no   *)
(* more than the ticks of a look-back: binance.rs:141-199, radar.rs:51-64.  *)
THEOREM GuardTypeCorrect == Spec => []TypeOK
<1>1. IInv => TypeOK
  BY DEF IInv
<1> QED
  BY <1>1, RadarInvariance, PTL

(* A KILL is for a move of the last look-back, whatever was lost, waited    *)
(* for or left unhandled; if nothing was, it is said exactly when the       *)
(* prices moved: radar.rs:51-75.                                            *)
THEOREM RadarVerdictHolds == Spec => []RadarVerdict
<1>1. IInv => RadarVerdict
  BY DEF IInv
<1> QED
  BY <1>1, RadarInvariance, PTL
=============================================================================
