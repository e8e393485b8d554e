------------------------ MODULE ResourceSchedulerProofs ------------------------
(***************************************************************************)
(* The scheduler's books and shares, for any number of clients, any valid  *)
(* budget and any order of requests, refusals, dropped futures and         *)
(* releases.                                                               *)
(***************************************************************************)
EXTENDS ResourceScheduler, FiniteSetTheorems, NaturalsInduction, WellFoundedInduction, TLAPS

Kinds == {"Embedding", "LexicalBuild", "Compaction", "Migration", "Job"}

\* What a client that has come to position i holds, and how many permits of a semaphore that is.
HeldAt(c, i) == {s \in {Order[k] : k \in 1 .. i - 1} : Need(KindOf[c], s) > 0}
UnitsAt(c, i, s) == IF s \in HeldAt(c, i) THEN Need(KindOf[c], s) ELSE 0

\* The permits that are out when clients have come to the positions f.
HoldersAt(f, s) == {c \in Clients : s \in HeldAt(c, f[c])}
Out(f, s) == UNION {{c} \X (1 .. Need(KindOf[c], s)) : c \in HoldersAt(f, s)}

\* The state variables, with the counters that subtractions must not take below zero.
Shape ==
  /\ at \in [Clients -> 0 .. Served]
  /\ manner \in [Clients -> {"wait", "try"}]
  /\ avail \in [Semaphores -> Nat]
  /\ queue \in [Semaphores -> Seq(Clients)]
  /\ cancels \in 0 .. MaxCancels

\* The inductive invariant: with exact books, no counter can go below zero.
Books == Shape /\ PermitsConserved /\ GaugesExact

-----------------------------------------------------------------------------
(* Semaphores, needs and positions *)

\* The six semaphores, in the order in which they are asked for.
LEMMA SemaphoresAre ==
  /\ Semaphores = {"low", "nonHigh", "slots", "cpu", "memory", "io"}
  /\ Order[1] = "low" /\ Order[2] = "nonHigh" /\ Order[3] = "slots"
  /\ Order[4] = "cpu" /\ Order[5] = "memory" /\ Order[6] = "io"
BY DEF Semaphores, Limit, Order

\* Each position has a semaphore of its own.
LEMMA OrderIsInjective ==
  /\ \A i \in Positions : Order[i] \in Semaphores
  /\ \A i, j \in Positions : Order[i] = Order[j] => i = j
BY SemaphoresAre DEF Positions

\* Every kind of work needs none, one or two permits of each semaphore.
LEMMA NeedIsSmall ==
  ASSUME NEW c \in Clients, NEW s \in Semaphores
  PROVE  Need(KindOf[c], s) \in {0, 1, 2}
<1>1. KindOf[c] \in Kinds
  BY SchedulerAssumption DEF Kinds
<1> QED BY <1>1, SemaphoresAre DEF Kinds, Need, Priority, Resources

\* Limits are numbers.
LEMMA LimitsAreNumbers ==
  /\ NonHighLimit \in Nat /\ LowLimit \in Nat
  /\ Limit["nonHigh"] = NonHighLimit /\ Limit["low"] = LowLimit
  /\ Limit \in [Semaphores -> Nat]
<1>1. /\ Budget.tasks \in Nat /\ Budget.cpu - Budget.cpuReserve \in Nat
      /\ Budget.memory - Budget.memoryReserve \in Nat /\ Budget.io - Budget.ioReserve \in Nat
  BY BudgetAssumption DEF ValidBudget
<1>2. NonHighLimit \in Nat
  BY <1>1 DEF NonHighLimit, AtLeastOne
<1>3. LowLimit \in Nat
  BY <1>2 DEF LowLimit, AtLeastOne
<1> QED BY <1>1, <1>2, <1>3 DEF Limit, Semaphores

\* A set of numbers that has a member has a least one.
LEMMA LeastMember ==
  ASSUME NEW S \in SUBSET Nat, S # {}
  PROVE  \E n \in S : \A m \in S : n <= m
<1> DEFINE Less == {ss \in Nat \X Nat : ss[1] < ss[2]}
<1>1. IsWellFoundedOn(Less, Nat)
  BY NatLessThanWellFounded DEF OpToRel
<1>2. PICK n \in S : \A m \in S : ~ (<<m, n>> \in Less)
  <2> HIDE DEF Less
  <2> QED BY <1>1, WFMin
<1>3. ASSUME NEW m \in S PROVE n <= m
  <2>1. ~ (m < n)
    BY <1>2
  <2> QED BY <2>1
<1> QED BY <1>3

\* After goes to the first position beyond i whose semaphore the client needs, or to the end.
LEMMA AfterFact ==
  ASSUME NEW c \in Clients, NEW i \in 0 .. 6
  PROVE  LET j == After(c, i)
         IN  /\ j \in i + 1 .. Served
             /\ \A k \in i + 1 .. j - 1 : Need(KindOf[c], Order[k]) = 0
<1> DEFINE Stops == {j \in i + 1 .. 7 : j = 7 \/ Need(KindOf[c], Order[j]) > 0}
<1>1. PICK n \in Stops : \A m \in Stops : n <= m
  <2>1. 7 \in Stops /\ Stops \in SUBSET Nat
    OBVIOUS
  <2> HIDE DEF Stops
  <2> QED BY <2>1, LeastMember
<1>2. ASSUME NEW k \in i + 1 .. n - 1 PROVE Need(KindOf[c], Order[k]) = 0
  <2>1. k \in Positions /\ k \notin Stops
    BY <1>1 DEF Positions
  <2>2. Need(KindOf[c], Order[k]) \in {0, 1, 2}
    BY <2>1, OrderIsInjective, NeedIsSmall
  <2> QED BY <2>1, <2>2 DEF Positions
<1> QED BY <1>1, <1>2 DEF After, Served

\* Every kind of work needs a slot, so that no request is served before it asks.
LEMMA SlotsAreNeeded ==
  ASSUME NEW c \in Clients
  PROVE  After(c, 0) # Served
<1>1. Need(KindOf[c], Order[3]) = 1
  BY SemaphoresAre DEF Need
<1>2. \A k \in 1 .. After(c, 0) - 1 : Need(KindOf[c], Order[k]) = 0
  BY AfterFact
<1> QED BY <1>1, <1>2 DEF Served

\* Going on from position i adds the permits of the semaphore at i, and nothing else.
LEMMA UnitsAfter ==
  ASSUME NEW c \in Clients, NEW i \in Positions, NEW s \in Semaphores
  PROVE  UnitsAt(c, After(c, i), s) =
           UnitsAt(c, i, s) + (IF s = Order[i] THEN Need(KindOf[c], s) ELSE 0)
<1> DEFINE j == After(c, i)
<1>1. /\ j \in i + 1 .. 7 /\ i \in 1 .. 6
      /\ \A k \in i + 1 .. j - 1 : Need(KindOf[c], Order[k]) = 0
  BY AfterFact DEF Positions, Served
<1>2. Need(KindOf[c], s) \in {0, 1, 2}
  BY NeedIsSmall
<1>3. i + 1 .. j - 1 \subseteq Positions /\ 1 .. i \subseteq Positions
  BY <1>1 DEF Positions
<1> HIDE DEF j
<1>4. s \in HeldAt(c, j) <=> s \in HeldAt(c, i) \/ (s = Order[i] /\ Need(KindOf[c], s) > 0)
  BY <1>1, <1>2 DEF HeldAt
<1>5. s = Order[i] => s \notin HeldAt(c, i)
  BY <1>1, <1>3, OrderIsInjective DEF HeldAt
<1> QED BY <1>2, <1>4, <1>5 DEF UnitsAt, j

\* Outside, and at the first semaphore it needs, a client holds nothing.
LEMMA NothingHeldAtFirst ==
  ASSUME NEW c \in Clients, NEW s \in Semaphores
  PROVE  UnitsAt(c, 0, s) = 0 /\ UnitsAt(c, After(c, 0), s) = 0
<1> DEFINE j == After(c, 0)
<1>1. j \in 1 .. 7 /\ \A k \in 1 .. j - 1 : Need(KindOf[c], Order[k]) = 0
  BY AfterFact DEF Served
<1> HIDE DEF j
<1>2. HeldAt(c, j) = {} /\ HeldAt(c, 0) = {}
  BY <1>1 DEF HeldAt
<1> QED BY <1>2 DEF UnitsAt, j

-----------------------------------------------------------------------------
(* Counting *)

\* What is out, as a set of numbered permits, is finite.
LEMMA OutIsFinite ==
  ASSUME NEW f, NEW s \in Semaphores
  PROVE  /\ Out(f, s) \subseteq Clients \X (1 .. 2)
         /\ IsFiniteSet(Out(f, s)) /\ Cardinality(Out(f, s)) \in Nat
<1>1. ASSUME NEW c \in HoldersAt(f, s) PROVE {c} \X (1 .. Need(KindOf[c], s)) \subseteq Clients \X (1 .. 2)
  <2>1. c \in Clients /\ Need(KindOf[c], s) \in {0, 1, 2}
    BY NeedIsSmall DEF HoldersAt
  <2> QED BY <2>1
<1>2. Out(f, s) \subseteq Clients \X (1 .. 2)
  BY <1>1 DEF Out
<1>3. IsFiniteSet(Clients \X (1 .. 2))
  <2>1. IsFiniteSet(1 .. 2)
    BY 1 \in Int, 2 \in Int, FS_Interval
  <2>2. IsFiniteSet(Clients)
    BY SchedulerAssumption
  <2> QED BY <2>1, <2>2, FS_Product
<1> QED BY <1>2, <1>3, FS_Subset, FS_CardinalityType

\* The permits of one client, with their number.
LEMMA MineCounts ==
  ASSUME NEW c, NEW n \in Nat
  PROVE  IsFiniteSet({c} \X (1 .. n)) /\ Cardinality({c} \X (1 .. n)) = n
<1>1. IsFiniteSet(1 .. n) /\ Cardinality(1 .. n) = n
  BY FS_Interval
<1>2. IsFiniteSet({c}) /\ Cardinality({c}) = 1
  BY FS_Singleton
<1> QED BY <1>1, <1>2, FS_Product

\* When one client moves, what is out changes by what that client takes or gives back.
LEMMA OutMoves ==
  ASSUME NEW f \in [Clients -> 0 .. Served], NEW c \in Clients, NEW i \in 0 .. Served,
         NEW s \in Semaphores
  PROVE  Cardinality(Out([f EXCEPT ![c] = i], s)) + UnitsAt(c, f[c], s)
           = Cardinality(Out(f, s)) + UnitsAt(c, i, s)
<1> DEFINE g == [f EXCEPT ![c] = i]
           rest == UNION {{d} \X (1 .. Need(KindOf[d], s)) : d \in HoldersAt(f, s) \ {c}}
           mine(k) == IF s \in HeldAt(c, k) THEN {c} \X (1 .. Need(KindOf[c], s)) ELSE {}
<1>1. g[c] = i /\ \A d \in Clients \ {c} : g[d] = f[d]
  OBVIOUS
<1>2. /\ HoldersAt(f, s) \ {c} = HoldersAt(g, s) \ {c}
      /\ c \in HoldersAt(f, s) <=> s \in HeldAt(c, f[c])
      /\ c \in HoldersAt(g, s) <=> s \in HeldAt(c, i)
  BY <1>1 DEF HoldersAt
<1> HIDE DEF g
<1>3. Out(f, s) = rest \cup mine(f[c]) /\ Out(g, s) = rest \cup mine(i)
  BY <1>2 DEF Out
<1>4. Need(KindOf[c], s) \in Nat
  BY NeedIsSmall
<1>5. ASSUME NEW k
      PROVE  /\ IsFiniteSet(mine(k)) /\ Cardinality(mine(k)) = UnitsAt(c, k, s)
             /\ rest \cap mine(k) = {} /\ UnitsAt(c, k, s) \in Nat
  <2>1. IsFiniteSet(mine(k)) /\ Cardinality(mine(k)) = UnitsAt(c, k, s)
    BY <1>4, MineCounts, FS_EmptySet DEF UnitsAt
  <2>2. rest \cap mine(k) = {}
    OBVIOUS
  <2>3. UnitsAt(c, k, s) \in Nat
    BY <1>4 DEF UnitsAt
  <2> QED BY <2>1, <2>2, <2>3
<1>6. IsFiniteSet(rest) /\ Cardinality(rest) \in Nat
  BY <1>3, OutIsFinite, FS_Subset, FS_CardinalityType
<1> HIDE DEF rest, mine
<1>7. ASSUME NEW k PROVE Cardinality(rest \cup mine(k)) = Cardinality(rest) + UnitsAt(c, k, s)
  <2>1. Cardinality(rest \cap mine(k)) = 0
    BY <1>5, FS_EmptySet
  <2>2. IsFiniteSet(mine(k)) /\ Cardinality(mine(k)) = UnitsAt(c, k, s) /\ UnitsAt(c, k, s) \in Nat
    BY <1>5
  <2>3. Cardinality(rest \cup mine(k)) =
          Cardinality(rest) + Cardinality(mine(k)) - Cardinality(rest \cap mine(k))
    BY <1>6, <2>2, FS_Union
  <2> QED BY <1>6, <2>1, <2>2, <2>3
<1>8. Cardinality(Out(f, s)) = Cardinality(rest) + UnitsAt(c, f[c], s)
  BY <1>3, <1>7
<1>9. Cardinality(Out(g, s)) = Cardinality(rest) + UnitsAt(c, i, s)
  BY <1>3, <1>7
<1>10. UnitsAt(c, f[c], s) \in Nat /\ UnitsAt(c, i, s) \in Nat
  BY <1>5
<1> QED BY <1>6, <1>8, <1>9, <1>10 DEF g

\* The definitions of the model, in terms of positions.
LEMMA OutIsPermitsOut ==
  ASSUME NEW s \in Semaphores
  PROVE  /\ PermitsOut(s) = Out(at, s)
         /\ PermitsOut(s)' = Out(at', s)
         /\ \A c \in Clients : Held(c) = HeldAt(c, at[c])
BY DEF PermitsOut, Out, Holders, HoldersAt, Held, HeldAt

\* A sum of what is available and what is out stays the limit when a client takes what its
\* next semaphore has for it.
LEMMA TakeConserves ==
  ASSUME Books, NEW c \in Clients, Asking(c), avail[NextOf(c)] >= Need(KindOf[c], NextOf(c)), Take(c)
  PROVE  /\ at' \in [Clients -> 0 .. Served] /\ avail' \in [Semaphores -> Nat]
         /\ PermitsConserved'
<1>1. at[c] \in Positions /\ at \in [Clients -> 0 .. Served] /\ avail \in [Semaphores -> Nat]
  BY DEF Books, Shape, Asking
<1>2. After(c, at[c]) \in 0 .. Served /\ at' = [at EXCEPT ![c] = After(c, at[c])]
  BY <1>1, AfterFact DEF Take, Positions, Served
<1>3. NextOf(c) \in Semaphores /\ Need(KindOf[c], NextOf(c)) \in {0, 1, 2}
  BY <1>1, OrderIsInjective, NeedIsSmall DEF NextOf
<1>4. avail' \in [Semaphores -> Nat]
  BY <1>1, <1>3 DEF Take
<1>5. ASSUME NEW s \in Semaphores
      PROVE  avail'[s] + Cardinality(PermitsOut(s)') = Limit[s]
  <2>1. avail[s] + Cardinality(Out(at, s)) = Limit[s]
    BY OutIsPermitsOut DEF Books, PermitsConserved
  <2>2. avail'[s] = avail[s] - (IF s = Order[at[c]] THEN Need(KindOf[c], s) ELSE 0)
    BY <1>1, <1>3 DEF Take, NextOf
  <2>3. Cardinality(Out(at', s)) + UnitsAt(c, at[c], s)
          = Cardinality(Out(at, s)) + UnitsAt(c, After(c, at[c]), s)
    BY <1>1, <1>2, OutMoves
  <2>4. UnitsAt(c, After(c, at[c]), s) =
          UnitsAt(c, at[c], s) + (IF s = Order[at[c]] THEN Need(KindOf[c], s) ELSE 0)
    BY <1>1, UnitsAfter
  <2>5. /\ Cardinality(Out(at, s)) \in Nat /\ Cardinality(Out(at', s)) \in Nat
        /\ Need(KindOf[c], s) \in Nat /\ UnitsAt(c, at[c], s) \in Nat /\ avail[s] \in Nat
    BY <1>1, OutIsFinite, NeedIsSmall DEF UnitsAt
  <2>6. avail'[s] + Cardinality(Out(at', s)) = Limit[s]
    BY <2>1, <2>2, <2>3, <2>4, <2>5
  <2> QED BY <2>6, OutIsPermitsOut
<1> QED BY <1>1, <1>2, <1>4, <1>5 DEF PermitsConserved

\* The same when a client drops what it holds.
LEMMA GiveBackConserves ==
  ASSUME Books, NEW c \in Clients, GiveBack(c), at' = [at EXCEPT ![c] = 0]
  PROVE  /\ at' \in [Clients -> 0 .. Served] /\ avail' \in [Semaphores -> Nat]
         /\ PermitsConserved'
<1>1. at \in [Clients -> 0 .. Served] /\ avail \in [Semaphores -> Nat] /\ 0 \in 0 .. Served
  BY DEF Books, Shape, Served
<1>2. ASSUME NEW s \in Semaphores
      PROVE  avail'[s] = avail[s] + UnitsAt(c, at[c], s) /\ UnitsAt(c, at[c], s) \in Nat
  <2>1. Held(c) = HeldAt(c, at[c]) /\ Need(KindOf[c], s) \in Nat
    BY OutIsPermitsOut, NeedIsSmall
  <2> QED BY <2>1 DEF GiveBack, UnitsAt
<1>3. avail' \in [Semaphores -> Nat]
  BY <1>1, <1>2 DEF GiveBack
<1>4. ASSUME NEW s \in Semaphores
      PROVE  avail'[s] + Cardinality(PermitsOut(s)') = Limit[s]
  <2>1. avail[s] + Cardinality(Out(at, s)) = Limit[s]
    BY OutIsPermitsOut DEF Books, PermitsConserved
  <2>2. Cardinality(Out(at', s)) + UnitsAt(c, at[c], s)
          = Cardinality(Out(at, s)) + UnitsAt(c, 0, s)
    BY <1>1, OutMoves
  <2>3. UnitsAt(c, 0, s) = 0
    BY NothingHeldAtFirst
  <2>4. /\ Cardinality(Out(at, s)) \in Nat /\ Cardinality(Out(at', s)) \in Nat
        /\ avail[s] \in Nat
    BY <1>1, OutIsFinite
  <2>5. avail'[s] + Cardinality(Out(at', s)) = Limit[s]
    BY <1>2, <2>1, <2>2, <2>3, <2>4
  <2> QED BY <2>5, OutIsPermitsOut
<1> QED BY <1>1, <1>3, <1>4 DEF PermitsConserved

\* The same when a client comes to its first semaphore.
LEMMA StartConserves ==
  ASSUME Books, NEW c \in Clients, Outside(c), avail' = avail, at' = [at EXCEPT ![c] = After(c, 0)]
  PROVE  at' \in [Clients -> 0 .. Served] /\ PermitsConserved'
<1>1. at \in [Clients -> 0 .. Served] /\ at[c] = 0
  BY DEF Books, Shape, Outside
<1>2. After(c, 0) \in 0 .. Served
  BY AfterFact DEF Served
<1>3. ASSUME NEW s \in Semaphores
      PROVE  avail'[s] + Cardinality(PermitsOut(s)') = Limit[s]
  <2>1. avail[s] + Cardinality(Out(at, s)) = Limit[s]
    BY OutIsPermitsOut DEF Books, PermitsConserved
  <2>2. Cardinality(Out(at', s)) + UnitsAt(c, 0, s)
          = Cardinality(Out(at, s)) + UnitsAt(c, After(c, 0), s)
    BY <1>1, <1>2, OutMoves
  <2>3. UnitsAt(c, 0, s) = 0 /\ UnitsAt(c, After(c, 0), s) = 0
    BY NothingHeldAtFirst
  <2>4. Cardinality(Out(at, s)) \in Nat /\ Cardinality(Out(at', s)) \in Nat
    BY OutIsFinite
  <2>5. Cardinality(Out(at', s)) = Cardinality(Out(at, s))
    BY <2>2, <2>3, <2>4
  <2> QED BY <2>1, <2>5, OutIsPermitsOut
<1> QED BY <1>1, <1>2, <1>3 DEF PermitsConserved

-----------------------------------------------------------------------------
(* Gauges *)

\* The sets the gauges count.
AdmittedNow == {c \in Clients : Admitted(c)}
WaitingNow == {c \in Clients : Asking(c) /\ manner[c] = "wait"}
One(condition) == IF condition THEN 1 ELSE 0

\* Both sets are finite.
LEMMA CountsAreNumbers ==
  /\ IsFiniteSet(AdmittedNow) /\ IsFiniteSet(WaitingNow)
  /\ Cardinality(AdmittedNow) \in Nat /\ Cardinality(WaitingNow) \in Nat
<1>1. IsFiniteSet(AdmittedNow) /\ IsFiniteSet(WaitingNow)
  BY SchedulerAssumption, FS_Subset DEF AdmittedNow, WaitingNow
<1> QED BY <1>1, FS_CardinalityType

\* A set that gains or loses at most one member.
LEMMA OneMore ==
  ASSUME NEW S, IsFiniteSet(S), NEW T, NEW x, T = S \cup {x} \/ T = S \ {x} \/ T = S
  PROVE  /\ Cardinality(S) \in Nat /\ Cardinality(T) \in Nat
         /\ Cardinality(T) + One(x \in S) = Cardinality(S) + One(x \in T)
<1>1. Cardinality(S) \in Nat /\ (x \in S => Cardinality(S) > 0)
  BY FS_CardinalityType, FS_EmptySet
<1>2. CASE T = S \cup {x}
  BY <1>1, <1>2, FS_AddElement DEF One
<1>3. CASE T = S \ {x}
  BY <1>1, <1>3, FS_RemoveElement DEF One
<1>4. CASE T = S
  BY <1>1, <1>4 DEF One
<1> QED BY <1>2, <1>3, <1>4

\* When one client moves, the gauges that would be exact change by that client.
LEMMA GaugesMove ==
  ASSUME Shape, NEW c \in Clients, NEW i \in 0 .. Served, NEW m \in {"wait", "try"},
         at' = [at EXCEPT ![c] = i], manner' = [manner EXCEPT ![c] = m]
  PROVE  /\ Cardinality(AdmittedNow) \in Nat /\ Cardinality(WaitingNow) \in Nat
         /\ Cardinality(AdmittedNow)' \in Nat /\ Cardinality(WaitingNow)' \in Nat
         /\ Cardinality(AdmittedNow)' + One(Admitted(c)) = Cardinality(AdmittedNow) + One(i = Served)
         /\ Cardinality(WaitingNow)' + One(Asking(c) /\ manner[c] = "wait")
              = Cardinality(WaitingNow) + One(i \in Positions /\ m = "wait")
<1>1. IsFiniteSet(AdmittedNow) /\ IsFiniteSet(WaitingNow)
  BY CountsAreNumbers
<1>2. /\ at'[c] = i /\ \A d \in Clients \ {c} : at'[d] = at[d]
      /\ manner'[c] = m /\ \A d \in Clients \ {c} : manner'[d] = manner[d]
  BY DEF Shape
<1>3. /\ c \in AdmittedNow <=> Admitted(c)
      /\ c \in AdmittedNow' <=> i = Served
      /\ c \in WaitingNow <=> (Asking(c) /\ manner[c] = "wait")
      /\ c \in WaitingNow' <=> (i \in Positions /\ m = "wait")
  BY <1>2 DEF AdmittedNow, WaitingNow, Admitted, Asking
<1>4. /\ AdmittedNow' = AdmittedNow \cup {c} \/ AdmittedNow' = AdmittedNow \ {c}
      /\ WaitingNow' = WaitingNow \cup {c} \/ WaitingNow' = WaitingNow \ {c}
  BY <1>2 DEF AdmittedNow, WaitingNow, Admitted, Asking
<1>5. /\ Cardinality(AdmittedNow) \in Nat /\ Cardinality(AdmittedNow') \in Nat
      /\ Cardinality(AdmittedNow') + One(c \in AdmittedNow)
           = Cardinality(AdmittedNow) + One(c \in AdmittedNow')
  BY <1>1, <1>4, OneMore
<1>6. /\ Cardinality(WaitingNow) \in Nat /\ Cardinality(WaitingNow') \in Nat
      /\ Cardinality(WaitingNow') + One(c \in WaitingNow)
           = Cardinality(WaitingNow) + One(c \in WaitingNow')
  BY <1>1, <1>4, OneMore
<1> QED BY <1>3, <1>5, <1>6 DEF One

-----------------------------------------------------------------------------
(* The actions *)

\* The queue that a client has left is a queue of clients.
LEMMA WithoutIsQueue ==
  ASSUME NEW q \in Seq(Clients), NEW c
  PROVE  Without(q, c) \in Seq(Clients)
<1>1. CASE \E i \in 1 .. Len(q) : q[i] = c
  <2>1. PICK i \in 1 .. Len(q) : Without(q, c) = SubSeq(q, 1, i - 1) \o SubSeq(q, i + 1, Len(q))
    BY <1>1 DEF Without, RemoveAt
  <2>2. SubSeq(q, 1, i - 1) \in Seq(Clients)
    OBVIOUS
  <2>3. SubSeq(q, i + 1, Len(q)) \in Seq(Clients)
    OBVIOUS
  <2> QED BY <2>1, <2>2, <2>3
<1>2. CASE ~ \E i \in 1 .. Len(q) : q[i] = c
  BY <1>2 DEF Without
<1> QED BY <1>1, <1>2

\* The facts about the gauges, in their names here.
LEMMA GaugesAre ==
  /\ GaugesExact <=> /\ activePermits = Cardinality(AdmittedNow)
                     /\ queued = Cardinality(WaitingNow) + cancels
  /\ GaugesExact' <=> /\ activePermits' = Cardinality(AdmittedNow)'
                      /\ queued' = Cardinality(WaitingNow)' + cancels'
BY DEF GaugesExact, AdmittedNow, WaitingNow

\* acquire: the request is counted as queued.
LEMMA AcquireKeepsBooks ==
  ASSUME Books, NEW c \in Clients, Acquire(c)
  PROVE  Books'
<1>1. /\ Outside(c) /\ at' = [at EXCEPT ![c] = After(c, 0)] /\ avail' = avail
      /\ manner' = [manner EXCEPT ![c] = "wait"] /\ queue' = queue /\ cancels' = cancels
      /\ queued' = queued + 1 /\ activePermits' = activePermits
  BY DEF Acquire, MayStart
<1>2. at' \in [Clients -> 0 .. Served] /\ PermitsConserved'
  BY <1>1, StartConserves
<1>3. After(c, 0) \in 0 .. Served /\ After(c, 0) > 0
  BY AfterFact DEF Served
<1>4. After(c, 0) # Served
  BY SlotsAreNeeded
<1>5. Shape'
  BY <1>1, <1>2 DEF Books, Shape
<1>6. /\ Cardinality(AdmittedNow) \in Nat /\ Cardinality(WaitingNow) \in Nat
      /\ Cardinality(AdmittedNow)' \in Nat /\ Cardinality(WaitingNow)' \in Nat
      /\ Cardinality(AdmittedNow)' + One(Admitted(c))
           = Cardinality(AdmittedNow) + One(After(c, 0) = Served)
      /\ Cardinality(WaitingNow)' + One(Asking(c) /\ manner[c] = "wait")
           = Cardinality(WaitingNow) + One(After(c, 0) \in Positions /\ "wait" = "wait")
  BY <1>1, <1>3, GaugesMove DEF Books
<1>7. ~Admitted(c) /\ ~Asking(c) /\ After(c, 0) \in Positions
  BY <1>1, <1>3, <1>4 DEF Admitted, Asking, Outside, Positions, Served
<1>8. cancels \in Nat
  BY DEF Books, Shape
<1>9. GaugesExact'
  BY <1>1, <1>4, <1>6, <1>7, <1>8, GaugesAre DEF Books, One
<1> QED BY <1>2, <1>5, <1>9 DEF Books

\* try_acquire: the request is not counted before it is admitted.
LEMMA TryAcquireKeepsBooks ==
  ASSUME Books, NEW c \in Clients, TryAcquire(c)
  PROVE  Books'
<1>1. /\ Outside(c) /\ at' = [at EXCEPT ![c] = After(c, 0)] /\ avail' = avail
      /\ manner' = [manner EXCEPT ![c] = "try"] /\ queue' = queue /\ cancels' = cancels
      /\ queued' = queued /\ activePermits' = activePermits
  BY DEF TryAcquire, MayStart
<1>2. at' \in [Clients -> 0 .. Served] /\ PermitsConserved'
  BY <1>1, StartConserves
<1>3. After(c, 0) \in 0 .. Served /\ After(c, 0) > 0
  BY AfterFact DEF Served
<1>4. After(c, 0) # Served
  BY SlotsAreNeeded
<1>5. Shape'
  BY <1>1, <1>2 DEF Books, Shape
<1>6. /\ Cardinality(AdmittedNow) \in Nat /\ Cardinality(WaitingNow) \in Nat
      /\ Cardinality(AdmittedNow)' \in Nat /\ Cardinality(WaitingNow)' \in Nat
      /\ Cardinality(AdmittedNow)' + One(Admitted(c))
           = Cardinality(AdmittedNow) + One(After(c, 0) = Served)
      /\ Cardinality(WaitingNow)' + One(Asking(c) /\ manner[c] = "wait")
           = Cardinality(WaitingNow) + One(After(c, 0) \in Positions /\ "try" = "wait")
  BY <1>1, <1>3, GaugesMove DEF Books
<1>7. ~Admitted(c) /\ ~Asking(c) /\ After(c, 0) \in Positions
  BY <1>1, <1>3, <1>4 DEF Admitted, Asking, Outside, Positions, Served
<1>8. cancels \in Nat
  BY DEF Books, Shape
<1>9. GaugesExact'
  BY <1>1, <1>4, <1>6, <1>7, <1>8, GaugesAre DEF Books, One
<1> QED BY <1>2, <1>5, <1>9 DEF Books

\* The queue of a semaphore grows.
LEMMA EnqueueKeepsBooks ==
  ASSUME Books, NEW c \in Clients, Enqueue(c)
  PROVE  Books'
<1>1. /\ NextOf(c) \in Semaphores
      /\ queue' = [queue EXCEPT ![NextOf(c)] = Append(@, c)]
      /\ UNCHANGED <<at, manner, avail, queued, activePermits, cancels>>
  BY OrderIsInjective DEF Enqueue, Asking, NextOf
<1>2. Shape'
  BY <1>1 DEF Books, Shape
<1>3. PermitsConserved'
  BY <1>1 DEF Books, PermitsConserved, PermitsOut, Holders, Held
<1>4. GaugesExact'
  BY <1>1 DEF Books, GaugesExact, Admitted, Asking
<1> QED BY <1>2, <1>3, <1>4 DEF Books

\* The step after which a client holds one semaphore more: what the two ways of taking share.
LEMMA TakeKeepsShape ==
  ASSUME Books, NEW c \in Clients, Asking(c), avail[NextOf(c)] >= Need(KindOf[c], NextOf(c)),
         Take(c), manner' = manner, cancels' = cancels,
         queue' \in [Semaphores -> Seq(Clients)]
  PROVE  /\ Shape' /\ PermitsConserved'
         /\ Cardinality(AdmittedNow)' = Cardinality(AdmittedNow) + One(LastStep(c))
         /\ Cardinality(WaitingNow)' = Cardinality(WaitingNow) - One(LastStep(c) /\ manner[c] = "wait")
<1>1. at[c] \in Positions /\ Shape
  BY DEF Books, Asking
<1>2. /\ After(c, at[c]) \in 0 .. Served /\ After(c, at[c]) > 0
      /\ at' = [at EXCEPT ![c] = After(c, at[c])]
      /\ manner' = [manner EXCEPT ![c] = manner[c]] /\ manner[c] \in {"wait", "try"}
  <2>1. at[c] \in 0 .. 6
    BY <1>1 DEF Positions
  <2>2. After(c, at[c]) \in 0 .. Served /\ After(c, at[c]) > 0
    BY <2>1, AfterFact DEF Served
  <2>3. at' = [at EXCEPT ![c] = After(c, at[c])]
    BY DEF Take
  <2>4. manner' = [manner EXCEPT ![c] = manner[c]] /\ manner[c] \in {"wait", "try"}
    BY <1>1 DEF Shape
  <2> QED BY <2>2, <2>3, <2>4
<1>3. /\ at' \in [Clients -> 0 .. Served] /\ avail' \in [Semaphores -> Nat]
      /\ PermitsConserved'
  BY TakeConserves
<1>4. Shape'
  BY <1>1, <1>3 DEF Shape
<1>5. /\ Cardinality(AdmittedNow) \in Nat /\ Cardinality(WaitingNow) \in Nat
      /\ Cardinality(AdmittedNow)' \in Nat /\ Cardinality(WaitingNow)' \in Nat
      /\ Cardinality(AdmittedNow)' + One(Admitted(c))
           = Cardinality(AdmittedNow) + One(After(c, at[c]) = Served)
      /\ Cardinality(WaitingNow)' + One(Asking(c) /\ manner[c] = "wait")
           = Cardinality(WaitingNow) + One(After(c, at[c]) \in Positions /\ manner[c] = "wait")
  BY <1>1, <1>2, GaugesMove
<1>6. ~Admitted(c) /\ (LastStep(c) <=> After(c, at[c]) = Served)
      /\ (After(c, at[c]) \in Positions <=> ~LastStep(c))
  BY <1>1, <1>2 DEF Admitted, LastStep, Positions, Served
<1> QED BY <1>3, <1>4, <1>5, <1>6 DEF One

\* A semaphore serves the head of its queue.
LEMMA GrantedKeepsBooks ==
  ASSUME Books, NEW c \in Clients, Granted(c)
  PROVE  Books'
<1>1. /\ Asking(c) /\ manner[c] = "wait" /\ Contains(queue[NextOf(c)], c)
      /\ avail[NextOf(c)] >= Need(KindOf[c], NextOf(c)) /\ Take(c)
      /\ queue' = [queue EXCEPT ![NextOf(c)] = Tail(@)]
      /\ queued' = IF LastStep(c) THEN queued - 1 ELSE queued
      /\ activePermits' = IF LastStep(c) THEN activePermits + 1 ELSE activePermits
      /\ manner' = manner /\ cancels' = cancels
  BY DEF Granted, IsWaiting
<1>2. queue' \in [Semaphores -> Seq(Clients)]
  <2>1. NextOf(c) \in Semaphores /\ queue \in [Semaphores -> Seq(Clients)]
    BY <1>1, OrderIsInjective DEF Asking, NextOf, Books, Shape
  <2>2. queue[NextOf(c)] \in Seq(Clients) /\ queue[NextOf(c)] # <<>>
    BY <1>1, <2>1 DEF Contains
  <2>3. Tail(queue[NextOf(c)]) \in Seq(Clients)
    BY <2>2
  <2> QED BY <1>1, <2>1, <2>3
<1>3. /\ Shape' /\ PermitsConserved'
      /\ Cardinality(AdmittedNow)' = Cardinality(AdmittedNow) + One(LastStep(c))
      /\ Cardinality(WaitingNow)' = Cardinality(WaitingNow) - One(LastStep(c) /\ manner[c] = "wait")
  BY <1>1, <1>2, TakeKeepsShape
<1>4. Cardinality(WaitingNow) \in Nat /\ Cardinality(AdmittedNow) \in Nat /\ cancels \in Nat
  BY CountsAreNumbers DEF Books, Shape
<1>5. GaugesExact'
  BY <1>1, <1>3, <1>4, GaugesAre DEF Books, One
<1> QED BY <1>3, <1>5 DEF Books

\* A try takes what is there.
LEMMA TryTakeKeepsBooks ==
  ASSUME Books, NEW c \in Clients, TryTake(c)
  PROVE  Books'
<1>1. /\ Asking(c) /\ manner[c] = "try"
      /\ avail[NextOf(c)] >= Need(KindOf[c], NextOf(c)) /\ Take(c)
      /\ activePermits' = IF LastStep(c) THEN activePermits + 1 ELSE activePermits
      /\ manner' = manner /\ cancels' = cancels /\ queue' = queue /\ queued' = queued
  BY DEF TryTake, CanTake
<1>2. queue' \in [Semaphores -> Seq(Clients)]
  BY <1>1 DEF Books, Shape
<1>3. /\ Shape' /\ PermitsConserved'
      /\ Cardinality(AdmittedNow)' = Cardinality(AdmittedNow) + One(LastStep(c))
      /\ Cardinality(WaitingNow)' = Cardinality(WaitingNow) - One(LastStep(c) /\ manner[c] = "wait")
  BY <1>1, <1>2, TakeKeepsShape
<1>4. Cardinality(WaitingNow) \in Nat /\ Cardinality(AdmittedNow) \in Nat /\ cancels \in Nat
  BY CountsAreNumbers DEF Books, Shape
<1>5. GaugesExact'
  BY <1>1, <1>3, <1>4, GaugesAre DEF Books, One
<1> QED BY <1>3, <1>5 DEF Books

\* The step after which a client is outside again, however it ends.
LEMMA LeavingKeepsShape ==
  ASSUME Books, NEW c \in Clients, GiveBack(c), at' = [at EXCEPT ![c] = 0], manner' = manner,
         queue' \in [Semaphores -> Seq(Clients)], cancels' \in 0 .. MaxCancels
  PROVE  /\ Shape' /\ PermitsConserved'
         /\ Cardinality(AdmittedNow)' = Cardinality(AdmittedNow) - One(Admitted(c))
         /\ Cardinality(WaitingNow)' = Cardinality(WaitingNow) - One(Asking(c) /\ manner[c] = "wait")
<1>1. Shape /\ 0 \in 0 .. Served
  BY DEF Books, Served
<1>2. manner' = [manner EXCEPT ![c] = manner[c]] /\ manner[c] \in {"wait", "try"}
  BY <1>1 DEF Shape
<1>3. /\ at' \in [Clients -> 0 .. Served] /\ avail' \in [Semaphores -> Nat]
      /\ PermitsConserved'
  BY GiveBackConserves
<1>4. Shape'
  BY <1>1, <1>3 DEF Shape
<1>5. /\ Cardinality(AdmittedNow) \in Nat /\ Cardinality(WaitingNow) \in Nat
      /\ Cardinality(AdmittedNow)' \in Nat /\ Cardinality(WaitingNow)' \in Nat
      /\ Cardinality(AdmittedNow)' + One(Admitted(c))
           = Cardinality(AdmittedNow) + One(0 = Served)
      /\ Cardinality(WaitingNow)' + One(Asking(c) /\ manner[c] = "wait")
           = Cardinality(WaitingNow) + One(0 \in Positions /\ manner[c] = "wait")
  BY <1>1, <1>2, GaugesMove
<1> QED BY <1>3, <1>4, <1>5 DEF One, Served, Positions

\* A waiting future is dropped: its permits go back, the gauge stays.
LEMMA CancelKeepsBooks ==
  ASSUME Books, NEW c \in Clients, Cancel(c)
  PROVE  Books'
<1>1. /\ Asking(c) /\ manner[c] = "wait" /\ GiveBack(c) /\ at' = [at EXCEPT ![c] = 0]
      /\ queue' = [queue EXCEPT ![NextOf(c)] = Without(@, c)]
      /\ cancels < MaxCancels /\ cancels' = cancels + 1
      /\ manner' = manner /\ queued' = queued /\ activePermits' = activePermits
  BY DEF Cancel
<1>2. queue' \in [Semaphores -> Seq(Clients)]
  <2>1. NextOf(c) \in Semaphores /\ queue \in [Semaphores -> Seq(Clients)]
    BY <1>1, OrderIsInjective DEF Asking, NextOf, Books, Shape
  <2>2. Without(queue[NextOf(c)], c) \in Seq(Clients)
    BY <2>1, WithoutIsQueue
  <2> QED BY <1>1, <2>1, <2>2
<1>3. cancels' \in 0 .. MaxCancels /\ cancels \in Nat
  BY <1>1, SchedulerAssumption DEF Books, Shape
<1>4. /\ Shape' /\ PermitsConserved'
      /\ Cardinality(AdmittedNow)' = Cardinality(AdmittedNow) - One(Admitted(c))
      /\ Cardinality(WaitingNow)' = Cardinality(WaitingNow) - One(Asking(c) /\ manner[c] = "wait")
  BY <1>1, <1>2, <1>3, LeavingKeepsShape
<1>5. ~Admitted(c)
  BY <1>1 DEF Admitted, Asking, Positions, Served
<1>6. Cardinality(WaitingNow) \in Nat /\ Cardinality(AdmittedNow) \in Nat
  BY CountsAreNumbers
<1>7. GaugesExact'
  BY <1>1, <1>3, <1>4, <1>5, <1>6, GaugesAre DEF Books, One
<1> QED BY <1>4, <1>7 DEF Books

\* A try is refused half-way.
LEMMA TryRejectedKeepsBooks ==
  ASSUME Books, NEW c \in Clients, TryRejected(c)
  PROVE  Books'
<1>1. /\ Asking(c) /\ manner[c] = "try" /\ GiveBack(c) /\ at' = [at EXCEPT ![c] = 0]
      /\ queue' = queue /\ cancels' = cancels /\ manner' = manner /\ queued' = queued
      /\ activePermits' = activePermits
  BY DEF TryRejected
<1>2. queue' \in [Semaphores -> Seq(Clients)] /\ cancels' \in 0 .. MaxCancels /\ cancels \in Nat
  BY <1>1 DEF Books, Shape
<1>3. /\ Shape' /\ PermitsConserved'
      /\ Cardinality(AdmittedNow)' = Cardinality(AdmittedNow) - One(Admitted(c))
      /\ Cardinality(WaitingNow)' = Cardinality(WaitingNow) - One(Asking(c) /\ manner[c] = "wait")
  BY <1>1, <1>2, LeavingKeepsShape
<1>4. ~Admitted(c)
  BY <1>1 DEF Admitted, Asking, Positions, Served
<1>5. Cardinality(WaitingNow) \in Nat /\ Cardinality(AdmittedNow) \in Nat
  BY CountsAreNumbers
<1>6. GaugesExact'
  BY <1>1, <1>2, <1>3, <1>4, <1>5, GaugesAre DEF Books, One
<1> QED BY <1>3, <1>6 DEF Books

\* Drop of a permit.
LEMMA ReleaseKeepsBooks ==
  ASSUME Books, NEW c \in Clients, Release(c)
  PROVE  Books'
<1>1. /\ Admitted(c) /\ GiveBack(c) /\ at' = [at EXCEPT ![c] = 0]
      /\ queue' = queue /\ cancels' = cancels /\ manner' = manner /\ queued' = queued
      /\ activePermits' = activePermits - 1
  BY DEF Release
<1>2. queue' \in [Semaphores -> Seq(Clients)] /\ cancels' \in 0 .. MaxCancels /\ cancels \in Nat
  BY <1>1 DEF Books, Shape
<1>3. /\ Shape' /\ PermitsConserved'
      /\ Cardinality(AdmittedNow)' = Cardinality(AdmittedNow) - One(Admitted(c))
      /\ Cardinality(WaitingNow)' = Cardinality(WaitingNow) - One(Asking(c) /\ manner[c] = "wait")
  BY <1>1, <1>2, LeavingKeepsShape
<1>4. ~Asking(c)
  BY <1>1 DEF Admitted, Asking, Positions, Served
<1>5. Cardinality(WaitingNow) \in Nat /\ Cardinality(AdmittedNow) \in Nat
  BY CountsAreNumbers
<1>6. GaugesExact'
  BY <1>1, <1>2, <1>3, <1>4, <1>5, GaugesAre DEF Books, One
<1> QED BY <1>3, <1>6 DEF Books

-----------------------------------------------------------------------------
(* The theorems *)

\* A new scheduler has all its permits.
LEMMA BooksAtStart ==
  SchedulerInit => Books
<1> SUFFICES ASSUME SchedulerInit PROVE Books
  OBVIOUS
<1>1. Shape
  BY LimitsAreNumbers, SchedulerAssumption DEF SchedulerInit, Shape, Served
<1>2. ASSUME NEW s \in Semaphores PROVE avail[s] + Cardinality(PermitsOut(s)) = Limit[s]
  <2>1. PermitsOut(s) = {}
    BY DEF SchedulerInit, PermitsOut, Holders, Held
  <2>2. Limit[s] \in Nat
    BY LimitsAreNumbers
  <2> QED BY <2>1, <2>2, FS_EmptySet DEF SchedulerInit
<1>3. GaugesExact
  <2>1. AdmittedNow = {} /\ WaitingNow = {}
    BY DEF SchedulerInit, AdmittedNow, WaitingNow, Admitted, Asking, Positions, Served
  <2> QED BY <2>1, FS_EmptySet, GaugesAre DEF SchedulerInit
<1> QED BY <1>1, <1>2, <1>3 DEF Books, PermitsConserved

\* Every step keeps the books.
LEMMA BooksKept ==
  Books /\ [SchedulerNext]_schedulerVars => Books'
<1> SUFFICES ASSUME Books, [SchedulerNext]_schedulerVars PROVE Books'
  OBVIOUS
<1>1. CASE UNCHANGED schedulerVars
  <2>1. Shape'
    BY <1>1 DEF schedulerVars, Books, Shape
  <2>2. PermitsConserved'
    BY <1>1 DEF schedulerVars, Books, PermitsConserved, PermitsOut, Holders, Held
  <2>3. GaugesExact'
    BY <1>1 DEF schedulerVars, Books, GaugesExact, Admitted, Asking
  <2> QED BY <2>1, <2>2, <2>3 DEF Books
<1>2. ASSUME NEW c \in Clients,
             \/ Acquire(c) \/ Enqueue(c) \/ Granted(c) \/ Cancel(c)
             \/ TryAcquire(c) \/ TryTake(c) \/ TryRejected(c) \/ Release(c)
      PROVE  Books'
  BY <1>2, AcquireKeepsBooks, EnqueueKeepsBooks, GrantedKeepsBooks, CancelKeepsBooks,
     TryAcquireKeepsBooks, TryTakeKeepsBooks, TryRejectedKeepsBooks, ReleaseKeepsBooks
<1> QED BY <1>1, <1>2 DEF SchedulerNext

\* Exact books imply the invariant that the runs check.
LEMMA BooksSuffice ==
  Books => SchedulerInv
<1> SUFFICES ASSUME Books PROVE SchedulerInv
  OBVIOUS
<1>1. ASSUME NEW s \in Semaphores PROVE avail[s] \in 0 .. Limit[s]
  <2>1. Cardinality(PermitsOut(s)) \in Nat
    BY OutIsFinite, OutIsPermitsOut
  <2> QED BY <2>1, LimitsAreNumbers DEF Books, Shape, PermitsConserved
<1>2. queued \in Nat /\ activePermits \in Nat
  BY CountsAreNumbers, GaugesAre DEF Books, Shape
<1> QED BY <1>1, <1>2 DEF Books, Shape, SchedulerInv, SchedulerTypeOK

\* SchedulerInv holds in every reachable state: whichever way requests end, no permit of any
\* semaphore is lost or invented and the gauges count what is there.
THEOREM SchedulerKeepsBooks ==
  SchedulerSpec => []SchedulerInv
<1>1. SchedulerInit => Books
  BY BooksAtStart
<1>2. Books /\ [SchedulerNext]_schedulerVars => Books'
  BY BooksKept
<1>3. Books => SchedulerInv
  BY BooksSuffice
<1> QED BY <1>1, <1>2, <1>3, PTL DEF SchedulerSpec

\* A set of clients each of which holds a permit of a semaphore is no larger than its limit.
LEMMA HoldersWithinLimit ==
  ASSUME Books, NEW s \in Semaphores, NEW S \in SUBSET Holders(s)
  PROVE  Cardinality(S) <= Limit[s]
<1> DEFINE f == [c \in S |-> <<c, 1>>]
<1>1. ASSUME NEW c \in S PROVE <<c, 1>> \in PermitsOut(s)
  <2>1. c \in Holders(s) /\ c \in Clients /\ s \in Held(c)
    BY DEF Holders
  <2>2. Need(KindOf[c], s) \in {1, 2}
    BY <2>1, NeedIsSmall DEF Held
  <2> QED BY <2>1, <2>2 DEF PermitsOut
<1>2. f \in Injection(S, PermitsOut(s))
  <2>1. f \in [S -> PermitsOut(s)]
    BY <1>1
  <2>2. \A a, b \in S : f[a] = f[b] => a = b
    OBVIOUS
  <2> HIDE DEF f
  <2> QED BY <2>1, <2>2 DEF Injection, IsInjective
<1>3. IsFiniteSet(PermitsOut(s)) /\ Cardinality(PermitsOut(s)) \in Nat
  BY OutIsFinite, OutIsPermitsOut
<1>4. Cardinality(S) <= Cardinality(PermitsOut(s)) /\ IsFiniteSet(S)
  <2> HIDE DEF f
  <2> QED BY <1>2, <1>3, FS_Injection
<1>5. Cardinality(S) \in Nat
  BY <1>4, FS_CardinalityType
<1>6. avail[s] \in Nat /\ Limit[s] \in Nat /\ avail[s] + Cardinality(PermitsOut(s)) = Limit[s]
  BY LimitsAreNumbers DEF Books, Shape, PermitsConserved
<1> QED BY <1>3, <1>4, <1>5, <1>6

\* SharesKept holds in every reachable state: the pools that are asked for first bound what
\* work of a priority can hold of the pools that are asked for after them.
THEOREM SchedulerKeepsShares ==
  SchedulerSpec => []SharesKept
<1>1. SchedulerInit => Books
  BY BooksAtStart
<1>2. Books /\ [SchedulerNext]_schedulerVars => Books'
  BY BooksKept
<1>3. Books => SharesKept
  <2> SUFFICES ASSUME Books PROVE HighKeepsSlots /\ LowLeavesRoomForNormal
    BY DEF SharesKept
  <2>1. ASSUME NEW c \in Holders("slots"), Priority(KindOf[c]) # "High" PROVE c \in Holders("nonHigh")
    <3>1. c \in Clients /\ "slots" \in HeldAt(c, at[c]) /\ at[c] \in 0 .. 7
      BY SemaphoresAre, OutIsPermitsOut DEF Holders, Books, Shape, Served
    <3>2. PICK k \in 1 .. at[c] - 1 : Order[k] = "slots"
      BY <3>1 DEF HeldAt
    <3>3. k = 3
      BY <3>1, <3>2, OrderIsInjective, SemaphoresAre DEF Positions
    <3>4. 2 \in 1 .. at[c] - 1 /\ Order[2] = "nonHigh"
      BY <3>1, <3>2, <3>3, SemaphoresAre
    <3>5. Need(KindOf[c], "nonHigh") = 1
      BY <2>1 DEF Need
    <3> QED BY <3>1, <3>4, <3>5 DEF Holders, Held
  <2>2. ASSUME NEW c \in Holders("nonHigh"), Priority(KindOf[c]) = "Low" PROVE c \in Holders("low")
    <3>1. c \in Clients /\ "nonHigh" \in HeldAt(c, at[c]) /\ at[c] \in 0 .. 7
      BY SemaphoresAre, OutIsPermitsOut DEF Holders, Books, Shape, Served
    <3>2. PICK k \in 1 .. at[c] - 1 : Order[k] = "nonHigh"
      BY <3>1 DEF HeldAt
    <3>3. k = 2
      BY <3>1, <3>2, OrderIsInjective, SemaphoresAre DEF Positions
    <3>4. 1 \in 1 .. at[c] - 1 /\ Order[1] = "low"
      BY <3>1, <3>2, <3>3, SemaphoresAre
    <3>5. Need(KindOf[c], "low") = 1
      BY <2>2 DEF Need
    <3> QED BY <3>1, <3>4, <3>5 DEF Holders, Held
  <2>3. HighKeepsSlots
    <3> DEFINE others == {c \in Holders("slots") : Priority(KindOf[c]) # "High"}
    <3>1. others \in SUBSET Holders("nonHigh")
      BY <2>1
    <3>2. Cardinality(others) <= Limit["nonHigh"]
      BY <3>1, SemaphoresAre, HoldersWithinLimit
    <3> QED BY <3>2, LimitsAreNumbers DEF HighKeepsSlots, NonHighLimit
  <2>4. LowLeavesRoomForNormal
    <3> DEFINE lows == {c \in Holders("nonHigh") : Priority(KindOf[c]) = "Low"}
    <3>1. lows \in SUBSET Holders("low")
      BY <2>2
    <3>2. Cardinality(lows) <= Limit["low"]
      BY <3>1, SemaphoresAre, HoldersWithinLimit
    <3> QED BY <3>2, LimitsAreNumbers DEF LowLeavesRoomForNormal
  <2> QED BY <2>3, <2>4
<1> QED BY <1>1, <1>2, <1>3, PTL DEF SchedulerSpec
=============================================================================
