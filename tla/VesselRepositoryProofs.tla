----------------------- MODULE VesselRepositoryProofs -----------------------
(* Proofs about VesselRepository, for any vessels, reservations and demands. *)
EXTENDS VesselRepository, FiniteSetTheorems, TLAPS

\* The counters of a vessel are integers and the recorded operations name
\* vessels: what a transaction of the repository writes.
THEOREM BooksTyped == Spec => []TypeOK
<1>1. Init => TypeOK
  BY DEF Init, TypeOK, Balances
<1>2. TypeOK /\ [Next]_vesselVars => TypeOK'
  <2> SUFFICES ASSUME TypeOK, [Next]_vesselVars PROVE TypeOK'
    OBVIOUS
  <2>1. ASSUME NEW v \in Vessels, Create(v) PROVE TypeOK'
    BY <2>1 DEF TypeOK, Create
  <2>2. ASSUME NEW r \in Reservations, NEW v \in fleet, ReserveCapacity(r, v)
        PROVE TypeOK'
    <3>1. v \in Vessels
      BY DEF TypeOK
    <3>2. reserved' \in Balances
      BY <2>2, <3>1, DemandAssumption
      DEF TypeOK, Balances, ReserveCapacity, Increase, Quantities
    <3>3. capacityOps' \subseteq CapacityOperation
      BY <2>2, <3>1 DEF TypeOK, ReserveCapacity, Insert, CapacityOperation, Operations
    <3> QED
      BY <2>2, <3>2, <3>3 DEF TypeOK, ReserveCapacity
  <2>3. ASSUME NEW r \in Reservations, Recorded(r, "reserve") PROVE VesselOf(r) \in Vessels
    <3>1. PICK op \in capacityOps : op.reservation = r /\ op.operation = "reserve"
      BY <2>3 DEF Recorded
    <3>2. op \in CapacityOperation
      BY DEF TypeOK
    <3>3. op = [reservation |-> r, operation |-> "reserve", vessel |-> op.vessel]
      BY <3>1, <3>2 DEF CapacityOperation
    <3>4. \E v \in Vessels :
              [reservation |-> r, operation |-> "reserve", vessel |-> v] \in capacityOps
      BY <3>1, <3>2, <3>3 DEF CapacityOperation
    <3> QED
      BY <3>4 DEF VesselOf
  <2>4. ASSUME NEW r \in Reservations, ReleaseCapacity(r) PROVE TypeOK'
    <3>1. VesselOf(r) \in Vessels
      BY <2>3, <2>4 DEF ReleaseCapacity
    <3>2. reserved' \in Balances
      BY <2>4, <3>1, DemandAssumption
      DEF TypeOK, Balances, ReleaseCapacity, Decrease, Quantities
    <3>3. capacityOps' \subseteq CapacityOperation
      BY <2>4, <3>1 DEF TypeOK, ReleaseCapacity, Insert, CapacityOperation, Operations
    <3> QED
      BY <2>4, <3>2, <3>3 DEF TypeOK, ReleaseCapacity
  <2>5. ASSUME NEW r \in Reservations, ConfirmCapacity(r) PROVE TypeOK'
    <3>1. VesselOf(r) \in Vessels
      BY <2>3, <2>5 DEF ConfirmCapacity
    <3>2. reserved' \in Balances
      BY <2>5, <3>1, DemandAssumption
      DEF TypeOK, Balances, ConfirmCapacity, Decrease, Quantities
    <3>3. used' \in Balances
      BY <2>5, <3>1, DemandAssumption
      DEF TypeOK, Balances, ConfirmCapacity, Increase, Quantities
    <3>4. capacityOps' \subseteq CapacityOperation
      BY <2>5, <3>1 DEF TypeOK, ConfirmCapacity, Insert, CapacityOperation, Operations
    <3> QED
      BY <2>5, <3>2, <3>3, <3>4 DEF TypeOK, ConfirmCapacity
  <2>6. CASE UNCHANGED vesselVars
    BY <2>6 DEF TypeOK, vesselVars
  <2> QED
    BY <2>1, <2>2, <2>4, <2>5, <2>6 DEF Next
<1> QED
  BY <1>1, <1>2, PTL DEF Spec

\* The counters of a vessel never exceed its limits: ReserveCapacity looks for
\* room in the transaction that takes it, and nothing else adds to the sum.
THEOREM BooksWithinLimits == Spec => []WithinLimits
<1>1. Init => WithinLimits
  BY LimitAssumption DEF Init, WithinLimits, Quantities
<1>2. TypeOK /\ WithinLimits /\ [Next]_vesselVars => WithinLimits'
  <2> SUFFICES ASSUME TypeOK, WithinLimits, [Next]_vesselVars,
                      NEW v \in Vessels, NEW d \in Dims
               PROVE  reserved'[v][d] + used'[v][d] <= Limit[v][d]
    BY DEF WithinLimits
  <2>0. /\ reserved[v][d] \in Int /\ used[v][d] \in Int /\ Limit[v][d] \in Int
        /\ \A r \in Reservations : Demand[r][d] \in Nat
        /\ reserved[v][d] + used[v][d] <= Limit[v][d]
    BY LimitAssumption, DemandAssumption DEF TypeOK, Balances, WithinLimits, Quantities
  <2>1. ASSUME NEW w \in Vessels, Create(w)
        PROVE  reserved'[v][d] + used'[v][d] <= Limit[v][d]
    BY <2>0, <2>1 DEF Create
  <2>2. ASSUME NEW r \in Reservations, NEW w \in fleet, ReserveCapacity(r, w)
        PROVE  reserved'[v][d] + used'[v][d] <= Limit[v][d]
    <3>1. CASE w = v
      <4>1. reserved'[v][d] = reserved[v][d] + Demand[r][d] /\ used' = used
        BY <2>2, <3>1 DEF ReserveCapacity, Increase, TypeOK, Balances
      <4>2. Limit[v][d] - reserved[v][d] - used[v][d] >= Demand[r][d]
        BY <2>2, <3>1 DEF ReserveCapacity, Fits
      <4> QED
        BY <2>0, <4>1, <4>2
    <3>2. CASE w # v
      BY <2>0, <2>2, <3>2 DEF ReserveCapacity, Increase, TypeOK, Balances
    <3> QED
      BY <3>1, <3>2
  <2>3. ASSUME NEW r \in Reservations, ReleaseCapacity(r)
        PROVE  reserved'[v][d] + used'[v][d] <= Limit[v][d]
    <3>1. CASE VesselOf(r) = v
      <4>1. reserved'[v][d] = reserved[v][d] - Demand[r][d] /\ used' = used
        BY <2>3, <3>1 DEF ReleaseCapacity, Decrease, TypeOK, Balances
      <4> QED
        BY <2>0, <4>1
    <3>2. CASE VesselOf(r) # v
      BY <2>0, <2>3, <3>2 DEF ReleaseCapacity, Decrease, TypeOK, Balances
    <3> QED
      BY <3>1, <3>2
  <2>4. ASSUME NEW r \in Reservations, ConfirmCapacity(r)
        PROVE  reserved'[v][d] + used'[v][d] <= Limit[v][d]
    <3>1. CASE VesselOf(r) = v
      <4>1. /\ reserved'[v][d] = reserved[v][d] - Demand[r][d]
            /\ used'[v][d] = used[v][d] + Demand[r][d]
        BY <2>4, <3>1 DEF ConfirmCapacity, Decrease, Increase, TypeOK, Balances
      <4> QED
        BY <2>0, <4>1
    <3>2. CASE VesselOf(r) # v
      BY <2>0, <2>4, <3>2 DEF ConfirmCapacity, Decrease, Increase, TypeOK, Balances
    <3> QED
      BY <3>1, <3>2
  <2>5. CASE UNCHANGED vesselVars
    BY <2>0, <2>5 DEF vesselVars
  <2> QED
    BY <2>1, <2>2, <2>3, <2>4, <2>5 DEF Next
<1> QED
  BY <1>1, <1>2, BooksTyped, PTL DEF Spec

-----------------------------------------------------------------------------
(* The sum that MapThenSumSet computes: its recursive function is unfolded,  *)
(* and does not depend on the order in which it takes the elements.          *)

\* Induction over finite sets without an operator parameter: among the subsets
\* that are counterexamples one is the smallest.
LEMMA SmallestSubset ==
    ASSUME NEW S, IsFiniteSet(S), NEW C, C \subseteq SUBSET S, C # {}
    PROVE  \E m \in C : \A t \in C : t \subseteq m => t = m
<1>1. /\ IsWellFoundedOn(StrictSubsetOrdering(S), FiniteSubsetsOf(S))
      /\ FiniteSubsetsOf(S) = SUBSET S
  BY FS_StrictSubsetOrderingWellFounded, FS_FiniteSubsetsOfFinite
<1>2. \E m \in C : \A t \in C : ~ (<<t, m>> \in StrictSubsetOrdering(S))
  BY <1>1, WFMin, Zenon
<1>3. PICK m \in C : \A t \in C : ~ (<<t, m>> \in StrictSubsetOrdering(S))
  BY <1>2
<1>4. ASSUME NEW t \in C, t \subseteq m PROVE t = m
  <2>1. t \in SUBSET S /\ m \in SUBSET S
    OBVIOUS
  <2>2. <<t, m>> \notin StrictSubsetOrdering(S)
    BY <1>3
  <2> QED
    BY <1>4, <2>1, <2>2 DEF StrictSubsetOrdering
<1> QED
  BY <1>4

First(s) == CHOOSE x \in s : TRUE
Rest(s)  == s \ {First(s)}

LEMMA RestIsSmaller ==
    ASSUME NEW S, S # {}
    PROVE  First(S) \in S /\ Rest(S) \subseteq S /\ Rest(S) # S
BY DEF First, Rest

\* f is what the fold of the community modules computes over the subsets of S.
Sums(f, S, d) ==
    f = [s \in SUBSET S |-> IF s = {} THEN 0 ELSE Demand[First(s)][d] + f[Rest(s)]]

LEMMA DemandIsASum ==
    ASSUME NEW S, NEW d PROVE DemandOf(S, d) = (CHOOSE f : Sums(f, S, d))[S]
BY DEF DemandOf, MapThenSumSet, MapThenFoldSet, Sums, First, Rest

\* Two such functions agree where both are defined.
LEMMA SumsAgree ==
    ASSUME NEW S, IsFiniteSet(S), NEW T, S \subseteq T, NEW d,
           NEW f, Sums(f, S, d), NEW g, Sums(g, T, d)
    PROVE  \A s \in SUBSET S : f[s] = g[s]
<1> DEFINE C == {s \in SUBSET S : f[s] # g[s]}
<1>1. SUFFICES ASSUME C # {} PROVE FALSE
  OBVIOUS
<1>2. PICK m \in C : \A t \in C : t \subseteq m => t = m
  <2> HIDE DEF C
  <2>1. C \subseteq SUBSET S
    BY DEF C
  <2> QED
    BY <1>1, <2>1, SmallestSubset
<1>3. f[m] = IF m = {} THEN 0 ELSE Demand[First(m)][d] + f[Rest(m)]
  BY DEF Sums
<1>4. g[m] = IF m = {} THEN 0 ELSE Demand[First(m)][d] + g[Rest(m)]
  BY DEF Sums
<1>5. m # {} => f[Rest(m)] = g[Rest(m)]
  BY <1>2, RestIsSmaller
<1> QED
  BY <1>3, <1>4, <1>5

LEMMA SumsExist ==
    ASSUME NEW S, IsFiniteSet(S), NEW d
    PROVE  \E f : Sums(f, S, d)
<1> DEFINE C == {s \in SUBSET S : ~ \E f : Sums(f, s, d)}
<1>1. SUFFICES ASSUME C # {} PROVE FALSE
  OBVIOUS
<1>2. PICK m \in C : \A t \in C : t \subseteq m => t = m
  <2> HIDE DEF C
  <2>1. C \subseteq SUBSET S
    BY DEF C
  <2> QED
    BY <1>1, <2>1, SmallestSubset
<1> DEFINE Sub(s) == CHOOSE f : Sums(f, s, d)
           g == [s \in SUBSET m |->
                    IF s = {} THEN 0 ELSE Demand[First(s)][d] + Sub(Rest(s))[Rest(s)]]
<1>3. ASSUME NEW t \in SUBSET m, t # m PROVE Sums(Sub(t), t, d)
  <2>1. t \in SUBSET S /\ t \notin C
    BY <1>2, <1>3
  <2>2. \E f : Sums(f, t, d)
    BY <2>1
  <2> HIDE DEF Sums
  <2> QED
    BY <2>2
<1>4. ASSUME NEW t \in SUBSET m, t # m PROVE Sub(t)[t] = g[t]
  <2> HIDE DEF Sub
  <2>1. Sums(Sub(t), t, d)
    BY <1>3, <1>4
  <2>2. Sub(t)[t] = IF t = {} THEN 0 ELSE Demand[First(t)][d] + Sub(t)[Rest(t)]
    BY <2>1 DEF Sums
  <2>3. ASSUME t # {} PROVE Sub(t)[Rest(t)] = Sub(Rest(t))[Rest(t)]
    <3>1. Rest(t) \in SUBSET t /\ Rest(t) \in SUBSET m /\ Rest(t) # m
      BY <1>4, <2>3, RestIsSmaller
    <3>2. Sums(Sub(Rest(t)), Rest(t), d)
      BY <3>1, <1>3
    <3>3. IsFiniteSet(Rest(t))
      BY <3>1, FS_Subset
    <3> QED
      BY <2>1, <3>1, <3>2, <3>3, SumsAgree
  <2> QED
    BY <2>2, <2>3
<1>5. Sums(g, m, d)
  <2>1. ASSUME NEW s \in SUBSET m
        PROVE  g[s] = IF s = {} THEN 0 ELSE Demand[First(s)][d] + g[Rest(s)]
    <3>1. CASE s = {}
      BY <3>1
    <3>2. CASE s # {}
      <4>1. Rest(s) \in SUBSET m /\ Rest(s) # m
        BY <3>2, RestIsSmaller
      <4>2. Sub(Rest(s))[Rest(s)] = g[Rest(s)]
        BY <4>1, <1>4
      <4>3. g[s] = Demand[First(s)][d] + Sub(Rest(s))[Rest(s)]
        BY <3>2
      <4> QED
        BY <3>2, <4>2, <4>3
    <3> QED
      BY <3>1, <3>2
  <2> HIDE DEF Sub
  <2>2. g = [s \in SUBSET m |-> g[s]]
    OBVIOUS
  <2> HIDE DEF g
  <2> QED
    BY <2>1, <2>2 DEF Sums
<1> QED
  BY <1>5

\* What the fold computes: nothing for no reservation, else the demand of one
\* reservation and the sum of the others.
LEMMA DemandOfUnfolds ==
    ASSUME NEW S, IsFiniteSet(S), NEW d
    PROVE  DemandOf(S, d) = IF S = {} THEN 0 ELSE Demand[First(S)][d] + DemandOf(Rest(S), d)
<1> DEFINE f == CHOOSE f : Sums(f, S, d)
           g == CHOOSE g : Sums(g, Rest(S), d)
<1>1. IsFiniteSet(Rest(S))
  BY FS_RemoveElement DEF Rest
<1>2. Sums(f, S, d) /\ Sums(g, Rest(S), d)
  <2>1. (\E h : Sums(h, S, d)) /\ \E h : Sums(h, Rest(S), d)
    BY <1>1, SumsExist
  <2> HIDE DEF Sums
  <2> QED
    BY <2>1
<1>3. DemandOf(S, d) = f[S] /\ DemandOf(Rest(S), d) = g[Rest(S)]
  BY DemandIsASum
<1> HIDE DEF f, g
<1>4. f[S] = IF S = {} THEN 0 ELSE Demand[First(S)][d] + f[Rest(S)]
  BY <1>2 DEF Sums
<1>5. f[Rest(S)] = g[Rest(S)]
  BY <1>1, <1>2, SumsAgree DEF Rest
<1> QED
  BY <1>3, <1>4, <1>5
LEMMA DemandOfIsNat ==
    ASSUME NEW S, S \subseteq Reservations, IsFiniteSet(S), NEW d \in Dims
    PROVE  DemandOf(S, d) \in Nat
<1> DEFINE C == {s \in SUBSET S : DemandOf(s, d) \notin Nat}
<1>1. SUFFICES ASSUME C # {} PROVE FALSE
  BY DEF C
<1>2. PICK m \in C : \A t \in C : t \subseteq m => t = m
  <2> HIDE DEF C
  <2>1. C \subseteq SUBSET S
    BY DEF C
  <2> QED
    BY <1>1, <2>1, SmallestSubset
<1>3. m \subseteq S /\ IsFiniteSet(m)
  BY FS_Subset
<1>4. m # {} => Demand[First(m)][d] \in Nat /\ DemandOf(Rest(m), d) \in Nat
  BY <1>2, <1>3, RestIsSmaller, DemandAssumption DEF Quantities
<1>5. DemandOf(m, d) = IF m = {} THEN 0 ELSE Demand[First(m)][d] + DemandOf(Rest(m), d)
  BY <1>3, DemandOfUnfolds
<1> QED
  BY <1>4, <1>5

\* The order in which the fold takes the reservations does not matter.
LEMMA DemandOfRemoves ==
    ASSUME NEW S, S \subseteq Reservations, IsFiniteSet(S), NEW d \in Dims
    PROVE  \A x \in S : DemandOf(S, d) = Demand[x][d] + DemandOf(S \ {x}, d)
<1> DEFINE C == {s \in SUBSET S :
                    \E x \in s : DemandOf(s, d) # Demand[x][d] + DemandOf(s \ {x}, d)}
<1>1. SUFFICES ASSUME C # {} PROVE FALSE
  OBVIOUS
<1>2. PICK m \in C : \A t \in C : t \subseteq m => t = m
  <2> HIDE DEF C
  <2>1. C \subseteq SUBSET S
    BY DEF C
  <2> QED
    BY <1>1, <2>1, SmallestSubset
<1>3. PICK x \in m : DemandOf(m, d) # Demand[x][d] + DemandOf(m \ {x}, d)
  OBVIOUS
<1>4. m \subseteq S /\ IsFiniteSet(m) /\ m # {}
  BY FS_Subset
<1>5. DemandOf(m, d) = Demand[First(m)][d] + DemandOf(Rest(m), d)
  BY <1>4, DemandOfUnfolds
<1> DEFINE y == First(m)
<1>6. y \in m /\ Rest(m) = m \ {y}
  BY <1>4, RestIsSmaller DEF Rest
<1>13. DemandOf(m, d) = Demand[y][d] + DemandOf(m \ {y}, d)
  BY <1>5, <1>6
<1> HIDE DEF y
<1>7. y # x
  BY <1>3, <1>13
<1>8. m \ {y} \notin C /\ m \ {x} \notin C
  BY <1>2, <1>6
<1>9. DemandOf(m \ {y}, d) = Demand[x][d] + DemandOf((m \ {y}) \ {x}, d)
  BY <1>8, <1>7
<1>10. DemandOf(m \ {x}, d) = Demand[y][d] + DemandOf((m \ {x}) \ {y}, d)
  BY <1>8, <1>7, <1>6
<1>11. (m \ {x}) \ {y} = (m \ {y}) \ {x}
  OBVIOUS
<1>12. /\ Demand[x][d] \in Nat /\ Demand[y][d] \in Nat
       /\ DemandOf((m \ {x}) \ {y}, d) \in Nat
  <2>1. (m \ {x}) \ {y} \subseteq Reservations /\ IsFiniteSet((m \ {x}) \ {y})
    BY <1>4, FS_RemoveElement
  <2> HIDE DEF C
  <2> QED
    BY <1>4, <1>6, <2>1, DemandOfIsNat, DemandAssumption DEF Quantities
<1> HIDE DEF C
<1> QED
  BY <1>3, <1>13, <1>9, <1>10, <1>11, <1>12

LEMMA DemandOfAdds ==
    ASSUME NEW S, S \subseteq Reservations, IsFiniteSet(S), NEW d \in Dims,
           NEW x \in Reservations, x \notin S
    PROVE  DemandOf(S \cup {x}, d) = DemandOf(S, d) + Demand[x][d]
<1>1. S \cup {x} \subseteq Reservations /\ IsFiniteSet(S \cup {x}) /\ (S \cup {x}) \ {x} = S
  BY FS_AddElement
<1>2. DemandOf(S \cup {x}, d) = Demand[x][d] + DemandOf(S, d)
  BY <1>1, DemandOfRemoves
<1>3. DemandOf(S, d) \in Nat /\ Demand[x][d] \in Nat
  BY DemandOfIsNat, DemandAssumption DEF Quantities
<1> QED
  BY <1>2, <1>3

LEMMA DemandOfSplits ==
    ASSUME NEW S, S \subseteq Reservations, IsFiniteSet(S), NEW d \in Dims,
           NEW T, T \subseteq S
    PROVE  DemandOf(S, d) = DemandOf(T, d) + DemandOf(S \ T, d)
<1> DEFINE C == {s \in SUBSET T : DemandOf(S, d) # DemandOf(s, d) + DemandOf(S \ s, d)}
<1>1. SUFFICES ASSUME C # {} PROVE FALSE
  OBVIOUS
<1>0. IsFiniteSet(T)
  BY FS_Subset
<1>2. PICK m \in C : \A t \in C : t \subseteq m => t = m
  <2> HIDE DEF C
  <2>1. C \subseteq SUBSET T
    BY DEF C
  <2> QED
    BY <1>0, <1>1, <2>1, SmallestSubset
<1>3. IsFiniteSet(m) /\ m \subseteq S
  BY <1>0, FS_Subset
<1>4. DemandOf(S, d) # DemandOf(m, d) + DemandOf(S \ m, d)
  OBVIOUS
<1>5. CASE m = {}
  <2>1. DemandOf({}, d) = 0
    BY FS_EmptySet, DemandOfUnfolds
  <2>2. S \ m = S /\ DemandOf(S, d) \in Nat
    BY <1>5, DemandOfIsNat
  <2> HIDE DEF C
  <2> QED
    BY <1>4, <1>5, <2>1, <2>2
<1>6. CASE m # {}
  <2>1. PICK x : x \in m
    BY <1>6
  <2>2. DemandOf(S, d) = DemandOf(m \ {x}, d) + DemandOf(S \ (m \ {x}), d)
    <3>1. m \ {x} \notin C
      BY <1>2, <2>1
    <3> QED
      BY <3>1
  <2>3. DemandOf(m, d) = Demand[x][d] + DemandOf(m \ {x}, d)
    <3> HIDE DEF C
    <3> QED
      BY <1>3, <2>1, DemandOfRemoves
  <2>4. DemandOf(S \ (m \ {x}), d) = DemandOf(S \ m, d) + Demand[x][d]
    <3>1. S \ (m \ {x}) = (S \ m) \cup {x}
      BY <1>3, <2>1
    <3>2. S \ m \subseteq Reservations /\ IsFiniteSet(S \ m) /\ x \in Reservations
      BY <1>3, <2>1, FS_Difference
    <3> HIDE DEF C
    <3> QED
      BY <2>1, <3>1, <3>2, DemandOfAdds
  <2>5. /\ DemandOf(m \ {x}, d) \in Nat /\ DemandOf(S \ m, d) \in Nat /\ Demand[x][d] \in Nat
    <3>1. /\ m \ {x} \subseteq Reservations /\ IsFiniteSet(m \ {x})
          /\ S \ m \subseteq Reservations /\ IsFiniteSet(S \ m) /\ x \in Reservations
      BY <1>3, <2>1, FS_Difference, FS_RemoveElement
    <3> HIDE DEF C
    <3> QED
      BY <3>1, DemandOfIsNat, DemandAssumption DEF Quantities
  <2> HIDE DEF C
  <2> QED
    BY <1>4, <2>2, <2>3, <2>4, <2>5
<1> QED
  BY <1>5, <1>6

-----------------------------------------------------------------------------
(* The recorded operations and the counters *)

\* A release or a confirmation follows a reservation, on the same vessel; a
\* vessel has finitely many operations at any time.
Ordered ==
    /\ \A op \in capacityOps :
            [reservation |-> op.reservation, operation |-> "reserve", vessel |-> op.vessel]
                \in capacityOps
    /\ \A op1, op2 \in capacityOps :
            op1.reservation = op2.reservation => op1.vessel = op2.vessel
    /\ \A v \in Vessels, operation \in Operations : IsFiniteSet(OnVessel(v, operation))

\* What an insertion does to the reservations recorded on the vessels.
LEMMA InsertOnVessel ==
    ASSUME NEW r \in Reservations, NEW operation \in Operations, NEW w \in Vessels,
           Insert(r, operation, w), NEW v \in Vessels, NEW other \in Operations
    PROVE  OnVessel(v, other)' = IF v = w /\ other = operation
                                 THEN OnVessel(v, other) \cup {r}
                                 ELSE OnVessel(v, other)
BY DEF Insert, OnVessel

LEMMA VesselOfRecorded ==
    ASSUME TypeOK, Ordered, NEW r \in Reservations, Recorded(r, "reserve")
    PROVE  /\ VesselOf(r) \in Vessels
           /\ [reservation |-> r, operation |-> "reserve", vessel |-> VesselOf(r)] \in capacityOps
           /\ \A op \in capacityOps : op.reservation = r => op.vessel = VesselOf(r)
<1>1. PICK op \in capacityOps : op.reservation = r /\ op.operation = "reserve"
  BY DEF Recorded
<1>2. op \in CapacityOperation
  BY DEF TypeOK
<1>3. op = [reservation |-> r, operation |-> "reserve", vessel |-> op.vessel]
  BY <1>1, <1>2 DEF CapacityOperation
<1>4. \E v \in Vessels :
          [reservation |-> r, operation |-> "reserve", vessel |-> v] \in capacityOps
  BY <1>2, <1>3 DEF CapacityOperation
<1>5. /\ VesselOf(r) \in Vessels
      /\ [reservation |-> r, operation |-> "reserve", vessel |-> VesselOf(r)] \in capacityOps
  BY <1>4 DEF VesselOf
<1> QED
  BY <1>5 DEF Ordered

LEMMA OrderedInsert ==
    ASSUME TypeOK, Ordered, NEW r \in Reservations, NEW operation \in Operations,
           NEW w \in Vessels, Insert(r, operation, w),
           operation # "reserve" =>
               [reservation |-> r, operation |-> "reserve", vessel |-> w] \in capacityOps,
           \A op \in capacityOps : op.reservation = r => op.vessel = w
    PROVE  Ordered'
<1>1. \A op \in capacityOps' :
          [reservation |-> op.reservation, operation |-> "reserve", vessel |-> op.vessel]
              \in capacityOps'
  <2> DEFINE new == [reservation |-> r, operation |-> operation, vessel |-> w]
  <2>1. new.reservation = r /\ new.operation = operation /\ new.vessel = w
    OBVIOUS
  <2>2. capacityOps' = capacityOps \cup {new}
    BY DEF Insert
  <2>3. [reservation |-> new.reservation, operation |-> "reserve", vessel |-> new.vessel]
            \in capacityOps \cup {new}
    BY <2>1
  <2> HIDE DEF new
  <2> QED
    BY <2>2, <2>3 DEF Ordered
<1>2. \A op1, op2 \in capacityOps' :
          op1.reservation = op2.reservation => op1.vessel = op2.vessel
  BY DEF Insert, Ordered
<1>3. ASSUME NEW v \in Vessels, NEW other \in Operations PROVE IsFiniteSet(OnVessel(v, other)')
  <2>1. IsFiniteSet(OnVessel(v, other))
    BY DEF Ordered
  <2>2. IsFiniteSet(OnVessel(v, other) \cup {r})
    BY <2>1, FS_AddElement
  <2> QED
    BY <2>1, <2>2, InsertOnVessel
<1> QED
  BY <1>1, <1>2, <1>3 DEF Ordered

LEMMA OperationsOrdered == Spec => []Ordered
<1>1. Init => Ordered
  <2>1. ASSUME Init, NEW v \in Vessels, NEW operation \in Operations
        PROVE  OnVessel(v, operation) = {}
    BY <2>1 DEF Init, OnVessel
  <2> QED
    BY <2>1, FS_EmptySet DEF Init, Ordered
<1>2. TypeOK /\ Ordered /\ [Next]_vesselVars => Ordered'
  <2> SUFFICES ASSUME TypeOK, Ordered, [Next]_vesselVars PROVE Ordered'
    OBVIOUS
  <2>1. ASSUME UNCHANGED capacityOps PROVE Ordered'
    BY <2>1 DEF Ordered, OnVessel
  <2>2. ASSUME NEW r \in Reservations, NEW v \in fleet, ReserveCapacity(r, v) PROVE Ordered'
    <3>1. v \in Vessels /\ Insert(r, "reserve", v) /\ ~ Recorded(r, "reserve")
      BY <2>2 DEF TypeOK, ReserveCapacity
    <3>2. \A op \in capacityOps : op.reservation # r
      BY <3>1 DEF Ordered, Recorded
    <3> QED
      BY <3>1, <3>2, OrderedInsert DEF Operations
  <2>3. ASSUME NEW r \in Reservations, ReleaseCapacity(r) \/ ConfirmCapacity(r) PROVE Ordered'
    <3>1. Recorded(r, "reserve")
      BY <2>3 DEF ReleaseCapacity, ConfirmCapacity
    <3>2. Insert(r, "release", VesselOf(r)) \/ Insert(r, "confirm", VesselOf(r))
      BY <2>3 DEF ReleaseCapacity, ConfirmCapacity
    <3>3. "release" \in Operations /\ "confirm" \in Operations
      BY DEF Operations
    <3> QED
      BY <3>1, <3>2, <3>3, VesselOfRecorded, OrderedInsert
  <2> QED
    BY <2>1, <2>2, <2>3 DEF Next, Create, vesselVars
<1> QED
  BY <1>1, <1>2, BooksTyped, PTL DEF Spec

\* What is new on a vessel adds its demand to the sum.
LEMMA InsertSums ==
    ASSUME TypeOK, Ordered, NEW r \in Reservations, NEW operation \in Operations,
           NEW w \in Vessels, Insert(r, operation, w), ~ Recorded(r, operation),
           NEW v \in Vessels, NEW other \in Operations, NEW d \in Dims
    PROVE  /\ DemandOf(OnVessel(v, other), d) \in Nat
           /\ DemandOf(OnVessel(v, other)', d) =
                 IF v = w /\ other = operation
                 THEN DemandOf(OnVessel(v, other), d) + Demand[r][d]
                 ELSE DemandOf(OnVessel(v, other), d)
<1>1. OnVessel(v, other) \subseteq Reservations /\ IsFiniteSet(OnVessel(v, other))
  BY DEF OnVessel, Ordered
<1>2. v = w /\ other = operation => r \notin OnVessel(v, other)
  BY DEF OnVessel, Recorded
<1>3. DemandOf(OnVessel(v, other), d) \in Nat
  BY <1>1, DemandOfIsNat
<1>4. CASE v = w /\ other = operation
  <2>1. OnVessel(v, other)' = OnVessel(v, other) \cup {r}
    BY <1>4, InsertOnVessel
  <2> QED
    BY <1>1, <1>2, <1>3, <1>4, <2>1, DemandOfAdds
<1>5. CASE ~ (v = w /\ other = operation)
  BY <1>3, <1>5, InsertOnVessel
<1> QED
  BY <1>4, <1>5

\* The counters of every vessel are what the recorded operations add up to:
\* the transaction that records an operation is the one that updates them,
\* and the unique index keeps it from being applied twice.
THEOREM BooksMatchOperations == Spec => []CountersMatchOperations
<1>1. Init => CountersMatchOperations
  <2> SUFFICES ASSUME Init, NEW v \in Vessels, NEW d \in Dims
               PROVE  /\ used[v][d] = DemandOf(OnVessel(v, "confirm"), d)
                      /\ reserved[v][d] = DemandOf(OnVessel(v, "reserve"), d)
                                            - DemandOf(OnVessel(v, "release"), d)
                                            - DemandOf(OnVessel(v, "confirm"), d)
    BY DEF CountersMatchOperations
  <2>1. \A operation \in Operations : OnVessel(v, operation) = {}
    BY DEF Init, OnVessel
  <2>2. DemandOf({}, d) = 0
    BY FS_EmptySet, DemandOfUnfolds
  <2>3. used[v][d] = 0 /\ reserved[v][d] = 0
    BY DEF Init
  <2> QED
    BY <2>1, <2>2, <2>3 DEF Operations
<1>2. TypeOK /\ Ordered /\ CountersMatchOperations /\ [Next]_vesselVars
        => CountersMatchOperations'
  <2> SUFFICES ASSUME TypeOK, Ordered, CountersMatchOperations, [Next]_vesselVars,
                      NEW v \in Vessels, NEW d \in Dims
               PROVE  /\ used'[v][d] = DemandOf(OnVessel(v, "confirm")', d)
                      /\ reserved'[v][d] = DemandOf(OnVessel(v, "reserve")', d)
                                             - DemandOf(OnVessel(v, "release")', d)
                                             - DemandOf(OnVessel(v, "confirm")', d)
    BY DEF CountersMatchOperations
  <2>0. /\ used[v][d] = DemandOf(OnVessel(v, "confirm"), d)
        /\ reserved[v][d] = DemandOf(OnVessel(v, "reserve"), d)
                              - DemandOf(OnVessel(v, "release"), d)
                              - DemandOf(OnVessel(v, "confirm"), d)
        /\ \A r \in Reservations : Demand[r][d] \in Nat
        /\ reserved[v][d] \in Int /\ used[v][d] \in Int
        /\ {"reserve", "release", "confirm"} \subseteq Operations
    BY DemandAssumption DEF CountersMatchOperations, TypeOK, Balances, Quantities, Operations
  <2>1. ASSUME UNCHANGED <<reserved, used, capacityOps>>
        PROVE  /\ used'[v][d] = DemandOf(OnVessel(v, "confirm")', d)
               /\ reserved'[v][d] = DemandOf(OnVessel(v, "reserve")', d)
                                      - DemandOf(OnVessel(v, "release")', d)
                                      - DemandOf(OnVessel(v, "confirm")', d)
    <3>1. \A operation : OnVessel(v, operation)' = OnVessel(v, operation)
      BY <2>1 DEF OnVessel
    <3> QED
      BY <2>0, <2>1, <3>1
  <2>2. ASSUME NEW r \in Reservations, NEW w \in fleet, ReserveCapacity(r, w)
        PROVE  /\ used'[v][d] = DemandOf(OnVessel(v, "confirm")', d)
               /\ reserved'[v][d] = DemandOf(OnVessel(v, "reserve")', d)
                                      - DemandOf(OnVessel(v, "release")', d)
                                      - DemandOf(OnVessel(v, "confirm")', d)
    <3>1. /\ w \in Vessels /\ Insert(r, "reserve", w) /\ ~ Recorded(r, "reserve")
      BY <2>2 DEF ReserveCapacity, TypeOK
    <3>2. /\ used'[v][d] = used[v][d]
          /\ reserved'[v][d] = IF v = w THEN reserved[v][d] + Demand[r][d] ELSE reserved[v][d]
      BY <2>2 DEF ReserveCapacity, Increase, TypeOK, Balances
    <3> QED
      BY <2>0, <3>1, <3>2, InsertSums
  <2>3. ASSUME NEW r \in Reservations, ReleaseCapacity(r)
        PROVE  /\ used'[v][d] = DemandOf(OnVessel(v, "confirm")', d)
               /\ reserved'[v][d] = DemandOf(OnVessel(v, "reserve")', d)
                                      - DemandOf(OnVessel(v, "release")', d)
                                      - DemandOf(OnVessel(v, "confirm")', d)
    <3> DEFINE w == VesselOf(r)
    <3>1. w \in Vessels /\ Insert(r, "release", w) /\ ~ Recorded(r, "release")
      BY <2>3, VesselOfRecorded DEF ReleaseCapacity
    <3>2. /\ used'[v][d] = used[v][d]
          /\ reserved'[v][d] = IF v = w THEN reserved[v][d] - Demand[r][d] ELSE reserved[v][d]
      BY <2>3 DEF ReleaseCapacity, Decrease, TypeOK, Balances
    <3> HIDE DEF w
    <3> QED
      BY <2>0, <3>1, <3>2, InsertSums
  <2>4. ASSUME NEW r \in Reservations, ConfirmCapacity(r)
        PROVE  /\ used'[v][d] = DemandOf(OnVessel(v, "confirm")', d)
               /\ reserved'[v][d] = DemandOf(OnVessel(v, "reserve")', d)
                                      - DemandOf(OnVessel(v, "release")', d)
                                      - DemandOf(OnVessel(v, "confirm")', d)
    <3> DEFINE w == VesselOf(r)
    <3>1. w \in Vessels /\ Insert(r, "confirm", w) /\ ~ Recorded(r, "confirm")
      BY <2>4, VesselOfRecorded DEF ConfirmCapacity
    <3>2. /\ used'[v][d] = IF v = w THEN used[v][d] + Demand[r][d] ELSE used[v][d]
          /\ reserved'[v][d] = IF v = w THEN reserved[v][d] - Demand[r][d] ELSE reserved[v][d]
      BY <2>4 DEF ConfirmCapacity, Increase, Decrease, TypeOK, Balances
    <3> HIDE DEF w
    <3> QED
      BY <2>0, <3>1, <3>2, InsertSums
  <2> QED
    BY <2>1, <2>2, <2>3, <2>4 DEF Next, Create, vesselVars
<1> QED
  BY <1>1, <1>2, BooksTyped, OperationsOrdered, PTL DEF Spec

\* No vessel carries more than its limits unless some reservation was both
\* confirmed and released: what is booked on it is then what was reserved and
\* not given back, which is what its counters hold.
THEOREM BooksNeverOverbooked == Spec => []NeverOverbooked
<1>1. TypeOK /\ Ordered /\ CountersMatchOperations /\ WithinLimits => NeverOverbooked
  <2> SUFFICES ASSUME TypeOK, Ordered, CountersMatchOperations, WithinLimits, Exclusive,
                      NEW v \in Vessels, NEW d \in Dims
               PROVE  DemandOf(Booked(v), d) <= Limit[v][d]
    BY DEF NeverOverbooked
  <2> DEFINE Reserved == OnVessel(v, "reserve")
             Released == OnVessel(v, "release")
             Confirmed == OnVessel(v, "confirm")
  <2>1. Released \subseteq Reserved /\ Confirmed \subseteq Reserved
    BY DEF Ordered, OnVessel
  <2>2. Released \cap Confirmed = {}
    BY DEF Exclusive, OnVessel, Recorded
  <2>3. Booked(v) = Reserved \ Released
    BY <2>1, <2>2 DEF Booked
  <2>4. /\ Reserved \subseteq Reservations
        /\ IsFiniteSet(Reserved) /\ IsFiniteSet(Released) /\ IsFiniteSet(Confirmed)
    BY DEF OnVessel, Ordered, Operations
  <2>5. /\ used[v][d] = DemandOf(Confirmed, d)
        /\ reserved[v][d] = DemandOf(Reserved, d) - DemandOf(Released, d) - DemandOf(Confirmed, d)
        /\ reserved[v][d] + used[v][d] <= Limit[v][d]
    BY DEF CountersMatchOperations, WithinLimits
  <2> HIDE DEF Reserved, Released, Confirmed
  <2>6. DemandOf(Reserved, d) = DemandOf(Released, d) + DemandOf(Reserved \ Released, d)
    BY <2>1, <2>4, DemandOfSplits
  <2>7. /\ DemandOf(Reserved, d) \in Nat /\ DemandOf(Released, d) \in Nat
        /\ DemandOf(Confirmed, d) \in Nat /\ DemandOf(Reserved \ Released, d) \in Nat
    <3>1. Reserved \ Released \subseteq Reservations /\ IsFiniteSet(Reserved \ Released)
      BY <2>4, FS_Difference
    <3> QED
      BY <2>1, <2>4, <3>1, DemandOfIsNat
  <2>8. Limit[v][d] \in Nat
    BY LimitAssumption DEF Quantities
  <2> QED
    BY <2>3, <2>5, <2>6, <2>7, <2>8
<1> QED
  BY <1>1, BooksTyped, OperationsOrdered, BooksMatchOperations, BooksWithinLimits, PTL
=============================================================================
