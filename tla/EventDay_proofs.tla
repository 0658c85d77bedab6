---------------------------- MODULE EventDay_proofs ----------------------------
(***************************************************************************)
(* Components around who gets into an event and what comes of it, each for *)
(* all values of its constants.  Every section has the inductive invariant *)
(* of its component, the lemmas about its steps and the theorems that      *)
(* follow.                                                                 *)
(***************************************************************************)
EXTENDS Integers, Sequences, FiniteSets, FiniteSetTheorems, WellFoundedInduction, TLAPS

\* Parameters of the components; a component has those that its module names.
CONSTANTS
    Regs,
    Dates, Birthdays, NoDate, Limits, NoLimit, Documents, Sizes, NoTeam, Values, Missing, Empty,
    RuleSets, Forms, Payloads, Keys, Sessions,
    Zones, NoZone, Policies, NoPolicy, Contents, LastDay, Ends,
    Tickets, OfReg, Refunds, Fee, Parts, Capacity, MaxScans,
    Entries, Fixtures, StageType, Threshold, Scores

VARIABLES
    seat, peak,
    start, rules, form, entry, sess,
    tk, policy, zone, pay, reg, visits, end, today,
    refund, ticket, scans, report,
    comp, stages, match

Ledger == INSTANCE SeatLedger
Entrants == INSTANCE EventEligibility
Gates == INSTANCE GateVerdict
Sheets == INSTANCE EventReports
Contests == INSTANCE Competition

-----------------------------------------------------------------------------
(* What is promised of the seats of an event: SeatLedger.                  *)

NeverOverbooked == Cardinality(Ledger!Held) <= peak
LedgerInv == Ledger!LedgerTypeOK /\ NeverOverbooked

\* The first state promises no seat.
LEMMA InitLedger == ASSUME IsFiniteSet(Regs) PROVE Ledger!Init => LedgerInv
<1> SUFFICES ASSUME Ledger!Init PROVE LedgerInv OBVIOUS
<1>1. Ledger!LedgerTypeOK BY DEF Ledger!Init, Ledger!LedgerTypeOK
<1>2. Ledger!Held = {} BY DEF Ledger!Init, Ledger!Held
<1>3. Cardinality(Ledger!Held) = 0 BY <1>2, FS_EmptySet
<1> QED BY <1>1, <1>3 DEF LedgerInv, NeverOverbooked, Ledger!LedgerTypeOK

\* A seat is added only below the largest capacity, and the others only go.
LEMMA LedgerStep ==
    ASSUME IsFiniteSet(Regs), LedgerInv, [Ledger!Next]_(Ledger!ledger)
    PROVE  LedgerInv'
<1> USE DEF LedgerInv
<1>0. Ledger!Cardinality(Ledger!Held) = Cardinality(Ledger!Held) BY DEF Ledger!Cardinality, Cardinality
<1>1. CASE Ledger!Offer
  <2>1. Ledger!Held' = Ledger!Held BY <1>1 DEF Ledger!Offer, Ledger!Held
  <2>2. Cardinality(Ledger!Held) \in Nat BY FS_Subset, FS_CardinalityType DEF Ledger!Held
  <2>3. Cardinality(Ledger!Held)' = Cardinality(Ledger!Held) BY <2>1
  <2> QED BY <1>1, <2>2, <2>3 DEF Ledger!Offer, Ledger!LedgerTypeOK, NeverOverbooked
<1>2. ASSUME NEW r \in Regs, Ledger!Take(r) PROVE LedgerInv'
  <2>1. Ledger!LedgerTypeOK' BY <1>2 DEF Ledger!Take, Ledger!LedgerTypeOK
  <2>2. Ledger!Held' = Ledger!Held \cup {r} /\ r \notin Ledger!Held
    BY <1>2 DEF Ledger!Take, Ledger!Held, Ledger!LedgerTypeOK
  <2>3. IsFiniteSet(Ledger!Held) BY FS_Subset DEF Ledger!Held
  <2>4. Cardinality(Ledger!Held') = Cardinality(Ledger!Held) + 1 BY <2>2, <2>3, FS_AddElement
  <2>5. Cardinality(Ledger!Held) \in Nat BY <2>3, FS_CardinalityType
  <2>6. Cardinality(Ledger!Held) < peak /\ peak' = peak BY <1>0, <1>2 DEF Ledger!Take
  <2> QED BY <2>1, <2>4, <2>5, <2>6 DEF NeverOverbooked, Ledger!LedgerTypeOK
<1>3. ASSUME NEW r \in Regs, Ledger!GiveUp(r) PROVE LedgerInv'
  <2>1. Ledger!LedgerTypeOK' BY <1>3 DEF Ledger!GiveUp, Ledger!LedgerTypeOK
  <2>2. Ledger!Held' \subseteq Ledger!Held BY <1>3 DEF Ledger!GiveUp, Ledger!Held, Ledger!LedgerTypeOK
  <2>3. IsFiniteSet(Ledger!Held) BY FS_Subset DEF Ledger!Held
  <2>4. Cardinality(Ledger!Held') <= Cardinality(Ledger!Held) BY <2>2, <2>3, FS_Subset
  <2>5. Cardinality(Ledger!Held) \in Nat /\ Cardinality(Ledger!Held') \in Nat
    BY <2>2, <2>3, FS_Subset, FS_CardinalityType
  <2> QED BY <2>1, <2>4, <2>5, <1>3 DEF Ledger!GiveUp, NeverOverbooked, Ledger!LedgerTypeOK
<1>4. CASE UNCHANGED Ledger!ledger
  BY <1>4 DEF Ledger!ledger, Ledger!LedgerTypeOK, NeverOverbooked, Ledger!Held
<1> QED BY <1>1, <1>2, <1>3, <1>4 DEF Ledger!Next

\* The seats held are never more than the event has ever offered.
THEOREM NothingOverbooked == ASSUME IsFiniteSet(Regs) PROVE Ledger!Spec => []NeverOverbooked
<1>1. Ledger!Init => LedgerInv BY InitLedger
<1>2. LedgerInv /\ [Ledger!Next]_(Ledger!ledger) => LedgerInv' BY LedgerStep
<1>3. LedgerInv => NeverOverbooked BY DEF LedgerInv
<1> QED BY <1>1, <1>2, <1>3, PTL DEF Ledger!Spec

-----------------------------------------------------------------------------
(* Sums over finite sets.                                                  *)

\* Among numbers there is a smallest.
LEMMA FirstNumber ==
    ASSUME NEW numbers \in SUBSET Nat, numbers # {}
    PROVE  \E i \in numbers : \A j \in numbers : i <= j
<1>1. IsWellFoundedOn(OpToRel(<, Nat), Nat) BY NatLessThanWellFounded
<1>2. PICK i \in numbers : \A j \in numbers : ~(<<j, i>> \in OpToRel(<, Nat)) BY <1>1, WFMin
<1>3. \A j \in numbers : ~(j < i) BY <1>2 DEF OpToRel
<1>4. i \in Nat /\ \A j \in numbers : j \in Nat OBVIOUS
<1>5. \A j \in numbers : i <= j BY <1>3, <1>4
<1> QED BY <1>5

\* Among subsets of a finite set there is one of which no proper subset is among them.
LEMMA SmallestSubset ==
    ASSUME NEW S, IsFiniteSet(S), NEW T \in SUBSET (SUBSET S), T # {}
    PROVE  \E t \in T : \A u \in SUBSET t : u # t => u \notin T
<1> DEFINE sizes == {Cardinality(t) : t \in T}
<1>1. \A t \in T : IsFiniteSet(t) /\ Cardinality(t) \in Nat BY FS_Subset, FS_CardinalityType
<1>2. sizes \in SUBSET Nat /\ sizes # {} BY <1>1
<1>3. PICK n \in sizes : \A m \in sizes : n <= m BY <1>2, FirstNumber
<1>4. PICK t \in T : Cardinality(t) = n BY <1>3
<1>5. ASSUME NEW u \in SUBSET t, u # t, u \in T PROVE FALSE
  <2>1. Cardinality(u) < Cardinality(t) BY <1>1, <1>5, FS_Subset
  <2>2. Cardinality(t) <= Cardinality(u) BY <1>3, <1>4, <1>5
  <2> QED BY <1>1, <1>5, <2>1, <2>2
<1> QED BY <1>5

\* The fold of the community modules as a function of the subsets, and its value.
Picked(s) == CHOOSE x \in s : TRUE
Folds(g, S, iter) ==
    iter = [s \in SUBSET S |-> IF s = {} THEN 0 ELSE g[Picked(s)] + iter[s \ {Picked(s)}]]
SumOf(g, S) == (CHOOSE iter : Folds(g, S, iter))[S]

LEMMA ChosenIn == ASSUME NEW s, s # {} PROVE Picked(s) \in s
BY DEF Picked

LEMMA FoldsAt ==
    ASSUME NEW g, NEW S, NEW iter, Folds(g, S, iter), NEW s \in SUBSET S
    PROVE  /\ s = {} => iter[s] = 0
           /\ s # {} => iter[s] = g[Picked(s)] + iter[s \ {Picked(s)}]
<1>1. iter = [t \in SUBSET S |-> IF t = {} THEN 0 ELSE g[Picked(t)] + iter[t \ {Picked(t)}]] BY DEF Folds
<1> DEFINE F(t) == IF t = {} THEN 0 ELSE g[Picked(t)] + iter[t \ {Picked(t)}]
<1>2. iter = [t \in SUBSET S |-> F(t)] BY <1>1
<1> HIDE DEF F
<1>3. iter[s] = F(s) BY <1>2
<1> QED BY <1>3 DEF F

\* Two folds agree where both are defined.
LEMMA FoldsAgree ==
    ASSUME NEW g, NEW S, NEW f, Folds(g, S, f), NEW U, NEW h, Folds(g, U, h), NEW s, s \in SUBSET S, s \in SUBSET U,
           IsFiniteSet(s)
    PROVE  f[s] = h[s]
<1> DEFINE T == {t \in SUBSET s : f[t] # h[t]}
<1> SUFFICES ASSUME f[s] # h[s] PROVE FALSE OBVIOUS
<1>1. T \in SUBSET (SUBSET s) /\ T # {} OBVIOUS
<1>2. PICK t \in T : \A u \in SUBSET t : u # t => u \notin T
  <2> HIDE DEF T
  <2> QED BY <1>1, SmallestSubset
<1>3. t \in SUBSET S /\ t \in SUBSET U /\ f[t] # h[t] OBVIOUS
<1> HIDE DEF T
<1>4. t # {}
  <2>1. t = {} => f[t] = 0
    <3>1. Folds(g, S, f) /\ t \in SUBSET S BY <1>3
    <3> QED BY <3>1, FoldsAt, Zenon
  <2>2. t = {} => h[t] = 0
    <3>1. Folds(g, U, h) /\ t \in SUBSET U BY <1>3
    <3> QED BY <3>1, FoldsAt, Zenon
  <2> QED BY <1>3, <2>1, <2>2
<1>5. PICK x \in t : x = Picked(t) BY <1>4, ChosenIn
<1>6. f[t] = g[x] + f[t \ {x}] /\ h[t] = g[x] + h[t \ {x}]
  <2>1. f[t] = g[Picked(t)] + f[t \ {Picked(t)}]
    <3>1. Folds(g, S, f) /\ t \in SUBSET S BY <1>3
    <3> QED BY <1>4, <3>1, FoldsAt
  <2>2. h[t] = g[Picked(t)] + h[t \ {Picked(t)}]
    <3>1. Folds(g, U, h) /\ t \in SUBSET U BY <1>3
    <3> QED BY <1>4, <3>1, FoldsAt
  <2> QED BY <1>5, <2>1, <2>2
<1>7. t \ {x} \in SUBSET t /\ t \ {x} # t BY <1>5
<1>8. f[t \ {x}] = h[t \ {x}] BY <1>2, <1>7 DEF T
<1> QED BY <1>3, <1>6, <1>8

\* Every finite set has its fold.
LEMMA FoldExists ==
    ASSUME NEW g, NEW S, IsFiniteSet(S)
    PROVE  \E iter : Folds(g, S, iter)
<1> DEFINE T == {t \in SUBSET S : ~\E iter : Folds(g, t, iter)}
<1> SUFFICES ASSUME ~\E iter : Folds(g, S, iter) PROVE FALSE OBVIOUS
<1>1. T \in SUBSET (SUBSET S) /\ T # {} OBVIOUS
<1>2. PICK t \in T : \A u \in SUBSET t : u # t => u \notin T
  <2> HIDE DEF T
  <2> QED BY <1>1, SmallestSubset
<1>3. \A u \in SUBSET t : u # t => \E iter : Folds(g, u, iter) BY <1>2
<1>4. \A u \in SUBSET t : u # t => Folds(g, u, CHOOSE iter : Folds(g, u, iter)) BY <1>3
<1> DEFINE F(s) == IF s = {} THEN 0 ELSE g[Picked(s)] + SumOf(g, s \ {Picked(s)})
           h == [s \in SUBSET t |-> F(s)]
<1>5. ASSUME NEW u \in SUBSET t, u # t PROVE SumOf(g, u) = F(u)
  <2>1. PICK f : f = (CHOOSE iter : Folds(g, u, iter)) OBVIOUS
  <2>2. Folds(g, u, f) /\ SumOf(g, u) = f[u] BY <1>4, <1>5, <2>1 DEF SumOf
  <2>3. CASE u = {} BY <2>2, <2>3, FoldsAt
  <2>4. CASE u # {}
    <3>1. PICK x \in u : x = Picked(u) BY <2>4, ChosenIn
    <3>2. f[u] = g[x] + f[u \ {x}] BY <2>2, <2>4, <3>1, FoldsAt
    <3>3. u \ {x} \in SUBSET t /\ u \ {x} # t /\ u \ {x} \in SUBSET u BY <1>5, <3>1
    <3>4. PICK k : k = (CHOOSE iter : Folds(g, u \ {x}, iter)) OBVIOUS
    <3>5. Folds(g, u \ {x}, k) /\ SumOf(g, u \ {x}) = k[u \ {x}] BY <1>4, <3>3, <3>4 DEF SumOf
    <3>6. IsFiniteSet(u \ {x}) BY <3>3, FS_Subset
    <3>7. f[u \ {x}] = k[u \ {x}] BY <2>2, <3>3, <3>5, <3>6, FoldsAgree
    <3> QED BY <2>2, <2>4, <3>1, <3>2, <3>5, <3>7
  <2> QED BY <2>3, <2>4
<1>6. ASSUME NEW s \in SUBSET t
      PROVE  F(s) = IF s = {} THEN 0 ELSE g[Picked(s)] + h[s \ {Picked(s)}]
  <2>1. CASE s = {} BY <2>1
  <2>2. CASE s # {}
    <3>1. PICK x \in s : x = Picked(s) BY <2>2, ChosenIn
    <3>2. s \ {x} \in SUBSET t /\ s \ {x} # t BY <3>1
    <3>3. h[s \ {x}] = F(s \ {x}) BY <3>2
    <3>4. SumOf(g, s \ {x}) = F(s \ {x}) BY <1>5, <3>2
    <3> HIDE DEF h
    <3> QED BY <2>2, <3>1, <3>3, <3>4
  <2> QED BY <2>1, <2>2
<1>7. h = [s \in SUBSET t |-> IF s = {} THEN 0 ELSE g[Picked(s)] + h[s \ {Picked(s)}]]
  <2> DEFINE G(s) == IF s = {} THEN 0 ELSE g[Picked(s)] + h[s \ {Picked(s)}]
  <2>1. \A s \in SUBSET t : F(s) = G(s) BY <1>6
  <2> SUFFICES [s \in SUBSET t |-> F(s)] = [s \in SUBSET t |-> G(s)] OBVIOUS
  <2> HIDE DEF F, G
  <2> QED BY <2>1
<1>8. Folds(g, t, h) BY <1>7 DEF Folds
<1> QED BY <1>2, <1>8

\* What is summed: nothing, one more, and values that agree.
LEMMA SumOfNothing == ASSUME NEW g PROVE SumOf(g, {}) = 0
<1>1. PICK f : f = (CHOOSE iter : Folds(g, {}, iter)) OBVIOUS
<1>2. Folds(g, {}, f) BY <1>1, FoldExists, FS_EmptySet
<1> QED BY <1>1, <1>2, FoldsAt DEF SumOf

LEMMA SumOfChosen ==
    ASSUME NEW g, NEW S, IsFiniteSet(S), S # {}
    PROVE  SumOf(g, S) = g[Picked(S)] + SumOf(g, S \ {Picked(S)})
<1>1. PICK x \in S : x = Picked(S) BY ChosenIn
<1>2. PICK f : f = (CHOOSE iter : Folds(g, S, iter)) OBVIOUS
<1>3. Folds(g, S, f) /\ SumOf(g, S) = f[S] BY <1>2, FoldExists DEF SumOf
<1>4. PICK k : k = (CHOOSE iter : Folds(g, S \ {x}, iter)) OBVIOUS
<1>5. S \ {x} \in SUBSET S /\ IsFiniteSet(S \ {x}) BY FS_Subset
<1>6. Folds(g, S \ {x}, k) /\ SumOf(g, S \ {x}) = k[S \ {x}] BY <1>4, <1>5, FoldExists DEF SumOf
<1>7. f[S] = g[x] + f[S \ {x}] BY <1>1, <1>3, FoldsAt
<1>8. f[S \ {x}] = k[S \ {x}] BY <1>3, <1>5, <1>6, FoldsAgree
<1> QED BY <1>1, <1>3, <1>6, <1>7, <1>8

LEMMA SumOfInt ==
    ASSUME NEW g, NEW S, IsFiniteSet(S), \A x \in S : g[x] \in Int
    PROVE  SumOf(g, S) \in Int
<1> DEFINE T == {t \in SUBSET S : SumOf(g, t) \notin Int}
<1> SUFFICES ASSUME SumOf(g, S) \notin Int PROVE FALSE OBVIOUS
<1>1. T \in SUBSET (SUBSET S) /\ T # {} OBVIOUS
<1>2. PICK t \in T : \A u \in SUBSET t : u # t => u \notin T
  <2> HIDE DEF T
  <2> QED BY <1>1, SmallestSubset
<1>3. t # {} BY SumOfNothing
<1>4. IsFiniteSet(t) BY FS_Subset
<1>5. PICK x \in t : x = Picked(t) BY <1>3, ChosenIn
<1>6. SumOf(g, t) = g[x] + SumOf(g, t \ {x}) BY <1>3, <1>4, <1>5, SumOfChosen
<1>7. t \ {x} \in SUBSET t /\ t \ {x} # t BY <1>5
<1>8. SumOf(g, t \ {x}) \in Int BY <1>2, <1>7
<1>9. g[x] \in Int BY <1>5
<1> QED BY <1>2, <1>6, <1>8, <1>9

\* Whichever element is taken out first.
LEMMA SumOfOneMore ==
    ASSUME NEW g, NEW S, IsFiniteSet(S), \A x \in S : g[x] \in Int, NEW e \in S
    PROVE  SumOf(g, S) = g[e] + SumOf(g, S \ {e})
<1> DEFINE T == {t \in SUBSET S : \E d \in t : SumOf(g, t) # g[d] + SumOf(g, t \ {d})}
<1> SUFFICES ASSUME SumOf(g, S) # g[e] + SumOf(g, S \ {e}) PROVE FALSE OBVIOUS
<1>1. T \in SUBSET (SUBSET S) /\ T # {} OBVIOUS
<1>2. PICK t \in T : \A u \in SUBSET t : u # t => u \notin T
  <2> HIDE DEF T
  <2> QED BY <1>1, SmallestSubset
<1>3. PICK d \in t : SumOf(g, t) # g[d] + SumOf(g, t \ {d}) OBVIOUS
<1>4. PICK x \in t : x = Picked(t) BY <1>3, ChosenIn
<1>5. t \in SUBSET S /\ IsFiniteSet(t) BY FS_Subset
<1>6. SumOf(g, t) = g[x] + SumOf(g, t \ {x}) BY <1>3, <1>4, <1>5, SumOfChosen
<1>7. x # d BY <1>3, <1>6
<1>8. ASSUME NEW y \in t, NEW z \in t, y # z
      PROVE  SumOf(g, t \ {y}) = g[z] + SumOf(g, (t \ {y}) \ {z})
  <2>1. t \ {y} \in SUBSET t /\ t \ {y} # t /\ z \in t \ {y} /\ t \ {y} \in SUBSET S BY <1>5, <1>8
  <2> QED BY <1>2, <2>1
<1>9. SumOf(g, t \ {x}) = g[d] + SumOf(g, (t \ {x}) \ {d}) BY <1>7, <1>8
<1>10. SumOf(g, t \ {d}) = g[x] + SumOf(g, (t \ {d}) \ {x}) BY <1>7, <1>8
<1>11. PICK rest \in SUBSET S : rest = (t \ {x}) \ {d} /\ rest = (t \ {d}) \ {x} BY <1>5
<1>12. IsFiniteSet(rest) BY FS_Subset
<1>13. SumOf(g, rest) \in Int BY <1>12, SumOfInt
<1>14. g[x] \in Int /\ g[d] \in Int BY <1>5
<1>15. SumOf(g, t) = g[x] + (g[d] + SumOf(g, rest)) BY <1>6, <1>9, <1>11
<1>16. SumOf(g, t \ {d}) = g[x] + SumOf(g, rest) BY <1>10, <1>11
<1>17. g[x] + (g[d] + SumOf(g, rest)) = g[d] + (g[x] + SumOf(g, rest)) BY <1>13, <1>14
<1> QED BY <1>3, <1>15, <1>16, <1>17

\* Values that agree have one sum.
LEMMA SumOfSame ==
    ASSUME NEW g, NEW h, NEW S, IsFiniteSet(S), \A x \in S : g[x] = h[x]
    PROVE  SumOf(g, S) = SumOf(h, S)
<1> DEFINE T == {t \in SUBSET S : SumOf(g, t) # SumOf(h, t)}
<1> SUFFICES ASSUME SumOf(g, S) # SumOf(h, S) PROVE FALSE OBVIOUS
<1>1. T \in SUBSET (SUBSET S) /\ T # {} OBVIOUS
<1>2. PICK t \in T : \A u \in SUBSET t : u # t => u \notin T
  <2> HIDE DEF T
  <2> QED BY <1>1, SmallestSubset
<1>3. t # {} BY SumOfNothing
<1>4. IsFiniteSet(t) BY FS_Subset
<1>5. PICK x \in t : x = Picked(t) BY <1>3, ChosenIn
<1>6. SumOf(g, t) = g[x] + SumOf(g, t \ {x}) /\ SumOf(h, t) = h[x] + SumOf(h, t \ {x})
  BY <1>3, <1>4, <1>5, SumOfChosen
<1>7. t \ {x} \in SUBSET t /\ t \ {x} # t BY <1>5
<1>8. SumOf(g, t \ {x}) = SumOf(h, t \ {x}) BY <1>2, <1>7
<1> QED BY <1>6, <1>8

LEMMA SumOfNat ==
    ASSUME NEW g, NEW S, IsFiniteSet(S), \A x \in S : g[x] \in Nat
    PROVE  SumOf(g, S) \in Nat
<1> DEFINE T == {t \in SUBSET S : SumOf(g, t) \notin Nat}
<1> SUFFICES ASSUME SumOf(g, S) \notin Nat PROVE FALSE OBVIOUS
<1>1. T \in SUBSET (SUBSET S) /\ T # {} OBVIOUS
<1>2. PICK t \in T : \A u \in SUBSET t : u # t => u \notin T
  <2> HIDE DEF T
  <2> QED BY <1>1, SmallestSubset
<1>3. t # {} BY SumOfNothing
<1>4. IsFiniteSet(t) BY FS_Subset
<1>5. PICK x \in t : x = Picked(t) BY <1>3, ChosenIn
<1>6. SumOf(g, t) = g[x] + SumOf(g, t \ {x}) BY <1>3, <1>4, <1>5, SumOfChosen
<1>7. t \ {x} \in SUBSET t /\ t \ {x} # t BY <1>5
<1>8. SumOf(g, t \ {x}) \in Nat /\ g[x] \in Nat BY <1>2, <1>7
<1> QED BY <1>2, <1>6, <1>8

\* Two separate parts, and a part of what is not negative.
LEMMA SumOfApart ==
    ASSUME NEW g, NEW S, NEW P, IsFiniteSet(S), IsFiniteSet(P), S \cap P = {}, \A x \in S \cup P : g[x] \in Int
    PROVE  SumOf(g, S \cup P) = SumOf(g, S) + SumOf(g, P)
<1> DEFINE T == {t \in SUBSET P : SumOf(g, S \cup t) # SumOf(g, S) + SumOf(g, t)}
<1> SUFFICES ASSUME SumOf(g, S \cup P) # SumOf(g, S) + SumOf(g, P) PROVE FALSE OBVIOUS
<1>1. T \in SUBSET (SUBSET P) /\ T # {} OBVIOUS
<1>2. PICK t \in T : \A u \in SUBSET t : u # t => u \notin T
  <2> HIDE DEF T
  <2> QED BY <1>1, SmallestSubset
<1>3. SumOf(g, S) \in Int BY SumOfInt
<1>4. t # {}
  <2> SUFFICES ASSUME t = {} PROVE FALSE OBVIOUS
  <2>1. S \cup t = S /\ SumOf(g, t) = 0 BY SumOfNothing
  <2> QED BY <1>3, <2>1
<1>5. IsFiniteSet(t) /\ \A x \in t : g[x] \in Int BY FS_Subset
<1>6. PICK e \in t : TRUE BY <1>4
<1>7. SumOf(g, t) = g[e] + SumOf(g, t \ {e}) BY <1>5, <1>6, SumOfOneMore
<1>8. IsFiniteSet(S \cup t) /\ \A x \in S \cup t : g[x] \in Int BY <1>5, FS_Union
<1>9. SumOf(g, S \cup t) = g[e] + SumOf(g, (S \cup t) \ {e}) BY <1>6, <1>8, SumOfOneMore
<1>10. (S \cup t) \ {e} = S \cup (t \ {e}) BY <1>6
<1>11. t \ {e} \in SUBSET t /\ t \ {e} # t /\ t \ {e} \in SUBSET P /\ IsFiniteSet(t \ {e}) BY <1>5, <1>6, FS_Subset
<1>12. SumOf(g, S \cup (t \ {e})) = SumOf(g, S) + SumOf(g, t \ {e}) BY <1>2, <1>11
<1>13. SumOf(g, t \ {e}) \in Int /\ g[e] \in Int BY <1>5, <1>6, <1>11, SumOfInt
<1> QED BY <1>2, <1>3, <1>7, <1>9, <1>10, <1>12, <1>13

LEMMA SumOfPart ==
    ASSUME NEW g, NEW S, IsFiniteSet(S), \A x \in S : g[x] \in Nat, NEW P \in SUBSET S
    PROVE  SumOf(g, P) <= SumOf(g, S)
<1>1. IsFiniteSet(P) /\ IsFiniteSet(S \ P) BY FS_Subset
<1>2. P \cup (S \ P) = S /\ P \cap (S \ P) = {} OBVIOUS
<1>3. \A x \in P \cup (S \ P) : g[x] \in Int OBVIOUS
<1>4. SumOf(g, P \cup (S \ P)) = SumOf(g, P) + SumOf(g, S \ P) BY <1>1, <1>2, <1>3, SumOfApart
<1>5. SumOf(g, P) \in Nat /\ SumOf(g, S \ P) \in Nat BY <1>1, SumOfNat
<1>6. SumOf(g, S) = SumOf(g, P) + SumOf(g, S \ P) BY <1>2, <1>4, Zenon
<1> QED BY <1>5, <1>6

\* The sum of the community modules.
LEMMA SumOfMapped ==
    ASSUME NEW g, NEW S, IsFiniteSet(S), NEW f,
           f = CHOOSE iter : iter = [s \in SUBSET S |->
                   IF s = {} THEN 0 ELSE g[CHOOSE x \in s : TRUE] + iter[s \ {CHOOSE x \in s : TRUE}]]
    PROVE  f[S] = SumOf(g, S)
BY DEF SumOf, Folds, Picked

\* A difference, what is grouped, and what is mirrored.
LEMMA SumOfMinus ==
    ASSUME NEW g, NEW h, NEW d, NEW S, IsFiniteSet(S),
           \A x \in S : g[x] \in Int /\ h[x] \in Int /\ d[x] = g[x] - h[x]
    PROVE  SumOf(d, S) = SumOf(g, S) - SumOf(h, S)
<1> DEFINE T == {t \in SUBSET S : SumOf(d, t) # SumOf(g, t) - SumOf(h, t)}
<1> SUFFICES ASSUME SumOf(d, S) # SumOf(g, S) - SumOf(h, S) PROVE FALSE OBVIOUS
<1>1. T \in SUBSET (SUBSET S) /\ T # {} OBVIOUS
<1>2. PICK t \in T : \A u \in SUBSET t : u # t => u \notin T
  <2> HIDE DEF T
  <2> QED BY <1>1, SmallestSubset
<1>3. t # {}
  <2> SUFFICES ASSUME t = {} PROVE FALSE OBVIOUS
  <2>1. SumOf(d, t) = 0 /\ SumOf(g, t) = 0 /\ SumOf(h, t) = 0 BY SumOfNothing
  <2> QED BY <2>1
<1>4. IsFiniteSet(t) BY FS_Subset
<1>5. PICK x \in t : x = Picked(t) BY <1>3, ChosenIn
<1>6. /\ SumOf(g, t) = g[x] + SumOf(g, t \ {x}) /\ SumOf(h, t) = h[x] + SumOf(h, t \ {x})
      /\ SumOf(d, t) = d[x] + SumOf(d, t \ {x})
  BY <1>3, <1>4, <1>5, SumOfChosen
<1>7. t \ {x} \in SUBSET t /\ t \ {x} # t /\ t \ {x} \in SUBSET S /\ IsFiniteSet(t \ {x}) BY <1>4, <1>5, FS_Subset
<1>8. SumOf(d, t \ {x}) = SumOf(g, t \ {x}) - SumOf(h, t \ {x}) BY <1>2, <1>7
<1>9. SumOf(g, t \ {x}) \in Int /\ SumOf(h, t \ {x}) \in Int BY <1>7, SumOfInt
<1>10. g[x] \in Int /\ h[x] \in Int /\ d[x] = g[x] - h[x] OBVIOUS
<1>11. SumOf(d, t) # SumOf(g, t) - SumOf(h, t) OBVIOUS
<1> HIDE DEF T
<1> QED BY <1>6, <1>8, <1>9, <1>10, <1>11

LEMMA SumOfGroups ==
    ASSUME NEW g, NEW P, IsFiniteSet(P), \A p \in P : g[p] \in Int, NEW E, IsFiniteSet(E), NEW key \in [P -> E],
           NEW m, \A e \in E : m[e] = SumOf(g, {p \in P : key[p] = e})
    PROVE  SumOf(m, E) = SumOf(g, P)
<1> DEFINE Of(D) == {p \in P : key[p] \in D}
           T == {D \in SUBSET E : SumOf(m, D) # SumOf(g, Of(D))}
<1>1. Of(E) = P OBVIOUS
<1> SUFFICES ASSUME SumOf(m, E) # SumOf(g, Of(E)) PROVE FALSE BY <1>1, Zenon
<1>2. T \in SUBSET (SUBSET E) /\ T # {} OBVIOUS
<1>3. PICK D \in T : \A u \in SUBSET D : u # D => u \notin T
  <2> HIDE DEF T
  <2> QED BY <1>2, SmallestSubset
<1>4. IsFiniteSet(D) BY FS_Subset
<1>5. \A e \in E : m[e] \in Int
  <2> TAKE e \in E
  <2>1. IsFiniteSet({p \in P : key[p] = e}) BY FS_Subset
  <2> QED BY <2>1, SumOfInt
<1>6. D # {}
  <2> SUFFICES ASSUME D = {} PROVE FALSE OBVIOUS
  <2>1. Of(D) = {} OBVIOUS
  <2>2. SumOf(m, D) = 0 /\ SumOf(g, Of(D)) = 0 BY <2>1, SumOfNothing
  <2> QED BY <2>2
<1>7. PICK e \in D : TRUE BY <1>6
<1>8. SumOf(m, D) = m[e] + SumOf(m, D \ {e}) BY <1>4, <1>5, <1>7, SumOfOneMore
<1>9. PICK X, Y : X = Of(D \ {e}) /\ Y = {p \in P : key[p] = e} OBVIOUS
<1>10. /\ IsFiniteSet(X) /\ IsFiniteSet(Y) /\ X \cap Y = {} /\ X \cup Y = Of(D)
       /\ \A p \in X \cup Y : g[p] \in Int
  <2>1. X \in SUBSET P /\ Y \in SUBSET P BY <1>9
  <2>2. IsFiniteSet(X) /\ IsFiniteSet(Y) BY <2>1, FS_Subset
  <2> QED BY <1>7, <1>9, <2>1, <2>2
<1>11. SumOf(g, X \cup Y) = SumOf(g, X) + SumOf(g, Y)
  <2> HIDE DEF T, Of
  <2> QED BY <1>10, SumOfApart
<1>12. D \ {e} \in SUBSET D /\ D \ {e} # D /\ D \ {e} \in SUBSET E BY <1>7
<1>13. SumOf(m, D \ {e}) = SumOf(g, Of(D \ {e})) BY <1>3, <1>12
<1>14. SumOf(m, D) # SumOf(g, Of(D)) /\ m[e] = SumOf(g, Y) BY <1>3, <1>7, <1>9
<1>15. SumOf(g, X) \in Int /\ SumOf(g, Y) \in Int BY <1>10, SumOfInt
<1> HIDE DEF T, Of
<1>16. SumOf(g, Of(D)) = SumOf(g, X) + SumOf(g, Y) BY <1>10, <1>11, Zenon
<1>17. SumOf(m, D) = SumOf(g, Y) + SumOf(g, X) BY <1>8, <1>9, <1>13, <1>14, Zenon
<1> QED BY <1>14, <1>15, <1>16, <1>17

LEMMA SumOfMirror ==
    ASSUME NEW g, NEW h, NEW S, IsFiniteSet(S), NEW other,
           \A x \in S : /\ other[x] \in S /\ other[other[x]] = x /\ other[x] # x
                        /\ g[x] \in Int /\ h[x] \in Int /\ g[x] = h[other[x]]
    PROVE  SumOf(g, S) = SumOf(h, S)
<1> DEFINE T == {t \in SUBSET S : (\A x \in t : other[x] \in t) /\ SumOf(g, t) # SumOf(h, t)}
<1> SUFFICES ASSUME SumOf(g, S) # SumOf(h, S) PROVE FALSE OBVIOUS
<1>1. T \in SUBSET (SUBSET S) /\ T # {} OBVIOUS
<1>2. PICK t \in T : \A u \in SUBSET t : u # t => u \notin T
  <2> HIDE DEF T
  <2> QED BY <1>1, SmallestSubset
<1>3. t # {} BY SumOfNothing
<1>4. IsFiniteSet(t) BY FS_Subset
<1>5. PICK x \in t : TRUE BY <1>3
<1>6. PICK y \in t : y = other[x] /\ x = other[y] /\ x # y BY <1>5
<1>7. PICK u : u = t \ {x} OBVIOUS
<1>8. PICK v : v = u \ {y} OBVIOUS
<1>9. IsFiniteSet(u) /\ y \in u /\ IsFiniteSet(v) BY <1>4, <1>6, <1>7, <1>8, FS_Subset
<1>10. \A z \in t : g[z] \in Int /\ h[z] \in Int OBVIOUS
<1>11. \A z \in u : g[z] \in Int /\ h[z] \in Int BY <1>7
<1>12. SumOf(g, t) = g[x] + SumOf(g, u) /\ SumOf(h, t) = h[x] + SumOf(h, u)
  <2> HIDE DEF T
  <2> QED BY <1>4, <1>5, <1>7, <1>10, SumOfOneMore
<1>13. SumOf(g, u) = g[y] + SumOf(g, v) /\ SumOf(h, u) = h[y] + SumOf(h, v)
  <2> HIDE DEF T
  <2> QED BY <1>8, <1>9, <1>11, SumOfOneMore
<1>14. v \in SUBSET t /\ v # t /\ v \in SUBSET S BY <1>5, <1>7, <1>8
<1>15. \A z \in v : other[z] \in v
  <2> TAKE z \in v
  <2>1. z \in t /\ z # x /\ z # y BY <1>7, <1>8
  <2>2. other[z] \in t /\ other[other[z]] = z BY <2>1
  <2>3. other[z] # x /\ other[z] # y BY <1>6, <2>1, <2>2
  <2> QED BY <1>7, <1>8, <2>2, <2>3
<1>16. SumOf(g, v) = SumOf(h, v) BY <1>2, <1>14, <1>15
<1>17. SumOf(g, v) \in Int /\ SumOf(h, v) \in Int BY <1>9, <1>10, <1>14, SumOfInt
<1>18. g[x] = h[y] /\ g[y] = h[x] /\ g[x] \in Int /\ g[y] \in Int BY <1>6
<1>19. SumOf(g, t) # SumOf(h, t) OBVIOUS
<1> HIDE DEF T
<1> QED BY <1>12, <1>13, <1>16, <1>17, <1>18, <1>19

\* A count is a sum of ones.
LEMMA SumOfOnes ==
    ASSUME NEW g, NEW S, IsFiniteSet(S), \A x \in S : g[x] \in {0, 1}
    PROVE  SumOf(g, S) = Cardinality({x \in S : g[x] = 1})
<1> DEFINE Ones(t) == {x \in t : g[x] = 1}
           T == {t \in SUBSET S : SumOf(g, t) # Cardinality(Ones(t))}
<1> SUFFICES ASSUME SumOf(g, S) # Cardinality(Ones(S)) PROVE FALSE OBVIOUS
<1>1. T \in SUBSET (SUBSET S) /\ T # {} OBVIOUS
<1>2. PICK t \in T : \A u \in SUBSET t : u # t => u \notin T
  <2> HIDE DEF T
  <2> QED BY <1>1, SmallestSubset
<1>3. t # {}
  <2> SUFFICES ASSUME t = {} PROVE FALSE OBVIOUS
  <2>1. Ones(t) = {} OBVIOUS
  <2>2. SumOf(g, t) = 0 /\ Cardinality(Ones(t)) = 0 BY <2>1, SumOfNothing, FS_EmptySet
  <2> QED BY <2>2
<1>4. IsFiniteSet(t) BY FS_Subset
<1>5. PICK x \in t : x = Picked(t) BY <1>3, ChosenIn
<1>6. SumOf(g, t) = g[x] + SumOf(g, t \ {x}) BY <1>3, <1>4, <1>5, SumOfChosen
<1>7. t \ {x} \in SUBSET t /\ t \ {x} # t /\ t \ {x} \in SUBSET S BY <1>5
<1>8. SumOf(g, t \ {x}) = Cardinality(Ones(t \ {x})) BY <1>2, <1>7
<1>9. g[x] \in {0, 1} OBVIOUS
<1>10. IsFiniteSet(Ones(t)) /\ Ones(t \ {x}) = Ones(t) \ {x} BY <1>4, FS_Subset
<1>11. Cardinality(Ones(t)) \in Nat /\ Cardinality(Ones(t \ {x})) = (IF x \in Ones(t) THEN Cardinality(Ones(t)) - 1 ELSE Cardinality(Ones(t)))
  <2>1. PICK O : O = Ones(t) OBVIOUS
  <2> HIDE DEF Ones, T
  <2>2. IsFiniteSet(O) /\ Ones(t \ {x}) = O \ {x} BY <1>10, <2>1
  <2>3. Cardinality(O) \in Nat /\ Cardinality(O \ {x}) = (IF x \in O THEN Cardinality(O) - 1 ELSE Cardinality(O))
    BY <2>2, FS_RemoveElement, FS_CardinalityType
  <2> QED BY <2>1, <2>2, <2>3
<1>12. x \in Ones(t) <=> g[x] = 1 BY <1>5
<1>13. SumOf(g, t) # Cardinality(Ones(t)) OBVIOUS
<1> HIDE DEF T, Ones
<1> QED BY <1>6, <1>8, <1>9, <1>11, <1>12, <1>13

-----------------------------------------------------------------------------
(* Who may enter an event: EventEligibility.                               *)

\* Dates are three numbers, limits and sizes are counts, NULL is neither a date nor a size, and what is sent has the
\* shape of what is asked for.
Calendar == Int \X Int \X Int
EntryWorld ==
    /\ Dates \subseteq Calendar /\ Birthdays \subseteq Calendar
    /\ Limits \subseteq Nat /\ Sizes \subseteq Nat
    /\ Payloads \subseteq Entrants!Payload /\ RuleSets \subseteq Entrants!Rules /\ Forms \subseteq Entrants!Form

\* The years lived are the age of the rule engine, and none before birth.
LEMMA AgeIsYearsLived ==
    ASSUME NEW birth \in Calendar, NEW on \in Calendar
    PROVE  LET age == Entrants!CalculateAge(birth, on)
               lived == Entrants!YearsLived(birth, on)
           IN  age \in Int /\ lived \in Nat /\ age <= lived /\ (age >= 0 => lived = age) /\ (age < 0 => lived = 0)
<1> DEFINE b == birth[1]
           o == on[1]
           short == Entrants!Earlier(on, birth)
           age == Entrants!CalculateAge(birth, on)
           years == {y \in b + 1 .. o : Entrants!Lexical(<<y, birth[2], birth[3]>>, on)}
<1>1. /\ b \in Int /\ birth[2] \in Int /\ birth[3] \in Int
      /\ o \in Int /\ on[2] \in Int /\ on[3] \in Int
  BY DEF Calendar
<1>2. age = o - b - (IF short THEN 1 ELSE 0) BY DEF Entrants!CalculateAge
<1>3. short <=> (on[2] < birth[2] \/ (on[2] = birth[2] /\ on[3] < birth[3])) BY DEF Entrants!Earlier
<1>4. \A y \in Int : Entrants!Lexical(<<y, birth[2], birth[3]>>, on) <=> (y < o \/ (y = o /\ ~short))
  <2> SUFFICES ASSUME NEW y \in Int
               PROVE  Entrants!Lexical(<<y, birth[2], birth[3]>>, on) <=> (y < o \/ (y = o /\ ~short))
    OBVIOUS
  <2> DEFINE d == <<y, birth[2], birth[3]>>
  <2>1. d[1] = y /\ d[2] = birth[2] /\ d[3] = birth[3] OBVIOUS
  <2>2. Entrants!Lexical(d, on) <=>
          \/ y < o
          \/ y = o /\ (\/ birth[2] < on[2] \/ (birth[2] = on[2] /\ birth[3] < on[3])
                       \/ birth[2] = on[2] /\ birth[3] = on[3])
    BY <2>1 DEF Entrants!Lexical, Entrants!Earlier
  <2> QED BY <1>1, <1>3, <2>2
<1>5. age \in Int BY <1>1, <1>2
<1> HIDE DEF age, short
<1>6. \A y \in Int : y \in b + 1 .. b + age <=> y \in b + 1 .. o /\ (y < o \/ (y = o /\ ~short))
  BY <1>1, <1>2, <1>5
<1>7. years = b + 1 .. b + age BY <1>1, <1>4, <1>5, <1>6
<1> HIDE DEF years
<1>8. Cardinality(years) = IF b + 1 > b + age THEN 0 ELSE (b + age) - (b + 1) + 1
  <2>1. PICK lo \in Int, hi \in Int : lo = b + 1 /\ hi = b + age BY <1>1, <1>5
  <2>2. Cardinality(lo .. hi) = IF lo > hi THEN 0 ELSE hi - lo + 1 BY FS_Interval
  <2>3. years = lo .. hi BY <1>7, <2>1
  <2> QED BY <2>1, <2>2, <2>3
<1>9. Entrants!YearsLived(birth, on) = Cardinality(years)
  BY DEF Entrants!YearsLived, Entrants!Cardinality, Cardinality, years
<1> QED BY <1>1, <1>5, <1>8, <1>9 DEF age

\* Whoever got in was valid for what he was judged by.
EligibilityInv ==
    /\ Entrants!TypeOK
    /\ \A e \in entry : Entrants!ValidateRegistration(e.rules, e.start, e.form, e.payload)

\* Who has no error of age has the age that the rules ask for.
LEMMA AgeRuled ==
    ASSUME EntryWorld, NEW r \in Entrants!Rules, NEW on \in Dates, NEW birth \in Birthdays \cup {NoDate},
           Entrants!AgeErrors(r, on, birth) = {}
    PROVE  /\ r.min # NoLimit => birth # NoDate /\ r.min <= Entrants!YearsLived(birth, on)
           /\ r.max # NoLimit => birth # NoDate /\ Entrants!YearsLived(birth, on) <= r.max
<1>1. CASE r.min = NoLimit /\ r.max = NoLimit BY <1>1
<1>2. CASE ~(r.min = NoLimit /\ r.max = NoLimit)
  <2>1. birth # NoDate BY <1>2 DEF Entrants!AgeErrors
  <2> DEFINE age == Entrants!CalculateAge(birth, on)
             lived == Entrants!YearsLived(birth, on)
  <2>2. {e \in {"too_young", "too_old"} :
            \/ e = "too_young" /\ r.min # NoLimit /\ age < r.min
            \/ e = "too_old" /\ r.max # NoLimit /\ age > r.max} = {}
    BY <1>2, <2>1, Zenon DEF Entrants!AgeErrors
  <2>3. on \in Calendar /\ birth \in Calendar BY <2>1 DEF EntryWorld
  <2>4. age \in Int /\ lived \in Nat /\ age <= lived /\ (age >= 0 => lived = age) /\ (age < 0 => lived = 0)
    BY <2>3, AgeIsYearsLived
  <2>5. (r.min # NoLimit => r.min \in Nat) /\ (r.max # NoLimit => r.max \in Nat)
    BY DEF EntryWorld, Entrants!Rules
  <2> HIDE DEF age, lived
  <2>6. ~(r.min # NoLimit /\ age < r.min) /\ ~(r.max # NoLimit /\ age > r.max) BY <2>2
  <2>7. (r.min # NoLimit => r.min <= lived) /\ (r.max # NoLimit => lived <= r.max)
    BY <2>4, <2>5, <2>6
  <2> QED BY <2>1, <2>7 DEF lived
<1> QED BY <1>1, <1>2

\* Who has no error of size is in a team of an allowed size.
LEMMA SizeRuled ==
    ASSUME EntryWorld, NEW r \in Entrants!Rules, NEW size \in Sizes \cup {NoTeam}, size # NoTeam,
           Entrants!SizeErrors(r, size) = {}
    PROVE  /\ r.least # NoLimit => r.least <= size
           /\ r.most # NoLimit => size <= r.most
<1>1. ~(r.least # NoLimit /\ size < r.least) /\ ~(r.most # NoLimit /\ size > r.most)
  BY DEF Entrants!SizeErrors
<1>2. size \in Nat /\ (r.least # NoLimit => r.least \in Nat) /\ (r.most # NoLimit => r.most \in Nat)
  BY DEF EntryWorld, Entrants!Rules
<1> QED BY <1>1, <1>2

\* Whoever is valid meets the rules.
LEMMA ValidMeetsTheRules ==
    ASSUME EntryWorld, EligibilityInv PROVE Entrants!EntrantsMetTheRules
<1> SUFFICES ASSUME NEW e \in entry
             PROVE  /\ e.rules.min # NoLimit =>
                         e.payload.birth # NoDate /\ e.rules.min <= Entrants!YearsLived(e.payload.birth, e.start)
                    /\ e.rules.max # NoLimit =>
                         e.payload.birth # NoDate /\ Entrants!YearsLived(e.payload.birth, e.start) <= e.rules.max
                    /\ e.rules.documents \subseteq e.payload.documents
                    /\ e.payload.size # NoTeam =>
                         /\ e.rules.least # NoLimit => e.rules.least <= e.payload.size
                         /\ e.rules.most # NoLimit => e.payload.size <= e.rules.most
                    /\ \A k \in Keys :
                         /\ e.form[k].required => e.payload.answers[k] \in Values
                         /\ e.form[k].options # {} =>
                               e.payload.answers[k] \in e.form[k].options \cup {Missing}
  BY DEF Entrants!EntrantsMetTheRules
<1>1. /\ e.payload \in Entrants!Payload /\ e.start \in Dates /\ e.rules \in Entrants!Rules /\ e.form \in Entrants!Form
      /\ Entrants!ValidateRegistration(e.rules, e.start, e.form, e.payload)
  BY DEF EligibilityInv, Entrants!TypeOK
<1>2. PICK r, p, f : r = e.rules /\ p = e.payload /\ f = e.form OBVIOUS
<1>3. /\ Entrants!AgeErrors(r, e.start, p.birth) = {} /\ Entrants!SizeErrors(r, p.size) = {}
      /\ {"document" : d \in r.documents \ p.documents} = {}
      /\ Entrants!ValidateFieldAnswers(f, p.answers) = {}
  BY <1>1, <1>2, Zenon DEF Entrants!ValidateRegistration, Entrants!CheckEligibility
<1>4. p.birth \in Birthdays \cup {NoDate} /\ p.size \in Sizes \cup {NoTeam}
  BY <1>1, <1>2 DEF Entrants!Payload
<1>5. r.documents \subseteq p.documents BY <1>3
<1>6. ASSUME NEW k \in Keys
      PROVE  /\ f[k].required => p.answers[k] \in Values
             /\ f[k].options # {} => p.answers[k] \in f[k].options \cup {Missing}
  <2>1. p.answers[k] \in Values \cup {Missing, Empty} BY <1>1, <1>2 DEF Entrants!Payload
  <2>2. ~(f[k].required /\ p.answers[k] \in {Missing, Empty}) BY <1>3 DEF Entrants!ValidateFieldAnswers
  <2>3. ~(p.answers[k] # Missing /\ f[k].options # {} /\ p.answers[k] \notin f[k].options)
    BY <1>3, <2>2 DEF Entrants!ValidateFieldAnswers
  <2> QED BY <2>1, <2>2, <2>3
<1>7. /\ r.min # NoLimit => p.birth # NoDate /\ r.min <= Entrants!YearsLived(p.birth, e.start)
      /\ r.max # NoLimit => p.birth # NoDate /\ Entrants!YearsLived(p.birth, e.start) <= r.max
  BY <1>1, <1>2, <1>3, <1>4, AgeRuled
<1>8. p.size # NoTeam => (r.least # NoLimit => r.least <= p.size) /\ (r.most # NoLimit => p.size <= r.most)
  BY <1>1, <1>2, <1>3, <1>4, SizeRuled
<1> QED BY <1>2, <1>5, <1>6, <1>7, <1>8

LEMMA InitEligibility == ASSUME EntryWorld, Entrants!Init PROVE EligibilityInv
BY DEF EntryWorld, Entrants!Init, Entrants!TypeOK, EligibilityInv

\* A registration loads, is admitted or refused, while managers configure.
LEMMA EligibilityStep == ASSUME EligibilityInv, [Entrants!Next]_Entrants!vars PROVE EligibilityInv'
<1> DEFINE Judged == [payload : Payloads, start : Dates, rules : RuleSets, form : Forms]
           Loading == {Entrants!Idle} \cup [payload : Payloads, start : Dates, rules : RuleSets]
<1>1. /\ start \in Dates /\ rules \in RuleSets /\ form \in Forms
      /\ entry \subseteq Judged /\ sess \in [Sessions -> Loading]
      /\ Payloads \subseteq Entrants!Payload /\ RuleSets \subseteq Entrants!Rules /\ Forms \subseteq Entrants!Form
  BY DEF EligibilityInv, Entrants!TypeOK
<1>2. ASSUME NEW s \in Sessions, Entrants!Register(s) PROVE EligibilityInv'
  <2>1. PICK seen : seen = sess[s] OBVIOUS
  <2>2. seen \in [payload : Payloads, start : Dates, rules : RuleSets]
    BY <1>1, <1>2, <2>1 DEF Entrants!Register
  <2>3. PICK e : e = [payload |-> seen.payload, start |-> seen.start, rules |-> seen.rules, form |-> form] OBVIOUS
  <2>4. /\ entry' = {e} /\ UNCHANGED <<start, rules, form>> /\ sess' = [sess EXCEPT ![s] = Entrants!Idle]
        /\ Entrants!ValidateRegistration(seen.rules, seen.start, form, seen.payload)
    BY <1>2, <2>1, <2>3, Zenon DEF Entrants!Register
  <2>5. e \in Judged /\ e.rules = seen.rules /\ e.start = seen.start /\ e.form = form /\ e.payload = seen.payload
    BY <1>1, <2>2, <2>3
  <2>6. sess' \in [Sessions -> Loading] BY <1>1, <2>4
  <2>7. Entrants!TypeOK' BY <1>1, <2>4, <2>5, <2>6 DEF Entrants!TypeOK
  <2> QED BY <2>4, <2>5, <2>7 DEF EligibilityInv
<1>3. ASSUME NEW s \in Sessions, Entrants!Abort(s) \/ \E p \in Payloads : Entrants!Begin(s, p)
      PROVE  EligibilityInv'
  <2>1. UNCHANGED <<start, rules, form, entry>> BY <1>3 DEF Entrants!Abort, Entrants!Begin
  <2>2. sess' \in [Sessions -> Loading] BY <1>1, <1>3 DEF Entrants!Abort, Entrants!Begin
  <2>3. Entrants!TypeOK' BY <1>1, <2>1, <2>2 DEF Entrants!TypeOK
  <2> QED BY <2>1, <2>3 DEF EligibilityInv
<1>4. CASE \/ \E r \in RuleSets : Entrants!UpsertConfiguration(r)
           \/ \E f \in Forms : Entrants!UpsertFieldSchema(f)
           \/ \E d \in Dates : Entrants!MoveStart(d)
           \/ UNCHANGED Entrants!vars
  <2>1. /\ UNCHANGED <<entry, sess>> /\ start' \in Dates /\ rules' \in RuleSets /\ form' \in Forms
    BY <1>1, <1>4 DEF Entrants!UpsertConfiguration, Entrants!UpsertFieldSchema, Entrants!MoveStart, Entrants!vars
  <2>2. Entrants!TypeOK' BY <1>1, <2>1 DEF Entrants!TypeOK
  <2> QED BY <2>1, <2>2 DEF EligibilityInv
<1> QED BY <1>2, <1>3, <1>4 DEF Entrants!Next

\* While managers change the rules, the form and the date under a request that
\* waits, whoever gets in was old enough on the day he was judged by, brought
\* what was asked for and answered the form: the age that the rule engine
\* computes from years, months and days is the number of birthdays reached.
THEOREM EntryIsByTheRules ==
    EntryWorld => (Entrants!Spec => [](Entrants!TypeOK /\ Entrants!EntrantsMetTheRules))
<1> SUFFICES ASSUME EntryWorld PROVE Entrants!Spec => [](Entrants!TypeOK /\ Entrants!EntrantsMetTheRules)
  OBVIOUS
<1>1. Entrants!Init => EligibilityInv BY InitEligibility
<1>2. EligibilityInv /\ [Entrants!Next]_Entrants!vars => EligibilityInv' BY EligibilityStep
<1>3. EligibilityInv => Entrants!TypeOK /\ Entrants!EntrantsMetTheRules
  BY ValidMeetsTheRules DEF EligibilityInv
<1> QED BY <1>1, <1>2, <1>3, PTL DEF Entrants!Spec

-----------------------------------------------------------------------------
(* The verdict at the gate and its preview: GateVerdict.                   *)

\* What a policy may say has the columns of a policy, and days are counted.
GateWorld ==
    /\ Contents \subseteq [zones : SUBSET Zones, max : Nat, from : Nat, until : Nat, dates : SUBSET Nat]
    /\ LastDay \in Nat /\ Ends \subseteq Nat

\* The preview is "valid" when no reason applies.
LEMMA ValidWithoutReasons ==
    ASSUME NEW scan, NEW z
    PROVE  Gates!Preview(scan, z) = "valid" <=>
              \A i \in DOMAIN Gates!Reasons(scan, z) : ~Gates!Reasons(scan, z)[i][2]
<1> DEFINE reasons == Gates!Reasons(scan, z)
           against == {i \in DOMAIN reasons : reasons[i][2]}
           first == CHOOSE i \in against : \A j \in against : i <= j
<1>1. DOMAIN reasons = 1 .. 14 BY DEF Gates!Reasons
<1>2. \A i \in 1 .. 14 : reasons[i][1] # "valid" BY DEF Gates!Reasons
<1>3. Gates!Preview(scan, z) = IF against = {} THEN "valid" ELSE reasons[first][1]
  BY Zenon DEF Gates!Preview
<1>4. ASSUME against # {} PROVE first \in against
  <2>1. against \in SUBSET Nat BY <1>1
  <2> HIDE DEF against
  <2> QED BY <1>4, <2>1, FirstNumber
<1> HIDE DEF reasons
<1>5. against # {} => reasons[first][1] # "valid" BY <1>1, <1>2, <1>4
<1>6. against = {} <=> \A i \in DOMAIN reasons : ~reasons[i][2] OBVIOUS
<1> HIDE DEF against
<1>7. Gates!Preview(scan, z) = "valid" <=> against = {} BY <1>3, <1>5
<1> QED BY <1>6, <1>7 DEF reasons

\* A ticket that has been used was counted, and it counts its visits.
GateInv ==
    /\ Gates!TypeOK
    /\ Gates!EntriesCounted
    /\ tk.status \in Gates!Used => tk.count > 0

\* The reasons, one by one.
LEMMA ReasonsAre ==
    ASSUME NEW scan, NEW z
    PROVE  (\A i \in DOMAIN Gates!Reasons(scan, z) : ~Gates!Reasons(scan, z)[i][2]) <=>
              /\ ~~scan.signed /\ ~~scan.current /\ ~(~scan.here \/ ~scan.asked) /\ ~~scan.staff
              /\ ~(tk.status \in Gates!Ended)
              /\ ~(tk.status \in Gates!Used /\ tk.count >= 1 /\ ~Gates!EntriesLeft(tk))
              /\ ~(today >= end) /\ ~(today < tk.from) /\ ~(today >= tk.until)
              /\ ~(tk.dates # {} /\ today \notin tk.dates)
              /\ ~(~Gates!ZoneAllowed(z) \/ ~Gates!ZoneOpen(z))
              /\ ~(pay = "refunded") /\ ~(pay \notin {"free", "verified"}) /\ ~(reg \notin Gates!Confirmed)
<1> DEFINE reasons == Gates!Reasons(scan, z)
<1>1. DOMAIN reasons = 1 .. 14 BY DEF Gates!Reasons
<1>2. /\ reasons[1][2] = ~scan.signed
      /\ reasons[2][2] = ~scan.current
      /\ reasons[3][2] = (~scan.here \/ ~scan.asked)
      /\ reasons[4][2] = ~scan.staff
      /\ reasons[5][2] = (tk.status \in Gates!Ended)
      /\ reasons[6][2] = (tk.status \in Gates!Used /\ tk.count >= 1 /\ ~Gates!EntriesLeft(tk))
      /\ reasons[7][2] = (today >= end)
      /\ reasons[8][2] = (today < tk.from)
      /\ reasons[9][2] = (today >= tk.until)
      /\ reasons[10][2] = (tk.dates # {} /\ today \notin tk.dates)
      /\ reasons[11][2] = (~Gates!ZoneAllowed(z) \/ ~Gates!ZoneOpen(z))
      /\ reasons[12][2] = (pay = "refunded")
      /\ reasons[13][2] = (pay \notin {"free", "verified"})
      /\ reasons[14][2] = (reg \notin Gates!Confirmed)
  BY DEF Gates!Reasons
<1> HIDE DEF reasons
<1>3. (\A i \in 1 .. 14 : ~reasons[i][2]) <=>
         /\ ~reasons[1][2] /\ ~reasons[2][2] /\ ~reasons[3][2] /\ ~reasons[4][2] /\ ~reasons[5][2]
         /\ ~reasons[6][2] /\ ~reasons[7][2] /\ ~reasons[8][2] /\ ~reasons[9][2] /\ ~reasons[10][2]
         /\ ~reasons[11][2] /\ ~reasons[12][2] /\ ~reasons[13][2] /\ ~reasons[14][2]
  <2>1. 1 .. 14 = {1, 2, 3, 4, 5, 6, 7, 8, 9, 10, 11, 12, 13, 14} OBVIOUS
  <2> QED BY <2>1, Zenon
<1>4. (\A i \in DOMAIN reasons : ~reasons[i][2]) <=> (\A i \in 1 .. 14 : ~reasons[i][2]) BY <1>1
<1> QED BY <1>2, <1>3, <1>4, Zenon DEF reasons

\* The preview tests what the check-in tests.
LEMMA PreviewIsCheckIn ==
    ASSUME GateWorld, GateInv PROVE Gates!PreviewAgrees
<1> SUFFICES ASSUME NEW scan \in Gates!Scan, NEW z \in Zones \cup {NoZone}
             PROVE  Gates!Preview(scan, z) = "valid" <=>
                       scan.asked /\ Gates!Resolves(scan) /\ Gates!MayCheckIn(scan.staff, z)
  BY Zenon DEF Gates!PreviewAgrees
<1>1. Gates!Preview(scan, z) = "valid" <=>
         /\ scan.signed /\ scan.current /\ scan.here /\ scan.asked /\ scan.staff
         /\ ~(tk.status \in Gates!Ended)
         /\ ~(tk.status \in Gates!Used /\ tk.count >= 1 /\ ~Gates!EntriesLeft(tk))
         /\ ~(today >= end) /\ ~(today < tk.from) /\ ~(today >= tk.until)
         /\ ~(tk.dates # {} /\ today \notin tk.dates)
         /\ Gates!ZoneAllowed(z) /\ Gates!ZoneOpen(z)
         /\ ~(pay = "refunded") /\ pay \in {"free", "verified"} /\ reg \in Gates!Confirmed
  <2>1. Gates!Preview(scan, z) = "valid" <=>
           \A i \in DOMAIN Gates!Reasons(scan, z) : ~Gates!Reasons(scan, z)[i][2]
    BY ValidWithoutReasons
  <2> QED BY <2>1, ReasonsAre, Zenon
<1>2. /\ tk.status \in {"issued", "active"} \cup Gates!Used \cup Gates!Ended
      /\ tk.count \in Nat /\ tk.from \in Nat /\ tk.until \in Nat /\ today \in Int /\ end \in Nat
      /\ tk.status \in Gates!Used => tk.count > 0
  BY DEF GateInv, GateWorld, Gates!TypeOK
<1>3. /\ today >= end <=> ~(today < end)
      /\ today < tk.from <=> ~(tk.from <= today)
      /\ today >= tk.until <=> ~(today < tk.until)
      /\ tk.count > 0 <=> tk.count >= 1
  BY <1>2
<1>4. tk.status \in Gates!Ended <=> tk.status \notin {"issued", "active"} \cup Gates!Used
  BY <1>2 DEF Gates!Used, Gates!Ended
<1>5. pay \in {"free", "verified"} => pay # "refunded" OBVIOUS
<1> QED BY <1>1, <1>2, <1>3, <1>4, <1>5, Zenon DEF Gates!Resolves, Gates!MayCheckIn

\* The columns of a ticket.
Ticket == [status : {"issued", "active"} \cup Gates!Used \cup Gates!Ended, count : Nat,
           policy : Policies \cup {NoPolicy}, from : Nat, until : Nat, dates : SUBSET Nat]

\* The terms that a ticket copies.
LEMMA TermsTyped ==
    ASSUME GateWorld, policy \in [Policies -> Contents \cup {Gates!Missing}], NEW p \in Policies \cup {NoPolicy},
           p # NoPolicy => policy[p] # Gates!Missing
    PROVE  Gates!Terms(p).from \in Nat /\ Gates!Terms(p).until \in Nat /\ Gates!Terms(p).dates \in SUBSET Nat
<1>1. CASE p = NoPolicy
  <2>1. LastDay + 1 \in Nat BY DEF GateWorld
  <2>2. Gates!Terms(p) = [from |-> 0, until |-> LastDay + 1, dates |-> {}] BY <1>1 DEF Gates!Terms
  <2> QED BY <2>1, <2>2
<1>2. CASE p # NoPolicy
  <2>1. policy[p] \in [zones : SUBSET Zones, max : Nat, from : Nat, until : Nat, dates : SUBSET Nat]
    BY <1>2 DEF GateWorld
  <2> QED BY <1>2, <2>1 DEF Gates!Terms
<1> QED BY <1>1, <1>2

LEMMA InitGate == ASSUME GateWorld, Gates!Init PROVE GateInv
<1>1. policy \in [Policies -> Contents \cup {Gates!Missing}]
  BY DEF Gates!Init
<1>2. PICK p \in Policies \cup {NoPolicy} :
         /\ p # NoPolicy => policy[p] # Gates!Missing
         /\ tk = [status |-> "issued", count |-> 0, policy |-> p, from |-> Gates!Terms(p).from,
                  until |-> Gates!Terms(p).until, dates |-> Gates!Terms(p).dates]
  BY DEF Gates!Init
<1>3. tk \in Ticket BY <1>1, <1>2, TermsTyped DEF Ticket
<1>4. /\ zone \in [Zones -> {"none", "active", "inactive"}] /\ pay \in {"free", "verified", "refunded"}
      /\ reg \in Gates!Confirmed /\ visits = <<>> /\ end \in Ends /\ today = 0
  BY DEF Gates!Init, Gates!Confirmed
<1>5. visits \in Seq(BOOLEAN) /\ Len(visits) = 0 BY <1>4
<1>6. today \in 0 .. LastDay BY <1>4 DEF GateWorld
<1>7. Gates!TypeOK BY <1>1, <1>3, <1>4, <1>5, <1>6 DEF Gates!TypeOK, Ticket
<1>8. tk.count = 0 /\ tk.status = "issued" BY <1>2
<1> QED BY <1>5, <1>7, <1>8 DEF GateInv, Gates!EntriesCounted, Gates!Used

\* The ticket changes, and what the desk has of it rests.
LEMMA TicketStep ==
    ASSUME GateInv, tk' \in Ticket, visits' \in Seq(BOOLEAN), UNCHANGED <<policy, zone, end, today>>,
           pay' \in {"free", "verified", "refunded"},
           reg' \in Gates!Confirmed \cup {"refund_pending", "cancelled"},
           tk'.count = Len(visits'), tk'.status \in Gates!Used => tk'.count > 0
    PROVE  GateInv'
<1>1. Gates!TypeOK' BY DEF GateInv, Gates!TypeOK, Ticket
<1> QED BY <1>1 DEF GateInv, Gates!EntriesCounted

\* A sequence with another value at one place.
LEMMA EntryKept ==
    ASSUME NEW S, NEW q \in Seq(S), NEW i \in 1 .. Len(q), NEW x \in S
    PROVE  [q EXCEPT ![i] = x] \in Seq(S) /\ Len([q EXCEPT ![i] = x]) = Len(q)
OBVIOUS

\* An entry is counted and one is left.
LEMMA VisitStep ==
    ASSUME GateInv, (\E z \in Zones \cup {NoZone} : Gates!CheckIn(z)) \/ Gates!CheckOut
    PROVE  GateInv'
<1>1. /\ tk \in Ticket /\ visits \in Seq(BOOLEAN) /\ tk.count = Len(visits) /\ tk.count \in Nat
      /\ pay \in {"free", "verified", "refunded"} /\ reg \in Gates!Confirmed \cup {"refund_pending", "cancelled"}
      /\ tk.status \in Gates!Used => tk.count > 0
  BY DEF GateInv, Gates!TypeOK, Gates!EntriesCounted, Ticket
<1>2. ASSUME NEW z \in Zones \cup {NoZone}, Gates!CheckIn(z) PROVE GateInv'
  <2>0. PICK n \in Nat : n = tk.count + 1 BY <1>1
  <2>1. PICK st \in Gates!Used : tk' = [tk EXCEPT !.count = n, !.status = st]
    BY <1>2, <2>0 DEF Gates!CheckIn, Gates!Used
  <2>2. /\ visits' = Append(visits, FALSE) /\ reg' = "checked_in"
        /\ UNCHANGED <<policy, zone, pay, end, today>>
    BY <1>2 DEF Gates!CheckIn
  <2>3. tk' \in Ticket /\ tk'.count = tk.count + 1 BY <1>1, <2>0, <2>1 DEF Ticket
  <2>4. visits' \in Seq(BOOLEAN) /\ Len(visits') = Len(visits) + 1 BY <1>1, <2>2
  <2>5. reg' \in Gates!Confirmed BY <2>2 DEF Gates!Confirmed
  <2>6. tk'.count = Len(visits') /\ tk'.count > 0 BY <1>1, <2>3, <2>4
  <2> QED BY <1>1, <2>2, <2>3, <2>4, <2>5, <2>6, TicketStep
<1>3. CASE Gates!CheckOut
  <2>1. /\ visits' = [visits EXCEPT ![Len(visits)] = TRUE] /\ UNCHANGED <<tk, policy, zone, pay, reg, end, today>>
    BY <1>3 DEF Gates!CheckOut, Gates!Desk
  <2>2. Len(visits) \in 1 .. Len(visits)
    <3>1. visits # <<>> BY <1>3 DEF Gates!CheckOut
    <3> QED BY <1>1, <3>1
  <2>3. TRUE \in BOOLEAN OBVIOUS
  <2>4. visits' \in Seq(BOOLEAN) /\ Len(visits') = Len(visits) BY <1>1, <2>1, <2>2, <2>3, EntryKept
  <2> QED BY <1>1, <2>1, <2>4, TicketStep
<1> QED BY <1>2, <1>3

\* The console revokes, replaces or retypes the ticket; nothing is counted.
LEMMA ConsoleStep ==
    ASSUME GateWorld, GateInv, Gates!Revoke \/ Gates!Replace \/ \E p \in Policies : Gates!AssignAccessType(p)
    PROVE  GateInv'
<1>1. /\ tk \in Ticket /\ visits \in Seq(BOOLEAN) /\ tk.count = Len(visits) /\ tk.count \in Nat
      /\ pay \in {"free", "verified", "refunded"} /\ reg \in Gates!Confirmed \cup {"refund_pending", "cancelled"}
      /\ policy \in [Policies -> Contents \cup {Gates!Missing}]
      /\ tk.status \in Gates!Used => tk.count > 0
  BY DEF GateInv, Gates!TypeOK, Gates!EntriesCounted, Ticket
<1>2. UNCHANGED <<visits, policy, zone, pay, reg, end, today>>
  BY DEF Gates!Revoke, Gates!Replace, Gates!AssignAccessType, Gates!Desk
<1>3. CASE Gates!Revoke
  <2>1. tk' = [tk EXCEPT !.status = "revoked"] BY <1>3 DEF Gates!Revoke
  <2>2. tk' \in Ticket /\ tk'.count = tk.count /\ tk'.status = "revoked"
    BY <1>1, <2>1 DEF Ticket, Gates!Ended
  <2>3. tk'.status \notin Gates!Used BY <2>2 DEF Gates!Used
  <2> QED BY <1>1, <1>2, <2>2, <2>3, TicketStep
<1>4. CASE Gates!Replace
  <2>1. tk' = [tk EXCEPT !.status = "active", !.count = 0] /\ tk.count = 0 BY <1>4 DEF Gates!Replace
  <2>2. tk' \in Ticket /\ tk'.count = tk.count /\ tk'.status = "active" BY <1>1, <2>1 DEF Ticket
  <2>3. tk'.status \notin Gates!Used BY <2>2 DEF Gates!Used
  <2> QED BY <1>1, <1>2, <2>2, <2>3, TicketStep
<1>5. ASSUME NEW p \in Policies, Gates!AssignAccessType(p) PROVE GateInv'
  <2>1. PICK from, until, dates : from = Gates!Terms(p).from /\ until = Gates!Terms(p).until /\ dates = Gates!Terms(p).dates
    OBVIOUS
  <2>2. from \in Nat /\ until \in Nat /\ dates \in SUBSET Nat
    BY <1>1, <1>5, <2>1, TermsTyped DEF Gates!AssignAccessType
  <2>3. tk' = [tk EXCEPT !.policy = p, !.from = from, !.until = until, !.dates = dates]
    BY <1>5, <2>1 DEF Gates!AssignAccessType
  <2>4. tk' \in Ticket /\ tk'.count = tk.count /\ tk'.status = tk.status BY <1>1, <2>2, <2>3 DEF Ticket
  <2> QED BY <1>1, <1>2, <2>4, TicketStep
<1> QED BY <1>3, <1>4, <1>5

\* A registration is cancelled or refunded, and its ticket with it.
LEMMA RegistrationStep ==
    ASSUME GateInv,
           \/ Gates!AskRefund \/ Gates!EndRegistration
           \/ \E outcome \in {"confirmed", "refund_failed"} : Gates!EndRefund(outcome)
    PROVE  GateInv'
<1>1. /\ tk \in Ticket /\ visits \in Seq(BOOLEAN) /\ tk.count = Len(visits)
      /\ pay \in {"free", "verified", "refunded"}
      /\ tk.status \in Gates!Used => tk.count > 0
  BY DEF GateInv, Gates!TypeOK, Gates!EntriesCounted, Ticket
<1>2. UNCHANGED <<visits, policy, zone, end, today>>
  BY DEF Gates!AskRefund, Gates!EndRegistration, Gates!EndRefund
<1>3. /\ pay' \in {"free", "verified", "refunded"}
      /\ reg' \in Gates!Confirmed \cup {"refund_pending", "cancelled"}
  <2>1. CASE Gates!AskRefund BY <1>1, <2>1 DEF Gates!AskRefund
  <2>2. CASE Gates!EndRegistration BY <1>1, <2>2 DEF Gates!EndRegistration
  <2>3. ASSUME NEW outcome \in {"confirmed", "refund_failed"}, Gates!EndRefund(outcome)
        PROVE  /\ pay' \in {"free", "verified", "refunded"}
               /\ reg' \in Gates!Confirmed \cup {"refund_pending", "cancelled"}
    <3>1. pay' = pay /\ reg' = outcome BY <2>3 DEF Gates!EndRefund
    <3>2. outcome \in Gates!Confirmed BY DEF Gates!Confirmed
    <3> QED BY <1>1, <3>1, <3>2
  <2> QED BY <2>1, <2>2, <2>3
<1>4. CASE tk' = tk
  <2>1. visits' = visits BY <1>2
  <2>2. visits' \in Seq(BOOLEAN) BY <1>1, <2>1
  <2>3. tk' \in Ticket /\ tk'.count = Len(visits') /\ (tk'.status \in Gates!Used => tk'.count > 0)
    BY <1>1, <1>4, <2>1
  <2> QED BY <1>2, <1>3, <2>2, <2>3, TicketStep
<1>5. CASE tk' = [tk EXCEPT !.status = "cancelled"]
  <2>1. tk' \in Ticket /\ tk'.count = tk.count /\ tk'.status = "cancelled"
    BY <1>1, <1>5 DEF Ticket, Gates!Ended
  <2>2. tk'.status \notin Gates!Used BY <2>1 DEF Gates!Used
  <2> QED BY <1>1, <1>2, <1>3, <2>1, <2>2, TicketStep
<1>6. tk' = tk \/ tk' = [tk EXCEPT !.status = "cancelled"]
  BY DEF Gates!AskRefund, Gates!EndRegistration, Gates!EndRefund, Gates!Cancelled
<1> QED BY <1>4, <1>5, <1>6

LEMMA GateStep == ASSUME GateWorld, GateInv, [Gates!Next]_Gates!vars PROVE GateInv'
<1>1. CASE \/ UNCHANGED Gates!vars
           \/ \E p \in Policies, c \in Contents : Gates!UpsertPolicy(p, c)
           \/ \E z \in Zones, state \in {"active", "inactive"} : Gates!CreateZone(z, state)
           \/ \E d \in Ends : Gates!MoveEnd(d)
           \/ Gates!NextDay
  <2>1. UNCHANGED <<tk, pay, reg, visits>>
    BY <1>1 DEF Gates!vars, Gates!UpsertPolicy, Gates!CreateZone, Gates!MoveEnd, Gates!NextDay
  <2>2. /\ policy' \in [Policies -> Contents \cup {Gates!Missing}]
        /\ zone' \in [Zones -> {"none", "active", "inactive"}] /\ end' \in Ends
    BY <1>1 DEF Gates!vars, Gates!UpsertPolicy, Gates!CreateZone, Gates!MoveEnd, Gates!NextDay, GateInv, Gates!TypeOK
  <2>3. today' \in 0 .. LastDay
    <3>1. today \in 0 .. LastDay /\ LastDay \in Nat BY DEF GateInv, Gates!TypeOK, GateWorld
    <3>2. today' = today \/ (today < LastDay /\ today' = today + 1)
      BY <1>1 DEF Gates!vars, Gates!UpsertPolicy, Gates!CreateZone, Gates!MoveEnd, Gates!NextDay
    <3> QED BY <3>1, <3>2
  <2>4. Gates!TypeOK' BY <2>1, <2>2, <2>3 DEF GateInv, Gates!TypeOK
  <2> QED BY <2>1, <2>4 DEF GateInv, Gates!EntriesCounted
<1>2. CASE (\E z \in Zones \cup {NoZone} : Gates!CheckIn(z)) \/ Gates!CheckOut BY <1>2, VisitStep
<1>3. CASE Gates!Revoke \/ Gates!Replace \/ \E p \in Policies : Gates!AssignAccessType(p) BY <1>3, ConsoleStep
<1>4. CASE \/ Gates!AskRefund \/ Gates!EndRegistration
           \/ \E outcome \in {"confirmed", "refund_failed"} : Gates!EndRefund(outcome)
  BY <1>4, RegistrationStep
<1> QED BY <1>1, <1>2, <1>3, <1>4, Zenon DEF Gates!Next

\* While the console retypes, revokes and replaces the ticket, zones, policies
\* and the event's end move and refunds come and go, the preview calls valid
\* exactly what the check-in of the same scan admits, and the ticket has
\* counted every entry made with it.
THEOREM PreviewIsTheGate ==
    GateWorld => (Gates!Spec => [](Gates!TypeOK /\ Gates!PreviewAgrees /\ Gates!EntriesCounted))
<1> SUFFICES ASSUME GateWorld
             PROVE  Gates!Spec => [](Gates!TypeOK /\ Gates!PreviewAgrees /\ Gates!EntriesCounted)
  OBVIOUS
<1>1. Gates!Init => GateInv BY InitGate
<1>2. GateInv /\ [Gates!Next]_Gates!vars => GateInv' BY GateStep
<1>3. GateInv => Gates!TypeOK /\ Gates!PreviewAgrees /\ Gates!EntriesCounted
  BY PreviewIsCheckIn DEF GateInv
<1> QED BY <1>1, <1>2, <1>3, PTL DEF Gates!Spec

-----------------------------------------------------------------------------
(* Reports for managers: EventReports.                                     *)

\* There are finitely many registrations, tickets and refunds, a ticket is one of a registration's, and what is paid and
\* asked back are amounts.
SheetWorld ==
    /\ IsFiniteSet(Regs) /\ IsFiniteSet(Tickets) /\ IsFiniteSet(Refunds)
    /\ OfReg \in [Tickets -> Regs]
    /\ Fee \in Nat /\ Parts \subseteq Nat /\ MaxScans \in Nat

RefundAmounts(v) == [i \in Refunds |-> v[i].amount]
Backed(v, r, statuses) == {i \in Refunds : v[i] # Sheets!NoRefund /\ v[i].of = r /\ v[i].status \in statuses}
Asked == {"pending_admin_approval", "processed"}
Settled(v) == {i \in Refunds : v[i].status = "processed"}
Payers == Sheets!Paid({"verified", "refunded"})

\* The amounts of the reports are sums of amounts.
LEMMA AmountIsSum ==
    ASSUME IsFiniteSet(Refunds), NEW S \in SUBSET Refunds
    PROVE  Sheets!AmountOf(S) = SumOf(RefundAmounts(refund), S)
<1> DEFINE Told(iter) ==
        iter = [s \in SUBSET S |-> IF s = {} THEN 0 ELSE refund[CHOOSE x \in s : TRUE].amount
                                                           + iter[s \ {CHOOSE x \in s : TRUE}]]
<1>1. Sheets!AmountOf(S) = (CHOOSE f : Told(f))[S]
  BY DEF Sheets!AmountOf, Sheets!MapThenSumSet, Sheets!MapThenFoldSet
<1>2. ASSUME NEW f PROVE Told(f) <=> Folds(RefundAmounts(refund), S, f)
  <2> DEFINE L(s) == IF s = {} THEN 0 ELSE refund[CHOOSE x \in s : TRUE].amount + f[s \ {CHOOSE x \in s : TRUE}]
             R(s) == IF s = {} THEN 0 ELSE RefundAmounts(refund)[Picked(s)] + f[s \ {Picked(s)}]
  <2>1. ASSUME NEW s \in SUBSET S PROVE L(s) = R(s)
    <3>1. CASE s = {} BY <3>1
    <3>2. CASE s # {}
      <4>1. PICK x \in s : x = Picked(s) BY <3>2, ChosenIn
      <4>2. x = CHOOSE y \in s : TRUE BY <4>1 DEF Picked
      <4>3. RefundAmounts(refund)[x] = refund[x].amount BY <4>1 DEF RefundAmounts
      <4> QED BY <3>2, <4>1, <4>2, <4>3
    <3> QED BY <3>1, <3>2
  <2>2. [s \in SUBSET S |-> L(s)] = [s \in SUBSET S |-> R(s)]
    <3> HIDE DEF L, R
    <3> QED BY <2>1
  <2> QED BY <2>2 DEF Folds
<1>3. \E f : Folds(RefundAmounts(refund), S, f) BY FS_Subset, FoldExists
<1>4. PICK f : f = (CHOOSE k : Told(k)) OBVIOUS
<1>5. Told(f)
  <2> HIDE DEF Told
  <2> QED BY <1>2, <1>3, <1>4
<1>6. Folds(RefundAmounts(refund), S, f)
  <2> HIDE DEF Told
  <2> QED BY <1>2, <1>5
<1>7. PICK h : h = (CHOOSE k : Folds(RefundAmounts(refund), S, k)) OBVIOUS
<1>8. Folds(RefundAmounts(refund), S, h) /\ SumOf(RefundAmounts(refund), S) = h[S] BY <1>3, <1>7 DEF SumOf
<1>9. IsFiniteSet(S) BY FS_Subset
<1>10. f[S] = h[S] BY <1>6, <1>8, <1>9, FoldsAgree
<1> QED BY <1>1, <1>4, <1>8, <1>10

ReportInv ==
    /\ Sheets!TypeOK
    /\ \A r \in Regs : SumOf(RefundAmounts(refund), Backed(refund, r, Asked)) <= Fee
    /\ \A i \in Refunds : refund[i] # Sheets!NoRefund => pay[refund[i].of] \in {"verified", "refunded"}
    /\ \A r \in Regs :
          /\ reg[r] = "none" => pay[r] = "none"
          /\ reg[r] = "pending_payment" => pay[r] = "initiated"
          /\ reg[r] = "refund_pending" => Backed(refund, r, {"pending_admin_approval"}) # {}
          /\ reg[r] = "refund_failed" => Backed(refund, r, {"failed"}) # {}
    /\ report.read = "payments" => report.revenue <= Fee * Cardinality(Payers)
    /\ Sheets!NetNotOverstated

LEMMA SameSize == ASSUME NEW S PROVE Sheets!Cardinality(S) = Cardinality(S)
BY DEF Sheets!Cardinality, Cardinality

LEMMA Amount ==
    ASSUME SheetWorld, Sheets!TypeOK
    PROVE  /\ \A i \in Refunds : refund[i] # Sheets!NoRefund =>
                 /\ refund[i] \in [of : Regs, amount : Parts, status : Sheets!RefundStatus]
                 /\ refund[i].of \in Regs /\ refund[i].amount \in Nat /\ refund[i].status \in Sheets!RefundStatus
           /\ \A i \in Refunds : refund[i].status \in Sheets!RefundStatus => refund[i] # Sheets!NoRefund
           /\ \A r \in Regs : \A a :
                 /\ Backed(refund, r, a) \in SUBSET Refunds
                 /\ IsFiniteSet(Backed(refund, r, a))
                 /\ \A i \in Backed(refund, r, a) : RefundAmounts(refund)[i] \in Nat
<1>1. ASSUME NEW i \in Refunds, refund[i] # Sheets!NoRefund
      PROVE  /\ refund[i] \in [of : Regs, amount : Parts, status : Sheets!RefundStatus]
             /\ refund[i].of \in Regs /\ refund[i].amount \in Nat /\ refund[i].status \in Sheets!RefundStatus
  <2>1. refund[i] \in [of : Regs, amount : Parts, status : Sheets!RefundStatus] BY <1>1 DEF Sheets!TypeOK
  <2> QED BY <2>1 DEF SheetWorld
<1>2. ASSUME NEW i \in Refunds, refund[i].status \in Sheets!RefundStatus PROVE refund[i] # Sheets!NoRefund
  BY <1>2 DEF Sheets!NoRefund, Sheets!RefundStatus
<1>3. ASSUME NEW r \in Regs, NEW a
      PROVE  /\ Backed(refund, r, a) \in SUBSET Refunds
             /\ IsFiniteSet(Backed(refund, r, a))
             /\ \A i \in Backed(refund, r, a) : RefundAmounts(refund)[i] \in Nat
  <2>1. Backed(refund, r, a) \in SUBSET Refunds BY DEF Backed
  <2>2. IsFiniteSet(Backed(refund, r, a)) BY <2>1, FS_Subset DEF SheetWorld
  <2>3. \A i \in Backed(refund, r, a) : RefundAmounts(refund)[i] \in Nat BY <1>1 DEF Backed, RefundAmounts
  <2> QED BY <2>1, <2>2, <2>3
<1> QED BY <1>1, <1>2, <1>3

\* What has been paid back is no more than what was paid.
LEMMA PaidBack ==
    ASSUME SheetWorld, ReportInv
    PROVE  /\ Sheets!AmountOf(Sheets!ProcessedRefunds) \in Nat
           /\ Sheets!AmountOf(Sheets!ProcessedRefunds) <= Fee * Cardinality(Payers)
           /\ Cardinality(Payers) \in Nat
<1> DEFINE A == RefundAmounts(refund)
           Of(P) == {i \in Refunds : refund[i].status = "processed" /\ refund[i].of \in P}
           T == {P \in SUBSET Payers : ~(SumOf(A, Of(P)) <= Fee * Cardinality(P))}
<1> USE DEF SheetWorld
<1>1. Payers \in SUBSET Regs /\ IsFiniteSet(Payers) /\ Cardinality(Payers) \in Nat
  BY FS_Subset, FS_CardinalityType DEF Payers, Sheets!Paid
<1>2. \A P : Of(P) \in SUBSET Refunds /\ IsFiniteSet(Of(P)) BY FS_Subset
<1>3. ASSUME NEW P, NEW i \in Of(P) PROVE refund[i] # Sheets!NoRefund /\ A[i] \in Nat
  BY Amount DEF ReportInv, Sheets!RefundStatus, RefundAmounts
<1>4. Sheets!ProcessedRefunds = Of(Payers)
  BY <1>3, Amount DEF ReportInv, Payers, Sheets!Paid, Sheets!ProcessedRefunds, Sheets!RefundStatus
<1>5. Sheets!AmountOf(Sheets!ProcessedRefunds) = SumOf(A, Of(Payers)) BY <1>2, <1>4, AmountIsSum
<1> HIDE DEF A, Of
<1>6. SumOf(A, Of(Payers)) \in Nat BY <1>2, <1>3, SumOfNat
<1>7. SumOf(A, Of(Payers)) <= Fee * Cardinality(Payers)
  <2> SUFFICES ASSUME ~(SumOf(A, Of(Payers)) <= Fee * Cardinality(Payers)) PROVE FALSE OBVIOUS
  <2>1. T \in SUBSET (SUBSET Payers) /\ T # {} OBVIOUS
  <2>2. PICK P \in T : \A Q \in SUBSET P : Q # P => Q \notin T
    <3> HIDE DEF T
    <3> QED BY <1>1, <2>1, SmallestSubset
  <2>3. P \in SUBSET Payers /\ IsFiniteSet(P) BY <1>1, FS_Subset
  <2>4. P # {}
    <3> SUFFICES ASSUME P = {} PROVE FALSE OBVIOUS
    <3>1. Of(P) = {} BY DEF Of
    <3>2. SumOf(A, Of(P)) = 0 BY <3>1, SumOfNothing
    <3>3. Cardinality(P) = 0 BY FS_EmptySet
    <3> QED BY <3>2, <3>3
  <2>5. PICK r \in P : r \in Regs BY <1>1, <2>4
  <2>6. Of(P) = Of(P \ {r}) \cup Of({r}) /\ Of(P \ {r}) \cap Of({r}) = {} BY <2>5 DEF Of
  <2>7. SumOf(A, Of(P \ {r}) \cup Of({r})) = SumOf(A, Of(P \ {r})) + SumOf(A, Of({r}))
    <3>1. PICK X, Y : X = Of(P \ {r}) /\ Y = Of({r}) OBVIOUS
    <3>2. IsFiniteSet(X) /\ IsFiniteSet(Y) /\ X \cap Y = {} BY <1>2, <2>6, <3>1
    <3>3. \A i \in X \cup Y : A[i] \in Int BY <1>3, <3>1
    <3>4. SumOf(A, X \cup Y) = SumOf(A, X) + SumOf(A, Y)
      <4> HIDE DEF T
      <4> QED BY <3>2, <3>3, SumOfApart
    <3> QED BY <3>1, <3>4, Zenon
  <2>8. SumOf(A, Of({r})) <= Fee
    <3>1. Of({r}) \in SUBSET Backed(refund, r, Asked) BY <1>3 DEF Of, Backed, Asked
    <3>2. SumOf(A, Of({r})) <= SumOf(A, Backed(refund, r, Asked)) BY <2>5, <3>1, Amount, SumOfPart DEF ReportInv, A
    <3>3. SumOf(A, Backed(refund, r, Asked)) <= Fee BY <2>5 DEF ReportInv, A
    <3>4. SumOf(A, Backed(refund, r, Asked)) \in Nat BY <2>5, Amount, SumOfNat DEF ReportInv, A
    <3>5. SumOf(A, Of({r})) \in Nat BY <1>2, <1>3, SumOfNat
    <3> QED BY <3>2, <3>3, <3>4, <3>5
  <2>9. P \ {r} \in SUBSET P /\ P \ {r} # P /\ P \ {r} \in SUBSET Payers BY <2>3, <2>5
  <2>10. SumOf(A, Of(P \ {r})) <= Fee * Cardinality(P \ {r}) BY <2>2, <2>9
  <2>11. Cardinality(P \ {r}) = Cardinality(P) - 1 /\ Cardinality(P) \in Nat BY <2>3, <2>5, FS_RemoveElement, FS_CardinalityType
  <2>12. SumOf(A, Of(P \ {r})) \in Nat /\ SumOf(A, Of({r})) \in Nat BY <1>2, <1>3, SumOfNat
  <2>13. Fee * (Cardinality(P) - 1) + Fee = Fee * Cardinality(P) BY <2>11
  <2>14. SumOf(A, Of(P)) = SumOf(A, Of(P \ {r})) + SumOf(A, Of({r})) BY <2>6, <2>7, Zenon
  <2>15. Fee * Cardinality(P) \in Int /\ Fee * (Cardinality(P) - 1) \in Int BY <2>11
  <2>16. SumOf(A, Of(P \ {r})) <= Fee * (Cardinality(P) - 1) BY <2>10, <2>11
  <2>17. SumOf(A, Of(P)) <= Fee * Cardinality(P) BY <2>8, <2>12, <2>13, <2>14, <2>15, <2>16
  <2> QED BY <2>2, <2>17
<1> QED BY <1>1, <1>5, <1>6, <1>7

LEMMA ReportsStart == ASSUME SheetWorld, Sheets!Init PROVE ReportInv
<1> USE DEF Sheets!Init
<1>1. Sheets!TypeOK
  BY DEF SheetWorld, Sheets!TypeOK, Sheets!RegistrationStatus, Sheets!PaymentStatus, Sheets!TicketStatus
<1>2. \A r \in Regs : SumOf(RefundAmounts(refund), Backed(refund, r, Asked)) <= Fee
  <2>1. \A r \in Regs : Backed(refund, r, Asked) = {} BY DEF Backed
  <2> QED BY <2>1, SumOfNothing DEF SheetWorld
<1>3. report.read = "nothing" BY DEF Sheets!Idle
<1> QED BY <1>1, <1>2, <1>3 DEF ReportInv, Sheets!NetNotOverstated

\* The revenue that was read is covered as long as nobody stops to be a payer.
LEMMA RevenueKept ==
    ASSUME SheetWorld, ReportInv, Sheets!TypeOK', Payers \subseteq Payers', UNCHANGED report
    PROVE  /\ report'.read = "payments" => report'.revenue <= Fee * Cardinality(Payers')
           /\ Sheets!NetNotOverstated'
<1> SUFFICES ASSUME report.read = "payments" PROVE report.revenue <= Fee * Cardinality(Payers')
  BY DEF ReportInv, Sheets!NetNotOverstated
<1>1. report.revenue \in Nat BY DEF ReportInv, Sheets!TypeOK, Sheets!Idle
<1>2. report.revenue <= Fee * Cardinality(Payers) BY DEF ReportInv
<1>3. Payers' \in SUBSET Regs /\ IsFiniteSet(Payers') BY FS_Subset DEF Payers, Sheets!Paid, SheetWorld
<1>4. Cardinality(Payers) <= Cardinality(Payers') /\ Cardinality(Payers) \in Nat /\ Cardinality(Payers') \in Nat
  BY <1>3, FS_Subset, FS_CardinalityType
<1>5. Fee * Cardinality(Payers) <= Fee * Cardinality(Payers') BY <1>4 DEF SheetWorld
<1>6. Fee * Cardinality(Payers) \in Int /\ Fee * Cardinality(Payers') \in Int BY <1>4 DEF SheetWorld
<1> QED BY <1>1, <1>2, <1>5, <1>6

LEMMA BookingStep ==
    ASSUME SheetWorld, ReportInv, NEW r \in Regs, Sheets!Register(r) \/ Sheets!Verify(r) \/ Sheets!CancelUnpaid(r)
    PROVE  ReportInv'
<1>1. refund' = refund /\ report' = report
  BY DEF Sheets!Register, Sheets!Verify, Sheets!CancelUnpaid
<1>2. Sheets!TypeOK'
  <2> USE DEF ReportInv, SheetWorld, Sheets!TypeOK, Sheets!RegistrationStatus, Sheets!PaymentStatus, Sheets!TicketStatus
  <2>1. CASE Sheets!Register(r) BY <2>1 DEF Sheets!Register
  <2>2. CASE Sheets!CancelUnpaid(r) BY <2>2 DEF Sheets!CancelUnpaid
  <2>3. CASE Sheets!Verify(r) BY <2>3 DEF Sheets!Verify
  <2> QED BY <2>1, <2>2, <2>3
<1>3. pay[r] \in {"none", "initiated"}
  BY DEF ReportInv, Sheets!Register, Sheets!Verify, Sheets!CancelUnpaid
<1>4. reg'[r] \in {"pending_payment", "confirmed", "cancelled"} /\ (reg'[r] = "pending_payment" => pay'[r] = "initiated")
  BY DEF ReportInv, Sheets!TypeOK, Sheets!Register, Sheets!Verify, Sheets!CancelUnpaid
<1>5. \A s \in Regs : s # r => reg'[s] = reg[s] /\ pay'[s] = pay[s]
  BY DEF ReportInv, Sheets!TypeOK, Sheets!Register, Sheets!Verify, Sheets!CancelUnpaid
<1>6. \A i \in Refunds : refund[i] # Sheets!NoRefund => refund[i].of \in Regs BY Amount DEF ReportInv
<1>7. \A i \in Refunds : refund[i] # Sheets!NoRefund => pay'[refund[i].of] \in {"verified", "refunded"}
  BY <1>3, <1>5, <1>6 DEF ReportInv
<1>8. \A s \in Regs :
         /\ reg'[s] = "none" => pay'[s] = "none"
         /\ reg'[s] = "pending_payment" => pay'[s] = "initiated"
         /\ reg'[s] = "refund_pending" => Backed(refund, s, {"pending_admin_approval"}) # {}
         /\ reg'[s] = "refund_failed" => Backed(refund, s, {"failed"}) # {}
  <2> TAKE s \in Regs
  <2>1. CASE s = r BY <1>4, <2>1
  <2>2. CASE s # r BY <1>5, <2>2 DEF ReportInv
  <2> QED BY <2>1, <2>2
<1>9. Payers \subseteq Payers' BY <1>3, <1>5 DEF Payers, Sheets!Paid
<1>10. (report.read = "payments" => report.revenue <= Fee * Cardinality(Payers'))
  BY <1>1, <1>2, <1>9, RevenueKept
<1>11. Sheets!NetNotOverstated' BY <1>1, <1>2, <1>9, RevenueKept
<1>12. \A s \in Regs : SumOf(RefundAmounts(refund), Backed(refund, s, Asked)) <= Fee BY DEF ReportInv
<1> QED BY <1>1, <1>2, <1>7, <1>8, <1>10, <1>11, <1>12 DEF ReportInv

LEMMA EntranceStep ==
    ASSUME SheetWorld, ReportInv, NEW t \in Tickets, Sheets!CheckIn(t) \/ Sheets!Revoke(t)
    PROVE  ReportInv'
<1>1. refund' = refund /\ report' = report /\ pay' = pay BY DEF Sheets!CheckIn, Sheets!Revoke
<1>2. OfReg[t] \in Regs BY DEF SheetWorld
<1>3. Sheets!TypeOK'
  <2> USE DEF ReportInv, SheetWorld, Sheets!TypeOK, Sheets!RegistrationStatus, Sheets!TicketStatus
  <2>1. CASE Sheets!CheckIn(t) BY <1>2, <2>1 DEF Sheets!CheckIn
  <2>2. CASE Sheets!Revoke(t) BY <2>2 DEF Sheets!Revoke
  <2> QED BY <2>1, <2>2
<1>4. \A s \in Regs : reg'[s] = reg[s] \/ reg'[s] = "checked_in"
  BY DEF ReportInv, Sheets!TypeOK, Sheets!CheckIn, Sheets!Revoke
<1>5. Payers \subseteq Payers' BY <1>1 DEF Payers, Sheets!Paid
<1>6. (report.read = "payments" => report.revenue <= Fee * Cardinality(Payers'))
  BY <1>1, <1>3, <1>5, RevenueKept
<1>7. Sheets!NetNotOverstated' BY <1>1, <1>3, <1>5, RevenueKept
<1>8. \A s \in Regs :
         /\ reg'[s] = "none" => pay[s] = "none"
         /\ reg'[s] = "pending_payment" => pay[s] = "initiated"
         /\ reg'[s] = "refund_pending" => Backed(refund, s, {"pending_admin_approval"}) # {}
         /\ reg'[s] = "refund_failed" => Backed(refund, s, {"failed"}) # {}
  BY <1>4 DEF ReportInv
<1>9. \A s \in Regs : SumOf(RefundAmounts(refund), Backed(refund, s, Asked)) <= Fee BY DEF ReportInv
<1>10. \A i \in Refunds : refund[i] # Sheets!NoRefund => pay[refund[i].of] \in {"verified", "refunded"} BY DEF ReportInv
<1> QED BY <1>1, <1>3, <1>6, <1>7, <1>8, <1>9, <1>10 DEF ReportInv

LEMMA RequestRefundStep ==
    ASSUME SheetWorld, ReportInv, NEW r \in Regs, NEW i \in Refunds, NEW amount \in Parts, Sheets!RequestRefund(r, i, amount)
    PROVE  ReportInv'
<1> DEFINE new == [of |-> r, amount |-> amount, status |-> "pending_admin_approval"]
<1>1. /\ pay[r] = "verified" /\ refund[i] = Sheets!NoRefund
      /\ Sheets!Refunded(r) + amount <= Fee
      /\ refund' = [refund EXCEPT ![i] = new]
      /\ reg' = [reg EXCEPT ![r] = IF @ = "cancelled" THEN @ ELSE "refund_pending"]
      /\ pay' = pay /\ ticket' = ticket /\ scans' = scans /\ report' = report
  BY DEF Sheets!RequestRefund
<1>2. /\ new # Sheets!NoRefund /\ new.of = r /\ new.amount = amount /\ new.status = "pending_admin_approval"
      /\ new \in [of : Regs, amount : Parts, status : Sheets!RefundStatus]
  BY DEF Sheets!NoRefund, Sheets!RefundStatus
<1>3. DOMAIN refund = Refunds BY DEF ReportInv, Sheets!TypeOK
<1>4. refund'[i] = new BY <1>1, <1>3
<1>5. \A j \in Refunds : j # i => refund'[j] = refund[j] BY <1>1, <1>3
<1>6. amount \in Nat BY DEF SheetWorld
<1> HIDE DEF new
<1>7. Sheets!TypeOK' BY <1>1, <1>2 DEF ReportInv, Sheets!TypeOK, Sheets!RegistrationStatus
<1>8. \A s \in Regs : reg'[s] = IF s = r /\ reg[s] # "cancelled" THEN "refund_pending" ELSE reg[s]
  BY <1>1 DEF ReportInv, Sheets!TypeOK
<1>9. ASSUME NEW s \in Regs, NEW a
      PROVE  Backed(refund', s, a) = Backed(refund, s, a) \cup (IF s = r /\ "pending_admin_approval" \in a THEN {i} ELSE {})
  BY <1>1, <1>2, <1>4, <1>5 DEF Backed
<1>10. \A s \in Regs : SumOf(RefundAmounts(refund'), Backed(refund', s, Asked)) <= Fee
  <2> TAKE s \in Regs
  <2> DEFINE A == RefundAmounts(refund)
             B == RefundAmounts(refund')
             S == Backed(refund, s, Asked)
  <2>1. i \notin S /\ S \in SUBSET Refunds /\ IsFiniteSet(S) BY <1>1, Amount DEF ReportInv, Backed
  <2>2. \A j \in S : A[j] = B[j] /\ A[j] \in Nat BY <1>5, <2>1, Amount DEF ReportInv, RefundAmounts
  <2>3. B[i] = amount BY <1>2, <1>4 DEF RefundAmounts
  <2>4. SumOf(A, S) <= Fee BY DEF ReportInv
  <2>5. CASE s # r
    <3>1. Backed(refund', s, Asked) = S BY <1>9, <2>5
    <3> HIDE DEF A, B, S
    <3>2. SumOf(A, S) = SumOf(B, S) BY <2>1, <2>2, SumOfSame
    <3> QED BY <2>4, <3>1, <3>2 DEF B
  <2>6. CASE s = r
    <3>1. Backed(refund', s, Asked) = S \cup {i} BY <1>9, <2>6 DEF Asked
    <3>2. Sheets!Refunded(r) = SumOf(A, S)
      <4>1. Sheets!RefundsOf(r, {"pending_admin_approval", "processed"}) = S BY <2>6 DEF Sheets!RefundsOf, Backed, Asked
      <4> QED BY <2>1, <4>1, AmountIsSum DEF SheetWorld, Sheets!Refunded
    <3> HIDE DEF A, B, S
    <3>3. SumOf(A, S) = SumOf(B, S) BY <2>1, <2>2, SumOfSame
    <3>4. PICK W : W = S \cup {i} OBVIOUS
    <3>5. W \ {i} = S /\ i \in W /\ IsFiniteSet(W) BY <2>1, <3>4, FS_AddElement
    <3>6. \A j \in W : B[j] \in Int BY <1>6, <2>2, <2>3, <3>4
    <3>7. SumOf(B, W) = B[i] + SumOf(B, S) BY <3>5, <3>6, SumOfOneMore
    <3>8. SumOf(A, S) \in Nat BY <2>1, <2>2, SumOfNat
    <3>9. SumOf(B, W) <= Fee BY <1>1, <1>6, <2>3, <3>2, <3>3, <3>7, <3>8 DEF SheetWorld
    <3> QED BY <3>1, <3>4, <3>9 DEF B
  <2> QED BY <2>5, <2>6
<1>11. \A j \in Refunds : refund'[j] # Sheets!NoRefund => pay[refund'[j].of] \in {"verified", "refunded"}
  BY <1>1, <1>2, <1>4, <1>5 DEF ReportInv
<1>12. ASSUME NEW s \in Regs
       PROVE  /\ reg'[s] = "none" => pay[s] = "none"
              /\ reg'[s] = "pending_payment" => pay[s] = "initiated"
              /\ reg'[s] = "refund_pending" => Backed(refund', s, {"pending_admin_approval"}) # {}
              /\ reg'[s] = "refund_failed" => Backed(refund', s, {"failed"}) # {}
  BY <1>8, <1>9 DEF ReportInv
<1>13. Payers \subseteq Payers' BY <1>1 DEF Payers, Sheets!Paid
<1>14. (report.read = "payments" => report.revenue <= Fee * Cardinality(Payers'))
  BY <1>1, <1>7, <1>13, RevenueKept
<1>15. Sheets!NetNotOverstated' BY <1>1, <1>7, <1>13, RevenueKept
<1> QED BY <1>1, <1>7, <1>10, <1>11, <1>12, <1>14, <1>15 DEF ReportInv

\* A decision on a refund that waits for one: only its status changes.
LEMMA DecisionStep ==
    ASSUME SheetWorld, ReportInv, NEW i \in Refunds, Sheets!ProcessRefund(i) \/ Sheets!FailRefund(i)
    PROVE  ReportInv'
<1> DEFINE r == refund[i].of
<1>1. /\ refund[i].status = "pending_admin_approval" /\ pay[r] = "verified"
      /\ report' = report /\ scans' = scans
  BY DEF Sheets!ProcessRefund, Sheets!FailRefund
<1>2. PICK status \in {"processed", "failed"} :
         /\ refund' = [refund EXCEPT ![i].status = status]
         /\ status = "processed" <=> Sheets!ProcessRefund(i)
  <2>1. CASE Sheets!ProcessRefund(i) BY <2>1 DEF Sheets!ProcessRefund
  <2>2. CASE Sheets!FailRefund(i) /\ ~Sheets!ProcessRefund(i)
    <3>1. refund' = [refund EXCEPT ![i].status = "failed"] BY <2>2 DEF Sheets!FailRefund
    <3> QED BY <2>2, <3>1
  <2> QED BY <2>1, <2>2
<1>3. /\ refund[i] # Sheets!NoRefund /\ r \in Regs
      /\ refund[i] \in [of : Regs, amount : Parts, status : Sheets!RefundStatus]
  BY <1>1, Amount DEF ReportInv, Sheets!RefundStatus
<1>4. DOMAIN refund = Refunds BY DEF ReportInv, Sheets!TypeOK
<1>5. \A j \in Refunds : j # i => refund'[j] = refund[j] BY <1>2, <1>4
<1>6. /\ refund'[i] \in [of : Regs, amount : Parts, status : Sheets!RefundStatus]
      /\ refund'[i].of = r /\ refund'[i].amount = refund[i].amount /\ refund'[i].status = status
  BY <1>2, <1>3, <1>4 DEF Sheets!RefundStatus
<1>7. refund'[i] # Sheets!NoRefund BY <1>6 DEF Sheets!NoRefund
<1> HIDE DEF r
<1>8. reg' \in [Regs -> Sheets!RegistrationStatus] /\ pay' \in [Regs -> Sheets!PaymentStatus]
      /\ ticket' \in [Tickets -> Sheets!TicketStatus]
  <2> USE DEF ReportInv, Sheets!TypeOK, Sheets!RegistrationStatus, Sheets!PaymentStatus, Sheets!TicketStatus
  <2>1. CASE Sheets!ProcessRefund(i)
    <3>1. CASE Sheets!Refunded(r) >= Fee
      <4>1. /\ pay' = [pay EXCEPT ![r] = "refunded"] /\ reg' = [reg EXCEPT ![r] = "cancelled"]
            /\ ticket' = [t \in Tickets |-> IF OfReg[t] = r /\ ticket[t] # "revoked" THEN "cancelled" ELSE ticket[t]]
        BY <2>1, <3>1 DEF Sheets!ProcessRefund, r
      <4> QED BY <4>1
    <3>2. CASE ~(Sheets!Refunded(r) >= Fee)
      <4>1. reg' = [reg EXCEPT ![r] = IF @ = "refund_pending" THEN "confirmed" ELSE @] /\ pay' = pay /\ ticket' = ticket
        BY <2>1, <3>2 DEF Sheets!ProcessRefund, r
      <4> QED BY <4>1
    <3> QED BY <3>1, <3>2
  <2>2. CASE Sheets!FailRefund(i) BY <2>2 DEF Sheets!FailRefund
  <2> QED BY <2>1, <2>2
<1>9. refund' \in [Refunds -> [of : Regs, amount : Parts, status : Sheets!RefundStatus] \cup {Sheets!NoRefund}]
  <2>1. DOMAIN refund' = Refunds /\ refund' = [j \in Refunds |-> refund'[j]] BY <1>2, <1>4
  <2>2. \A j \in Refunds : refund'[j] \in [of : Regs, amount : Parts, status : Sheets!RefundStatus] \cup {Sheets!NoRefund}
    BY <1>5, <1>6 DEF ReportInv, Sheets!TypeOK
  <2> QED BY <2>1, <2>2
<1>10. Sheets!TypeOK' BY <1>1, <1>8, <1>9 DEF ReportInv, Sheets!TypeOK
<1>11. /\ \A s \in Regs : s # r => reg'[s] = reg[s] /\ pay'[s] = pay[s]
       /\ pay'[r] \in {"verified", "refunded"}
       /\ reg'[r] = "refund_pending" => FALSE
       /\ reg'[r] = "refund_failed" => status = "failed" \/ reg[r] = "refund_failed"
       /\ reg'[r] \in {"none", "pending_payment"} => reg[r] = reg'[r]
  <2> USE <1>1, <1>3 DEF ReportInv, Sheets!TypeOK
  <2>1. CASE Sheets!ProcessRefund(i)
    <3>1. CASE Sheets!Refunded(r) >= Fee
      <4>1. pay' = [pay EXCEPT ![r] = "refunded"] /\ reg' = [reg EXCEPT ![r] = "cancelled"]
        BY <2>1, <3>1 DEF Sheets!ProcessRefund, r
      <4> QED BY <4>1
    <3>2. CASE ~(Sheets!Refunded(r) >= Fee)
      <4>1. reg' = [reg EXCEPT ![r] = IF @ = "refund_pending" THEN "confirmed" ELSE @] /\ pay' = pay
        BY <2>1, <3>2 DEF Sheets!ProcessRefund, r
      <4> QED BY <4>1
    <3> QED BY <3>1, <3>2
  <2>2. CASE ~Sheets!ProcessRefund(i)
    <3>1. status = "failed" BY <1>2, <2>2
    <3>2. reg' = [reg EXCEPT ![r] = IF @ = "refund_pending" THEN "refund_failed" ELSE @] /\ pay' = pay
      BY <2>2 DEF Sheets!FailRefund, r
    <3> QED BY <3>1, <3>2
  <2> QED BY <2>1, <2>2
<1>12. ASSUME NEW s \in Regs
       PROVE  /\ Backed(refund', s, Asked) \subseteq Backed(refund, s, Asked)
              /\ s # r => \A a : Backed(refund', s, a) = Backed(refund, s, a)
              /\ Backed(refund, s, {"failed"}) \subseteq Backed(refund', s, {"failed"})
              /\ s = r /\ status = "failed" => i \in Backed(refund', s, {"failed"})
  <2> USE <1>1, <1>3, <1>5, <1>6, <1>7 DEF Backed
  <2>1. Backed(refund', s, Asked) \subseteq Backed(refund, s, Asked) BY DEF Asked, r
  <2>2. s # r => \A a : Backed(refund', s, a) = Backed(refund, s, a) BY DEF r
  <2>3. Backed(refund, s, {"failed"}) \subseteq Backed(refund', s, {"failed"}) OBVIOUS
  <2>4. s = r /\ status = "failed" => i \in Backed(refund', s, {"failed"}) OBVIOUS
  <2> QED BY <2>1, <2>2, <2>3, <2>4
<1>13. \A s \in Regs : SumOf(RefundAmounts(refund'), Backed(refund', s, Asked)) <= Fee
  <2> TAKE s \in Regs
  <2> DEFINE A == RefundAmounts(refund)
             B == RefundAmounts(refund')
             S == Backed(refund, s, Asked)
             Z == Backed(refund', s, Asked)
  <2>1. A = B
    <3>1. \A j \in Refunds : refund[j].amount = refund'[j].amount BY <1>5, <1>6
    <3> QED BY <3>1 DEF RefundAmounts
  <2>2. IsFiniteSet(S) /\ \A j \in S : A[j] \in Nat BY Amount DEF ReportInv
  <2>3. Z \in SUBSET S BY <1>12
  <2>4. SumOf(A, S) <= Fee BY DEF ReportInv
  <2> HIDE DEF A, B, S, Z
  <2>5. SumOf(A, Z) <= SumOf(A, S) BY <2>2, <2>3, SumOfPart
  <2>6. SumOf(A, Z) \in Nat /\ SumOf(A, S) \in Nat BY <2>2, <2>3, SumOfNat, FS_Subset
  <2>7. SumOf(A, Z) <= Fee BY <2>4, <2>5, <2>6 DEF SheetWorld
  <2> QED BY <2>1, <2>7 DEF B, Z
<1>14. \A j \in Refunds : refund'[j] # Sheets!NoRefund => pay'[refund'[j].of] \in {"verified", "refunded"}
  <2> SUFFICES ASSUME NEW j \in Refunds, refund'[j] # Sheets!NoRefund PROVE pay'[refund'[j].of] \in {"verified", "refunded"}
    OBVIOUS
  <2>1. CASE j = i BY <1>6, <1>11, <2>1
  <2>2. CASE j # i
    <3>1. refund[j] # Sheets!NoRefund /\ refund'[j].of = refund[j].of /\ refund[j].of \in Regs
      BY <1>5, <2>2, Amount DEF ReportInv
    <3>2. pay[refund[j].of] \in {"verified", "refunded"} BY <3>1 DEF ReportInv
    <3> QED BY <1>11, <3>1, <3>2
  <2> QED BY <2>1, <2>2
<1>15. ASSUME NEW s \in Regs
       PROVE  /\ reg'[s] = "none" => pay'[s] = "none"
              /\ reg'[s] = "pending_payment" => pay'[s] = "initiated"
              /\ reg'[s] = "refund_pending" => Backed(refund', s, {"pending_admin_approval"}) # {}
              /\ reg'[s] = "refund_failed" => Backed(refund', s, {"failed"}) # {}
  <2>1. CASE s = r
    <3>1. reg[r] # "none" /\ reg[r] # "pending_payment" BY <1>1, <2>1 DEF ReportInv, r
    <3> QED BY <1>11, <1>12, <2>1, <3>1 DEF ReportInv
  <2>2. CASE s # r BY <1>11, <1>12, <2>2 DEF ReportInv
  <2> QED BY <2>1, <2>2
<1>16. Payers \subseteq Payers' BY <1>1, <1>3, <1>11 DEF Payers, Sheets!Paid
<1>17. (report.read = "payments" => report.revenue <= Fee * Cardinality(Payers'))
  BY <1>1, <1>10, <1>16, RevenueKept
<1>18. Sheets!NetNotOverstated' BY <1>1, <1>10, <1>16, RevenueKept
<1> QED BY <1>1, <1>10, <1>13, <1>14, <1>15, <1>17, <1>18 DEF ReportInv

LEMMA ReportStep ==
    ASSUME SheetWorld, ReportInv, Sheets!ReadPayments \/ Sheets!ReadRefunds \/ Sheets!Close
    PROVE  ReportInv'
<1>1. /\ reg' = reg /\ pay' = pay /\ refund' = refund /\ ticket' = ticket /\ scans' = scans
  BY DEF Sheets!ReadPayments, Sheets!ReadRefunds, Sheets!Close
<1> DEFINE paid == Sheets!AmountOf(Sheets!ProcessedRefunds)
           kept == Sheets!Paid({"verified"})
<1>2. Cardinality(kept) <= Cardinality(Payers) /\ Cardinality(kept) \in Nat /\ Cardinality(Payers) \in Nat
  <2>1. Payers \in SUBSET Regs /\ kept \in SUBSET Payers BY DEF Payers, Sheets!Paid
  <2>2. IsFiniteSet(Payers) BY <2>1, FS_Subset DEF SheetWorld
  <2> QED BY <2>1, <2>2, FS_Subset, FS_CardinalityType
<1>3. paid \in Nat /\ paid <= Fee * Cardinality(Payers) BY PaidBack
<1>4. Fee * Cardinality(kept) <= Fee * Cardinality(Payers) /\ Fee * Cardinality(kept) \in Nat
      /\ Fee * Cardinality(Payers) \in Nat
  BY <1>2 DEF SheetWorld
<1>5. Sheets!VerifiedSum = Fee * Cardinality(kept) BY SameSize DEF Sheets!VerifiedSum
<1>6. Sheets!Held = Fee * Cardinality(Payers) - paid BY SameSize DEF Sheets!Held, Payers
<1> HIDE DEF paid, kept
<1>7. CASE Sheets!ReadPayments
  <2>1. /\ report'.read = "payments" /\ report'.revenue = Fee * Cardinality(kept)
        /\ report' \in [read : {"payments", "all"}, revenue : Nat, refunded : Nat, held : Nat]
    BY <1>4, <1>5, <1>7 DEF Sheets!ReadPayments
  <2>2. Sheets!TypeOK' BY <1>1, <2>1 DEF ReportInv, Sheets!TypeOK
  <2>3. Payers' = Payers BY <1>1 DEF Payers, Sheets!Paid
  <2>4. Sheets!NetNotOverstated' BY <2>1 DEF Sheets!NetNotOverstated
  <2>5. report'.read = "payments" => report'.revenue <= Fee * Cardinality(Payers') BY <1>4, <2>1, <2>3
  <2> QED BY <1>1, <2>2, <2>4, <2>5 DEF ReportInv
<1>8. CASE Sheets!ReadRefunds
  <2>1. report.read = "payments" /\ report' = [report EXCEPT !.read = "all", !.refunded = paid, !.held = Sheets!Held]
    BY <1>8 DEF Sheets!ReadRefunds, paid
  <2>2. report \in [read : {"payments", "all"}, revenue : Nat, refunded : Nat, held : Nat]
    BY <2>1 DEF ReportInv, Sheets!TypeOK, Sheets!Idle
  <2>3. Sheets!Held \in Nat BY <1>3, <1>4, <1>6
  <2>4. /\ report' \in [read : {"payments", "all"}, revenue : Nat, refunded : Nat, held : Nat]
        /\ report'.read = "all" /\ report'.revenue = report.revenue /\ report'.refunded = paid
        /\ report'.held = Sheets!Held
    BY <1>3, <2>1, <2>2, <2>3
  <2>5. report.revenue <= Fee * Cardinality(Payers) BY <2>1 DEF ReportInv
  <2>6. report.revenue - paid <= Sheets!Held BY <1>3, <1>4, <1>6, <2>2, <2>5
  <2>7. Sheets!NetNotOverstated' BY <2>4, <2>6 DEF Sheets!NetNotOverstated
  <2>8. Sheets!TypeOK' BY <1>1, <2>4 DEF ReportInv, Sheets!TypeOK
  <2> QED BY <1>1, <2>4, <2>7, <2>8 DEF ReportInv
<1>9. CASE Sheets!Close
  <2>1. report' = Sheets!Idle /\ report'.read = "nothing" BY <1>9 DEF Sheets!Close, Sheets!Idle
  <2>2. Sheets!TypeOK' BY <1>1, <2>1 DEF ReportInv, Sheets!TypeOK
  <2> QED BY <1>1, <2>1, <2>2 DEF ReportInv, Sheets!NetNotOverstated
<1> QED BY <1>7, <1>8, <1>9

\* A largest of two.
LEMMA NotNegative ==
    ASSUME NEW n \in Int
    PROVE  Sheets!Max({n, 0}) = IF n >= 0 THEN n ELSE 0
<1>1. PICK x : x = Sheets!Max({n, 0}) OBVIOUS
<1>2. \E y \in {n, 0} : \A z \in {n, 0} : y >= z
  <2>1. CASE n >= 0 BY <2>1
  <2>2. CASE ~(n >= 0)
    <3>1. \A z \in {n, 0} : 0 >= z BY <2>2
    <3> QED BY <3>1
  <2> QED BY <2>1, <2>2
<1>3. x \in {n, 0} /\ \A z \in {n, 0} : x >= z BY <1>1, <1>2 DEF Sheets!Max
<1>4. x >= n /\ x >= 0 /\ (x = n \/ x = 0) BY <1>3
<1> QED BY <1>1, <1>4

LEMMA AbsenteesListed == ASSUME SheetWorld, ReportInv PROVE Sheets!NoShowsListed
<1> DEFINE E == Sheets!AttendanceEligible
           C == Sheets!CheckedInTickets
           A == Sheets!Attended
           f == [t \in C |-> OfReg[t]]
<1>1. E \in SUBSET Regs /\ C \in SUBSET Tickets /\ A \in SUBSET E
  BY DEF Sheets!AttendanceEligible, Sheets!InStatus, Sheets!CheckedInTickets, Sheets!Attended
<1>2. IsFiniteSet(E) /\ IsFiniteSet(C) /\ IsFiniteSet(A) BY <1>1, FS_Subset DEF SheetWorld
<1>3. /\ Cardinality(E) \in Nat /\ Cardinality(C) \in Nat /\ Cardinality(A) \in Nat
      /\ Cardinality(A) <= Cardinality(E)
  BY <1>1, <1>2, FS_CardinalityType, FS_Subset
<1>4. \A t \in C : OfReg[t] \in A /\ Sheets!ValidTicket(t) /\ t \in Sheets!TicketsOf(OfReg[t])
  BY DEF Sheets!CheckedInTickets, Sheets!ValidTicket, Sheets!Attended, Sheets!TicketsOf, Sheets!AttendanceEligible,
     Sheets!InStatus
<1>5. f \in Surjection(C, A)
  <2>1. f \in [C -> A] BY <1>4
  <2>2. \A r \in A : \E t \in C : f[t] = r BY DEF Sheets!Attended, Sheets!TicketsOf
  <2> HIDE DEF f, C, A
  <2> QED BY <2>1, <2>2 DEF Surjection
<1>6. Cardinality(A) <= Cardinality(C) /\ (f \in Injection(C, A) => Cardinality(A) = Cardinality(C))
  <2> HIDE DEF f, C, A
  <2> QED BY <1>2, <1>5, FS_Surjection
<1>7. (\A r \in Regs : Cardinality({t \in Sheets!TicketsOf(r) : Sheets!ValidTicket(t)}) <= 1) => f \in Injection(C, A)
  <2> SUFFICES ASSUME \A r \in Regs : Cardinality({t \in Sheets!TicketsOf(r) : Sheets!ValidTicket(t)}) <= 1,
                      NEW t \in C, NEW u \in C, OfReg[t] = OfReg[u], t # u
               PROVE  FALSE
    <3>1. f \in [C -> A] BY <1>4
    <3> QED BY <3>1 DEF Injection, IsInjective
  <2> DEFINE r == OfReg[t]
             V == {w \in Sheets!TicketsOf(r) : Sheets!ValidTicket(w)}
  <2>1. r \in Regs BY <1>1, <1>4
  <2>2. Cardinality(V) <= 1 BY <2>1
  <2>3. t \in V /\ u \in V BY <1>4
  <2>4. V \in SUBSET Tickets BY DEF Sheets!TicketsOf
  <2>5. IsFiniteSet(V) BY <2>4, FS_Subset DEF SheetWorld
  <2> HIDE DEF V
  <2>6. IsFiniteSet(V \ {t}) /\ Cardinality(V \ {t}) = Cardinality(V) - 1 BY <2>3, <2>5, FS_RemoveElement
  <2>7. Cardinality(V \ {t}) # 0 BY <2>3, <2>6, FS_EmptySet
  <2>8. Cardinality(V \ {t}) \in Nat /\ Cardinality(V) \in Nat BY <2>5, <2>6, FS_CardinalityType
  <2> QED BY <2>2, <2>6, <2>7, <2>8
<1>8. Sheets!Cardinality(E \ A) = Cardinality(E) - Cardinality(A)
  <2>1. E \cap A = A BY <1>1
  <2>2. Cardinality(E \ A) = Cardinality(E) - Cardinality(A) BY <1>2, <2>1, FS_Difference
  <2> QED BY <2>2, SameSize
<1>9. Sheets!NoShows = IF Cardinality(E) - Cardinality(C) >= 0 THEN Cardinality(E) - Cardinality(C) ELSE 0
  <2>1. Sheets!NoShows = Sheets!Max({Cardinality(E) - Cardinality(C), 0}) BY SameSize DEF Sheets!NoShows
  <2> QED BY <1>3, <2>1, NotNegative
<1>10. (\A r \in Regs : Sheets!Cardinality({t \in Sheets!TicketsOf(r) : Sheets!ValidTicket(t)}) <= 1)
       => f \in Injection(C, A)
  BY <1>7, SameSize
<1> HIDE DEF E, C, A, f
<1>11. Sheets!NoShows <= Sheets!Cardinality(E \ A) BY <1>3, <1>6, <1>8, <1>9
<1>12. f \in Injection(C, A) => Sheets!NoShows = Sheets!Cardinality(E \ A)
  <2> SUFFICES ASSUME f \in Injection(C, A) PROVE Sheets!NoShows = Sheets!Cardinality(E \ A) OBVIOUS
  <2>1. Cardinality(A) = Cardinality(C) BY <1>6
  <2> QED BY <1>3, <1>8, <1>9, <2>1
<1> QED BY <1>10, <1>11, <1>12 DEF Sheets!NoShowsListed, E, A

LEMMA RefundsShown == ASSUME ReportInv PROVE Sheets!RefundsAlerted
<1>1. ASSUME Sheets!InStatus({"refund_pending"}) # {} PROVE "refunds_pending" \in Sheets!Alerts
  <2>1. PICK r \in Regs : reg[r] = "refund_pending" BY <1>1 DEF Sheets!InStatus
  <2>2. Backed(refund, r, {"pending_admin_approval"}) # {} BY <2>1 DEF ReportInv
  <2>3. Sheets!RefundsIn({"pending_admin_approval"}) # {} BY <2>2 DEF Backed, Sheets!RefundsIn
  <2> QED BY <2>3 DEF Sheets!Alerts
<1>2. ASSUME Sheets!InStatus({"refund_failed"}) # {} PROVE "refunds_failed" \in Sheets!Alerts
  <2>1. PICK r \in Regs : reg[r] = "refund_failed" BY <1>2 DEF Sheets!InStatus
  <2>2. Backed(refund, r, {"failed"}) # {} BY <2>1 DEF ReportInv
  <2>3. Sheets!RefundsIn({"failed"}) # {} BY <2>2 DEF Backed, Sheets!RefundsIn
  <2> QED BY <2>3 DEF Sheets!Alerts
<1> QED BY <1>1, <1>2 DEF Sheets!RefundsAlerted

LEMMA ReportsNext == ASSUME SheetWorld, ReportInv, [Sheets!Next]_Sheets!vars PROVE ReportInv'
<1>1. CASE UNCHANGED Sheets!vars
  BY <1>1 DEF Sheets!vars, ReportInv, Sheets!TypeOK, Sheets!NetNotOverstated, Payers, Sheets!Paid
<1>2. ASSUME NEW r \in Regs, Sheets!Register(r) \/ Sheets!Verify(r) \/ Sheets!CancelUnpaid(r) PROVE ReportInv'
  BY <1>2, BookingStep
<1>3. ASSUME NEW r \in Regs, NEW i \in Refunds, NEW amount \in Parts, Sheets!RequestRefund(r, i, amount)
      PROVE  ReportInv'
  BY <1>3, RequestRefundStep
<1>4. ASSUME NEW t \in Tickets, Sheets!CheckIn(t) \/ Sheets!Revoke(t) PROVE ReportInv'
  BY <1>4, EntranceStep
<1>5. ASSUME NEW i \in Refunds, Sheets!ProcessRefund(i) \/ Sheets!FailRefund(i) PROVE ReportInv'
  BY <1>5, DecisionStep
<1>6. CASE Sheets!ReadPayments \/ Sheets!ReadRefunds \/ Sheets!Close BY <1>6, ReportStep
<1> QED BY <1>1, <1>2, <1>3, <1>4, <1>5, <1>6 DEF Sheets!Next

\* A financial report never states more than the event held of its participants' money when it was complete, the
\* attendance report counts no absentee too many, and whoever waits for a refund, or was refused one, shows as an alert.
THEOREM ReportsHold ==
    ASSUME SheetWorld
    PROVE  Sheets!Spec => [](Sheets!TypeOK /\ Sheets!NetNotOverstated /\ Sheets!NoShowsListed /\ Sheets!RefundsAlerted)
<1>1. Sheets!Init => ReportInv BY ReportsStart
<1>2. ReportInv /\ [Sheets!Next]_Sheets!vars => ReportInv' BY ReportsNext
<1>3. ReportInv => Sheets!TypeOK /\ Sheets!NetNotOverstated /\ Sheets!NoShowsListed /\ Sheets!RefundsAlerted
  BY AbsenteesListed, RefundsShown DEF ReportInv
<1> QED BY <1>1, <1>2, <1>3, PTL DEF Sheets!Spec

-----------------------------------------------------------------------------
(* Stages, tables and votes of a competition: Competition.                 *)

\* There are finitely many entries and fixtures, stages are numbered from one on, a vote asks for somebody's vote, and
\* scores are numbers.
ContestWorld ==
    /\ IsFiniteSet(Entries) /\ IsFiniteSet(Fixtures) /\ 0 \notin Entries
    /\ DOMAIN StageType \subseteq Nat \ {0}
    /\ Threshold \in Nat \ {0}
    /\ Scores \subseteq Int /\ 0 \in Scores

\* The public votes before all else.
VoteComesFirst == \A o, p \in DOMAIN StageType : o < p => StageType[p] # "public_vote"

Standing == Contests!Orders \cup {0}

LEMMA EarliestIn ==
    ASSUME NEW S \in SUBSET Nat, S # {}
    PROVE  Contests!Min(S) \in S
<1>1. \E x \in S : \A y \in S : x <= y BY FirstNumber
<1> QED BY <1>1 DEF Contests!Min

LEMMA StageFields ==
    ASSUME ContestWorld, NEW c \in Contests!Entry
    PROVE  /\ c.reg \in Regs /\ c.status \in Contests!EntryStatus /\ c.stage \in Standing /\ c.stage \in Nat
           /\ c.votes \in 0 .. Contests!MaxVotes /\ c.votes \in Nat /\ c # Contests!Absent
           /\ c = [reg |-> c.reg, status |-> c.status, stage |-> c.stage, votes |-> c.votes]
<1>1. /\ c.reg \in Regs /\ c.status \in Contests!EntryStatus /\ c.stage \in Standing
      /\ c.votes \in 0 .. Contests!MaxVotes
      /\ c = [reg |-> c.reg, status |-> c.status, stage |-> c.stage, votes |-> c.votes]
  BY DEF Contests!Entry, Standing, Contests!None
<1>2. c.stage \in Nat /\ c.votes \in Nat BY <1>1 DEF ContestWorld, Standing, Contests!Orders, Contests!MaxVotes
<1>3. c # Contests!Absent
  <2>1. "votes" \in DOMAIN c BY <1>1
  <2>2. "votes" \notin DOMAIN Contests!Absent BY DEF Contests!Absent
  <2> QED BY <2>1, <2>2
<1> QED BY <1>1, <1>2, <1>3

LEMMA MatchFields ==
    ASSUME NEW c \in Contests!Match
    PROVE  /\ c.stage \in Contests!Orders /\ c.a \in Entries /\ c.b \in Entries \cup {0}
           /\ c.status \in {"scheduled", "completed"} /\ c.result \in Contests!Result \cup {"pending"}
           /\ c.winner \in Entries \cup {0} /\ c.scoreA \in Scores /\ c.scoreB \in Scores
           /\ c # Contests!Absent
           /\ c = [stage |-> c.stage, a |-> c.a, b |-> c.b, status |-> c.status, result |-> c.result,
                   winner |-> c.winner, scoreA |-> c.scoreA, scoreB |-> c.scoreB]
<1>1. /\ c.stage \in Contests!Orders /\ c.a \in Entries /\ c.b \in Entries \cup {0}
      /\ c.status \in {"scheduled", "completed"} /\ c.result \in Contests!Result \cup {"pending"}
      /\ c.winner \in Entries \cup {0} /\ c.scoreA \in Scores /\ c.scoreB \in Scores
      /\ c = [stage |-> c.stage, a |-> c.a, b |-> c.b, status |-> c.status, result |-> c.result,
              winner |-> c.winner, scoreA |-> c.scoreA, scoreB |-> c.scoreB]
  BY DEF Contests!Match, Contests!None
<1>2. c # Contests!Absent
  <2>1. "winner" \in DOMAIN c BY <1>1
  <2>2. "winner" \notin DOMAIN Contests!Absent BY DEF Contests!Absent
  <2> QED BY <2>1, <2>2
<1> QED BY <1>1, <1>2

\* What is written over an entry, and over a fixture.
LEMMA EntryWritten ==
    ASSUME ContestWorld, NEW r \in Contests!Entry, NEW c \in Contests!Entry, NEW n \in Contests!Entry
    PROVE  LET w == Contests!Written(r, c, n)
           IN  /\ w \in Contests!Entry
               /\ w.reg = (IF n.reg # c.reg THEN n.reg ELSE r.reg)
               /\ w.stage = (IF n.stage # c.stage THEN n.stage ELSE r.stage)
               /\ w.votes = (IF n.votes # c.votes THEN n.votes ELSE r.votes)
<1> DEFINE w == Contests!Written(r, c, n)
<1>1. DOMAIN r = {"reg", "status", "stage", "votes"} BY StageFields
<1>2. w = [reg |-> IF n.reg # c.reg THEN n.reg ELSE r.reg,
           status |-> IF n.status # c.status THEN n.status ELSE r.status,
           stage |-> IF n.stage # c.stage THEN n.stage ELSE r.stage,
           votes |-> IF n.votes # c.votes THEN n.votes ELSE r.votes]
  BY <1>1 DEF Contests!Written
<1>3. /\ r.reg \in Regs /\ n.reg \in Regs /\ r.status \in Contests!EntryStatus /\ n.status \in Contests!EntryStatus
      /\ r.stage \in Standing /\ n.stage \in Standing
      /\ r.votes \in 0 .. Contests!MaxVotes /\ n.votes \in 0 .. Contests!MaxVotes
  BY StageFields
<1> HIDE DEF w
<1>4. w \in Contests!Entry BY <1>2, <1>3 DEF Contests!Entry, Standing, Contests!None
<1>5. /\ w.reg = (IF n.reg # c.reg THEN n.reg ELSE r.reg)
      /\ w.stage = (IF n.stage # c.stage THEN n.stage ELSE r.stage)
      /\ w.votes = (IF n.votes # c.votes THEN n.votes ELSE r.votes)
  BY <1>2
<1> QED BY <1>4, <1>5 DEF w

LEMMA MatchWritten ==
    ASSUME NEW r \in Contests!Match, NEW c \in Contests!Match, NEW n \in Contests!Match,
           n.stage = c.stage, n.a = c.a, n.b = c.b
    PROVE  LET w == Contests!Written(r, c, n)
           IN  w \in Contests!Match /\ w.stage = r.stage /\ w.a = r.a /\ w.b = r.b
<1> DEFINE w == Contests!Written(r, c, n)
<1>1. DOMAIN r = {"stage", "a", "b", "status", "result", "winner", "scoreA", "scoreB"} BY MatchFields
<1>2. w = [stage |-> r.stage, a |-> r.a, b |-> r.b,
           status |-> IF n.status # c.status THEN n.status ELSE r.status,
           result |-> IF n.result # c.result THEN n.result ELSE r.result,
           winner |-> IF n.winner # c.winner THEN n.winner ELSE r.winner,
           scoreA |-> IF n.scoreA # c.scoreA THEN n.scoreA ELSE r.scoreA,
           scoreB |-> IF n.scoreB # c.scoreB THEN n.scoreB ELSE r.scoreB]
  BY <1>1 DEF Contests!Written
<1>3. /\ r.stage \in Contests!Orders /\ r.a \in Entries /\ r.b \in Entries \cup {0}
      /\ r.status \in {"scheduled", "completed"} /\ n.status \in {"scheduled", "completed"}
      /\ r.result \in Contests!Result \cup {"pending"} /\ n.result \in Contests!Result \cup {"pending"}
      /\ r.winner \in Entries \cup {0} /\ n.winner \in Entries \cup {0}
      /\ r.scoreA \in Scores /\ n.scoreA \in Scores /\ r.scoreB \in Scores /\ n.scoreB \in Scores
  BY MatchFields
<1> HIDE DEF w
<1>4. w \in Contests!Match BY <1>2, <1>3 DEF Contests!Match, Contests!None
<1>5. w.stage = r.stage /\ w.a = r.a /\ w.b = r.b BY <1>2
<1> QED BY <1>4, <1>5 DEF w

\* Where an entry goes from its stage.
LEMMA OnwardFrom ==
    ASSUME ContestWorld, stages \subseteq Contests!Orders, NEW c \in Contests!Entry
    PROVE  LET n == Contests!Onward(c)
           IN  /\ n \in Contests!Entry /\ n.reg = c.reg /\ n.votes = c.votes
               /\ n.stage = 0 \/ (n.stage \in Contests!Orders /\ n.stage > c.stage)
<1> DEFINE n == Contests!Onward(c)
           L == Contests!Later(c.stage)
<1>1. L \in SUBSET Nat /\ L \subseteq Contests!Orders /\ \A p \in L : p > c.stage
  BY DEF Contests!Later, ContestWorld, Contests!Orders
<1>2. /\ c.reg \in Regs /\ c.votes \in 0 .. Contests!MaxVotes
      /\ c = [reg |-> c.reg, status |-> c.status, stage |-> c.stage, votes |-> c.votes]
  BY StageFields
<1>3. CASE L = {}
  <2>1. n = [reg |-> c.reg, status |-> "completed", stage |-> 0, votes |-> c.votes]
    BY <1>2, <1>3 DEF Contests!Onward, Contests!None
  <2> HIDE DEF n
  <2>2. n \in Contests!Entry BY <1>2, <2>1 DEF Contests!Entry, Contests!EntryStatus, Contests!None
  <2>3. n.reg = c.reg /\ n.votes = c.votes /\ n.stage = 0 BY <2>1
  <2> QED BY <2>2, <2>3 DEF n
<1>4. CASE L # {}
  <2>1. PICK m : m = Contests!Min(L) OBVIOUS
  <2>2. m \in L
    <3> HIDE DEF L
    <3> QED BY <1>1, <1>4, <2>1, EarliestIn
  <2>3. n = [reg |-> c.reg, status |-> "advanced", stage |-> m, votes |-> c.votes]
    BY <1>2, <1>4, <2>1 DEF Contests!Onward
  <2> HIDE DEF n
  <2>4. n \in Contests!Entry BY <1>1, <1>2, <2>2, <2>3 DEF Contests!Entry, Contests!EntryStatus, Contests!None
  <2>5. n.reg = c.reg /\ n.votes = c.votes /\ n.stage = m BY <2>3
  <2> QED BY <1>1, <2>2, <2>4, <2>5 DEF n
<1> QED BY <1>3, <1>4

ContestInv ==
    /\ Contests!TypeOK
    /\ \A s \in Sessions : sess[s].op \in {"advance", "vote"} => entry[sess[s].on] # Contests!Absent
    /\ \A s \in Sessions : sess[s].op = "vote" => sess[s].copy.stage # 0
    /\ \A s \in Sessions : sess[s].op = "result" => match[sess[s].on] # Contests!Absent
    /\ \A f \in Fixtures : match[f] # Contests!Absent =>
          entry[match[f].a] # Contests!Absent /\ (match[f].b # 0 => entry[match[f].b] # Contests!Absent)
    /\ Contests!OneEntryEach

\* A step after which an entry is where the public vote cannot hold it, or where it was.
StaysFair(e) ==
    entry'[e] # Contests!Absent =>
       \/ entry[e] # Contests!Absent /\ entry'[e].stage = entry[e].stage /\ entry'[e].votes = entry[e].votes
       \/ entry'[e].votes < Threshold
       \/ entry'[e].stage = 0
       \/ StageType[entry'[e].stage] # "public_vote"
       \/ \E f \in Fixtures : match'[f] # Contests!Absent /\ ~(match'[f].stage > entry'[e].stage)
FixturesStay ==
    \A f \in Fixtures : match[f] # Contests!Absent =>
       match'[f] # Contests!Absent /\ match'[f].stage = match[f].stage
       /\ match'[f].a = match[f].a /\ match'[f].b = match[f].b
FairStep == FixturesStay /\ \A e \in Entries : StaysFair(e)

LEMMA FairKept ==
    ASSUME Contests!VoteCarriesOver, FairStep
    PROVE  Contests!VoteCarriesOver'
<1> SUFFICES ASSUME NEW e \in Entries, entry'[e] # Contests!Absent, entry'[e].stage # 0,
                    \A f \in Fixtures : match'[f] # Contests!Absent => match'[f].stage > entry'[e].stage,
                    StageType[entry'[e].stage] = "public_vote"
             PROVE  entry'[e].votes < Threshold
  BY DEF Contests!VoteCarriesOver, Contests!None
<1>1. StaysFair(e) BY DEF FairStep
<1>2. \/ entry[e] # Contests!Absent /\ entry'[e].stage = entry[e].stage /\ entry'[e].votes = entry[e].votes
      \/ entry'[e].votes < Threshold
  BY <1>1 DEF StaysFair
<1>3. ASSUME entry[e] # Contests!Absent, entry'[e].stage = entry[e].stage, entry'[e].votes = entry[e].votes
      PROVE  entry'[e].votes < Threshold
  <2>1. \A f \in Fixtures : match[f] # Contests!Absent => match[f].stage > entry[e].stage
    BY <1>3 DEF FairStep, FixturesStay
  <2> QED BY <1>3, <2>1 DEF Contests!VoteCarriesOver, Contests!None
<1> QED BY <1>2, <1>3

\* What a request holds.
LEMMA Held ==
    ASSUME ContestInv, NEW s \in Sessions
    PROVE  /\ sess[s].op = "status" => sess[s].copy \in Contests!CompetitionStatus
           /\ sess[s].op = "enter" => sess[s].on \in Entries /\ sess[s].reg \in Regs
           /\ sess[s].op \in {"advance", "vote"} => sess[s].on \in Entries /\ sess[s].copy \in Contests!Entry
           /\ sess[s].op = "result" => sess[s].on \in Fixtures /\ sess[s].copy \in Contests!Match
<1>1. sess[s] \in Contests!Loaded \cup {Contests!Idle} BY DEF ContestInv, Contests!TypeOK
<1> QED BY <1>1 DEF Contests!Loaded, Contests!Idle

LEMMA Present ==
    ASSUME ContestWorld, ContestInv
    PROVE  /\ \A e \in Entries : entry[e] # Contests!Absent => entry[e] \in Contests!Entry
           /\ \A f \in Fixtures : match[f] # Contests!Absent => match[f] \in Contests!Match
BY DEF ContestInv, Contests!TypeOK

\* Nothing that exists goes away, and a request is where it was or done.
LEMMA ContestKept ==
    ASSUME ContestInv, Contests!TypeOK', FixturesStay, Contests!OneEntryEach',
           \A e \in Entries : entry[e] # Contests!Absent => entry'[e] # Contests!Absent,
           \A f \in Fixtures : match[f] = Contests!Absent => match'[f] = Contests!Absent,
           \A s \in Sessions : sess'[s] = sess[s] \/ sess'[s] = Contests!Idle
    PROVE  ContestInv'
<1>1. Contests!Idle.op = "idle" BY DEF Contests!Idle
<1>2. \A s \in Sessions :
         /\ sess'[s].op \in {"advance", "vote"} => entry'[sess'[s].on] # Contests!Absent
         /\ sess'[s].op = "vote" => sess'[s].copy.stage # 0
         /\ sess'[s].op = "result" => match'[sess'[s].on] # Contests!Absent
  <2> TAKE s \in Sessions
  <2>1. CASE sess'[s] = Contests!Idle BY <1>1, <2>1
  <2>2. CASE sess'[s] = sess[s] BY <2>2, Held DEF ContestInv, FixturesStay
  <2> QED BY <2>1, <2>2
<1>3. ASSUME NEW f \in Fixtures, match'[f] # Contests!Absent
      PROVE  entry'[match'[f].a] # Contests!Absent /\ (match'[f].b # 0 => entry'[match'[f].b] # Contests!Absent)
  <2>1. match[f] # Contests!Absent BY <1>3
  <2>2. match'[f].a = match[f].a /\ match'[f].b = match[f].b BY <2>1 DEF FixturesStay
  <2>3. match[f] \in Contests!Match BY <2>1 DEF ContestInv, Contests!TypeOK
  <2>4. match[f].a \in Entries /\ match[f].b \in Entries \cup {0} BY <2>3, MatchFields
  <2> QED BY <2>1, <2>2, <2>4 DEF ContestInv
<1> QED BY <1>2, <1>3 DEF ContestInv

\* Registrations of entries do not change.
LEMMA EntriesKeepApart ==
    ASSUME ContestInv,
           \A e \in Entries : entry[e] = Contests!Absent => entry'[e] = Contests!Absent,
           \A e \in Entries : entry[e] # Contests!Absent => entry'[e].reg = entry[e].reg
    PROVE  Contests!OneEntryEach'
BY DEF ContestInv, Contests!OneEntryEach

\* A request loads what it will decide on.
LEMMA LoadStep ==
    ASSUME ContestWorld, ContestInv, NEW s \in Sessions, NEW l, Contests!Load(s, l), l \in Contests!Loaded,
           l.op \in {"advance", "vote"} => entry[l.on] # Contests!Absent,
           l.op = "vote" => l.copy.stage # 0,
           l.op = "result" => match[l.on] # Contests!Absent
    PROVE  ContestInv' /\ FairStep
<1>1. /\ sess' = [sess EXCEPT ![s] = l]
      /\ comp' = comp /\ stages' = stages /\ entry' = entry /\ match' = match
  BY DEF Contests!Load
<1>2. Contests!TypeOK' BY <1>1 DEF ContestInv, Contests!TypeOK
<1>3. \A t \in Sessions : sess'[t] = (IF t = s THEN l ELSE sess[t]) BY <1>1 DEF ContestInv, Contests!TypeOK
<1>4. \A t \in Sessions :
         /\ sess'[t].op \in {"advance", "vote"} => entry[sess'[t].on] # Contests!Absent
         /\ sess'[t].op = "vote" => sess'[t].copy.stage # 0
         /\ sess'[t].op = "result" => match[sess'[t].on] # Contests!Absent
  <2> TAKE t \in Sessions
  <2>1. CASE t = s
    <3>1. sess'[t] = l BY <1>3, <2>1
    <3> QED BY <3>1
  <2>2. CASE t # s
    <3>1. sess'[t] = sess[t] BY <1>3, <2>2
    <3> QED BY <3>1 DEF ContestInv
  <2> QED BY <2>1, <2>2
<1>5. Contests!OneEntryEach' BY <1>1 DEF ContestInv, Contests!OneEntryEach
<1>6. FairStep BY <1>1 DEF FairStep, FixturesStay, StaysFair
<1> QED BY <1>1, <1>2, <1>4, <1>5, <1>6 DEF ContestInv

LEMMA LoadSteps ==
    ASSUME ContestWorld, ContestInv, NEW s \in Sessions,
           \/ Contests!LoadStatus(s)
           \/ \E e \in Entries : Contests!LoadAdvance(s, e) \/ Contests!LoadVote(s, e)
           \/ \E e \in Entries, who \in Regs : Contests!EnterCheck(s, e, who)
           \/ \E f \in Fixtures : Contests!LoadResult(s, f)
    PROVE  ContestInv' /\ FairStep
<1>1. CASE Contests!LoadStatus(s)
  <2> DEFINE l == [op |-> "status", copy |-> comp]
  <2>1. l \in Contests!Loaded /\ l.op = "status" BY DEF Contests!Loaded, ContestInv, Contests!TypeOK
  <2>2. Contests!Load(s, l) BY <1>1 DEF Contests!LoadStatus
  <2> HIDE DEF l
  <2> QED BY <2>1, <2>2, LoadStep
<1>2. ASSUME NEW e \in Entries, Contests!LoadAdvance(s, e) PROVE ContestInv' /\ FairStep
  <2> DEFINE l == [op |-> "advance", on |-> e, copy |-> entry[e]]
  <2>1. entry[e] # Contests!Absent /\ Contests!Load(s, l) BY <1>2 DEF Contests!LoadAdvance
  <2>2. l \in Contests!Loaded /\ l.op = "advance" /\ l.on = e BY <2>1, Present DEF Contests!Loaded
  <2> HIDE DEF l
  <2> QED BY <2>1, <2>2, LoadStep
<1>3. ASSUME NEW e \in Entries, Contests!LoadVote(s, e) PROVE ContestInv' /\ FairStep
  <2> DEFINE l == [op |-> "vote", on |-> e, copy |-> entry[e]]
  <2>1. entry[e] # Contests!Absent /\ entry[e].stage # 0 /\ Contests!Load(s, l)
    BY <1>3 DEF Contests!LoadVote, Contests!None
  <2>2. l \in Contests!Loaded /\ l.op = "vote" /\ l.on = e /\ l.copy = entry[e] BY <2>1, Present DEF Contests!Loaded
  <2> HIDE DEF l
  <2> QED BY <2>1, <2>2, LoadStep
<1>4. ASSUME NEW e \in Entries, NEW who \in Regs, Contests!EnterCheck(s, e, who) PROVE ContestInv' /\ FairStep
  <2> DEFINE l == [op |-> "enter", on |-> e, reg |-> who]
  <2>1. Contests!Load(s, l) BY <1>4 DEF Contests!EnterCheck
  <2>2. l \in Contests!Loaded /\ l.op = "enter" BY DEF Contests!Loaded
  <2> HIDE DEF l
  <2> QED BY <2>1, <2>2, LoadStep
<1>5. ASSUME NEW f \in Fixtures, Contests!LoadResult(s, f) PROVE ContestInv' /\ FairStep
  <2> DEFINE l == [op |-> "result", on |-> f, copy |-> match[f]]
  <2>1. match[f] # Contests!Absent /\ Contests!Load(s, l) BY <1>5 DEF Contests!LoadResult
  <2>2. l \in Contests!Loaded /\ l.op = "result" /\ l.on = f BY <2>1, Present DEF Contests!Loaded
  <2> HIDE DEF l
  <2> QED BY <2>1, <2>2, LoadStep
<1> QED BY <1>1, <1>2, <1>3, <1>4, <1>5

\* The session that finishes.
LEMMA Finished ==
    ASSUME ContestInv, NEW s \in Sessions, Contests!Finish(s)
    PROVE  /\ sess' \in [Sessions -> Contests!Loaded \cup {Contests!Idle}]
           /\ \A t \in Sessions : sess'[t] = sess[t] \/ sess'[t] = Contests!Idle
BY DEF ContestInv, Contests!TypeOK, Contests!Finish

\* The competition, its stages, and requests that end without writing.
LEMMA QuietStep ==
    ASSUME ContestWorld, ContestInv,
           \/ \E o \in Contests!Orders : Contests!CreateStage(o)
           \/ \E s \in Sessions : Contests!Abort(s) \/ \E t \in Contests!CompetitionStatus : Contests!ChangeStatus(s, t)
    PROVE  ContestInv' /\ FairStep
<1>1. entry' = entry /\ match' = match
  BY DEF Contests!CreateStage, Contests!Abort, Contests!ChangeStatus
<1>2. /\ sess' \in [Sessions -> Contests!Loaded \cup {Contests!Idle}]
      /\ \A t \in Sessions : sess'[t] = sess[t] \/ sess'[t] = Contests!Idle
  <2>1. ASSUME NEW s \in Sessions, Contests!Finish(s)
        PROVE  /\ sess' \in [Sessions -> Contests!Loaded \cup {Contests!Idle}]
               /\ \A t \in Sessions : sess'[t] = sess[t] \/ sess'[t] = Contests!Idle
    BY <2>1, Finished
  <2>2. CASE \E s \in Sessions : Contests!Finish(s) BY <2>1, <2>2
  <2>3. CASE sess' = sess BY <2>3 DEF ContestInv, Contests!TypeOK
  <2> QED BY <2>2, <2>3 DEF Contests!CreateStage, Contests!Abort, Contests!ChangeStatus
<1>3. comp' \in Contests!CompetitionStatus /\ stages' \subseteq Contests!Orders
  BY DEF Contests!CreateStage, Contests!Abort, Contests!ChangeStatus, ContestInv, Contests!TypeOK
<1>4. Contests!TypeOK' BY <1>1, <1>2, <1>3 DEF ContestInv, Contests!TypeOK
<1>5. FairStep BY <1>1 DEF FairStep, FixturesStay, StaysFair
<1>6. Contests!OneEntryEach' BY <1>1, EntriesKeepApart
<1> QED BY <1>1, <1>2, <1>4, <1>5, <1>6, ContestKept DEF FairStep

LEMMA EnterStep ==
    ASSUME ContestWorld, ContestInv, NEW s \in Sessions, Contests!EnterCommit(s)
    PROVE  ContestInv' /\ FairStep
<1> DEFINE e == sess[s].on
           new == [reg |-> sess[s].reg, status |-> "active", stage |-> Contests!FirstStage, votes |-> 0]
<1>1. /\ Contests!EntryFree(e, sess[s].reg) /\ entry' = [entry EXCEPT ![e] = new]
      /\ Contests!Finish(s) /\ comp' = comp /\ stages' = stages /\ match' = match /\ sess[s].op = "enter"
  BY DEF Contests!EnterCommit
<1>2. e \in Entries /\ sess[s].reg \in Regs BY <1>1, Held
<1>3. Contests!FirstStage \in Contests!Orders \cup {0}
  <2>1. CASE stages = {} BY <2>1 DEF Contests!FirstStage, Contests!None
  <2>2. CASE stages # {}
    <3>1. stages \in SUBSET Nat /\ stages \subseteq Contests!Orders
      BY DEF ContestInv, Contests!TypeOK, ContestWorld, Contests!Orders
    <3> QED BY <2>2, <3>1, EarliestIn DEF Contests!FirstStage
  <2> QED BY <2>1, <2>2
<1>4. new \in Contests!Entry /\ new.votes = 0 /\ new.reg = sess[s].reg
  BY <1>2, <1>3 DEF Contests!Entry, Contests!EntryStatus, Contests!None, Contests!MaxVotes, ContestWorld
<1> HIDE DEF e, new
<1>5. \A d \in Entries : entry'[d] = (IF d = e THEN new ELSE entry[d])
  BY <1>1 DEF ContestInv, Contests!TypeOK
<1>6. Contests!TypeOK' BY <1>1, <1>4, Finished DEF ContestInv, Contests!TypeOK
<1>7. entry[e] = Contests!Absent /\ \A d \in Entries : entry[d] # Contests!Absent => entry[d].reg # sess[s].reg
  BY <1>1 DEF Contests!EntryFree
<1>8. Contests!OneEntryEach'
  <2> SUFFICES ASSUME NEW d \in Entries, NEW b \in Entries, d # b, entry'[d] # Contests!Absent, entry'[b] # Contests!Absent
               PROVE  entry'[d].reg # entry'[b].reg
    BY DEF Contests!OneEntryEach
  <2>1. CASE d = e
    <3>1. entry'[d] = new /\ entry'[b] = entry[b] BY <1>5, <2>1
    <3> QED BY <1>4, <1>7, <3>1
  <2>2. CASE b = e
    <3>1. entry'[b] = new /\ entry'[d] = entry[d] BY <1>5, <2>2
    <3> QED BY <1>4, <1>7, <3>1
  <2>3. CASE d # e /\ b # e
    <3>1. entry'[b] = entry[b] /\ entry'[d] = entry[d] BY <1>5, <2>3
    <3> QED BY <3>1 DEF ContestInv, Contests!OneEntryEach
  <2> QED BY <2>1, <2>2, <2>3
<1>9. \A d \in Entries : StaysFair(d)
  <2> TAKE d \in Entries
  <2>1. CASE d = e
    <3>1. entry'[d].votes < Threshold BY <1>4, <1>5, <2>1 DEF ContestWorld
    <3> QED BY <3>1 DEF StaysFair
  <2>2. CASE d # e
    <3>1. entry'[d] = entry[d] BY <1>5, <2>2
    <3> QED BY <3>1 DEF StaysFair
  <2> QED BY <2>1, <2>2
<1>10. FixturesStay BY <1>1 DEF FixturesStay
<1>11. \A d \in Entries : entry[d] # Contests!Absent => entry'[d] # Contests!Absent BY <1>5, <1>7
<1>12. ContestInv' BY <1>1, <1>6, <1>8, <1>10, <1>11, Finished, ContestKept
<1> QED BY <1>9, <1>10, <1>12 DEF FairStep

\* A decision after which the public vote cannot hold the entry, or holds it as before.
FairDecision(c, n) ==
    \/ n.stage = c.stage /\ n.votes = c.votes
    \/ n.stage # c.stage /\ (n.stage = 0 \/ StageType[n.stage] # "public_vote")
    \/ n.votes # c.votes /\ n.votes < Threshold

\* An entry is written over: what was decided on the copy.
LEMMA UpdateStep ==
    ASSUME ContestWorld, ContestInv, NEW s \in Sessions, sess[s].op \in {"advance", "vote"},
           NEW n, n \in Contests!Entry, Contests!Update(s, n),
           n.reg = sess[s].copy.reg
    PROVE  ContestInv' /\ (FairDecision(sess[s].copy, n) => FairStep)
<1> DEFINE e == sess[s].on
           c == sess[s].copy
<1>1. /\ entry' = [entry EXCEPT ![e] = Contests!Written(entry[e], c, n)]
      /\ Contests!Finish(s) /\ comp' = comp /\ stages' = stages /\ match' = match
  BY DEF Contests!Update
<1>2. e \in Entries /\ c \in Contests!Entry /\ entry[e] # Contests!Absent BY Held DEF ContestInv
<1>3. entry[e] \in Contests!Entry BY <1>2, Present
<1>4. PICK w : w = Contests!Written(entry[e], c, n) OBVIOUS
<1>5. /\ w \in Contests!Entry /\ w.reg = entry[e].reg
      /\ w.stage = (IF n.stage # c.stage THEN n.stage ELSE entry[e].stage)
      /\ w.votes = (IF n.votes # c.votes THEN n.votes ELSE entry[e].votes)
  BY <1>2, <1>3, <1>4, EntryWritten
<1>6. w # Contests!Absent BY <1>5, StageFields
<1>7. entry' = [entry EXCEPT ![e] = w] BY <1>1, <1>4
<1> HIDE DEF e
<1>8. \A d \in Entries : entry'[d] = (IF d = e THEN w ELSE entry[d])
  BY <1>7 DEF ContestInv, Contests!TypeOK
<1>9. Contests!TypeOK' BY <1>1, <1>5, <1>7, Finished DEF ContestInv, Contests!TypeOK
<1>10. \A d \in Entries : entry[d] = Contests!Absent => entry'[d] = Contests!Absent BY <1>2, <1>8
<1>11. \A d \in Entries : entry[d] # Contests!Absent => entry'[d] # Contests!Absent /\ entry'[d].reg = entry[d].reg
  <2> TAKE d \in Entries
  <2>1. CASE d = e BY <1>5, <1>6, <1>8, <2>1
  <2>2. CASE d # e
    <3>1. entry'[d] = entry[d] BY <1>8, <2>2
    <3> QED BY <3>1
  <2> QED BY <2>1, <2>2
<1>12. Contests!OneEntryEach' BY <1>10, <1>11, EntriesKeepApart
<1>13. ASSUME FairDecision(c, n) PROVE StaysFair(e)
  <2>1. entry'[e] = w BY <1>2, <1>8
  <2>2. CASE n.stage = c.stage /\ n.votes = c.votes
    <3>1. w.stage = entry[e].stage /\ w.votes = entry[e].votes BY <1>5, <2>2
    <3> QED BY <1>2, <2>1, <3>1 DEF StaysFair
  <2>3. CASE n.stage # c.stage /\ (n.stage = 0 \/ StageType[n.stage] # "public_vote")
    <3>1. w.stage = n.stage BY <1>5, <2>3
    <3> QED BY <2>1, <2>3, <3>1 DEF StaysFair
  <2>4. CASE n.votes # c.votes /\ n.votes < Threshold
    <3>1. w.votes = n.votes BY <1>5, <2>4
    <3> QED BY <2>1, <2>4, <3>1 DEF StaysFair
  <2> QED BY <1>13, <2>2, <2>3, <2>4 DEF FairDecision
<1>14. ASSUME FairDecision(c, n) PROVE \A d \in Entries : StaysFair(d)
  <2> TAKE d \in Entries
  <2>1. CASE d = e BY <1>13, <1>14, <2>1
  <2>2. CASE d # e
    <3>1. entry'[d] = entry[d] BY <1>8, <2>2
    <3> QED BY <3>1 DEF StaysFair
  <2> QED BY <2>1, <2>2
<1>15. FixturesStay BY <1>1 DEF FixturesStay
<1>16. ContestInv' BY <1>1, <1>9, <1>11, <1>12, <1>15, Finished, ContestKept
<1> QED BY <1>14, <1>15, <1>16 DEF FairStep

LEMMA AdvanceStep ==
    ASSUME ContestWorld, ContestInv, NEW s \in Sessions, NEW out \in BOOLEAN, Contests!Advance(s, out)
    PROVE  ContestInv' /\ (VoteComesFirst => FairStep)
<1> DEFINE c == sess[s].copy
<1>1. sess[s].op = "advance" BY DEF Contests!Advance
<1>2. c \in Contests!Entry /\ stages \subseteq Contests!Orders BY <1>1, Held DEF ContestInv, Contests!TypeOK
<1>3. c.stage \in Standing /\ c.stage # 0 BY <1>2, StageFields DEF Contests!Advance, Contests!None
<1>4. c.stage \in Contests!Orders BY <1>3 DEF Standing
<1>5. CASE out
  <2>1. PICK n : n = [c EXCEPT !.status = "eliminated"] OBVIOUS
  <2>2. Contests!Update(s, n) BY <1>5, <2>1 DEF Contests!Advance
  <2>3. n \in Contests!Entry /\ n.reg = c.reg /\ n.stage = c.stage /\ n.votes = c.votes
    BY <1>2, <2>1 DEF Contests!Entry, Contests!EntryStatus
  <2>4. FairDecision(c, n) BY <2>3 DEF FairDecision
  <2> QED BY <1>1, <2>2, <2>3, <2>4, UpdateStep
<1>6. CASE ~out
  <2>1. PICK n : n = Contests!Onward(c) OBVIOUS
  <2>2. Contests!Update(s, n) BY <1>6, <2>1 DEF Contests!Advance
  <2>3. n \in Contests!Entry /\ n.reg = c.reg /\ (n.stage = 0 \/ (n.stage \in Contests!Orders /\ n.stage > c.stage))
    BY <1>2, <2>1, OnwardFrom
  <2>4. VoteComesFirst => FairDecision(c, n)
    <3> SUFFICES ASSUME VoteComesFirst PROVE FairDecision(c, n) OBVIOUS
    <3>1. CASE n.stage = 0 BY <1>3, <3>1 DEF FairDecision
    <3>2. CASE n.stage \in Contests!Orders /\ n.stage > c.stage
      <4>1. c.stage < n.stage /\ n.stage # c.stage BY <1>4, <3>2 DEF ContestWorld, Contests!Orders
      <4>2. StageType[n.stage] # "public_vote" BY <1>4, <3>2, <4>1 DEF VoteComesFirst, Contests!Orders
      <4> QED BY <4>1, <4>2 DEF FairDecision
    <3> QED BY <2>3, <3>1, <3>2
  <2> QED BY <1>1, <2>2, <2>3, <2>4, UpdateStep
<1> QED BY <1>5, <1>6

LEMMA VoteStep ==
    ASSUME ContestWorld, ContestInv, NEW s \in Sessions, Contests!Vote(s)
    PROVE  ContestInv' /\ (VoteComesFirst => FairStep)
<1> DEFINE c == sess[s].copy
<1>1. sess[s].op = "vote" BY DEF Contests!Vote
<1>2. c \in Contests!Entry /\ stages \subseteq Contests!Orders BY <1>1, Held DEF ContestInv, Contests!TypeOK
<1>3. c.stage \in Standing /\ c.stage # 0 /\ c.votes \in Nat BY <1>1, <1>2, StageFields DEF ContestInv
<1>4. c.stage \in Contests!Orders BY <1>3 DEF Standing
<1>5. PICK v : v = [c EXCEPT !.votes = @ + 1] OBVIOUS
<1>6. v \in Contests!Entry /\ v.reg = c.reg /\ v.stage = c.stage /\ v.votes = c.votes + 1
  BY <1>2, <1>3, <1>5 DEF Contests!Entry, Contests!Vote, Contests!MaxVotes, ContestWorld
<1>7. PICK n : n = Contests!Counted(c) OBVIOUS
<1>8. Contests!Update(s, n) BY <1>7 DEF Contests!Vote
<1>9. n = IF v.votes >= Threshold THEN Contests!Onward(v) ELSE v BY <1>5, <1>7 DEF Contests!Counted
<1>10. CASE v.votes >= Threshold
  <2>1. n = Contests!Onward(v) BY <1>9, <1>10
  <2>2. n \in Contests!Entry /\ n.reg = c.reg /\ (n.stage = 0 \/ (n.stage \in Contests!Orders /\ n.stage > c.stage))
    BY <1>2, <1>6, <2>1, OnwardFrom
  <2>3. VoteComesFirst => FairDecision(c, n)
    <3> SUFFICES ASSUME VoteComesFirst PROVE FairDecision(c, n) OBVIOUS
    <3>1. CASE n.stage = 0 BY <1>3, <3>1 DEF FairDecision
    <3>2. CASE n.stage \in Contests!Orders /\ n.stage > c.stage
      <4>1. c.stage < n.stage /\ n.stage # c.stage BY <1>4, <3>2 DEF ContestWorld, Contests!Orders
      <4>2. StageType[n.stage] # "public_vote" BY <1>4, <3>2, <4>1 DEF VoteComesFirst, Contests!Orders
      <4> QED BY <4>1, <4>2 DEF FairDecision
    <3> QED BY <2>2, <3>1, <3>2
  <2> QED BY <1>1, <1>8, <2>2, <2>3, UpdateStep
<1>11. CASE ~(v.votes >= Threshold)
  <2>1. n = v BY <1>9, <1>11
  <2>2. n.votes # c.votes /\ n.votes < Threshold BY <1>3, <1>6, <1>11, <2>1 DEF ContestWorld
  <2>3. FairDecision(c, n) BY <2>2 DEF FairDecision
  <2> QED BY <1>1, <1>6, <1>8, <2>1, <2>3, UpdateStep
<1> QED BY <1>10, <1>11

LEMMA CreateMatchStep ==
    ASSUME ContestWorld, ContestInv, NEW f \in Fixtures, NEW o \in Contests!Orders, NEW a \in Entries,
           NEW b \in Entries \cup {0}, Contests!CreateMatch(f, o, a, b)
    PROVE  ContestInv' /\ FairStep
<1> DEFINE new == [stage |-> o, a |-> a, b |-> b, status |-> "scheduled", result |-> "pending",
                   winner |-> 0, scoreA |-> 0, scoreB |-> 0]
<1>1. /\ match[f] = Contests!Absent /\ match' = [match EXCEPT ![f] = new]
      /\ entry[a] # Contests!Absent /\ (b # 0 => entry[b] # Contests!Absent)
      /\ comp' = comp /\ stages' = stages /\ entry' = entry /\ sess' = sess
  BY DEF Contests!CreateMatch, Contests!None
<1>2. new \in Contests!Match /\ new.a = a /\ new.b = b BY DEF Contests!Match, Contests!None, ContestWorld
<1> HIDE DEF new
<1>3. \A g \in Fixtures : match'[g] = (IF g = f THEN new ELSE match[g]) BY <1>1 DEF ContestInv, Contests!TypeOK
<1>4. Contests!TypeOK' BY <1>1, <1>2 DEF ContestInv, Contests!TypeOK
<1>5. new # Contests!Absent BY <1>2, MatchFields
<1>6. ASSUME NEW g \in Fixtures, match'[g] # Contests!Absent
      PROVE  entry[match'[g].a] # Contests!Absent /\ (match'[g].b # 0 => entry[match'[g].b] # Contests!Absent)
  <2>1. CASE g = f BY <1>1, <1>2, <1>3, <2>1
  <2>2. CASE g # f
    <3>1. match'[g] = match[g] BY <1>3, <2>2
    <3> QED BY <1>6, <3>1 DEF ContestInv
  <2> QED BY <2>1, <2>2
<1>7. \A g \in Fixtures : match[g] # Contests!Absent => match'[g] = match[g] BY <1>1, <1>3
<1>8. \A s \in Sessions : sess[s].op = "result" => match'[sess[s].on] # Contests!Absent
  <2> SUFFICES ASSUME NEW s \in Sessions, sess[s].op = "result" PROVE match'[sess[s].on] # Contests!Absent OBVIOUS
  <2>1. sess[s].on \in Fixtures /\ match[sess[s].on] # Contests!Absent BY Held DEF ContestInv
  <2> QED BY <1>7, <2>1
<1>9. Contests!OneEntryEach' BY <1>1, EntriesKeepApart
<1>10. ContestInv' BY <1>1, <1>4, <1>6, <1>8, <1>9 DEF ContestInv
<1>11. FairStep BY <1>1, <1>7 DEF FairStep, FixturesStay, StaysFair
<1> QED BY <1>10, <1>11

\* What a result does to the entries.
LEMMA DecidedEntries ==
    ASSUME ContestWorld, ContestInv, NEW f \in Fixtures, match[f] # Contests!Absent,
           NEW w \in Entries, entry[w] # Contests!Absent
    PROVE  LET n == Contests!Decided(f, w)
               next == Contests!Later(match[f].stage)
           IN  /\ n \in [Entries -> Contests!Entry \cup {Contests!Absent}]
               /\ \A d \in Entries : entry[d] = Contests!Absent => n[d] = Contests!Absent
               /\ \A d \in Entries : entry[d] # Contests!Absent =>
                     /\ n[d] # Contests!Absent /\ n[d].reg = entry[d].reg /\ n[d].votes = entry[d].votes
                     /\ d # w => n[d].stage = entry[d].stage
               /\ n[w].stage = IF next = {} THEN match[f].stage ELSE Contests!Min(next)
<1> DEFINE next == Contests!Later(match[f].stage)
           place == IF next = {} THEN match[f].stage ELSE Contests!Min(next)
           outcome == IF next = {} THEN "completed" ELSE "advanced"
           loser == IF w = match[f].a THEN match[f].b ELSE match[f].a
           n == Contests!Decided(f, w)
           won == [entry EXCEPT ![w].stage = place, ![w].status = outcome]
<1>1. match[f] \in Contests!Match BY Present
<1>2. /\ match[f].stage \in Contests!Orders /\ match[f].a \in Entries /\ match[f].b \in Entries \cup {0}
  BY <1>1, MatchFields
<1>3. place \in Contests!Orders
  <2>1. CASE next = {} BY <1>2, <2>1
  <2>2. CASE next # {}
    <3>1. next \in SUBSET Nat /\ next \subseteq Contests!Orders
      BY DEF Contests!Later, ContestInv, Contests!TypeOK, ContestWorld, Contests!Orders
    <3>2. Contests!Min(next) \in next
      <4> HIDE DEF next
      <4> QED BY <2>2, <3>1, EarliestIn
    <3> QED BY <2>2, <3>1, <3>2
  <2> QED BY <2>1, <2>2
<1>4. outcome \in Contests!EntryStatus BY DEF Contests!EntryStatus
<1>5. loser \in Entries \cup {0} /\ (loser # 0 => entry[loser] # Contests!Absent) BY <1>2 DEF ContestInv
<1>6. n = IF loser = 0 THEN won ELSE [won EXCEPT ![loser].status = "eliminated"]
  BY DEF Contests!Decided, Contests!None
<1> HIDE DEF place, outcome, loser, n, next
<1>7. entry[w] \in Contests!Entry BY Present
<1>8. PICK row : row = [reg |-> entry[w].reg, status |-> outcome, stage |-> place, votes |-> entry[w].votes] OBVIOUS
<1>9. row \in Contests!Entry /\ row.reg = entry[w].reg /\ row.stage = place /\ row.votes = entry[w].votes
  BY <1>3, <1>4, <1>7, <1>8, StageFields DEF Contests!Entry
<1>10. won = [entry EXCEPT ![w] = row]
  <2>1. entry[w] = [reg |-> entry[w].reg, status |-> entry[w].status, stage |-> entry[w].stage, votes |-> entry[w].votes]
    BY <1>7, StageFields
  <2>2. entry \in [Entries -> Contests!Entry \cup {Contests!Absent}] BY DEF ContestInv, Contests!TypeOK
  <2>3. won = [entry EXCEPT ![w] = [[entry[w] EXCEPT !.stage = place] EXCEPT !.status = outcome]]
    BY <2>2
  <2>4. [[entry[w] EXCEPT !.stage = place] EXCEPT !.status = outcome] = row
    <3>1. PICK old, r, v, a, b : old = entry[w] /\ r = old.reg /\ v = old.votes /\ a = old.status /\ b = old.stage
      OBVIOUS
    <3>2. old = [reg |-> r, status |-> a, stage |-> b, votes |-> v] BY <2>1, <3>1, Zenon
    <3>3. row = [reg |-> r, status |-> outcome, stage |-> place, votes |-> v] BY <1>8, <3>1, Zenon
    <3>4. PICK mid : mid = [old EXCEPT !.stage = place] OBVIOUS
    <3>5. mid = [reg |-> r, status |-> a, stage |-> place, votes |-> v] BY <3>2, <3>4
    <3>6. [mid EXCEPT !.status = outcome] = row BY <3>3, <3>5
    <3> QED BY <3>1, <3>4, <3>6, Zenon
  <2> QED BY <2>3, <2>4
<1> HIDE DEF won
<1>11. won \in [Entries -> Contests!Entry \cup {Contests!Absent}]
  BY <1>9, <1>10 DEF ContestInv, Contests!TypeOK
<1>12. \A d \in Entries : won[d] = (IF d = w THEN row ELSE entry[d])
  BY <1>10 DEF ContestInv, Contests!TypeOK
<1>13. row # Contests!Absent BY <1>9, StageFields
<1>14. /\ \A d \in Entries : entry[d] = Contests!Absent => won[d] = Contests!Absent
       /\ \A d \in Entries : entry[d] # Contests!Absent =>
             /\ won[d] # Contests!Absent /\ won[d].reg = entry[d].reg /\ won[d].votes = entry[d].votes
             /\ d # w => won[d].stage = entry[d].stage
       /\ won[w].stage = place
  BY <1>9, <1>12, <1>13
<1>15. CASE loser = 0 BY <1>6, <1>11, <1>14, <1>15 DEF n, place, next
<1>16. CASE loser # 0
  <2>1. loser \in Entries /\ won[loser] # Contests!Absent /\ won[loser] \in Contests!Entry
    BY <1>5, <1>11, <1>14, <1>16
  <2>2. PICK out : out = [won[loser] EXCEPT !.status = "eliminated"] OBVIOUS
  <2>3. /\ out \in Contests!Entry /\ out.reg = won[loser].reg /\ out.stage = won[loser].stage
        /\ out.votes = won[loser].votes
    BY <2>1, <2>2 DEF Contests!Entry, Contests!EntryStatus
  <2>4. n = [won EXCEPT ![loser] = out] BY <1>6, <1>11, <1>16, <2>1, <2>2
  <2>5. n \in [Entries -> Contests!Entry \cup {Contests!Absent}] BY <1>11, <2>3, <2>4
  <2>6. \A d \in Entries : n[d] = (IF d = loser THEN out ELSE won[d]) BY <1>11, <2>4
  <2>7. out # Contests!Absent BY <2>3, StageFields
  <2>8. ASSUME NEW d \in Entries, entry[d] = Contests!Absent PROVE n[d] = Contests!Absent
    BY <1>5, <1>14, <1>16, <2>6, <2>8
  <2>9. ASSUME NEW d \in Entries, entry[d] # Contests!Absent
        PROVE  /\ n[d] # Contests!Absent /\ n[d].reg = entry[d].reg /\ n[d].votes = entry[d].votes
               /\ d # w => n[d].stage = entry[d].stage
    <3>1. CASE d = loser
      <4>1. n[d] = out BY <2>6, <3>1
      <4> QED BY <1>14, <2>3, <2>7, <2>9, <3>1, <4>1
    <3>2. CASE d # loser
      <4>1. n[d] = won[d] BY <2>6, <3>2
      <4> QED BY <1>14, <2>9, <4>1
    <3> QED BY <3>1, <3>2
  <2>10. n[w].stage = place
    <3>1. CASE w = loser
      <4>1. n[w] = out BY <2>6, <3>1
      <4> QED BY <1>14, <2>3, <3>1, <4>1
    <3>2. CASE w # loser
      <4>1. n[w] = won[w] BY <2>6, <3>2
      <4> QED BY <1>14, <4>1
    <3> QED BY <3>1, <3>2
  <2> QED BY <2>5, <2>8, <2>9, <2>10 DEF n, place, next
<1> QED BY <1>15, <1>16

LEMMA ResultStep ==
    ASSUME ContestWorld, ContestInv, NEW s \in Sessions, NEW how \in Contests!Result, NEW w \in Entries \cup {0},
           NEW x \in Scores, NEW y \in Scores, Contests!RecordResult(s, how, w, x, y)
    PROVE  ContestInv' /\ (VoteComesFirst => FairStep)
<1> DEFINE f == sess[s].on
           c == sess[s].copy
           next == Contests!Later(match[f].stage)
<1>1. /\ sess[s].op = "result" /\ (w # 0 => entry[w] # Contests!Absent)
      /\ Contests!Recordable(c, how, w, x, y)
      /\ match' = [match EXCEPT ![f] = Contests!Written(match[f], c,
             [c EXCEPT !.status = "completed", !.result = how, !.winner = w, !.scoreA = x, !.scoreB = y])]
      /\ entry' = (IF how # "draw" THEN Contests!Decided(f, w) ELSE entry)
      /\ Contests!Finish(s) /\ comp' = comp /\ stages' = stages
  BY DEF Contests!RecordResult, Contests!None
<1>2. f \in Fixtures /\ c \in Contests!Match /\ match[f] # Contests!Absent BY <1>1, Held DEF ContestInv
<1>3. match[f] \in Contests!Match BY <1>2, Present
<1>4. PICK n : n = [c EXCEPT !.status = "completed", !.result = how, !.winner = w, !.scoreA = x, !.scoreB = y] OBVIOUS
<1>5. n \in Contests!Match /\ n.stage = c.stage /\ n.a = c.a /\ n.b = c.b
  BY <1>2, <1>4 DEF Contests!Match, Contests!None
<1>6. PICK m : m = Contests!Written(match[f], c, n) OBVIOUS
<1>7. m \in Contests!Match /\ m.stage = match[f].stage /\ m.a = match[f].a /\ m.b = match[f].b
  BY <1>2, <1>3, <1>5, <1>6, MatchWritten
<1>8. match' = [match EXCEPT ![f] = m] BY <1>1, <1>4, <1>6
<1>9. m # Contests!Absent BY <1>7, MatchFields
<1> HIDE DEF f, c
<1>10. \A g \in Fixtures : match'[g] = (IF g = f THEN m ELSE match[g]) BY <1>8 DEF ContestInv, Contests!TypeOK
<1>11. match' \in [Fixtures -> Contests!Match \cup {Contests!Absent}]
  BY <1>7, <1>8 DEF ContestInv, Contests!TypeOK
<1>12. FixturesStay BY <1>7, <1>9, <1>10 DEF FixturesStay
<1>13. \A g \in Fixtures : match[g] = Contests!Absent => match'[g] = Contests!Absent BY <1>2, <1>10
<1>14. how # "draw" => w \in Entries /\ entry[w] # Contests!Absent BY <1>1 DEF Contests!Recordable, Contests!None
<1>15. /\ entry' \in [Entries -> Contests!Entry \cup {Contests!Absent}]
       /\ \A d \in Entries : entry[d] = Contests!Absent => entry'[d] = Contests!Absent
       /\ \A d \in Entries : entry[d] # Contests!Absent =>
             /\ entry'[d] # Contests!Absent /\ entry'[d].reg = entry[d].reg /\ entry'[d].votes = entry[d].votes
             /\ entry'[d].stage = entry[d].stage
                \/ (how # "draw" /\ d = w
                    /\ entry'[d].stage = IF next = {} THEN match[f].stage ELSE Contests!Min(next))
  <2>1. CASE how = "draw" BY <1>1, <2>1 DEF ContestInv, Contests!TypeOK
  <2>2. CASE how # "draw"
    <3>1. entry' = Contests!Decided(f, w) BY <1>1, <2>2 DEF f
    <3>2. w \in Entries /\ entry[w] # Contests!Absent BY <1>14, <2>2
    <3>3. PICK e : e = Contests!Decided(f, w) OBVIOUS
    <3>4. /\ e \in [Entries -> Contests!Entry \cup {Contests!Absent}]
          /\ \A d \in Entries : entry[d] = Contests!Absent => e[d] = Contests!Absent
          /\ \A d \in Entries : entry[d] # Contests!Absent =>
                /\ e[d] # Contests!Absent /\ e[d].reg = entry[d].reg /\ e[d].votes = entry[d].votes
                /\ d # w => e[d].stage = entry[d].stage
          /\ e[w].stage = IF next = {} THEN match[f].stage ELSE Contests!Min(next)
      BY <1>2, <3>2, <3>3, DecidedEntries
    <3> HIDE DEF next
    <3> QED BY <2>2, <3>1, <3>3, <3>4
  <2> QED BY <2>1, <2>2
<1>16. Contests!TypeOK' BY <1>1, <1>11, <1>15, Finished DEF ContestInv, Contests!TypeOK
<1>17. Contests!OneEntryEach' BY <1>15, EntriesKeepApart
<1>18. ContestInv' BY <1>1, <1>12, <1>13, <1>15, <1>16, <1>17, Finished, ContestKept
<1>19. ASSUME VoteComesFirst, NEW d \in Entries PROVE StaysFair(d)
  <2>1. CASE entry[d] = Contests!Absent
    <3>1. entry'[d] = Contests!Absent BY <1>15, <2>1
    <3> QED BY <3>1 DEF StaysFair
  <2>2. CASE entry[d] # Contests!Absent /\ entry'[d].stage = entry[d].stage BY <1>15, <2>2 DEF StaysFair
  <2>3. CASE entry[d] # Contests!Absent /\ entry'[d].stage # entry[d].stage
    <3>1. entry'[d].stage = IF next = {} THEN match[f].stage ELSE Contests!Min(next) BY <1>15, <2>3
    <3>2. match[f].stage \in Contests!Orders BY <1>3, MatchFields
    <3>3. CASE next = {}
      <4>1. entry'[d].stage = match[f].stage BY <3>1, <3>3
      <4>2. match'[f] # Contests!Absent /\ match'[f].stage = match[f].stage BY <1>2, <1>7, <1>9, <1>10
      <4>3. ~(match[f].stage > match[f].stage) BY <3>2 DEF ContestWorld, Contests!Orders
      <4> QED BY <1>2, <4>1, <4>2, <4>3 DEF StaysFair
    <3>4. CASE next # {}
      <4>1. PICK o : o = Contests!Min(next) OBVIOUS
      <4>2. next \in SUBSET Nat /\ next \subseteq Contests!Orders /\ \A p \in next : p > match[f].stage
        BY DEF Contests!Later, ContestInv, Contests!TypeOK, ContestWorld, Contests!Orders
      <4>3. o \in next
        <5> HIDE DEF next
        <5> QED BY <3>4, <4>1, <4>2, EarliestIn
      <4>4. o \in Contests!Orders /\ match[f].stage < o BY <3>2, <4>2, <4>3 DEF ContestWorld, Contests!Orders
      <4>5. StageType[o] # "public_vote" BY <1>19, <3>2, <4>4 DEF VoteComesFirst, Contests!Orders
      <4>6. entry'[d].stage = o BY <3>1, <3>4, <4>1
      <4> QED BY <4>5, <4>6 DEF StaysFair
    <3> QED BY <3>3, <3>4
  <2> QED BY <2>1, <2>2, <2>3
<1> QED BY <1>12, <1>18, <1>19 DEF FairStep

\* The sides of the fixtures that have been played between two, and what each of them brings.
Played ==
    {p \in Fixtures \X {"a", "b"} :
        match[p[1]].status = "completed" /\ match[p[1]].b # 0}
SideOf == [p \in Played |-> match[p[1]][p[2]]]
Opposite == [p \in Played |-> <<p[1], IF p[2] = "a" THEN "b" ELSE "a">>]
WinPoints == [p \in Played |-> IF ~Contests!Drawn(p) /\ Contests!WonSide(p) = p[2] THEN 1 ELSE 0]
LossPoints ==
    [p \in Played |-> IF ~Contests!Drawn(p) /\ Contests!WonSide(p) \in {"a", "b"} \ {p[2]} THEN 1 ELSE 0]
GoalPoints(own) == [p \in Played |-> Contests!Scored(p, own)]

LEMMA ContestSize == ASSUME NEW S PROVE Contests!Cardinality(S) = Cardinality(S)
BY DEF Contests!Cardinality, Cardinality

LEMMA PlayedSides ==
    ASSUME ContestWorld, ContestInv
    PROVE  /\ IsFiniteSet(Played) /\ SideOf \in [Played -> Entries]
           /\ \A e \in Entries : /\ Contests!Sides(e) = {p \in Played : SideOf[p] = e}
                                 /\ IsFiniteSet(Contests!Sides(e))
           /\ \A p \in Played : /\ Opposite[p] \in Played /\ Opposite[Opposite[p]] = p /\ Opposite[p] # p
                                /\ Opposite[p][1] = p[1]
                                /\ Opposite[p][2] = IF p[2] = "a" THEN "b" ELSE "a"
           /\ \A p \in Played : match[p[1]] \in Contests!Match /\ p[2] \in {"a", "b"}
<1>1. IsFiniteSet(Fixtures \X {"a", "b"})
  <2>1. IsFiniteSet({"a", "b"})
    <3>1. IsFiniteSet({"a"}) BY FS_Singleton
    <3>2. {"a", "b"} = {"a"} \cup {"b"} OBVIOUS
    <3> QED BY <3>1, <3>2, FS_AddElement
  <2> QED BY <2>1, FS_Product DEF ContestWorld
<1>2. Played \in SUBSET (Fixtures \X {"a", "b"}) BY DEF Played
<1>3. IsFiniteSet(Played) BY <1>1, <1>2, FS_Subset
<1>4. ASSUME NEW p \in Played
      PROVE  /\ match[p[1]] \in Contests!Match /\ p[1] \in Fixtures /\ p[2] \in {"a", "b"} /\ p = <<p[1], p[2]>>
             /\ match[p[1]].status = "completed" /\ match[p[1]].b # 0 /\ match[p[1]][p[2]] \in Entries
  <2>1. p[1] \in Fixtures /\ p[2] \in {"a", "b"} /\ p = <<p[1], p[2]>> BY <1>2
  <2>2. match[p[1]].status = "completed" /\ match[p[1]].b # 0 BY DEF Played
  <2>3. match[p[1]] # Contests!Absent BY <2>2 DEF Contests!Absent
  <2>4. match[p[1]] \in Contests!Match BY <2>1, <2>3, Present
  <2>5. match[p[1]].a \in Entries /\ match[p[1]].b \in Entries BY <2>2, <2>4, MatchFields
  <2> QED BY <2>1, <2>2, <2>4, <2>5
<1>5. SideOf \in [Played -> Entries] BY <1>4 DEF SideOf
<1>6. ASSUME NEW e \in Entries
      PROVE  Contests!Sides(e) = {p \in Played : SideOf[p] = e} /\ IsFiniteSet(Contests!Sides(e))
  <2>1. Contests!Sides(e) = {p \in Played : SideOf[p] = e}
    BY DEF Contests!Sides, Played, SideOf, Contests!None
  <2>2. {p \in Played : SideOf[p] = e} \in SUBSET Played OBVIOUS
  <2> QED BY <1>3, <2>1, <2>2, FS_Subset
<1>7. ASSUME NEW p \in Played
      PROVE  /\ Opposite[p] \in Played /\ Opposite[Opposite[p]] = p /\ Opposite[p] # p
             /\ Opposite[p][1] = p[1]
             /\ Opposite[p][2] = IF p[2] = "a" THEN "b" ELSE "a"
  <2>1. PICK f, side : f = p[1] /\ side = p[2] OBVIOUS
  <2>2. /\ p = <<f, side>> /\ f \in Fixtures /\ side \in {"a", "b"}
        /\ match[f].status = "completed" /\ match[f].b # 0
    BY <1>4, <2>1
  <2>3. \A x \in {"a", "b"} : <<f, x>> \in Played BY <2>2 DEF Played
  <2>4. Opposite[p] = <<f, IF side = "a" THEN "b" ELSE "a">> BY <2>1 DEF Opposite
  <2>5. \A x \in {"a", "b"} : Opposite[<<f, x>>] = <<f, IF x = "a" THEN "b" ELSE "a">>
    BY <2>3 DEF Opposite
  <2>6. CASE side = "a"
    <3>1. Opposite[p] = <<f, "b">> /\ Opposite[<<f, "b">>] = <<f, "a">> BY <2>4, <2>5, <2>6
    <3> QED BY <2>2, <2>3, <2>6, <3>1
  <2>7. CASE side = "b"
    <3>1. Opposite[p] = <<f, "a">> /\ Opposite[<<f, "a">>] = <<f, "b">> BY <2>4, <2>5, <2>7
    <3> QED BY <2>2, <2>3, <2>7, <3>1
  <2> QED BY <2>2, <2>6, <2>7
<1> QED BY <1>3, <1>4, <1>5, <1>6, <1>7

LEMMA TotalIsSum ==
    ASSUME IsFiniteSet(Entries), NEW g
    PROVE  Contests!Total(g) = SumOf(g, Entries)
<1>1. PICK f : f = CHOOSE iter : iter = [s \in SUBSET Entries |->
                   IF s = {} THEN 0 ELSE g[CHOOSE x \in s : TRUE] + iter[s \ {CHOOSE x \in s : TRUE}]]
  OBVIOUS
<1>2. Contests!Total(g) = f[Entries]
  BY <1>1 DEF Contests!Total, Contests!MapThenSumSet, Contests!MapThenFoldSet
<1> QED BY <1>1, <1>2, SumOfMapped

LEMMA GoalsAreSum ==
    ASSUME ContestWorld, ContestInv, NEW e \in Entries, NEW own \in BOOLEAN
    PROVE  Contests!Goals(e, own) = SumOf(GoalPoints(own), {p \in Played : SideOf[p] = e})
<1>1. PICK S, g : S = {p \in Played : SideOf[p] = e} /\ g = GoalPoints(own) OBVIOUS
<1>2. S \in SUBSET Played /\ IsFiniteSet(S) /\ S = Contests!Sides(e) BY <1>1, PlayedSides, FS_Subset
<1>3. \A p \in S : g[p] = Contests!Scored(p, own) BY <1>1, <1>2 DEF GoalPoints
<1> DEFINE L(iter, s) == IF s = {} THEN 0 ELSE Contests!Scored(CHOOSE x \in s : TRUE, own) + iter[s \ {CHOOSE x \in s : TRUE}]
           R(iter, s) == IF s = {} THEN 0 ELSE g[CHOOSE x \in s : TRUE] + iter[s \ {CHOOSE x \in s : TRUE}]
<1>4. ASSUME NEW iter, NEW s \in SUBSET S PROVE L(iter, s) = R(iter, s)
  <2>1. CASE s = {} BY <2>1
  <2>2. CASE s # {}
    <3>1. PICK x \in s : x = CHOOSE y \in s : TRUE BY <2>2
    <3>2. g[x] = Contests!Scored(x, own) BY <1>3, <3>1
    <3> QED BY <2>2, <3>1, <3>2
  <2> QED BY <2>1, <2>2
<1>5. \A iter : [s \in SUBSET S |-> L(iter, s)] = [s \in SUBSET S |-> R(iter, s)]
  <2> HIDE DEF L, R
  <2> QED BY <1>4
<1>6. PICK f : f = CHOOSE iter : iter = [s \in SUBSET S |-> R(iter, s)] OBVIOUS
<1>7. f = CHOOSE iter : iter = [s \in SUBSET S |-> L(iter, s)]
  <2> HIDE DEF L, R
  <2> QED BY <1>5, <1>6
<1>8. Contests!Goals(e, own) = f[S]
  BY <1>2, <1>7 DEF Contests!Goals, Contests!MapThenSumSet, Contests!MapThenFoldSet
<1>9. f[S] = SumOf(g, S) BY <1>2, <1>6, SumOfMapped
<1> QED BY <1>1, <1>8, <1>9

\* What one side wins the other loses, and what it scores the other concedes.
LEMMA PointsMirror ==
    ASSUME ContestWorld, ContestInv
    PROVE  /\ SumOf(WinPoints, Played) = SumOf(LossPoints, Played)
           /\ SumOf(GoalPoints(TRUE), Played) = SumOf(GoalPoints(FALSE), Played)
           /\ \A p \in Played : /\ WinPoints[p] \in {0, 1} /\ LossPoints[p] \in {0, 1}
                                /\ WinPoints[p] \in Int /\ LossPoints[p] \in Int
                                /\ GoalPoints(TRUE)[p] \in Int /\ GoalPoints(FALSE)[p] \in Int
<1>1. ASSUME NEW p \in Played
      PROVE  /\ WinPoints[p] \in {0, 1} /\ LossPoints[p] \in {0, 1} /\ WinPoints[p] = LossPoints[Opposite[p]]
             /\ GoalPoints(TRUE)[p] \in Int /\ GoalPoints(FALSE)[p] \in Int
             /\ GoalPoints(TRUE)[p] = GoalPoints(FALSE)[Opposite[p]]
  <2>1. PICK q : q = Opposite[p] OBVIOUS
  <2>2. /\ q \in Played /\ q[1] = p[1] /\ q[2] = (IF p[2] = "a" THEN "b" ELSE "a") /\ p[2] \in {"a", "b"}
        /\ match[p[1]] \in Contests!Match
    BY <2>1, PlayedSides
  <2>3. match[p[1]].scoreA \in Int /\ match[p[1]].scoreB \in Int BY <2>2, MatchFields DEF ContestWorld
  <2>4. Contests!Drawn(q) = Contests!Drawn(p) /\ Contests!WonSide(q) = Contests!WonSide(p)
    BY <2>2 DEF Contests!Drawn, Contests!WonSide, Contests!Winner, Contests!Home, Contests!Away
  <2>5. Contests!WonSide(p) \in {"a", "b", "none"} BY DEF Contests!WonSide
  <2>6. WinPoints[p] \in {0, 1} /\ LossPoints[p] \in {0, 1} BY DEF WinPoints, LossPoints
  <2>7. WinPoints[p] = LossPoints[q]
    <3>1. WinPoints[p] = IF ~Contests!Drawn(p) /\ Contests!WonSide(p) = p[2] THEN 1 ELSE 0 BY DEF WinPoints
    <3>2. LossPoints[q] = IF ~Contests!Drawn(q) /\ Contests!WonSide(q) \in {"a", "b"} \ {q[2]} THEN 1 ELSE 0
      BY <2>2 DEF LossPoints
    <3>3. Contests!WonSide(q) \in {"a", "b"} \ {q[2]} <=> Contests!WonSide(p) = p[2] BY <2>2, <2>4, <2>5
    <3>4. Contests!Drawn(q) <=> Contests!Drawn(p) BY <2>4
    <3> QED BY <3>1, <3>2, <3>3, <3>4
  <2>8. /\ GoalPoints(TRUE)[p] = IF p[2] = "a" THEN match[p[1]].scoreA ELSE match[p[1]].scoreB
        /\ GoalPoints(FALSE)[p] = IF p[2] = "a" THEN match[p[1]].scoreB ELSE match[p[1]].scoreA
        /\ GoalPoints(FALSE)[q] = IF q[2] = "a" THEN match[q[1]].scoreB ELSE match[q[1]].scoreA
    BY <2>2 DEF GoalPoints, Contests!Scored
  <2>9. GoalPoints(TRUE)[p] = GoalPoints(FALSE)[q]
    <3>1. PICK x, y : x = GoalPoints(TRUE)[p] /\ y = GoalPoints(FALSE)[q] OBVIOUS
    <3>2. /\ x = IF p[2] = "a" THEN match[p[1]].scoreA ELSE match[p[1]].scoreB
          /\ y = IF q[2] = "a" THEN match[q[1]].scoreB ELSE match[q[1]].scoreA
      BY <2>8, <3>1, Zenon
    <3>3. x = y BY <2>2, <3>2
    <3> QED BY <3>1, <3>3, Zenon
  <2>10. GoalPoints(TRUE)[p] \in Int /\ GoalPoints(FALSE)[p] \in Int BY <2>3, <2>8
  <2> QED BY <2>1, <2>6, <2>7, <2>9, <2>10
<1>2. IsFiniteSet(Played) /\ \A p \in Played : Opposite[p] \in Played /\ Opposite[Opposite[p]] = p /\ Opposite[p] # p
  BY PlayedSides
<1>3. SumOf(WinPoints, Played) = SumOf(LossPoints, Played)
  <2>1. \A x \in Played : WinPoints[x] \in Int /\ LossPoints[x] \in Int BY DEF WinPoints, LossPoints
  <2>2. \A x \in Played : /\ Opposite[x] \in Played /\ Opposite[Opposite[x]] = x /\ Opposite[x] # x
                          /\ WinPoints[x] \in Int /\ LossPoints[x] \in Int /\ WinPoints[x] = LossPoints[Opposite[x]]
    BY <1>1, <1>2, <2>1, Zenon
  <2> QED BY <1>2, <2>2, SumOfMirror
<1>4. SumOf(GoalPoints(TRUE), Played) = SumOf(GoalPoints(FALSE), Played)
  <2>1. PICK g, h : g = GoalPoints(TRUE) /\ h = GoalPoints(FALSE) OBVIOUS
  <2>2. \A x \in Played : /\ Opposite[x] \in Played /\ Opposite[Opposite[x]] = x /\ Opposite[x] # x
                          /\ g[x] \in Int /\ h[x] \in Int /\ g[x] = h[Opposite[x]]
    BY <1>1, <1>2, <2>1, Zenon
  <2>3. SumOf(g, Played) = SumOf(h, Played) BY <1>2, <2>2, SumOfMirror
  <2> QED BY <2>1, <2>3, Zenon
<1>5. \A p \in Played : WinPoints[p] \in Int /\ LossPoints[p] \in Int BY DEF WinPoints, LossPoints
<1> QED BY <1>1, <1>3, <1>4, <1>5

LEMMA TableIsBalanced == ASSUME ContestWorld, ContestInv PROVE Contests!TableBalances
<1> DEFINE Of(e) == {p \in Played : SideOf[p] = e}
<1>1. PICK wins, losses, balance :
         /\ wins = [e \in Entries |-> Contests!Wins(e)]
         /\ losses = [e \in Entries |-> Contests!Losses(e)]
         /\ balance = [e \in Entries |-> Contests!Difference(e)]
  OBVIOUS
<1>2. IsFiniteSet(Played) /\ SideOf \in [Played -> Entries] /\ IsFiniteSet(Entries) BY PlayedSides DEF ContestWorld
<1>3. \A e \in Entries : IsFiniteSet(Of(e)) /\ Contests!Sides(e) = Of(e) BY PlayedSides
<1>4. \A p \in Played : /\ WinPoints[p] \in {0, 1} /\ LossPoints[p] \in {0, 1}
                        /\ WinPoints[p] \in Int /\ LossPoints[p] \in Int
                        /\ GoalPoints(TRUE)[p] \in Int /\ GoalPoints(FALSE)[p] \in Int
  BY PointsMirror
<1>5. ASSUME NEW e \in Entries PROVE wins[e] = SumOf(WinPoints, Of(e))
  <2>1. {p \in Contests!Sides(e) : ~Contests!Drawn(p) /\ Contests!WonSide(p) = p[2]} = {p \in Of(e) : WinPoints[p] = 1}
    <3>1. \A p \in Of(e) : WinPoints[p] = 1 <=> ~Contests!Drawn(p) /\ Contests!WonSide(p) = p[2] BY DEF WinPoints
    <3>2. Contests!Sides(e) = Of(e) BY <1>3
    <3> HIDE DEF Of
    <3> QED BY <3>1, <3>2
  <2>2. SumOf(WinPoints, Of(e)) = Cardinality({p \in Of(e) : WinPoints[p] = 1})
    <3>1. \A p \in Of(e) : WinPoints[p] \in {0, 1} BY <1>4
    <3> HIDE DEF Of
    <3> QED BY <1>3, <3>1, SumOfOnes
  <2> QED BY <1>1, <2>1, <2>2, ContestSize DEF Contests!Wins
<1>6. ASSUME NEW e \in Entries PROVE losses[e] = SumOf(LossPoints, Of(e))
  <2>1. {p \in Contests!Sides(e) : ~Contests!Drawn(p) /\ Contests!WonSide(p) \in {"a", "b"} \ {p[2]}}
          = {p \in Of(e) : LossPoints[p] = 1}
    <3>1. \A p \in Of(e) :
             LossPoints[p] = 1 <=> ~Contests!Drawn(p) /\ Contests!WonSide(p) \in {"a", "b"} \ {p[2]}
      BY DEF LossPoints
    <3>2. Contests!Sides(e) = Of(e) BY <1>3
    <3> HIDE DEF Of
    <3> QED BY <3>1, <3>2
  <2>2. SumOf(LossPoints, Of(e)) = Cardinality({p \in Of(e) : LossPoints[p] = 1})
    <3>1. \A p \in Of(e) : LossPoints[p] \in {0, 1} BY <1>4
    <3> HIDE DEF Of
    <3> QED BY <1>3, <3>1, SumOfOnes
  <2> QED BY <1>1, <2>1, <2>2, ContestSize DEF Contests!Losses
<1>7. SumOf(wins, Entries) = SumOf(WinPoints, Played)
  <2>1. \A p \in Played : WinPoints[p] \in Int BY <1>4
  <2> QED BY <1>2, <1>5, <2>1, SumOfGroups
<1>8. SumOf(losses, Entries) = SumOf(LossPoints, Played)
  <2>1. \A p \in Played : LossPoints[p] \in Int BY <1>4
  <2> QED BY <1>2, <1>6, <2>1, SumOfGroups
<1>9. Contests!Total(wins) = Contests!Total(losses) BY <1>2, <1>7, <1>8, TotalIsSum, PointsMirror
<1>10. PICK own, other : /\ own = [e \in Entries |-> SumOf(GoalPoints(TRUE), Of(e))]
                         /\ other = [e \in Entries |-> SumOf(GoalPoints(FALSE), Of(e))]
  OBVIOUS
<1>11. ASSUME NEW e \in Entries
       PROVE  /\ own[e] = SumOf(GoalPoints(TRUE), Of(e)) /\ other[e] = SumOf(GoalPoints(FALSE), Of(e))
              /\ own[e] \in Int /\ other[e] \in Int /\ balance[e] = own[e] - other[e]
  <2>1. own[e] = SumOf(GoalPoints(TRUE), Of(e)) /\ other[e] = SumOf(GoalPoints(FALSE), Of(e)) BY <1>10
  <2>2. \A p \in Of(e) : GoalPoints(TRUE)[p] \in Int /\ GoalPoints(FALSE)[p] \in Int BY <1>4
  <2>3. balance[e] = Contests!Goals(e, TRUE) - Contests!Goals(e, FALSE) BY <1>1 DEF Contests!Difference
  <2>4. Contests!Goals(e, TRUE) = own[e] /\ Contests!Goals(e, FALSE) = other[e] BY <2>1, GoalsAreSum
  <2>5. own[e] \in Int /\ other[e] \in Int
    <3> HIDE DEF Of
    <3> QED BY <1>3, <2>1, <2>2, SumOfInt
  <2> QED BY <2>1, <2>3, <2>4, <2>5
<1>12. SumOf(own, Entries) = SumOf(GoalPoints(TRUE), Played)
  <2>1. \A p \in Played : GoalPoints(TRUE)[p] \in Int BY <1>4
  <2>2. PICK g : g = GoalPoints(TRUE) OBVIOUS
  <2>3. \A e \in Entries : own[e] = SumOf(g, {p \in Played : SideOf[p] = e}) BY <1>11, <2>2
  <2>4. \A p \in Played : g[p] \in Int BY <2>1, <2>2
  <2>5. SumOf(own, Entries) = SumOf(g, Played) BY <1>2, <2>3, <2>4, SumOfGroups
  <2> QED BY <2>2, <2>5
<1>13. SumOf(other, Entries) = SumOf(GoalPoints(FALSE), Played)
  <2>1. \A p \in Played : GoalPoints(FALSE)[p] \in Int BY <1>4
  <2>2. PICK g : g = GoalPoints(FALSE) OBVIOUS
  <2>3. \A e \in Entries : other[e] = SumOf(g, {p \in Played : SideOf[p] = e}) BY <1>11, <2>2
  <2>4. \A p \in Played : g[p] \in Int BY <2>1, <2>2
  <2>5. SumOf(other, Entries) = SumOf(g, Played) BY <1>2, <2>3, <2>4, SumOfGroups
  <2> QED BY <2>2, <2>5
<1>14. SumOf(balance, Entries) = SumOf(own, Entries) - SumOf(other, Entries)
  <2>1. \A e \in Entries : own[e] \in Int /\ other[e] \in Int /\ balance[e] = own[e] - other[e] BY <1>11
  <2> HIDE DEF Of
  <2> QED BY <1>2, <2>1, SumOfMinus
<1>15. SumOf(own, Entries) \in Int /\ SumOf(own, Entries) = SumOf(other, Entries)
  <2>1. SumOf(own, Entries) \in Int BY <1>2, <1>11, SumOfInt
  <2> QED BY <2>1, <1>12, <1>13, PointsMirror
<1>16. Contests!Total(balance) = 0 BY <1>2, <1>14, <1>15, TotalIsSum
<1> QED BY <1>1, <1>9, <1>16, Zenon DEF Contests!TableBalances

LEMMA ContestStart == ASSUME ContestWorld, Contests!Init PROVE ContestInv /\ Contests!VoteCarriesOver
<1> USE DEF Contests!Init
<1>1. "draft" \in Contests!CompetitionStatus
  <2>1. <<"draft", "open">> \in Contests!CompetitionMoves BY DEF Contests!CompetitionMoves
  <2>2. <<"draft", "open">>[1] = "draft" OBVIOUS
  <2> QED BY <2>1, <2>2 DEF Contests!CompetitionStatus
<1>2. Contests!TypeOK BY <1>1 DEF Contests!TypeOK
<1>3. \A s \in Sessions : sess[s].op = "idle" BY DEF Contests!Idle
<1>4. ContestInv BY <1>2, <1>3 DEF ContestInv, Contests!OneEntryEach
<1> QED BY <1>4 DEF Contests!VoteCarriesOver

LEMMA ContestStep ==
    ASSUME ContestWorld, ContestInv, [Contests!Next]_Contests!vars
    PROVE  ContestInv' /\ (VoteComesFirst => FairStep)
<1>1. CASE UNCHANGED Contests!vars
  <2>1. comp' = comp /\ stages' = stages /\ entry' = entry /\ match' = match /\ sess' = sess
    BY <1>1 DEF Contests!vars
  <2>2. ContestInv' BY <2>1 DEF ContestInv, Contests!TypeOK, Contests!OneEntryEach
  <2>3. FairStep BY <2>1 DEF FairStep, FixturesStay, StaysFair
  <2> QED BY <2>2, <2>3
<1>2. CASE Contests!Next
  <2>1. CASE \E o \in Contests!Orders : Contests!CreateStage(o) BY <2>1, QuietStep
  <2>2. ASSUME NEW f \in Fixtures, NEW o \in Contests!Orders, NEW a \in Entries, NEW b \in Entries \cup {Contests!None},
               Contests!CreateMatch(f, o, a, b)
        PROVE  ContestInv' /\ FairStep
    <3>1. b \in Entries \cup {0} BY DEF Contests!None
    <3> QED BY <2>2, <3>1, CreateMatchStep
  <2>3. ASSUME NEW s \in Sessions,
               \/ Contests!LoadStatus(s)
               \/ \E e \in Entries : Contests!LoadAdvance(s, e) \/ Contests!LoadVote(s, e)
               \/ \E e \in Entries, who \in Regs : Contests!EnterCheck(s, e, who)
               \/ \E f \in Fixtures : Contests!LoadResult(s, f)
        PROVE  ContestInv' /\ FairStep
    BY <2>3, LoadSteps
  <2>4. ASSUME NEW s \in Sessions, Contests!Abort(s) \/ \E t \in Contests!CompetitionStatus : Contests!ChangeStatus(s, t)
        PROVE  ContestInv' /\ FairStep
    BY <2>4, QuietStep
  <2>5. ASSUME NEW s \in Sessions, Contests!EnterCommit(s) PROVE ContestInv' /\ FairStep BY <2>5, EnterStep
  <2>6. ASSUME NEW s \in Sessions, Contests!Vote(s) PROVE ContestInv' /\ (VoteComesFirst => FairStep) BY <2>6, VoteStep
  <2>7. ASSUME NEW s \in Sessions, NEW out \in BOOLEAN, Contests!Advance(s, out)
        PROVE  ContestInv' /\ (VoteComesFirst => FairStep)
    BY <2>7, AdvanceStep
  <2>8. ASSUME NEW s \in Sessions, NEW how \in Contests!Result, NEW w \in Entries \cup {Contests!None}, NEW x \in Scores,
               NEW y \in Scores, Contests!RecordResult(s, how, w, x, y)
        PROVE  ContestInv' /\ (VoteComesFirst => FairStep)
    <3>1. w \in Entries \cup {0} BY DEF Contests!None
    <3> QED BY <2>8, <3>1, ResultStep
  <2> QED BY <1>2, <2>1, <2>2, <2>3, <2>4, <2>5, <2>6, <2>7, <2>8 DEF Contests!Next
<1> QED BY <1>1, <1>2

\* In every competition a registration takes part once and the table balances, however requests overlap.
THEOREM TablesBalance ==
    ASSUME ContestWorld
    PROVE  Contests!Spec => [](Contests!TypeOK /\ Contests!OneEntryEach /\ Contests!TableBalances)
<1>1. Contests!Init => ContestInv BY ContestStart
<1>2. ContestInv /\ [Contests!Next]_Contests!vars => ContestInv' BY ContestStep
<1>3. ContestInv => Contests!TypeOK /\ Contests!OneEntryEach /\ Contests!TableBalances
  BY TableIsBalanced DEF ContestInv
<1> QED BY <1>1, <1>2, <1>3, PTL DEF Contests!Spec

\* Where public votes come before all else, the vote that reaches the threshold carries the entry over.
THEOREM VotesCarryOver ==
    ASSUME ContestWorld, VoteComesFirst
    PROVE  Contests!Spec => []Contests!VoteCarriesOver
<1> DEFINE Inv == ContestInv /\ Contests!VoteCarriesOver
<1>1. Contests!Init => Inv BY ContestStart
<1>2. Inv /\ [Contests!Next]_Contests!vars => Inv'
  <2> SUFFICES ASSUME Inv, [Contests!Next]_Contests!vars PROVE Inv' OBVIOUS
  <2>1. ContestInv' /\ FairStep BY ContestStep
  <2>2. Contests!VoteCarriesOver' BY <2>1, FairKept
  <2> QED BY <2>1, <2>2
<1>3. Inv => Contests!VoteCarriesOver OBVIOUS
<1> QED BY <1>1, <1>2, <1>3, PTL DEF Contests!Spec
================================================================================
