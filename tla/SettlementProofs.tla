-------------------------- MODULE SettlementProofs --------------------------
(***************************************************************************)
(* A paid order is covered by deposits on the chain, for any number of     *)
(* orders, addresses and transactions, any amounts, and every interleaving *)
(* of the wallet, the watcher and the webhook.                             *)
(*                                                                         *)
(* What a sighting says was true when the wallet answered, and stays true: *)
(* every deposit that counted then still counts, at the same amount and at *)
(* least as deep.  This argument is about sums over changing sets, so the  *)
(* first part proves what is needed of Total, by induction over the        *)
(* subsets of a finite set.  The second part is the invariant.             *)
(***************************************************************************)
EXTENDS Settlement, FiniteSetTheorems, WellFoundedInduction, TLAPS

-----------------------------------------------------------------------------
(* Sums *)

\* A non-empty collection of subsets of a finite set has a smallest one: the
\* induction over finite sets that the lemmas on sums below rest on.
LEMMA MinimalSet ==
    ASSUME NEW S, IsFiniteSet(S), NEW T, T \subseteq SUBSET S, T # {}
    PROVE  \E m \in T : \A y \in T : y \subseteq m => y = m
<1>1. IsWellFoundedOn(StrictSubsetOrdering(S), FiniteSubsetsOf(S))
  BY FS_StrictSubsetOrderingWellFounded
<1>2. FiniteSubsetsOf(S) = SUBSET S
  BY FS_FiniteSubsetsOfFinite
<1>3. PICK m \in T : \A y \in T : ~ (<<y, m>> \in StrictSubsetOrdering(S))
  BY <1>1, <1>2, WFMin
<1>4. ASSUME NEW y \in T, y \subseteq m PROVE y = m
  BY <1>3, <1>4 DEF StrictSubsetOrdering
<1> QED BY <1>4

\* The note that the sum takes out of a set first.
Pick(s) == CHOOSE x \in s : TRUE
\* g adds up the subsets of S.
IsIter(g, S) == g = [s \in SUBSET S |-> IF s = {} THEN 0 ELSE Pick(s).amount + g[s \ {Pick(s)}]]

\* The sum is a function over the subsets that takes out one note at a time.
LEMMA TotalIter == ASSUME NEW S PROVE Total(S) = (CHOOSE g : IsIter(g, S))[S]
  BY DEF Total, MapThenSumSet, MapThenFoldSet, IsIter, Pick

\* A note is taken out of a set that has one.
LEMMA PickIn == ASSUME NEW s, s # {} PROVE Pick(s) \in s
  BY DEF Pick

\* There is at most one such function, over whichever larger set it is defined.
LEMMA IterUnique ==
    ASSUME NEW S, IsFiniteSet(S), NEW U, NEW g, NEW h, IsIter(g, S), IsIter(h, U), S \subseteq U
    PROVE  g[S] = h[S]
<1> DEFINE T == {s \in SUBSET S : g[s] # h[s]}
<1>1. SUFFICES ASSUME T # {} PROVE FALSE
  OBVIOUS
<1>a. T \subseteq SUBSET S
  OBVIOUS
<1>2. PICK s \in T : \A y \in T : y \subseteq s => y = s
  <2> HIDE DEF T
  <2> QED BY <1>1, <1>a, MinimalSet
<1>3. /\ s \in SUBSET S /\ s \in SUBSET U
      /\ s \ {Pick(s)} \in SUBSET S
  BY <1>2
<1>4. /\ g[s] = IF s = {} THEN 0 ELSE Pick(s).amount + g[s \ {Pick(s)}]
      /\ h[s] = IF s = {} THEN 0 ELSE Pick(s).amount + h[s \ {Pick(s)}]
  BY <1>3 DEF IsIter
<1>5. s # {} => g[s \ {Pick(s)}] = h[s \ {Pick(s)}]
  BY <1>2, <1>3, PickIn
<1> QED BY <1>2, <1>4, <1>5

\* There is one.
LEMMA IterExists ==
    ASSUME NEW S, IsFiniteSet(S)
    PROVE  \E g : IsIter(g, S)
<1> DEFINE T == {U \in SUBSET S : ~\E g : IsIter(g, U)}
<1>1. SUFFICES ASSUME T # {} PROVE FALSE
  OBVIOUS
<1>a. T \subseteq SUBSET S
  OBVIOUS
<1>2. PICK U \in T : \A y \in T : y \subseteq U => y = U
  <2> HIDE DEF T
  <2> QED BY <1>1, <1>a, MinimalSet
<1> DEFINE Iter(V) == CHOOSE g : IsIter(g, V)
           g == [s \in SUBSET U |-> IF s = {} THEN 0
                                    ELSE Pick(s).amount + Iter(s \ {Pick(s)})[s \ {Pick(s)}]]
<1>3. ASSUME NEW V \in SUBSET U, V # U PROVE IsIter(Iter(V), V)
  BY <1>2, <1>3
<1>4. ASSUME NEW s \in SUBSET U, s # {}
      PROVE  g[s \ {Pick(s)}] = Iter(s \ {Pick(s)})[s \ {Pick(s)}]
  <2> DEFINE t == s \ {Pick(s)}
  <2>1. t \in SUBSET U /\ t # U /\ Pick(s) \in s
    BY <1>4, PickIn
  <2>2. IsIter(Iter(t), t)
    BY <2>1, <1>3
  <2>3. Iter(t)[t] = IF t = {} THEN 0 ELSE Pick(t).amount + Iter(t)[t \ {Pick(t)}]
    BY <2>2 DEF IsIter
  <2>4. t # {} => Iter(t)[t \ {Pick(t)}] = Iter(t \ {Pick(t)})[t \ {Pick(t)}]
    <3> SUFFICES ASSUME t # {} PROVE Iter(t)[t \ {Pick(t)}] = Iter(t \ {Pick(t)})[t \ {Pick(t)}]
      OBVIOUS
    <3> DEFINE u == t \ {Pick(t)}
    <3>1. u \in SUBSET U /\ u # U /\ u \subseteq t
      BY <2>1
    <3>2. IsIter(Iter(u), u)
      BY <3>1, <1>3
    <3>3. IsFiniteSet(u)
      BY <3>1, FS_Subset
    <3> HIDE DEF Iter, t, u
    <3>4. Iter(u)[u] = Iter(t)[u]
      BY <2>2, <3>1, <3>2, <3>3, IterUnique
    <3> QED BY <3>4 DEF u
  <2>5. g[t] = IF t = {} THEN 0 ELSE Pick(t).amount + Iter(t \ {Pick(t)})[t \ {Pick(t)}]
    BY <2>1
  <2> QED BY <2>3, <2>4, <2>5
<1>5. IsIter(g, U)
  <2> HIDE DEF Iter
  <2>1. [s \in SUBSET U |-> IF s = {} THEN 0 ELSE Pick(s).amount + Iter(s \ {Pick(s)})[s \ {Pick(s)}]]
        = [s \in SUBSET U |-> IF s = {} THEN 0 ELSE Pick(s).amount + g[s \ {Pick(s)}]]
    BY <1>4
  <2> QED BY <2>1 DEF IsIter
<1> QED BY <1>2, <1>5

\* So the sum of a set is a note and the sum of the others.
LEMMA TotalDef ==
    ASSUME NEW S, IsFiniteSet(S)
    PROVE  Total(S) = IF S = {} THEN 0 ELSE Pick(S).amount + Total(S \ {Pick(S)})
<1> DEFINE g == CHOOSE h : IsIter(h, S)
           k == CHOOSE h : IsIter(h, S \ {Pick(S)})
<1>0. IsFiniteSet(S \ {Pick(S)})
  BY FS_RemoveElement
<1>1. IsIter(g, S) /\ IsIter(k, S \ {Pick(S)})
  BY <1>0, IterExists
<1>2. Total(S) = g[S] /\ Total(S \ {Pick(S)}) = k[S \ {Pick(S)}]
  BY TotalIter
<1> HIDE DEF g, k
<1>3. k[S \ {Pick(S)}] = g[S \ {Pick(S)}]
  BY <1>0, <1>1, IterUnique
<1>4. g[S] = IF S = {} THEN 0 ELSE Pick(S).amount + g[S \ {Pick(S)}]
  BY <1>1 DEF IsIter
<1> QED BY <1>2, <1>3, <1>4

\* A finite set of things that have an amount.
Notes(S) == IsFiniteSet(S) /\ \A d \in S : d.amount \in Nat

\* The sum of amounts is an amount.
LEMMA TotalType == ASSUME NEW S, Notes(S) PROVE Total(S) \in Nat
<1> DEFINE T == {s \in SUBSET S : Total(s) \notin Nat}
<1>1. SUFFICES ASSUME T # {} PROVE FALSE
  OBVIOUS
<1>a. T \subseteq SUBSET S
  OBVIOUS
<1>2. PICK s \in T : \A y \in T : y \subseteq s => y = s
  <2> HIDE DEF T
  <2> QED BY <1>1, <1>a, MinimalSet DEF Notes
<1>3. IsFiniteSet(s)
  BY <1>2, FS_Subset DEF Notes
<1>4. s # {} => Total(s \ {Pick(s)}) \in Nat /\ Pick(s).amount \in Nat
  BY <1>2, PickIn DEF Notes
<1>5. Total(s) = IF s = {} THEN 0 ELSE Pick(s).amount + Total(s \ {Pick(s)})
  BY <1>3, TotalDef
<1>6. Total(s) \in Nat
  BY <1>4, <1>5
<1> QED BY <1>2, <1>6

\* It does not matter which note is taken out.
LEMMA TotalRemove ==
    ASSUME NEW S, Notes(S), NEW d \in S
    PROVE  Total(S) = d.amount + Total(S \ {d})
<1> DEFINE T == {s \in SUBSET S : \E e \in s : Total(s) # e.amount + Total(s \ {e})}
<1>1. SUFFICES ASSUME T # {} PROVE FALSE
  OBVIOUS
<1>a. T \subseteq SUBSET S
  OBVIOUS
<1>2. PICK s \in T : \A y \in T : y \subseteq s => y = s
  <2> HIDE DEF T
  <2> QED BY <1>1, <1>a, MinimalSet DEF Notes
<1>3. PICK e \in s : Total(s) # e.amount + Total(s \ {e})
  BY <1>2
<1> DEFINE p == Pick(s)
           r == s \ {p}
<1>4. p \in s
  BY <1>3, PickIn
<1>5. IsFiniteSet(s) /\ IsFiniteSet(r) /\ IsFiniteSet(s \ {e})
  BY <1>2, FS_Subset DEF Notes
<1>6. Total(s) = p.amount + Total(r)
  BY <1>3, <1>5, TotalDef
<1>7. e # p
  BY <1>3, <1>6
<1>8. Total(r) = e.amount + Total(r \ {e})
  <2>1. r \notin T /\ r \in SUBSET S
    BY <1>2, <1>4
  <2> QED BY <2>1, <1>3, <1>7
<1>9. Total(s \ {e}) = p.amount + Total((s \ {e}) \ {p})
  <2>1. s \ {e} \notin T /\ s \ {e} \in SUBSET S
    BY <1>2, <1>3
  <2> QED BY <2>1, <1>4, <1>7
<1>10. (s \ {e}) \ {p} = r \ {e}
  OBVIOUS
<1>11. p.amount \in Nat /\ e.amount \in Nat /\ Total(r \ {e}) \in Nat
  <2>1. Notes(r \ {e})
    BY <1>2, FS_Subset DEF Notes
  <2> QED BY <2>1, <1>2, <1>3, <1>4, TotalType DEF Notes
<1> HIDE DEF p, r
<1> QED BY <1>3, <1>6, <1>8, <1>9, <1>10, <1>11

\* Some of the notes are worth no more than all of them.
LEMMA TotalSubset ==
    ASSUME NEW S, Notes(S), NEW A \in SUBSET S
    PROVE  Total(A) <= Total(S)
<1> DEFINE T == {s \in SUBSET S : A \subseteq s /\ ~(Total(A) <= Total(s))}
<1>1. SUFFICES ASSUME T # {} PROVE FALSE
  OBVIOUS
<1>a. T \subseteq SUBSET S
  OBVIOUS
<1>2. PICK s \in T : \A y \in T : y \subseteq s => y = s
  <2> HIDE DEF T
  <2> QED BY <1>1, <1>a, MinimalSet DEF Notes
<1>3. Notes(A) /\ Notes(s)
  BY <1>2, FS_Subset DEF Notes
<1>4. Total(A) \in Nat
  BY <1>3, TotalType
<1>b. s # A
  BY <1>2, <1>4
<1>5. PICK d \in s : d \notin A
  BY <1>2, <1>b
<1>6. s \ {d} \notin T /\ s \ {d} \in SUBSET S /\ A \subseteq s \ {d}
  BY <1>2, <1>5
<1>7. Total(A) <= Total(s \ {d})
  BY <1>6
<1>8. Total(s) = d.amount + Total(s \ {d}) /\ d.amount \in Nat
  BY <1>3, <1>5, TotalRemove DEF Notes
<1>9. Total(s \ {d}) \in Nat
  <2>1. Notes(s \ {d})
    BY <1>3, FS_RemoveElement DEF Notes
  <2> QED BY <2>1, TotalType
<1> QED BY <1>2, <1>4, <1>7, <1>8, <1>9

\* The sum stays when every note is replaced by another of its amount.
LEMMA TotalImage ==
    ASSUME NEW S, Notes(S), NEW U, Notes(U), NEW m \in [S -> U],
           \A d, e \in S : m[d] = m[e] => d = e,
           \A d \in S : m[d].amount = d.amount
    PROVE  Total({m[d] : d \in S}) = Total(S)
<1> DEFINE Image(s) == {m[d] : d \in s}
           T == {s \in SUBSET S : Total(Image(s)) # Total(s)}
<1>1. SUFFICES ASSUME T # {} PROVE FALSE
  OBVIOUS
<1>a. T \subseteq SUBSET S
  OBVIOUS
<1>2. PICK s \in T : \A y \in T : y \subseteq s => y = s
  <2> HIDE DEF T
  <2> QED BY <1>1, <1>a, MinimalSet DEF Notes
<1>3. Notes(s) /\ Notes(Image(s))
  <2>1. Image(s) \in SUBSET U
    BY <1>2
  <2> HIDE DEF Image
  <2> QED BY <1>2, <2>1, FS_Subset DEF Notes
<1>4. s # {}
  BY <1>2
<1>5. PICK d \in s : TRUE
  BY <1>4
<1>6. Total(Image(s \ {d})) = Total(s \ {d})
  BY <1>2, <1>5
<1>7. Image(s \ {d}) = Image(s) \ {m[d]} /\ m[d] \in Image(s)
  BY <1>2, <1>5
<1>8. Total(s) = d.amount + Total(s \ {d})
  BY <1>3, <1>5, TotalRemove
<1>9. Total(Image(s)) = m[d].amount + Total(Image(s) \ {m[d]})
  <2> HIDE DEF Image
  <2> QED BY <1>3, <1>7, TotalRemove
<1>10. m[d].amount = d.amount
  BY <1>2, <1>5
<1> HIDE DEF Image
<1> QED BY <1>2, <1>6, <1>7, <1>8, <1>9, <1>10 DEF Image

\* A set that has another note of the same amount for each of these is worth as much.
LEMMA TotalInjection ==
    ASSUME NEW S, Notes(S), NEW U, Notes(U), NEW m \in [S -> U],
           \A d, e \in S : m[d] = m[e] => d = e,
           \A d \in S : m[d].amount = d.amount
    PROVE  Total(S) <= Total(U)
<1>1. {m[d] : d \in S} \in SUBSET U
  OBVIOUS
<1>2. Total({m[d] : d \in S}) <= Total(U)
  BY <1>1, TotalSubset
<1> QED BY <1>2, TotalImage

-----------------------------------------------------------------------------
(* The invariant *)

\* The deposits to an address that are at least so deep; none is too shallow
\* for zero confirmations, an expired one included.
Counted(a, c) == {d \in deposits : d.to = a /\ (c = 0 \/ d.depth >= c)}

\* A transaction that was sent to the address, whatever became of it.
SentTo(a, t) == \E d \in deposits : d.to = a /\ d.txid = t

\* Orders and their addresses point to each other.
OrdersInv ==
    \A o \in Orders :
        /\ order[o].address # None => /\ order[o].address \in Addresses
                                      /\ pool[order[o].address] = o
        /\ order[o].status # "listed" <=> order[o].address # None

PoolInv == \A a \in Addresses : pool[a] \in Orders => order[pool[a]].address = a

DepositsInv == /\ IsFiniteSet(deposits)
               /\ \A d, e \in deposits : d.txid = e.txid => d = e

\* The watcher looks at assigned addresses, and what it is about to report is
\* still covered by the chain.
WatcherInv ==
    /\ \A a \in todo : pool[a] \in Orders
    /\ sighting # None =>
         /\ pool[sighting.address] \in Orders
         /\ SentTo(sighting.address, sighting.txid)
         /\ Total(Counted(sighting.address, sighting.confirmations)) >= sighting.amount

\* So is what was reported and taken for a payment.
PaidOrder(o) ==
    /\ order[o].onchain # None => SentTo(order[o].address, order[o].onchain)
    /\ order[o].status = "paid" =>
         /\ order[o].onchain # None
         /\ Total(Counted(order[o].address, MinConfirmations)) >= Price

PaidInv == \A o \in Orders : PaidOrder(o)

Inv == TypeOK /\ OrdersInv /\ PoolInv /\ DepositsInv /\ WatcherInv /\ PaidInv

-----------------------------------------------------------------------------
(* The wallet's smallest depth *)

\* A finite set of integers has a smallest one.
LEMMA MinOfIntegers ==
    ASSUME NEW S, IsFiniteSet(S), S \subseteq Int, S # {}
    PROVE  Min(S) \in S /\ \A x \in S : Min(S) <= x
<1> DEFINE Below(x) == {y \in S : y <= x}
           T == {U \in SUBSET S : \E x \in S : U = Below(x)}
<1>1. T \subseteq SUBSET S
  OBVIOUS
<1>2. T # {}
  OBVIOUS
<1>3. PICK m \in T : \A y \in T : y \subseteq m => y = m
  <2> HIDE DEF T
  <2> QED BY ONLY IsFiniteSet(S), <1>1, <1>2, MinimalSet
<1>4. PICK x \in S : m = Below(x)
  BY <1>3
<1>5. ASSUME NEW y \in S PROVE x <= y
  <2>1. SUFFICES ASSUME y <= x PROVE x <= y
    OBVIOUS
  <2>2. Below(y) \subseteq Below(x)
    <3>1. ASSUME NEW z \in S, z <= y PROVE z <= x
      <4>1. x \in Int /\ y \in Int /\ z \in Int
        OBVIOUS
      <4> QED BY <2>1, <3>1, <4>1
    <3> QED BY <3>1
  <2>3. Below(y) \in T
    OBVIOUS
  <2>4. Below(y) = Below(x)
    <3> HIDE DEF T, Below
    <3> QED BY <1>3, <1>4, <2>2, <2>3
  <2>5. x \in Below(x)
    OBVIOUS
  <2> QED BY <2>4, <2>5
<1> QED BY <1>5 DEF Min

\* So has a set of depths.
LEMMA MinOfDepths ==
    ASSUME NEW S \in SUBSET (0 .. MaxDepth), S # {}
    PROVE  Min(S) \in S /\ \A x \in S : Min(S) <= x
<1>1. MaxDepth \in Int
  BY SettlementAssumption
<1>2. IsFiniteSet(0 .. MaxDepth)
  BY <1>1, FS_Interval
<1>3. IsFiniteSet(S)
  BY <1>2, FS_Subset
<1>4. S \subseteq Int
  BY <1>1
<1> QED BY <1>3, <1>4, MinOfIntegers

\* The smaller of two numbers.
LEMMA MinOfTwo ==
    ASSUME NEW x \in Int, NEW y \in Int
    PROVE  Min({x, y}) = IF x <= y THEN x ELSE y
  BY DEF Min

-----------------------------------------------------------------------------
(* What counts keeps counting *)

\* Every deposit is still there, unless it expires no shallower than before.
DepositsGrow ==
    \A d \in deposits : \E e \in deposits' :
        /\ e.txid = d.txid /\ e.to = d.to /\ e.amount = d.amount
        /\ d.depth > 0 => e.depth >= d.depth

\* Some of the deposits are a finite set of notes.
LEMMA DepositsAreNotes ==
    ASSUME TypeOK, DepositsInv, NEW S \in SUBSET deposits
    PROVE  Notes(S)
<1>1. IsFiniteSet(S)
  BY FS_Subset DEF DepositsInv
<1>2. \A d \in S : d.amount \in Amounts
  BY DEF TypeOK, Deposits
<1> QED BY <1>1, <1>2, SettlementAssumption DEF Notes

\* So what counts for an address never becomes less: each of its deposits
\* goes on as one deposit, and no two of them as the same one.
LEMMA CountedGrows ==
    ASSUME TypeOK, DepositsInv, TypeOK', DepositsInv', DepositsGrow, NEW a, NEW c \in Nat
    PROVE  /\ Total(Counted(a, c)) \in Nat /\ Total(Counted(a, c))' \in Nat
           /\ Total(Counted(a, c)) <= Total(Counted(a, c))'
<1> DEFINE S == Counted(a, c)
           U == Counted(a, c)'
           m == [d \in S |-> CHOOSE e \in U : e.txid = d.txid /\ e.amount = d.amount]
<1>1. S \in SUBSET deposits /\ U \in SUBSET deposits'
  BY DEF Counted
<1>2. Notes(S) /\ Notes(U)
  <2>1. Notes(S)
    BY <1>1, DepositsAreNotes
  <2>2. IsFiniteSet(U)
    BY <1>1, FS_Subset DEF DepositsInv
  <2>3. \A d \in U : d.amount \in Amounts
    BY <1>1 DEF TypeOK, Deposits
  <2> QED BY <2>1, <2>2, <2>3, SettlementAssumption DEF Notes
<1>3. ASSUME NEW d \in S
      PROVE  \E e \in U : e.txid = d.txid /\ e.amount = d.amount
  <2>1. PICK e \in deposits' : /\ e.txid = d.txid /\ e.to = d.to /\ e.amount = d.amount
                               /\ d.depth > 0 => e.depth >= d.depth
    BY <1>1 DEF DepositsGrow
  <2>2. e.to = a /\ (c = 0 \/ d.depth >= c) /\ d.depth \in Int /\ e.depth \in Int
    BY <1>1, <2>1, SettlementAssumption DEF Counted, TypeOK, Deposits, Gone
  <2>3. e \in U
    BY <2>1, <2>2 DEF Counted
  <2> QED BY <2>1, <2>3
<1> HIDE DEF S, U
<1>4. m \in [S -> U] /\ \A d \in S : m[d].txid = d.txid /\ m[d].amount = d.amount
  BY <1>3
<1>5. \A d, e \in S : m[d] = m[e] => d = e
  <2> HIDE DEF m
  <2> QED BY <1>1, <1>4 DEF DepositsInv
<1>6. Total(S) <= Total(U)
  <2> HIDE DEF m
  <2> QED BY <1>2, <1>4, <1>5, TotalInjection
<1>7. Total(S) \in Nat /\ Total(U) \in Nat
  BY <1>2, TotalType
<1> QED BY <1>6, <1>7 DEF S, U

\* What the watcher and the orders rely on survives every step of the chain.
LEMMA ChainStep ==
    ASSUME Inv, TypeOK', DepositsInv', DepositsGrow,
           UNCHANGED <<pool, order, todo, sighting>>
    PROVE  Inv'
<1>1. ASSUME NEW a, NEW t, SentTo(a, t) PROVE SentTo(a, t)'
  BY <1>1 DEF SentTo, DepositsGrow
<1>2. OrdersInv' /\ PoolInv'
  BY DEF Inv, OrdersInv, PoolInv
<1>3. WatcherInv'
  <2>1. SUFFICES ASSUME sighting # None
                 PROVE  Total(Counted(sighting.address, sighting.confirmations))' >= sighting.amount
    BY <1>1 DEF Inv, WatcherInv
  <2>2. sighting.confirmations \in Nat /\ sighting.amount \in Nat
    BY <2>1, SettlementAssumption DEF Inv, TypeOK, Sightings
  <2>3. /\ Total(Counted(sighting.address, sighting.confirmations)) \in Nat
        /\ Total(Counted(sighting.address, sighting.confirmations))' \in Nat
        /\ Total(Counted(sighting.address, sighting.confirmations))
             <= Total(Counted(sighting.address, sighting.confirmations))'
    <3> DEFINE a == sighting.address
               c == sighting.confirmations
    <3>1. a' = a /\ c' = c
      OBVIOUS
    <3>2. c \in Nat
      BY <2>2
    <3>3. Counted(sighting.address, sighting.confirmations)'
            = {d \in deposits' : d.to = a /\ (c = 0 \/ d.depth >= c)}
      BY DEF Counted
    <3> QED BY <3>2, <3>3, CountedGrows DEF Inv, Counted
  <2> QED BY <2>1, <2>2, <2>3 DEF Inv, WatcherInv
<1>4. PaidInv'
  <2>1. SUFFICES ASSUME NEW o \in Orders, order[o].status = "paid"
                 PROVE  Total(Counted(order[o].address, MinConfirmations))' >= Price
    BY <1>1 DEF Inv, PaidInv, PaidOrder
  <2>2. /\ Total(Counted(order[o].address, MinConfirmations)) \in Nat
        /\ Total(Counted(order[o].address, MinConfirmations))' \in Nat
        /\ Total(Counted(order[o].address, MinConfirmations))
             <= Total(Counted(order[o].address, MinConfirmations))'
    <3> DEFINE a == order[o].address
    <3>1. Counted(order[o].address, MinConfirmations)'
            = {d \in deposits' : d.to = a /\ (MinConfirmations = 0 \/ d.depth >= MinConfirmations)}
      BY DEF Counted
    <3> QED BY <3>1, SettlementAssumption, CountedGrows DEF Inv, Counted
  <2> QED BY <2>1, <2>2, SettlementAssumption DEF Inv, PaidInv, PaidOrder
<1> QED BY <1>2, <1>3, <1>4 DEF Inv

-----------------------------------------------------------------------------
(* The steps of the chain *)

\* A payment adds a transaction that is new.
LEMMA PayStep ==
    ASSUME Inv, NEW o \in Orders, NEW t \in Txids, NEW amount \in Amounts, Pay(o, t, amount)
    PROVE  Inv'
<1> DEFINE d == [txid |-> t, to |-> order[o].address, amount |-> amount, depth |-> 0]
<1>1. deposits' = deposits \cup {d} /\ \A e \in deposits : e.txid # d.txid
  BY DEF Pay
<1>2. d \in Deposits
  BY SettlementAssumption DEF Pay, Inv, OrdersInv, Deposits
<1> HIDE DEF d
<1>3. TypeOK'
  BY <1>1, <1>2 DEF Pay, Inv, TypeOK
<1>4. DepositsInv'
  <2>1. IsFiniteSet(deposits')
    BY <1>1, FS_AddElement DEF Inv, DepositsInv
  <2> QED BY <1>1, <2>1 DEF Inv, DepositsInv
<1>5. DepositsGrow
  BY <1>1, SettlementAssumption DEF DepositsGrow, Inv, TypeOK, Deposits, Gone
<1> QED BY <1>3, <1>4, <1>5, ChainStep DEF Pay

\* A block leaves every deposit at least as deep.
LEMMA BlockStep ==
    ASSUME Inv, Block
    PROVE  Inv'
<1> DEFINE Deeper(n) == IF n = Gone THEN Gone ELSE Min({n + 1, MaxDepth})
           Buried(d) == [d EXCEPT !.depth = Deeper(d.depth)]
<1>1. deposits' = {Buried(d) : d \in deposits}
  BY DEF Block
<1>2. ASSUME NEW n \in {Gone} \cup 0 .. MaxDepth
      PROVE  /\ Deeper(n) \in {Gone} \cup 0 .. MaxDepth
             /\ n > 0 => Deeper(n) >= n
  BY MinOfTwo, SettlementAssumption DEF Gone
<1> HIDE DEF Deeper
<1>3. ASSUME NEW d \in deposits
      PROVE  /\ Buried(d) \in Deposits
             /\ Buried(d).txid = d.txid /\ Buried(d).to = d.to /\ Buried(d).amount = d.amount
             /\ d.depth > 0 => Buried(d).depth >= d.depth
  <2>1. d \in Deposits
    BY DEF Inv, TypeOK
  <2> QED BY <2>1, <1>2 DEF Deposits
<1> HIDE DEF Buried
<1>4. TypeOK'
  <2>1. deposits' \subseteq Deposits
    BY <1>1, <1>3
  <2> QED BY <2>1 DEF Block, Inv, TypeOK
<1>5. DepositsInv'
  <2>1. IsFiniteSet(deposits')
    <3> DEFINE f == [d \in deposits |-> Buried(d)]
    <3>1. f \in Surjection(deposits, deposits')
      BY <1>1 DEF Surjection
    <3> QED BY <3>1, FS_Surjection DEF Inv, DepositsInv
  <2> QED BY <1>1, <1>3, <2>1 DEF Inv, DepositsInv
<1>6. DepositsGrow
  BY <1>1, <1>3 DEF DepositsGrow
<1> QED BY <1>4, <1>5, <1>6, ChainStep DEF Block

\* Only a deposit that no block has taken up expires.
LEMMA ExpireStep ==
    ASSUME Inv, NEW d \in deposits, Expire(d)
    PROVE  Inv'
<1> DEFINE e == [d EXCEPT !.depth = Gone]
<1>1. deposits' = (deposits \ {d}) \cup {e} /\ d.depth = 0
  BY DEF Expire
<1>2. /\ e \in Deposits /\ e.txid = d.txid /\ e.to = d.to /\ e.amount = d.amount
      /\ e.depth = Gone
  BY DEF Inv, TypeOK, Deposits
<1> HIDE DEF e
<1>3. TypeOK'
  BY <1>1, <1>2, SettlementAssumption DEF Expire, Disrupt, Inv, TypeOK
<1>4. DepositsInv'
  <2>1. IsFiniteSet(deposits')
    BY <1>1, FS_RemoveElement, FS_AddElement DEF Inv, DepositsInv
  <2> QED BY <1>1, <1>2, <2>1 DEF Inv, DepositsInv
<1>5. DepositsGrow
  <2>1. ASSUME NEW c \in deposits, c # d
        PROVE  c \in deposits' /\ (c.depth > 0 => c.depth >= c.depth)
    BY <1>1, <2>1, SettlementAssumption DEF Inv, TypeOK, Deposits, Gone
  <2> QED BY <1>1, <1>2, <2>1 DEF DepositsGrow
<1> QED BY <1>3, <1>4, <1>5, ChainStep DEF Expire

-----------------------------------------------------------------------------
(* The steps of the pool, the orders and the watcher *)

\* An order without an address has none of the addresses.
LEMMA NoneIsNoAddress == None \notin Addresses
  BY SettlementAssumption DEF Addresses

\* A new address has no order yet, so no order loses its own.
LEMMA FillPoolStep ==
    ASSUME Inv, FillPool
    PROVE  Inv'
<1>1. PICK batch \in SUBSET {a \in Addresses : pool[a] = "unmade"} : PostAddresses(batch)
  BY DEF FillPool
<1>2. \A a \in Addresses : \/ pool'[a] = pool[a]
                           \/ pool[a] = "unmade" /\ pool'[a] \in {"available", "lost"}
  BY <1>1 DEF PostAddresses, RegisterDepositAddresses
<1>3. /\ pool' = [a \in Addresses |-> pool'[a]]
      /\ disruptions' \in 0 .. MaxDisruptions
  <2>1. CASE RegisterDepositAddresses(batch) /\ UNCHANGED disruptions
    BY <2>1 DEF RegisterDepositAddresses, Inv, TypeOK
  <2>2. CASE /\ pool' = [a \in Addresses |-> IF a \in batch THEN "lost" ELSE pool[a]]
             /\ Disrupt
    BY <2>2, SettlementAssumption DEF Disrupt, Inv, TypeOK
  <2> QED BY <1>1, <2>1, <2>2 DEF PostAddresses
<1>4. \A a \in Addresses, o \in Orders : pool'[a] = o <=> pool[a] = o
  BY <1>2, SettlementAssumption
<1>5. pool' \in [Addresses -> {"unmade", "lost", "available"} \cup Orders]
  BY <1>2, <1>3 DEF Inv, TypeOK
<1>6. TypeOK'
  BY <1>3, <1>4, <1>5 DEF FillPool, Inv, TypeOK, OrdersInv
<1>7. OrdersInv' /\ PoolInv'
  BY <1>4 DEF FillPool, Inv, OrdersInv, PoolInv
<1>8. DepositsInv' /\ PaidInv'
  BY DEF FillPool, Inv, DepositsInv, PaidInv, PaidOrder, SentTo, Counted
<1>9. WatcherInv'
  BY <1>4 DEF FillPool, Inv, WatcherInv, SentTo, Counted, TypeOK, Sightings
<1> QED BY <1>6, <1>7, <1>8, <1>9 DEF Inv

\* An intent takes a free address for an order that had none.
LEMMA IntentStep ==
    ASSUME Inv, NEW o \in Orders, CreatePaymentIntent(o)
    PROVE  Inv'
<1>1. PICK a \in Addresses : /\ AssignDepositAddress(o, a)
                             /\ order' = [order EXCEPT ![o].status = "pending", ![o].address = a]
  BY DEF CreatePaymentIntent
<1>2. /\ pool' = [pool EXCEPT ![a] = o]
      /\ \A p \in Orders : pool[a] # p
  BY <1>1, SettlementAssumption DEF AssignDepositAddress
<1>3. /\ order[o].status = "listed" /\ order[o].address = None /\ order[o].onchain = None
      /\ order'[o].status = "pending" /\ order'[o].address = a
      /\ order'[o].onchain = order[o].onchain
      /\ \A p \in Orders : p # o => order'[p] = order[p]
  <2>1. order[o].status = "listed" /\ order[o].address = None
    BY DEF CreatePaymentIntent, Inv, OrdersInv
  <2>2. order[o].onchain = None
    <3>1. ~SentTo(None, order[o].onchain)
      BY NoneIsNoAddress DEF SentTo, Inv, TypeOK, Deposits
    <3> QED BY <2>1, <3>1 DEF Inv, PaidInv, PaidOrder
  <2> QED BY <1>1, <2>1, <2>2 DEF Inv, TypeOK
<1>a. pool' \in [Addresses -> {"unmade", "lost", "available"} \cup Orders]
  BY <1>2 DEF Inv, TypeOK
<1>4. order' \in [Orders -> [status : {"listed", "pending", "paid"},
                             address : Addresses \cup {None}, onchain : Txids \cup {None}]]
  <2> DEFINE Order == [status : {"listed", "pending", "paid"},
                       address : Addresses \cup {None}, onchain : Txids \cup {None}]
  <2>1. order \in [Orders -> Order]
    BY DEF Inv, TypeOK
  <2>2. [order[o] EXCEPT !.status = "pending", !.address = a] \in Order
    BY <2>1
  <2>3. order' = [order EXCEPT ![o] = [order[o] EXCEPT !.status = "pending", !.address = a]]
    BY <1>1, <2>1
  <2> QED BY <2>1, <2>2, <2>3
<1>b. OrdersInv'
  BY <1>2, <1>3, NoneIsNoAddress DEF Inv, TypeOK, OrdersInv
<1>5. PoolInv'
  <2>1. SUFFICES ASSUME NEW c \in Addresses, pool'[c] \in Orders
                 PROVE  order'[pool'[c]].address = c
    BY DEF PoolInv
  <2>2. CASE c = a
    BY <1>2, <1>3, <2>2 DEF Inv, TypeOK
  <2>3. CASE c # a
    <3>1. pool'[c] = pool[c] /\ order[pool[c]].address = c
      BY <1>2, <2>1, <2>3 DEF Inv, TypeOK, PoolInv
    <3> QED BY <1>3, <2>1, <3>1, NoneIsNoAddress
  <2> QED BY <2>2, <2>3
<1>6. TypeOK'
  BY <1>a, <1>4, <1>b DEF CreatePaymentIntent, Inv, TypeOK, OrdersInv
<1>7. DepositsInv'
  BY DEF CreatePaymentIntent, Inv, DepositsInv
<1>8. WatcherInv'
  BY <1>2 DEF CreatePaymentIntent, Inv, WatcherInv, SentTo, Counted, TypeOK, Sightings
<1>9. PaidInv'
  <2>1. UNCHANGED deposits
    BY DEF CreatePaymentIntent
  <2>2. PaidOrder(o)'
    BY <1>3 DEF PaidOrder
  <2>3. ASSUME NEW p \in Orders, p # o PROVE PaidOrder(p)'
    BY <1>3, <2>1, <2>3 DEF Inv, PaidInv, PaidOrder, SentTo, Counted
  <2> QED BY <2>2, <2>3 DEF PaidInv
<1> QED BY <1>b, <1>5, <1>6, <1>7, <1>8, <1>9 DEF Inv

\* The steps that leave orders and chain alone have the watcher to look after.
LEMMA WatcherStep ==
    ASSUME Inv, UNCHANGED <<pool, order, deposits>>,
           count' \in 0 .. Limit, disruptions' \in 0 .. MaxDisruptions,
           todo' \subseteq Addresses, \A a \in todo' : pool[a] \in Orders,
           sighting' \in {sighting, None}
    PROVE  Inv'
<1>1. TypeOK' /\ OrdersInv' /\ PoolInv' /\ DepositsInv'
  BY DEF Inv, TypeOK, OrdersInv, PoolInv, DepositsInv
<1>2. PaidInv'
  BY DEF Inv, PaidInv, PaidOrder, SentTo, Counted
<1>3. WatcherInv'
  BY DEF Inv, WatcherInv, SentTo, Counted
<1> QED BY <1>1, <1>2, <1>3 DEF Inv

\* A pass looks at the addresses that have an order.
LEMMA StartPassStep ==
    ASSUME Inv, StartPass
    PROVE  Inv'
<1>1. todo' = {a \in Addresses : pool[a] \in Orders}
  BY DEF StartPass, PostWatchlist, ListAssignedDepositAddresses
<1> QED BY <1>1, WatcherStep DEF StartPass, Inv, TypeOK

\* A sighting is no more than what counts at its smallest depth.
LEMMA SightingIsCovered ==
    ASSUME Inv, NEW a \in Addresses, NEW s \in SightingsOf(a)
    PROVE  /\ s \in Sightings /\ s.address = a /\ SentTo(a, s.txid)
           /\ Total(Counted(a, s.confirmations)) >= s.amount
<1> DEFINE notes == Unspent(a)
           depths == {n.depth : n \in notes}
<1>1. PICK d \in notes : s = [address |-> a, txid |-> d.txid, amount |-> Total(notes),
                              confirmations |-> Min(depths)]
  BY DEF SightingsOf
<1>2. /\ notes \in SUBSET deposits
      /\ \A n \in notes : n \in Deposits /\ n.to = a /\ n.depth \in 0 .. MaxDepth
  BY DEF Unspent, Inv, TypeOK, Deposits
<1> HIDE DEF notes
<1>3. Min(depths) \in depths /\ \A x \in depths : Min(depths) <= x
  <2>1. depths \in SUBSET (0 .. MaxDepth) /\ depths # {}
    BY <1>1, <1>2
  <2> HIDE DEF depths
  <2> QED BY <2>1, MinOfDepths
<1>4. Notes(notes) /\ Total(notes) \in Nat
  BY <1>2, DepositsAreNotes, TotalType DEF Inv
<1>5. s \in Sightings /\ s.address = a
  BY <1>1, <1>2, <1>3, <1>4 DEF Sightings, Deposits
<1>6. SentTo(a, s.txid)
  BY <1>1, <1>2 DEF SentTo
<1>7. Total(notes) <= Total(Counted(a, s.confirmations))
  <2>1. notes \in SUBSET Counted(a, s.confirmations)
    BY <1>1, <1>2, <1>3, SettlementAssumption DEF Counted
  <2>2. Notes(Counted(a, s.confirmations))
    BY DepositsAreNotes DEF Counted, Inv
  <2> QED BY <2>1, <2>2, TotalSubset
<1>8. Total(Counted(a, s.confirmations)) \in Nat
  BY DepositsAreNotes, TotalType DEF Counted, Inv
<1> QED BY <1>1, <1>4, <1>5, <1>6, <1>7, <1>8

\* The watcher goes on, or has a sighting to report.
LEMMA ScanStep ==
    ASSUME Inv, NEW a \in Addresses, Scan(a)
    PROVE  Inv'
<1>1. /\ todo' \subseteq todo /\ a \in todo
      /\ UNCHANGED <<pool, order, deposits, count>>
      /\ disruptions' \in 0 .. MaxDisruptions
  <2>1. disruptions' \in 0 .. MaxDisruptions
    BY SettlementAssumption DEF Scan, Disrupt, Inv, TypeOK
  <2>2. todo # {} /\ a = Min(todo) /\ todo \subseteq Int
    BY SettlementAssumption DEF Scan, Inv, TypeOK, Addresses
  <2>3. IsFiniteSet(todo)
    <3>1. IsFiniteSet(1 .. MaxAddresses)
      BY SettlementAssumption, FS_Interval
    <3> QED BY <3>1, FS_Subset DEF Inv, TypeOK, Addresses
  <2>4. a \in todo
    BY <2>2, <2>3, MinOfIntegers
  <2> QED BY <2>1, <2>4 DEF Scan
<1>2. CASE UNCHANGED sighting
  BY <1>1, <1>2, WatcherStep DEF Inv, TypeOK, WatcherInv
<1>3. CASE \E s \in SightingsOf(a) : sighting' = s
  <2>1. PICK s \in SightingsOf(a) : sighting' = s
    BY <1>3
  <2>2. /\ s \in Sightings /\ s.address = a /\ SentTo(a, s.txid)
        /\ Total(Counted(a, s.confirmations)) >= s.amount
    BY SightingIsCovered
  <2>3. TypeOK' /\ OrdersInv' /\ PoolInv' /\ DepositsInv'
    BY <1>1, <2>1, <2>2 DEF Inv, TypeOK, OrdersInv, PoolInv, DepositsInv
  <2>4. PaidInv'
    BY <1>1 DEF Inv, PaidInv, PaidOrder, SentTo, Counted
  <2>5. WatcherInv'
    BY <1>1, <2>1, <2>2 DEF Inv, WatcherInv, SentTo, Counted
  <2> QED BY <2>3, <2>4, <2>5 DEF Inv
<1> QED BY <1>2, <1>3 DEF Scan

\* The webhook records the sighting's transaction, the first for this order,
\* and the status that goes with it.
Recorded(o, st) ==
    /\ order[o].status = "pending"
    /\ order[o].onchain \in {None, sighting.txid}
    /\ order' = [order EXCEPT ![o] = [order[o] EXCEPT !.onchain = sighting.txid, !.status = st]]
    /\ PaidOrder(o)'

\* The webhook writes down a transaction that was sent to the order's address,
\* and takes an order for paid when what the sighting says is deep enough.
LEMMA HandleReportStep ==
    ASSUME Inv, sighting # None, UNCHANGED deposits, HandleReport(sighting)
    PROVE  \/ order' = order
           \/ \E o \in Orders, st \in {"pending", "paid"} : Recorded(o, st)
<1>1. PICK s \in Sightings : s = sighting
  BY DEF Inv, TypeOK
<1>a. PICK o \in Orders : o = pool[s.address]
  BY <1>1 DEF Inv, WatcherInv
<1>2. order[o].address = s.address /\ SentTo(s.address, s.txid)
  BY <1>1, <1>a DEF Inv, WatcherInv, PoolInv, Sightings
<1>3. order \in [Orders -> [status : {"listed", "pending", "paid"},
                           address : Addresses \cup {None}, onchain : Txids \cup {None}]]
  BY DEF Inv, TypeOK
<1>4. order[o].address # None
  BY <1>1, <1>2, NoneIsNoAddress DEF Sightings
<1>5. order[o].status # "listed"
  BY <1>2, <1>4 DEF Inv, OrdersInv
<1>6. s.txid # None
  BY <1>1, SettlementAssumption DEF Sightings
<1>7. CASE UNCHANGED order
  BY <1>7
<1>8. CASE MarkDetected(o, s) /\ Accepts(o, s) /\ order[o].status # "paid"
  <2>1. order[o].status = "pending"
    BY <1>2, <1>3, <1>5, <1>8
  <2>2. order' = [order EXCEPT ![o] = [order[o] EXCEPT !.onchain = s.txid, !.status = "pending"]]
    BY <1>2, <1>3, <1>8, <2>1 DEF MarkDetected
  <2>3. PaidOrder(o)'
    BY <1>2, <1>3, <2>2 DEF PaidOrder, SentTo
  <2> QED BY <1>1, <1>8, <2>1, <2>2, <2>3 DEF Accepts, Recorded
<1>9. CASE /\ MarkPaid(o, s) /\ Accepts(o, s) /\ order[o].status # "paid"
           /\ ~(s.confirmations < MinConfirmations)
  <2>1. order[o].status = "pending"
    BY <1>2, <1>3, <1>5, <1>9
  <2>2. order' = [order EXCEPT ![o] = [order[o] EXCEPT !.onchain = s.txid, !.status = "paid"]]
    BY <1>2, <1>3, <1>9 DEF MarkPaid
  <2>3. Total(Counted(s.address, MinConfirmations)) >= Price
    <3> DEFINE U == Counted(s.address, MinConfirmations)
               S == Counted(s.address, s.confirmations)
    <3>1. /\ s.confirmations \in Nat /\ s.amount \in Nat /\ MinConfirmations \in Nat
          /\ s.amount >= Price /\ s.confirmations >= MinConfirmations
          /\ Price \in Nat
      BY <1>1, <1>9, SettlementAssumption DEF Sightings, Accepts
    <3>2. S \in SUBSET U
      BY <3>1, SettlementAssumption DEF Counted, Inv, TypeOK, Deposits, Gone
    <3>3. Notes(S) /\ Notes(U)
      BY DepositsAreNotes DEF Counted, Inv
    <3>4. Total(S) >= s.amount
      BY <1>1 DEF Inv, WatcherInv
    <3> HIDE DEF S, U
    <3>5. Total(S) <= Total(U) /\ Total(S) \in Nat /\ Total(U) \in Nat
      BY <3>2, <3>3, TotalSubset, TotalType
    <3>6. Total(U) >= Price
      BY <3>1, <3>4, <3>5
    <3> QED BY <3>6 DEF U
  <2>4. PaidOrder(o)'
    <3>1. /\ order'[o].onchain = s.txid /\ order'[o].address = s.address
          /\ order'[o].status = "paid"
      BY <1>2, <1>3, <2>2
    <3>2. /\ SentTo(s.address, s.txid)'
          /\ Counted(s.address, MinConfirmations)' = Counted(s.address, MinConfirmations)
      BY <1>2 DEF SentTo, Counted
    <3> QED BY <1>6, <2>3, <3>1, <3>2 DEF PaidOrder
  <2> QED BY <1>1, <1>9, <2>1, <2>2, <2>4 DEF Accepts, Recorded
<1> QED BY <1>1, <1>a, <1>7, <1>8, <1>9 DEF HandleReport, FindOrderIdByDepositAddress, Ignore

\* A report, handled or not, changes no more than that.
LEMMA ReportStep ==
    ASSUME Inv, sighting # None, UNCHANGED <<pool, deposits, todo>>, sighting' = None,
           disruptions' \in 0 .. MaxDisruptions,
           Throttle(sighting) \/ UNCHANGED <<count, order>>
    PROVE  Inv'
<1>1. count' \in 0 .. Limit
  BY SettlementAssumption DEF Throttle, CheckRateLimit, Inv, TypeOK
<1>2. CASE UNCHANGED order
  BY <1>1, <1>2, WatcherStep DEF Inv, TypeOK, WatcherInv
<1>3. CASE HandleReport(sighting) /\ order' # order
  <2>a. UNCHANGED deposits
    OBVIOUS
  <2>b. PICK o \in Orders, st \in {"pending", "paid"} : Recorded(o, st)
    BY <1>3, <2>a, HandleReportStep
  <2>1. /\ order' = [order EXCEPT ![o] =
                       [order[o] EXCEPT !.onchain = sighting.txid, !.status = st]]
        /\ order[o].status = "pending"
        /\ PaidOrder(o)'
    BY <2>b DEF Recorded
  <2>2. sighting.txid \in Txids
    BY DEF Inv, TypeOK, Sightings
  <2>3. order' \in [Orders -> [status : {"listed", "pending", "paid"},
                               address : Addresses \cup {None}, onchain : Txids \cup {None}]]
    <3> DEFINE Order == [status : {"listed", "pending", "paid"},
                         address : Addresses \cup {None}, onchain : Txids \cup {None}]
    <3>1. order \in [Orders -> Order]
      BY DEF Inv, TypeOK
    <3>2. [order[o] EXCEPT !.onchain = sighting.txid, !.status = st] \in Order
      BY <2>2, <3>1
    <3> QED BY <2>1, <3>1, <3>2
  <2>4. /\ \A p \in Orders : order'[p].address = order[p].address
        /\ \A p \in Orders : order'[p].status = "listed" <=> order[p].status = "listed"
        /\ \A p \in Orders : p # o => order'[p] = order[p]
    BY <2>1 DEF Inv, TypeOK
  <2>5. OrdersInv' /\ PoolInv'
    BY <2>4 DEF Inv, OrdersInv, PoolInv
  <2>6. TypeOK'
    <3>1. \A p \in Orders : order'[p].status # "listed" => pool'[order'[p].address] = p
      BY <2>4 DEF Inv, TypeOK
    <3> QED BY <1>1, <2>3, <3>1 DEF Inv, TypeOK
  <2>7. DepositsInv'
    BY DEF Inv, DepositsInv
  <2>8. WatcherInv'
    BY DEF Inv, WatcherInv
  <2>9. ASSUME NEW p \in Orders, p # o PROVE PaidOrder(p)'
    BY <2>a, <2>4, <2>9 DEF Inv, PaidInv, PaidOrder, SentTo, Counted
  <2> QED BY <2>1, <2>5, <2>6, <2>7, <2>8, <2>9 DEF Inv, PaidInv
<1> QED BY <1>2, <1>3 DEF Throttle, Ignore

-----------------------------------------------------------------------------
(* The theorems *)

\* Nothing is paid in the beginning.
LEMMA InitInv == Init => Inv
<1> SUFFICES ASSUME Init PROVE Inv
  OBVIOUS
<1>1. TypeOK
  BY SettlementAssumption DEF Init, TypeOK
<1>2. OrdersInv /\ PoolInv
  BY SettlementAssumption DEF Init, OrdersInv, PoolInv
<1>3. DepositsInv
  BY FS_EmptySet DEF Init, DepositsInv
<1>4. WatcherInv /\ PaidInv
  BY DEF Init, WatcherInv, PaidInv, PaidOrder
<1> QED BY <1>1, <1>2, <1>3, <1>4 DEF Inv

\* Every step keeps the invariant.
LEMMA StepInv == Inv /\ [Next]_vars => Inv'
<1> SUFFICES ASSUME Inv, [Next]_vars PROVE Inv'
  OBVIOUS
<1>1. CASE FillPool
  BY <1>1, FillPoolStep
<1>2. ASSUME NEW o \in Orders, CreatePaymentIntent(o) PROVE Inv'
  BY <1>2, IntentStep
<1>3. ASSUME NEW o \in Orders, NEW t \in Txids, NEW amount \in Amounts, Pay(o, t, amount)
      PROVE  Inv'
  BY <1>3, PayStep
<1>4. CASE Block
  BY <1>4, BlockStep
<1>5. ASSUME NEW d \in deposits, Expire(d) PROVE Inv'
  BY <1>5, ExpireStep
<1>6. CASE WindowPasses
  BY <1>6, SettlementAssumption, WatcherStep DEF WindowPasses, Inv, TypeOK, WatcherInv
<1>7. CASE StartPass
  BY <1>7, StartPassStep
<1>8. ASSUME NEW a \in Addresses, Scan(a) PROVE Inv'
  BY <1>8, ScanStep
<1>9. CASE ReportAnswered
  <2>1. disruptions' \in 0 .. MaxDisruptions
    BY <1>9, SettlementAssumption DEF ReportAnswered, Disrupt, Inv, TypeOK
  <2> QED BY <1>9, <2>1, ReportStep DEF ReportAnswered
<1>10. CASE ReportThrows
  <2>1. disruptions' \in 0 .. MaxDisruptions
    BY <1>10, SettlementAssumption DEF ReportThrows, Disrupt, Inv, TypeOK
  <2> QED BY <1>10, <2>1, ReportStep DEF ReportThrows
<1>11. CASE RestartWatcher
  <2>1. disruptions' \in 0 .. MaxDisruptions
    BY <1>11, SettlementAssumption DEF RestartWatcher, Disrupt, Inv, TypeOK
  <2> QED BY <1>11, <2>1, WatcherStep DEF RestartWatcher, Inv, TypeOK
<1>12. CASE UNCHANGED vars
  BY <1>12, WatcherStep DEF vars, Inv, TypeOK, WatcherInv
<1> QED BY <1>1, <1>2, <1>3, <1>4, <1>5, <1>6, <1>7, <1>8, <1>9, <1>10, <1>11, <1>12
           DEF Next, Watcher

\* The invariant holds in every state.
THEOREM InvAlways == Spec => []Inv
<1>1. Init => Inv
  BY InitInv
<1>2. Inv /\ [Next]_vars => Inv'
  BY StepInv
<1> QED BY <1>1, <1>2, PTL DEF Spec

\* Every value has its type, orders keep the pool's addresses, and the bucket
\* never passes its limit.
THEOREM TypeCorrect == Spec => []TypeOK
<1>1. Inv => TypeOK
  BY DEF Inv
<1> QED BY <1>1, InvAlways, PTL

\* A paid order has deposits at its address that are worth its price and all
\* deep enough, whatever the blocks, the failures and the webhook's delays
\* (sightingForAddress, markTransferPaidOnchain).  Where the server is set to
\* take payments with no confirmation, a transaction that pays an order may
\* still expire: PaidWasSent is what is left then.
THEOREM PaidOrdersAreCovered == MinConfirmations # 0 => (Spec => []PaidIsCovered)
<1>1. SUFFICES ASSUME MinConfirmations # 0 PROVE Spec => []PaidIsCovered
  OBVIOUS
<1>2. Inv => PaidIsCovered
  <2>1. ASSUME NEW a
        PROVE  Counted(a, MinConfirmations) = {d \in Unspent(a) : d.depth >= MinConfirmations}
    <3>1. MinConfirmations \in Nat \ {0}
      BY <1>1, SettlementAssumption
    <3>2. ~(Gone >= MinConfirmations)
      BY <3>1 DEF Gone
    <3> QED BY <3>1, <3>2 DEF Counted, Unspent
  <2> QED BY <2>1 DEF Inv, PaidInv, PaidOrder, PaidIsCovered
<1> QED BY <1>2, InvAlways, PTL

\* Also where no confirmation is asked for, a paid order's address was sent
\* the price, in transactions of which the recorded one is one.
PaidWasSent ==
    \A o \in Orders : order[o].status = "paid" =>
        /\ \E d \in deposits : d.to = order[o].address /\ d.txid = order[o].onchain
        /\ Total({d \in deposits : d.to = order[o].address}) >= Price

\* The watcher never reports money that was not sent, and never to the order
\* of another address.
THEOREM PaidOrdersWereSentThePrice == Spec => []PaidWasSent
<1>1. Inv => PaidWasSent
  <2>1. SUFFICES ASSUME Inv, NEW o \in Orders, order[o].status = "paid"
                 PROVE  /\ SentTo(order[o].address, order[o].onchain)
                        /\ Total({d \in deposits : d.to = order[o].address}) >= Price
    BY DEF PaidWasSent, SentTo
  <2> DEFINE all == {d \in deposits : d.to = order[o].address}
             deep == Counted(order[o].address, MinConfirmations)
  <2>2. SentTo(order[o].address, order[o].onchain) /\ Total(deep) >= Price
    BY <2>1 DEF Inv, PaidInv, PaidOrder
  <2>3. deep \in SUBSET all /\ Notes(all) /\ Notes(deep)
    BY <2>1, DepositsAreNotes DEF Counted, Inv
  <2> HIDE DEF all, deep
  <2>4. Total(deep) <= Total(all) /\ Total(deep) \in Nat /\ Total(all) \in Nat
    BY <2>3, TotalSubset, TotalType
  <2>5. Total(all) >= Price
    BY <2>2, <2>4, SettlementAssumption
  <2> QED BY <2>2, <2>5 DEF all
<1> QED BY <1>1, InvAlways, PTL

\* Reports that come late or twice, other transactions to the same address,
\* further intents and failed registrations undo nothing.
THEOREM SettlementIsFinal == Spec => NothingIsUndone
<1>1. ASSUME Inv, [Next]_vars PROVE [NothingUndone]_vars
  <2>1. CASE FillPool
    <3>1. PICK batch \in SUBSET {a \in Addresses : pool[a] = "unmade"} : PostAddresses(batch)
      BY <2>1 DEF FillPool
    <3>2. \A a \in Addresses : pool[a] # "unmade" => pool'[a] = pool[a]
      BY <3>1 DEF PostAddresses, RegisterDepositAddresses
    <3> QED BY <2>1, <3>2, SettlementAssumption DEF FillPool, NothingUndone
  <2>2. ASSUME NEW o \in Orders, CreatePaymentIntent(o) PROVE NothingUndone
    <3>1. PICK a \in Addresses :
            /\ AssignDepositAddress(o, a)
            /\ order' = [order EXCEPT ![o].status = "pending", ![o].address = a]
      BY <2>2 DEF CreatePaymentIntent
    <3>2. \A c \in Addresses : pool[c] \in Orders => pool'[c] = pool[c]
      BY <1>1, <3>1, SettlementAssumption DEF AssignDepositAddress, Inv, TypeOK
    <3>3. order[o].status = "listed" /\ order[o].address = None
      BY <1>1, <2>2 DEF CreatePaymentIntent, Inv, OrdersInv
    <3>4. /\ order'[o].onchain = order[o].onchain
          /\ \A p \in Orders : p # o => order'[p] = order[p]
      BY <1>1, <3>1 DEF Inv, TypeOK
    <3> QED BY <3>2, <3>3, <3>4 DEF NothingUndone
  <2>3. CASE UNCHANGED <<pool, order>>
    BY <2>3 DEF NothingUndone
  <2>4. ASSUME sighting # None, HandleReport(sighting), UNCHANGED <<pool, deposits>>
        PROVE  NothingUndone
    <3>1. CASE UNCHANGED order
      BY <2>4, <3>1 DEF NothingUndone
    <3>2. ASSUME NEW o \in Orders, NEW st \in {"pending", "paid"}, Recorded(o, st)
          PROVE  NothingUndone
      <4>1. /\ order[o].status = "pending" /\ order[o].onchain \in {None, sighting.txid}
            /\ order' = [order EXCEPT ![o] =
                           [order[o] EXCEPT !.onchain = sighting.txid, !.status = st]]
        BY <3>2 DEF Recorded
      <4>2. /\ order'[o].address = order[o].address /\ order'[o].onchain = sighting.txid
            /\ \A p \in Orders : p # o => order'[p] = order[p]
        <5>1. /\ order[o] \in [status : {"listed", "pending", "paid"},
                               address : Addresses \cup {None}, onchain : Txids \cup {None}]
              /\ order'[o] = [order[o] EXCEPT !.onchain = sighting.txid, !.status = st]
              /\ \A p \in Orders : p # o => order'[p] = order[p]
          BY <1>1, <4>1 DEF Inv, TypeOK
        <5> QED BY <5>1
      <4> QED BY <2>4, <4>1, <4>2 DEF NothingUndone
    <3>3. UNCHANGED deposits
      BY <2>4
    <3> QED BY <1>1, <2>4, <3>1, <3>2, <3>3, HandleReportStep
  <2>5. CASE ReportAnswered \/ ReportThrows
    BY <2>3, <2>4, <2>5 DEF ReportAnswered, ReportThrows, Throttle, Ignore
  <2>6. ASSUME ~FillPool, \A o \in Orders : ~CreatePaymentIntent(o),
               ~ReportAnswered, ~ReportThrows
        PROVE  UNCHANGED <<pool, order>>
    BY <1>1, <2>6 DEF Next, Watcher, Pay, Block, Expire, WindowPasses, StartPass, Scan,
                      RestartWatcher, vars
  <2> QED BY <2>1, <2>2, <2>3, <2>5, <2>6
<1> QED BY <1>1, InvAlways, PTL DEF Spec, NothingIsUndone
=============================================================================
