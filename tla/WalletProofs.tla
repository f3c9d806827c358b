---------------------------- MODULE WalletProofs ----------------------------
(***************************************************************************)
(* What an operation on the books guarantees, whoever runs it: the lemmas  *)
(* the proofs about the components that move money rest on.  Then sums: the *)
(* fold that adds up rows is a recursive function over their sets, and what *)
(* it gives is shown here from its definition.                             *)
(***************************************************************************)
EXTENDS Wallet, FiniteSets, FiniteSetTheorems, WellFoundedInduction, TLAPS

OperationType == {"RESERVE", "RELEASE", "PURCHASE"}

\* A funded operation moves money between the columns of one wallet and
\* changes none of their sum: the wallet stays valid.
LEMMA MovedIsWallet ==
    ASSUME NEW w \in WalletType, NEW op,
           op.type \in OperationType, op.amount \in Nat, Funded(w, op)
    PROVE  /\ Moved(w, op) \in WalletType
           /\ Conserved(w) => Conserved(Moved(w, op))
<1>1. CASE op.type = "RESERVE"
  BY <1>1 DEF Moved, Funded, WalletType, Conserved
<1>2. CASE op.type = "RELEASE"
  BY <1>2 DEF Moved, Funded, WalletType, Conserved
<1>3. CASE op.type = "PURCHASE"
  BY <1>3 DEF Moved, Funded, WalletType, Conserved
<1> QED
  BY <1>1, <1>2, <1>3 DEF OperationType

\* A permitted operation keeps every wallet valid and every balance whole,
\* whether it is applied or is the replay of one that was.
LEMMA ExecuteKeepsWallets ==
    ASSUME NEW P, NEW books, NEW op,
           books.wallet \in [P -> WalletType],
           \A p \in P : Conserved(books.wallet[p]),
           op.type \in OperationType, op.participant \in P,
           Permitted(books, op)
    PROVE  /\ Execute(books, op).wallet \in [P -> WalletType]
           /\ \A p \in P : Conserved(Execute(books, op).wallet[p])
<1>1. CASE Recorded(books, op) # {}
  BY <1>1 DEF Execute
<1>2. CASE Recorded(books, op) = {}
  <2> DEFINE w == books.wallet[op.participant]
  <2>1. op.amount \in Nat /\ Funded(w, op)
    BY <1>2, MatchBudgetAssumption DEF Permitted
  <2>2. Moved(w, op) \in WalletType /\ Conserved(Moved(w, op))
    BY <2>1, MovedIsWallet
  <2>3. Execute(books, op).wallet =
            [books.wallet EXCEPT ![op.participant] = Moved(w, op)]
    BY <1>2 DEF Execute
  <2> QED
    BY <2>2, <2>3
<1> QED
  BY <1>1, <1>2

\* Every snapshot in the ledger stays a valid wallet.
LEMMA ExecuteKeepsSnapshots ==
    ASSUME NEW P, NEW books, NEW op,
           books.wallet \in [P -> WalletType],
           \A p \in P : Conserved(books.wallet[p]),
           \A e \in books.ledger : e.after \in WalletType /\ Conserved(e.after),
           op.type \in OperationType, op.participant \in P,
           Permitted(books, op)
    PROVE  \A e \in Execute(books, op).ledger :
               e.after \in WalletType /\ Conserved(e.after)
<1>1. CASE Recorded(books, op) # {}
  BY <1>1 DEF Execute
<1>2. CASE Recorded(books, op) = {}
  <2> DEFINE w == books.wallet[op.participant]
             entry == [op |-> op, after |-> Moved(w, op)]
  <2>1. op.amount \in Nat /\ Funded(w, op)
    BY <1>2, MatchBudgetAssumption DEF Permitted
  <2>2. Moved(w, op) \in WalletType /\ Conserved(Moved(w, op))
    BY <2>1, MovedIsWallet
  <2>3. Execute(books, op).ledger = books.ledger \cup {entry}
    BY <1>2 DEF Execute
  <2> QED
    BY <2>2, <2>3
<1> QED
  BY <1>1, <1>2

\* An operation whose key is new is applied and recorded.
LEMMA ExecuteNew ==
    ASSUME NEW books, NEW op, Recorded(books, op) = {}
    PROVE  LET after == Moved(books.wallet[op.participant], op)
           IN  /\ Execute(books, op).wallet =
                      [books.wallet EXCEPT ![op.participant] = after]
               /\ Execute(books, op).ledger =
                      books.ledger \cup {[op |-> op, after |-> after]}
  BY DEF Execute

\* Only a purchase spends: holding and releasing money leaves what every
\* participant has spent as it was.
LEMMA OnlyPurchaseSpends ==
    ASSUME NEW P, NEW books, NEW op, books.wallet \in [P -> WalletType],
           op.type \in {"RESERVE", "RELEASE"}, op.participant \in P
    PROVE  \A p \in P :
               Execute(books, op).wallet[p].spent = books.wallet[p].spent
<1>1. CASE Recorded(books, op) # {}
  BY <1>1 DEF Execute
<1>2. CASE Recorded(books, op) = {}
  <2> DEFINE w == books.wallet[op.participant]
  <2>1. Execute(books, op).wallet =
            [books.wallet EXCEPT ![op.participant] = Moved(w, op)]
    BY <1>2 DEF Execute
  <2>2. Moved(w, op).spent = w.spent
    BY DEF Moved
  <2> HIDE DEF w
  <2>3. w = books.wallet[op.participant]
    BY DEF w
  <2> QED
    BY <2>1, <2>2, <2>3
<1> QED
  BY <1>1, <1>2

-----------------------------------------------------------------------------
(* Sums.                                                                   *)

\* The element the fold takes first.
Pick(s) == CHOOSE x \in s : TRUE

\* g adds up f over every subset of T.
Adds(g, f, T) ==
    g = [s \in SUBSET T |->
            IF s = {} THEN 0 ELSE f[Pick(s)] + g[s \ {Pick(s)}]]

SumOver(f, T) == (CHOOSE g : Adds(g, f, T))[T]

LEMMA SumOfIsSumOver ==
    ASSUME NEW f
    PROVE  SumOf(f) = SumOver(f, DOMAIN f)
  BY DEF SumOf, FoldFunction, FoldFunctionOnSet, MapThenFoldSet, SumOver, Adds, Pick

\* Of the finite sets in a set that is not empty, one has no other below it.
LEMMA SmallestSet ==
    ASSUME NEW S, IsFiniteSet(S), NEW F \in SUBSET SUBSET S, F # {}
    PROVE  \E V \in F : \A W \in SUBSET V : W \in F => W = V
<1>1. IsWellFoundedOn(StrictSubsetOrdering(S), SUBSET S)
  BY FS_StrictSubsetOrderingWellFounded, FS_FiniteSubsetsOfFinite
<1>2. PICK V \in F : \A W \in F : <<W, V>> \notin StrictSubsetOrdering(S)
  BY <1>1, WFMin
<1>3. ASSUME NEW W \in SUBSET V, W \in F, W # V PROVE FALSE
  <2>1. <<W, V>> \in (SUBSET S) \X (SUBSET S)
    BY <1>3
  <2>2. W \subseteq V /\ W # V
    BY <1>3
  <2> QED
    BY <1>2, <1>3, <2>1, <2>2 DEF StrictSubsetOrdering
<1> QED
  BY <1>3

\* Two of them agree where what they add up agrees.
LEMMA AddsAgree ==
    ASSUME NEW f, NEW f2, NEW T, NEW U, NEW g, NEW h,
           Adds(g, f, T), Adds(h, f2, U),
           NEW S, S \subseteq T, S \subseteq U, IsFiniteSet(S),
           \A x \in S : f[x] = f2[x]
    PROVE  g[S] = h[S]
<1> DEFINE bad == {V \in SUBSET S : g[V] # h[V]}
<1>1. SUFFICES ASSUME bad # {} PROVE FALSE
  OBVIOUS
<1>2. PICK V \in bad : \A W \in SUBSET V : W \in bad => W = V
  <2> bad \in SUBSET SUBSET S
    OBVIOUS
  <2> HIDE DEF bad
  <2> QED
    BY <1>1, SmallestSet
<1> DEFINE p == Pick(V)
<1>3. V \in SUBSET T /\ V \in SUBSET U /\ V \in SUBSET S
  BY <1>2
<1>4. CASE V = {}
  BY <1>2, <1>3, <1>4 DEF Adds
<1>5. CASE V # {}
  <2>1. p \in V
    BY <1>5 DEF Pick
  <2>2. g[V \ {p}] = h[V \ {p}]
    BY <1>2, <1>3, <2>1
  <2>3. g[V] = f[p] + g[V \ {p}] /\ h[V] = f2[p] + h[V \ {p}]
    BY <1>3, <1>5 DEF Adds
  <2> QED
    BY <1>2, <1>3, <2>1, <2>2, <2>3
<1> QED
  BY <1>4, <1>5

\* A finite set can be added up.
LEMMA AddsExists ==
    ASSUME NEW f, NEW T, IsFiniteSet(T)
    PROVE  \E g : Adds(g, f, T)
<1> DEFINE bad == {V \in SUBSET T : ~ \E g : Adds(g, f, V)}
<1>1. SUFFICES ASSUME bad # {} PROVE FALSE
  OBVIOUS
<1>2. PICK V \in bad : \A W \in SUBSET V : W \in bad => W = V
  <2> bad \in SUBSET SUBSET T
    OBVIOUS
  <2> HIDE DEF bad
  <2> QED
    BY <1>1, SmallestSet
<1>3. V \in SUBSET T /\ ~ \E g : Adds(g, f, V)
  BY <1>2
<1>4. ASSUME NEW W \in SUBSET V, W # V
      PROVE  Adds(CHOOSE g : Adds(g, f, W), f, W)
  <2>1. \E g : Adds(g, f, W)
    BY <1>2, <1>3, <1>4
  <2> QED
    BY <2>1
<1> DEFINE G == [W \in SUBSET V |->
                    IF W = {} THEN 0
                              ELSE f[Pick(W)] + SumOver(f, W \ {Pick(W)})]
<1>5. ASSUME NEW W \in SUBSET V, W # V PROVE G[W] = SumOver(f, W)
  <2> DEFINE g == CHOOSE g : Adds(g, f, W)
             X == W \ {Pick(W)}
             h == CHOOSE h : Adds(h, f, X)
  <2>1. Adds(g, f, W)
    BY <1>4, <1>5
  <2>2. CASE W = {}
    BY <2>1, <2>2 DEF Adds, SumOver
  <2>3. CASE W # {}
    <3>1. Pick(W) \in W
      BY <2>3 DEF Pick
    <3>2. X \in SUBSET V /\ X # V /\ X \in SUBSET W
      BY <3>1
    <3>3. Adds(h, f, X)
      BY <1>4, <3>2
    <3>4. IsFiniteSet(X)
      BY <1>3, <3>2, FS_Subset
    <3> HIDE DEF X
    <3>5. g[X] = h[X]
      <4> HIDE DEF g, h
      <4> QED
        BY <2>1, <3>2, <3>3, <3>4, AddsAgree
    <3>6. g[W] = f[Pick(W)] + g[X]
      <4> HIDE DEF g
      <4> QED
        BY <2>1, <2>3 DEF Adds, X
    <3> QED
      BY <2>3, <3>5, <3>6 DEF SumOver, X
  <2> QED
    BY <2>2, <2>3
<1>6. Adds(G, f, V)
  <2>1. ASSUME NEW W \in SUBSET V, W # {}
        PROVE  G[W \ {Pick(W)}] = SumOver(f, W \ {Pick(W)})
    <3>1. Pick(W) \in W
      BY <2>1 DEF Pick
    <3>2. W \ {Pick(W)} \in SUBSET V /\ W \ {Pick(W)} # V
      BY <3>1
    <3> QED
      BY <1>5, <3>2
  <2> QED
    BY <2>1 DEF Adds
<1> QED
  BY <1>3, <1>6

\* The sum over a finite set and the sum without the element picked first.
LEMMA SumOverUnfolds ==
    ASSUME NEW f, NEW T, IsFiniteSet(T)
    PROVE  /\ T = {} => SumOver(f, T) = 0
           /\ T # {} => /\ Pick(T) \in T
                        /\ SumOver(f, T) = f[Pick(T)] + SumOver(f, T \ {Pick(T)})
<1> DEFINE X == T \ {Pick(T)}
           g == CHOOSE g : Adds(g, f, T)
           h == CHOOSE h : Adds(h, f, X)
<1>1. IsFiniteSet(X)
  BY FS_Subset
<1>2. Adds(g, f, T) /\ Adds(h, f, X)
  BY <1>1, AddsExists
<1>3. CASE T = {}
  BY <1>2, <1>3 DEF Adds, SumOver
<1>4. CASE T # {}
  <2>1. Pick(T) \in T
    BY <1>4 DEF Pick
  <2>2. g[X] = h[X]
    <3> X \subseteq T /\ X \subseteq X
      OBVIOUS
    <3> HIDE DEF g, h, X
    <3> QED
      BY <1>1, <1>2, AddsAgree
  <2>3. g[T] = f[Pick(T)] + g[X]
    <3> HIDE DEF g
    <3> QED
      BY <1>2, <1>4 DEF Adds
  <2> QED
    BY <1>4, <2>1, <2>2, <2>3 DEF SumOver
<1> QED
  BY <1>3, <1>4

\* The sum depends on the values added up and on nothing else.
LEMMA SumOverAgrees ==
    ASSUME NEW f, NEW f2, NEW T, IsFiniteSet(T), \A x \in T : f[x] = f2[x]
    PROVE  SumOver(f, T) = SumOver(f2, T)
<1> DEFINE g == CHOOSE g : Adds(g, f, T)
           h == CHOOSE h : Adds(h, f2, T)
<1>1. Adds(g, f, T) /\ Adds(h, f2, T)
  BY AddsExists
<1>2. g[T] = h[T]
  <2> HIDE DEF g, h
  <2> QED
    BY <1>1, AddsAgree
<1> QED
  BY <1>2 DEF SumOver

LEMMA SumOverType ==
    ASSUME NEW f, NEW T, IsFiniteSet(T), \A x \in T : f[x] \in Int
    PROVE  SumOver(f, T) \in Int
<1> DEFINE bad == {V \in SUBSET T : SumOver(f, V) \notin Int}
<1>1. SUFFICES ASSUME bad # {} PROVE FALSE
  OBVIOUS
<1>2. PICK V \in bad : \A W \in SUBSET V : W \in bad => W = V
  <2> bad \in SUBSET SUBSET T
    OBVIOUS
  <2> HIDE DEF bad
  <2> QED
    BY <1>1, SmallestSet
<1>3. IsFiniteSet(V)
  BY <1>2, FS_Subset
<1>4. CASE V = {}
  <2>1. SumOver(f, V) = 0
    BY <1>3, <1>4, SumOverUnfolds
  <2> QED
    BY <1>2, <2>1
<1>5. CASE V # {}
  <2>1. /\ Pick(V) \in V
        /\ SumOver(f, V) = f[Pick(V)] + SumOver(f, V \ {Pick(V)})
    BY <1>3, <1>5, SumOverUnfolds
  <2>2. SumOver(f, V \ {Pick(V)}) \in Int
    BY <1>2, <2>1
  <2> QED
    BY <1>2, <2>1, <2>2
<1> QED
  BY <1>4, <1>5

\* Any element may be taken out first.
LEMMA SumOverTakesOut ==
    ASSUME NEW f, NEW T, IsFiniteSet(T), \A x \in T : f[x] \in Int, NEW e \in T
    PROVE  SumOver(f, T) = f[e] + SumOver(f, T \ {e})
<1> DEFINE bad == {V \in SUBSET T :
                      \E x \in V : SumOver(f, V) # f[x] + SumOver(f, V \ {x})}
<1>1. SUFFICES ASSUME bad # {} PROVE FALSE
  OBVIOUS
<1>2. PICK V \in bad : \A W \in SUBSET V : W \in bad => W = V
  <2> bad \in SUBSET SUBSET T
    OBVIOUS
  <2> HIDE DEF bad
  <2> QED
    BY <1>1, SmallestSet
<1>3. PICK x \in V : SumOver(f, V) # f[x] + SumOver(f, V \ {x})
  BY <1>2
<1> DEFINE p == Pick(V)
<1>4. V \in SUBSET T /\ IsFiniteSet(V)
  BY <1>2, FS_Subset
<1>5. p \in V /\ SumOver(f, V) = f[p] + SumOver(f, V \ {p})
  BY <1>3, <1>4, SumOverUnfolds
<1> HIDE DEF p
<1>6. p # x
  BY <1>3, <1>5
<1>7. SumOver(f, V \ {p}) = f[x] + SumOver(f, (V \ {p}) \ {x})
  <2>1. V \ {p} \in SUBSET V /\ V \ {p} # V /\ x \in V \ {p}
    BY <1>5, <1>6
  <2>2. V \ {p} \notin bad
    BY <1>2, <2>1
  <2> QED
    BY <1>4, <2>1, <2>2
<1>8. SumOver(f, V \ {x}) = f[p] + SumOver(f, (V \ {x}) \ {p})
  <2>1. V \ {x} \in SUBSET V /\ V \ {x} # V /\ p \in V \ {x}
    BY <1>5, <1>6
  <2>2. V \ {x} \notin bad
    BY <1>2, <2>1
  <2> QED
    BY <1>4, <2>1, <2>2
<1>9. (V \ {p}) \ {x} = (V \ {x}) \ {p}
  OBVIOUS
<1>10. SumOver(f, (V \ {x}) \ {p}) \in Int /\ f[p] \in Int /\ f[x] \in Int
  <2>1. IsFiniteSet((V \ {x}) \ {p}) /\ \A y \in (V \ {x}) \ {p} : f[y] \in Int
    BY <1>4, FS_Subset
  <2> QED
    BY <1>4, <1>5, <2>1, SumOverType
<1> DEFINE rest == SumOver(f, (V \ {x}) \ {p})
<1>11. /\ SumOver(f, V) = f[p] + (f[x] + rest)
       /\ f[x] + SumOver(f, V \ {x}) = f[x] + (f[p] + rest)
  BY <1>5, <1>7, <1>8, <1>9
<1> HIDE DEF rest
<1>12. f[p] + (f[x] + rest) = f[x] + (f[p] + rest)
  BY <1>10 DEF rest
<1> QED
  BY <1>3, <1>11, <1>12

\* One more row adds its value.
LEMMA SumGrows ==
    ASSUME NEW D, IsFiniteSet(D), NEW f \in [D -> Int],
           NEW e, e \notin D, NEW g \in [D \cup {e} -> Int],
           \A x \in D : g[x] = f[x]
    PROVE  SumOf(g) = SumOf(f) + g[e]
<1>1. IsFiniteSet(D \cup {e})
  BY FS_AddElement
<1>2. SumOver(g, D \cup {e}) = g[e] + SumOver(g, (D \cup {e}) \ {e})
  BY <1>1, SumOverTakesOut
<1>3. (D \cup {e}) \ {e} = D
  OBVIOUS
<1>4. SumOver(g, D) = SumOver(f, D) /\ SumOver(f, D) \in Int
  BY SumOverAgrees, SumOverType
<1>5. SumOf(g) = SumOver(g, D \cup {e}) /\ SumOf(f) = SumOver(f, D)
  BY SumOfIsSumOver
<1>6. SumOf(g) = g[e] + SumOf(f) /\ SumOf(f) \in Int
  BY <1>2, <1>3, <1>4, <1>5
<1>7. g[e] \in Int
  OBVIOUS
<1> QED
  BY <1>6, <1>7

LEMMA SumOfNone ==
    ASSUME NEW f, DOMAIN f = {}
    PROVE  SumOf(f) = 0
  BY SumOfIsSumOver, SumOverUnfolds, FS_EmptySet

LEMMA SumType ==
    ASSUME NEW D, IsFiniteSet(D), NEW f \in [D -> Int]
    PROVE  SumOf(f) \in Int
  BY SumOfIsSumOver, SumOverType

=============================================================================
