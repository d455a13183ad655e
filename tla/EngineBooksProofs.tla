------------------------- MODULE EngineBooksProofs -------------------------
(***************************************************************************)
(* Proofs about EngineBooks, for every set of goroutines and of pairs: all *)
(* orders of a pair meet in one book, that book is never replaced, and one *)
(* goroutine at a time works on it.                                        *)
(***************************************************************************)
EXTENDS EngineBooks, TLAPS

\* The write lock has one holder, who alone may add to the registry, and who
\* adds only a book that is missing.
WriterExcludes ==
    /\ \A g \in Goroutines : g \in writer <=> pc[g] \in {"recheck", "make", "unlock"}
    /\ \A g, h \in writer : g = h
    /\ \A g \in Goroutines : pc[g] = "make" => books[pair[g]] = NoBook

\* What a reader saw stays true.
ReadStaysTrue ==
    \A g \in Goroutines :
        pc[g] = "runlock" => held[g] \in {NoBook, books[pair[g]]}

\* A book's mutex is owned by exactly the goroutine inside.
OwnerIsInside ==
    /\ \A g \in Goroutines : pc[g] = "inside" => owner[held[g]] = {g}
    /\ \A b \in Books : \A g \in owner[b] : pc[g] = "inside" /\ held[g] = b

PairsApart ==
    \A p, q \in Pairs : books[p] = books[q] /\ books[p] # NoBook => p = q

Inv ==
    /\ TypeOK
    /\ WriterExcludes
    /\ ReadStaysTrue
    /\ OneBookPerPair
    /\ OwnerIsInside
    /\ PairsApart

-----------------------------------------------------------------------------
LEMMA InitInv == Init => Inv
<1> SUFFICES ASSUME Init PROVE Inv
  OBVIOUS
<1>1. Books = {}
  BY DEF Init, Books
<1>2. TypeOK
  BY <1>1 DEF Init, TypeOK, Pcs
<1> QED BY <1>1, <1>2 DEF Init, Inv, WriterExcludes, ReadStaysTrue, OneBookPerPair,
                         OwnerIsInside, PairsApart

\* Make adds a book that no pair has yet.
LEMMA MakeInv ==
  ASSUME Inv, NEW g \in Goroutines, Make(g)
  PROVE  Inv'
<1> DEFINE new == made + 1
<1>1. /\ pc[g] = "make" /\ made' = new
      /\ books' = [books EXCEPT ![pair[g]] = new]
      /\ held' = [held EXCEPT ![g] = new]
      /\ owner' = [b \in 1..new |-> IF b = new THEN {} ELSE owner[b]]
      /\ pc' = [pc EXCEPT ![g] = "unlock"]
      /\ UNCHANGED <<pair, readers, writer, waiting>>
  BY DEF Make, Goto
<1>2. /\ made \in Nat /\ new \in Nat /\ new # NoBook /\ new \notin Books
      /\ Books' = Books \cup {new}
  BY <1>1 DEF Inv, TypeOK, Books, NoBook
<1>3. /\ \A p \in Pairs : books'[p] = IF p = pair[g] THEN new ELSE books[p]
      /\ \A h \in Goroutines : held'[h] = IF h = g THEN new ELSE held[h]
      /\ \A h \in Goroutines : pc'[h] = IF h = g THEN "unlock" ELSE pc[h]
      /\ \A b \in Books : owner'[b] = owner[b]
      /\ owner'[new] = {}
  BY <1>1, <1>2 DEF Inv, TypeOK, Books
<1>4. books[pair[g]] = NoBook /\ pair[g] \in Pairs
  BY <1>1 DEF Inv, TypeOK, WriterExcludes
<1>5. TypeOK'
  <2>1. owner' \in [Books' -> SUBSET Goroutines]
    <3>1. Books' = 1..new
      BY <1>1 DEF Books
    <3>2. \A b \in 1..new : (IF b = new THEN {} ELSE owner[b]) \in SUBSET Goroutines
      BY <1>2, <3>1 DEF Inv, TypeOK
    <3> QED BY <1>1, <3>1, <3>2
  <2>2. books' \in [Pairs -> Books' \cup {NoBook}]
        /\ held' \in [Goroutines -> Books' \cup {NoBook}]
    BY <1>1, <1>2, <1>4 DEF Inv, TypeOK
  <2>3. pc' \in [Goroutines -> Pcs]
    BY <1>1 DEF Inv, TypeOK, Pcs
  <2> QED BY <1>1, <1>2, <2>1, <2>2, <2>3 DEF Inv, TypeOK
<1>6. WriterExcludes'
  BY <1>1, <1>3 DEF Inv, TypeOK, WriterExcludes
<1>7. ReadStaysTrue'
  BY <1>1, <1>3, <1>4 DEF Inv, TypeOK, ReadStaysTrue
<1>8. OneBookPerPair'
  BY <1>1, <1>2, <1>3, <1>4 DEF Inv, TypeOK, OneBookPerPair
<1>9. OwnerIsInside'
  <2>1. ASSUME NEW h \in Goroutines, pc'[h] = "inside" PROVE owner'[held'[h]] = {h}
    <3>1. h # g /\ pc[h] = "inside" /\ held'[h] = held[h]
      BY <1>3, <2>1
    <3>2. held[h] \in Books
      BY <3>1 DEF Inv, TypeOK, OneBookPerPair
    <3> QED BY <1>3, <3>1, <3>2 DEF Inv, OwnerIsInside
  <2>2. ASSUME NEW b \in Books', NEW h \in owner'[b]
        PROVE  pc'[h] = "inside" /\ held'[h] = b
    <3>1. b \in Books /\ h \in owner[b] /\ h \in Goroutines
      BY <1>2, <1>3 DEF Inv, TypeOK
    <3> QED BY <1>1, <1>3, <3>1 DEF Inv, OwnerIsInside
  <2> QED BY <2>1, <2>2 DEF OwnerIsInside
<1>10. PairsApart'
  BY <1>2, <1>3 DEF Inv, TypeOK, PairsApart
<1> QED BY <1>5, <1>6, <1>7, <1>8, <1>9, <1>10 DEF Inv

\* Steps that leave the registry alone and move one goroutine.
LEMMA LockStepsInv ==
  ASSUME Inv, NEW g \in Goroutines,
         RLock(g) \/ Read(g) \/ RUnlock(g) \/ AskLock(g) \/ Lock(g) \/ Recheck(g)
           \/ Unlock(g) \/ \E p \in Pairs : Call(g, p)
  PROVE  Inv'
<1> USE DEF Inv, Goto
<1>1. UNCHANGED <<books, made, owner>> /\ Books' = Books
  BY DEF RLock, Read, RUnlock, AskLock, Lock, Recheck, Unlock, Call, locks, Books
<1>2. TypeOK'
  <2>1. CASE \E p \in Pairs : Call(g, p)
    BY <1>1, <2>1 DEF TypeOK, Call, locks, Pcs
  <2>2. CASE RLock(g) \/ RUnlock(g) \/ AskLock(g) \/ Lock(g) \/ Unlock(g)
    BY <1>1, <2>2 DEF TypeOK, RLock, RUnlock, AskLock, Lock, Unlock, Pcs
  <2>3. CASE Read(g) \/ Recheck(g)
    BY <1>1, <2>3 DEF TypeOK, Read, Recheck, locks, Pcs
  <2> QED BY <2>1, <2>2, <2>3
<1>3. WriterExcludes'
  <2>1. CASE Lock(g)
    BY <1>1, <2>1 DEF TypeOK, WriterExcludes, Lock
  <2>2. CASE Unlock(g)
    BY <1>1, <2>2 DEF TypeOK, WriterExcludes, Unlock
  <2>3. CASE Recheck(g)
    BY <1>1, <2>3 DEF TypeOK, WriterExcludes, Recheck, locks
  <2>4. CASE RLock(g) \/ Read(g) \/ RUnlock(g) \/ AskLock(g)
    BY <1>1, <2>4 DEF TypeOK, WriterExcludes, RLock, Read, RUnlock, AskLock, locks
  <2>5. CASE \E p \in Pairs : Call(g, p)
    BY <1>1, <2>5 DEF TypeOK, WriterExcludes, Call, locks
  <2> QED BY <2>1, <2>2, <2>3, <2>4, <2>5
<1>4. ReadStaysTrue'
  BY <1>1 DEF TypeOK, ReadStaysTrue, RLock, Read, RUnlock, AskLock, Lock, Recheck,
              Unlock, Call, locks
<1>5. OneBookPerPair'
  BY <1>1 DEF TypeOK, ReadStaysTrue, OneBookPerPair, RLock, Read, RUnlock, AskLock,
              Lock, Recheck, Unlock, Call, locks
<1>6. OwnerIsInside'
  <2>1. \A h \in Goroutines : pc'[h] = "inside" <=> pc[h] = "inside"
    BY DEF TypeOK, RLock, Read, RUnlock, AskLock, Lock, Recheck, Unlock, Call
  <2>2. \A h \in Goroutines : pc[h] = "inside" => held'[h] = held[h]
    BY DEF TypeOK, RLock, Read, RUnlock, AskLock, Lock, Recheck, Unlock, Call
  <2> QED BY <1>1, <2>1, <2>2 DEF TypeOK, OwnerIsInside
<1>7. PairsApart'
  BY <1>1 DEF PairsApart
<1> QED BY <1>2, <1>3, <1>4, <1>5, <1>6, <1>7

\* Taking and leaving a book's mutex.
LEMMA MutexStepsInv ==
  ASSUME Inv, NEW g \in Goroutines, Acquire(g) \/ Return(g)
  PROVE  Inv'
<1> USE DEF Inv, Goto
<1>1. UNCHANGED <<books, made, pair, readers, writer, waiting>> /\ Books' = Books
  BY DEF Acquire, Return, Books
<1>2. held[g] \in Books
  BY DEF Acquire, Return, TypeOK, OneBookPerPair
<1>3. TypeOK'
  BY <1>1, <1>2 DEF TypeOK, Acquire, Return, Pcs
<1>4. WriterExcludes' /\ ReadStaysTrue' /\ OneBookPerPair' /\ PairsApart'
  BY <1>1 DEF TypeOK, WriterExcludes, ReadStaysTrue, OneBookPerPair, PairsApart,
              Acquire, Return
<1>5. OwnerIsInside'
  <2>1. CASE Acquire(g)
    <3>1. /\ owner' = [owner EXCEPT ![held[g]] = @ \cup {g}] /\ owner[held[g]] = {}
          /\ pc' = [pc EXCEPT ![g] = "inside"] /\ held' = held
      BY <2>1 DEF Acquire
    <3>2. \A b \in Books : owner'[b] = IF b = held[g] THEN {g} ELSE owner[b]
      BY <1>2, <3>1 DEF TypeOK
    <3>3. \A h \in Goroutines : pc'[h] = IF h = g THEN "inside" ELSE pc[h]
      BY <3>1 DEF TypeOK
    <3>4. ASSUME NEW h \in Goroutines, pc'[h] = "inside" PROVE owner'[held'[h]] = {h}
      <4>1. CASE h = g
        BY <1>2, <3>1, <3>2, <4>1
      <4>2. CASE h # g
        <5>1. pc[h] = "inside" /\ held[h] \in Books /\ owner[held[h]] = {h}
          BY <3>3, <3>4, <4>2 DEF TypeOK, OneBookPerPair, OwnerIsInside
        <5> QED BY <3>1, <3>2, <5>1
      <4> QED BY <4>1, <4>2
    <3>5. \A b \in Books : \A h \in owner'[b] : pc'[h] = "inside" /\ held'[h] = b
      BY <3>1, <3>2, <3>3 DEF TypeOK, OwnerIsInside
    <3> QED BY <1>1, <3>4, <3>5 DEF OwnerIsInside
  <2>2. CASE Return(g)
    <3>1. /\ pc[g] = "inside" /\ owner' = [owner EXCEPT ![held[g]] = @ \ {g}]
          /\ pc' = [pc EXCEPT ![g] = "idle"] /\ held' = [held EXCEPT ![g] = NoBook]
      BY <2>2 DEF Return
    <3>2. owner[held[g]] = {g}
      BY <3>1 DEF OwnerIsInside
    <3>3. \A b \in Books : owner'[b] = IF b = held[g] THEN {} ELSE owner[b]
      BY <1>2, <3>1, <3>2 DEF TypeOK
    <3>4. \A h \in Goroutines \ {g} : pc'[h] = pc[h] /\ held'[h] = held[h]
      BY <3>1 DEF TypeOK
    <3>5. pc'[g] = "idle"
      BY <3>1 DEF TypeOK
    <3>6. ASSUME NEW h \in Goroutines, pc'[h] = "inside" PROVE owner'[held'[h]] = {h}
      <4>1. h # g /\ pc[h] = "inside" /\ held'[h] = held[h]
        BY <3>4, <3>5, <3>6
      <4>2. held[h] \in Books /\ owner[held[h]] = {h}
        BY <4>1 DEF TypeOK, OneBookPerPair, OwnerIsInside
      <4> QED BY <3>2, <3>3, <4>1, <4>2
    <3>7. ASSUME NEW b \in Books, NEW h \in owner'[b]
          PROVE  pc'[h] = "inside" /\ held'[h] = b
      <4>1. b # held[g] /\ h \in owner[b]
        BY <3>3
      <4>2. pc[h] = "inside" /\ held[h] = b /\ h \in Goroutines
        BY <4>1 DEF TypeOK, OwnerIsInside
      <4> QED BY <3>4, <4>1, <4>2
    <3> QED BY <1>1, <3>6, <3>7 DEF OwnerIsInside
  <2> QED BY <2>1, <2>2
<1> QED BY <1>3, <1>4, <1>5

LEMMA NextInv == Inv /\ [Next]_vars => Inv'
<1> SUFFICES ASSUME Inv, [Next]_vars PROVE Inv'
  OBVIOUS
<1>1. CASE UNCHANGED vars
  BY <1>1 DEF vars, locks, Inv, TypeOK, WriterExcludes, ReadStaysTrue, OneBookPerPair,
              OwnerIsInside, PairsApart, Books
<1>2. ASSUME NEW g \in Goroutines, Step(g) \/ \E p \in Pairs : Call(g, p) PROVE Inv'
  BY <1>2, MakeInv, LockStepsInv, MutexStepsInv DEF Step
<1> QED BY <1>1, <1>2 DEF Next

LEMMA InvHolds == Spec => []Inv
BY InitInv, NextInv, PTL DEF Spec

-----------------------------------------------------------------------------
\* Whoever uses the book of a pair uses the one in the registry.
THEOREM PairHasOneBook == Spec => []OneBookPerPair
BY InvHolds, PTL DEF Inv

\* One goroutine at a time works on the book of a pair.
THEOREM BooksAreSerialized == Spec => []OneInside
<1>1. Inv => OneInside
  <2> SUFFICES ASSUME Inv PROVE OneInside
    OBVIOUS
  <2>1. ASSUME NEW g \in Goroutines, NEW h \in Goroutines,
               pc[g] = "inside", pc[h] = "inside", pair[g] = pair[h]
        PROVE  g = h
    <3>1. held[g] = held[h]
      BY <2>1 DEF Inv, OneBookPerPair
    <3> QED BY <2>1, <3>1 DEF Inv, OwnerIsInside
  <2> QED BY <2>1 DEF OneInside, Inv, PairsApart
<1> QED BY <1>1, InvHolds, PTL

\* The book of a pair is never replaced, so no resting order is lost.
THEOREM BooksAreKept == Spec => BooksStay
<1> DEFINE Keeps == \A p \in Pairs : books[p] # NoBook => books'[p] = books[p]
<1>1. ASSUME Inv, [Next]_vars PROVE [Keeps]_books
  <2>1. ASSUME NEW g \in Goroutines, Make(g) PROVE Keeps
    <3>1. books[pair[g]] = NoBook
      BY <1>1, <2>1 DEF Inv, WriterExcludes, Make
    <3> QED BY <1>1, <2>1, <3>1 DEF Make, Inv, TypeOK
  <2>2. ASSUME NEW g \in Goroutines, ~ Make(g), Step(g) \/ \E p \in Pairs : Call(g, p)
        PROVE  UNCHANGED books
    BY <2>2 DEF Step, RLock, Read, RUnlock, AskLock, Lock, Recheck, Unlock, Acquire,
                Return, Call
  <2> QED BY <1>1, <2>1, <2>2 DEF Next, vars
<1> QED BY <1>1, InvHolds, PTL DEF Spec, BooksStay

=============================================================================
