---------------------------- MODULE EngineBooks ----------------------------
(***************************************************************************)
(* The matching engine's registry of books (internal/matching/engine.go):  *)
(* request goroutines look a pair's book up under a read lock, create it   *)
(* under the write lock on first use, and then run Place, Cancel or        *)
(* Snapshot under that book's own mutex.  OrderBook models what happens    *)
(* under the mutex; this module models how goroutines get there.           *)
(*                                                                         *)
(* sync.RWMutex and sync.Mutex are modelled from their documentation: a    *)
(* goroutine blocked in Lock excludes new readers.                         *)
(***************************************************************************)
EXTENDS Naturals, FiniteSets

CONSTANTS
    Goroutines,  \* the goroutines that serve requests
    Pairs        \* the trading pairs

VARIABLES
    books,    \* e.books: the book of a pair, or NoBook
    made,     \* how many books were ever allocated; a book is its number
    pc,       \* where each goroutine is
    pair,     \* the pair it works on
    held,     \* its local b
    readers,  \* holders of the read lock
    writer,   \* holder of the write lock, or none: a set of at most one
    waiting,  \* goroutines blocked in e.mu.Lock
    owner     \* holders of the books' mutexes, by book

locks == <<readers, writer, waiting, owner>>
vars == <<books, made, pc, pair, held, locks>>

NoBook == 0
Books == 1..made
Pcs == {"idle", "rlock", "read", "runlock", "ask", "lock", "recheck", "make",
        "unlock", "acquire", "inside"}

TypeOK ==
    /\ made \in Nat
    /\ books \in [Pairs -> Books \cup {NoBook}]
    /\ pc \in [Goroutines -> Pcs]
    /\ pair \in [Goroutines -> Pairs]
    /\ held \in [Goroutines -> Books \cup {NoBook}]
    /\ readers \subseteq Goroutines
    /\ writer \subseteq Goroutines
    /\ waiting \subseteq Goroutines
    /\ owner \in [Books -> SUBSET Goroutines]

Init ==
    /\ books = [p \in Pairs |-> NoBook]
    /\ made = 0
    /\ pc = [g \in Goroutines |-> "idle"]
    /\ pair \in [Goroutines -> Pairs]
    /\ held = [g \in Goroutines |-> NoBook]
    /\ readers = {} /\ writer = {} /\ waiting = {}
    /\ owner = [b \in Books |-> {}]

Goto(g, next) == pc' = [pc EXCEPT ![g] = next]

\* Submit, Cancel, Depth or BestBidAsk is called for pair p.
Call(g, p) ==
    /\ pc[g] = "idle"
    /\ pair' = [pair EXCEPT ![g] = p]
    /\ Goto(g, "rlock")
    /\ UNCHANGED <<books, made, held, locks>>

\* Faulty: readers go in past a writer that waits.
RLockUnfair(g) ==
    /\ pc[g] = "rlock"
    /\ writer = {}
    /\ readers' = readers \cup {g}
    /\ Goto(g, "read")
    /\ UNCHANGED <<books, made, pair, held, writer, waiting, owner>>

RLock(g) ==
    /\ pc[g] = "rlock"
    /\ writer = {} /\ waiting = {}
    /\ readers' = readers \cup {g}
    /\ Goto(g, "read")
    /\ UNCHANGED <<books, made, pair, held, writer, waiting, owner>>

Read(g) ==
    /\ pc[g] = "read"
    /\ held' = [held EXCEPT ![g] = books[pair[g]]]
    /\ Goto(g, "runlock")
    /\ UNCHANGED <<books, made, pair, locks>>

\* Faulty: a goroutine that saw no book goes on without one.
RUnlockUnchecked(g) ==
    /\ pc[g] = "runlock"
    /\ readers' = readers \ {g}
    /\ Goto(g, "acquire")
    /\ UNCHANGED <<books, made, pair, held, writer, waiting, owner>>

\* The read lock is dropped; a goroutine that saw no book goes for the write
\* lock, any other for the book's mutex.
RUnlock(g) ==
    /\ pc[g] = "runlock"
    /\ readers' = readers \ {g}
    /\ Goto(g, IF held[g] = NoBook THEN "ask" ELSE "acquire")
    /\ UNCHANGED <<books, made, pair, held, writer, waiting, owner>>

\* e.mu.Lock is called, which holds back readers that come later,
AskLock(g) ==
    /\ pc[g] = "ask"
    /\ waiting' = waiting \cup {g}
    /\ Goto(g, "lock")
    /\ UNCHANGED <<books, made, pair, held, readers, writer, owner>>

\* and returns when nobody else holds the lock.
Lock(g) ==
    /\ pc[g] = "lock"
    /\ readers = {} /\ writer = {}
    /\ writer' = {g}
    /\ waiting' = waiting \ {g}
    /\ Goto(g, "recheck")
    /\ UNCHANGED <<books, made, pair, held, readers, owner>>

\* Under the write lock the map is looked at again, for another goroutine may
\* have made the book since;
Recheck(g) ==
    /\ pc[g] = "recheck"
    /\ held' = [held EXCEPT ![g] = books[pair[g]]]
    /\ Goto(g, IF books[pair[g]] = NoBook THEN "make" ELSE "unlock")
    /\ UNCHANGED <<books, made, pair, locks>>

\* only if it is still missing is it made.
Make(g) ==
    /\ pc[g] = "make"
    /\ made' = made + 1
    /\ books' = [books EXCEPT ![pair[g]] = made + 1]
    /\ held' = [held EXCEPT ![g] = made + 1]
    /\ owner' = [b \in 1..made + 1 |-> IF b = made + 1 THEN {} ELSE owner[b]]
    /\ Goto(g, "unlock")
    /\ UNCHANGED <<pair, readers, writer, waiting>>

Unlock(g) ==
    /\ pc[g] = "unlock"
    /\ writer' = {}
    /\ Goto(g, "acquire")
    /\ UNCHANGED <<books, made, pair, held, readers, waiting, owner>>

\* Faulty: the operation runs without the book's mutex.
AcquireNothing(g) ==
    /\ pc[g] = "acquire"
    /\ Goto(g, "inside")
    /\ UNCHANGED <<books, made, pair, held, locks>>

\* b.mu.Lock, then the operation on the book, then b.mu.Unlock.
Acquire(g) ==
    /\ pc[g] = "acquire"
    /\ owner[held[g]] = {}
    /\ owner' = [owner EXCEPT ![held[g]] = @ \cup {g}]
    /\ Goto(g, "inside")
    /\ UNCHANGED <<books, made, pair, held, readers, writer, waiting>>

Return(g) ==
    /\ pc[g] = "inside"
    /\ owner' = [owner EXCEPT ![held[g]] = @ \ {g}]
    /\ held' = [held EXCEPT ![g] = NoBook]
    /\ Goto(g, "idle")
    /\ UNCHANGED <<books, made, pair, readers, writer, waiting>>

Step(g) ==
    \/ RLock(g) \/ Read(g) \/ RUnlock(g)
    \/ AskLock(g) \/ Lock(g) \/ Recheck(g) \/ Make(g) \/ Unlock(g)
    \/ Acquire(g) \/ Return(g)

Next == \E g \in Goroutines : Step(g) \/ \E p \in Pairs : Call(g, p)

Spec == Init /\ [][Next]_vars

\* Goroutines run on, and both mutexes let every waiter in eventually (Go's
\* starvation mode; a waiting writer holds back new readers).
FairSpec == Spec /\ \A g \in Goroutines : SF_vars(Step(g))

-----------------------------------------------------------------------------
\* Orders of a pair all meet in one book: goroutines about to use, or using, a
\* pair's book hold the one the registry has, however first uses interleave.
OneBookPerPair ==
    \A g \in Goroutines : pc[g] \in {"unlock", "acquire", "inside"} =>
        held[g] # NoBook /\ held[g] = books[pair[g]]

\* A pair's book, once there, is never replaced: its resting orders stay.
BooksStay == [][\A p \in Pairs : books[p] # NoBook => books'[p] = books[p]]_books

\* At most one goroutine runs Place, Cancel or Snapshot on the book of a pair,
\* and no book serves two pairs.
OneInside ==
    /\ \A g, h \in Goroutines : pc[g] = "inside" /\ pc[h] = "inside"
           /\ pair[g] = pair[h] => g = h
    /\ \A p, q \in Pairs : books[p] = books[q] /\ books[p] # NoBook => p = q

\* Every call returns, also a first use that has to wait for readers.
CallsReturn == \A g \in Goroutines : pc[g] # "idle" ~> pc[g] = "idle"

=============================================================================
