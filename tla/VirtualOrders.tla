---------------------------- MODULE VirtualOrders ----------------------------
(***************************************************************************)
(* Orders of several users for the same symbol and side, collected in a     *)
(* book, sent as one and shared out: TradingOrchestrator.submit_virtual_    *)
(* order and flush_virtual_orders, VirtualOrderManager, AllocationEngine.   *)
(*                                                                         *)
(* One book of the cache.  Quantities are units of the allocation's         *)
(* precision.  A flush in paper mode awaits the order; one in live mode     *)
(* blocks the event loop from the book's load to its last write, and is a   *)
(* step.  The book carries a ttl (monitor_state_ttl_seconds, from its last  *)
(* write), and what it holds is gone with it.                               *)
(***************************************************************************)
EXTENDS Integers, FiniteSets, FiniteSetsExt

CONSTANTS
    Intents,      \* numbered in the order of their ids
    Wants,        \* requested_quantity of an intent
    Flushes,      \* calls of flush_virtual_orders
    MaxRetries,   \* virtual_order_max_retries
    MaxOrders,    \* bound: orders sent
    MaxLost       \* bound: units the tries of one call executed without an answer

ASSUME VirtualOrdersAssumption ==
    /\ Intents \subseteq Nat
    /\ Wants \in [Intents -> Nat \ {0}]
    /\ MaxRetries \in Nat /\ MaxOrders \in Nat /\ MaxLost \in Nat

VARIABLES
    voMode,      \* settings.trading_mode
    voBook,      \* the intents in the book, with what is still wanted
    voRetry,     \* its retry_count
    voFlush,     \* a flush: idle, or waiting for an order of a size, or about to finalize
    voFilled,    \* history: what each intent was allocated
    voTraded,    \* quantity of the positions recorded for each intent
    voShort,     \* history: the record of an allocation failed
    voStaged,    \* history: the intents submitted so far
    voBought,    \* history: quantity executed
    voOrders,    \* history: orders sent
    voUnshared,  \* history: executed, and shared out to nobody
    voAstray,    \* history: an order may have been answered to a book it was not sent for
    voGivenUp,   \* history: intents dropped with the book
    voExpired    \* history: intents gone with the ttl of their book

voVars == <<voMode, voBook, voRetry, voFlush, voFilled, voTraded, voShort, voStaged, voBought, voOrders, voUnshared, voAstray, voGivenUp, voExpired>>
voRecords == <<voFilled, voTraded, voShort>>

EmptyBook == [i \in {} |-> 0]
Asleep == [on |-> FALSE, size |-> 0]
Wanted(book) == MapThenSumSet(LAMBDA i : book[i], DOMAIN book)

VoTypeOK ==
    /\ voMode \in {"paper", "live"}
    /\ DOMAIN voBook \subseteq voStaged /\ \A i \in DOMAIN voBook : voBook[i] \in 1..Wants[i]
    /\ voRetry \in Nat
    /\ voFlush \in [Flushes -> [on : BOOLEAN, size : Nat]]
    /\ voFilled \in [Intents -> Nat] /\ voStaged \subseteq Intents
    /\ voBought \in Nat /\ voOrders \in 0..MaxOrders /\ voAstray \in BOOLEAN
    /\ voTraded \in [Intents -> Nat] /\ voShort \in BOOLEAN
    /\ voUnshared \in Nat /\ voGivenUp \subseteq voStaged /\ voExpired \subseteq voStaged

VoInit ==
    /\ voMode \in {"paper", "live"}
    /\ voBook = EmptyBook /\ voRetry = 0
    /\ voFlush = [f \in Flushes |-> Asleep]
    /\ voFilled = [i \in Intents |-> 0] /\ voTraded = voFilled /\ voShort = FALSE
    /\ voStaged = {}
    /\ voBought = 0 /\ voOrders = 0 /\ voUnshared = 0 /\ voAstray = FALSE
    /\ voGivenUp = {} /\ voExpired = {}

-----------------------------------------------------------------------------
(* AllocationEngine.allocate: the shares are rounded down, and the units    *)
(* left over go one each to the intents that lost most by it, the larger    *)
(* and then the later first.                                                *)

ShareFloor(book, executed) == LET all == Wanted(book) IN [i \in DOMAIN book |-> (executed * book[i]) \div all]
ShareRest(book, executed)  == LET all == Wanted(book) IN [i \in DOMAIN book |-> (executed * book[i]) % all]

Before(book, rest, i, j) ==
    \/ rest[i] > rest[j]
    \/ rest[i] = rest[j] /\ book[i] > book[j]
    \/ rest[i] = rest[j] /\ book[i] = book[j] /\ i > j

Rank(book, rest, i) == Cardinality({j \in DOMAIN book : Before(book, rest, j, i)})

Allocate(book, executed) ==
    LET share == ShareFloor(book, executed)
        rest  == ShareRest(book, executed)
        left  == executed - Wanted(share)
    IN  [i \in DOMAIN book |-> share[i] + IF Rank(book, rest, i) < left THEN 1 ELSE 0]

(* _build_remaining_intents *)
Remaining(book, shares) ==
    [i \in {j \in DOMAIN book : shares[j] < book[j]} |-> book[i] - shares[i]]

-----------------------------------------------------------------------------
(* submit_virtual_order; stage_order makes a book of its own when there is  *)
(* none.                                                                    *)
Submit(i) ==
    /\ i \notin voStaged
    /\ voStaged' = voStaged \cup {i}
    /\ voBook' = [j \in DOMAIN voBook \cup {i} |-> IF j = i THEN Wants[i] ELSE voBook[j]]
    /\ UNCHANGED <<voRecords, voMode, voRetry, voFlush, voBought, voOrders, voUnshared, voAstray, voGivenUp, voExpired>>

(* The ttl of the book ends: also while an order of it is awaited, whose      *)
(* answer then finds no book, or the one of later intents.                    *)
LoseBook ==
    /\ voBook' = EmptyBook /\ voRetry' = 0
    /\ voExpired' = voExpired \cup DOMAIN voBook

ExpireBook ==
    /\ voBook # EmptyBook /\ LoseBook
    /\ voAstray' = (voAstray \/ \E f \in Flushes : voFlush[f].on)
    /\ UNCHANGED <<voRecords, voMode, voFlush, voStaged, voBought, voOrders, voUnshared, voGivenUp>>

(* Units are executed, and some of them are shared out. *)
Buy(executed, shared) ==
    /\ voBought' = voBought + executed
    /\ voUnshared' = voUnshared + (executed - shared)

(* _record_virtual_allocation for one after the other: an error ends the     *)
(* records.  An intent without a share is recorded too, as an active trade  *)
(* of nothing.  None is registered with the monitor of the trades.           *)
Record(shares) ==
    /\ voFilled' = [i \in Intents |-> voFilled[i] + IF i \in DOMAIN shares THEN shares[i] ELSE 0]
    /\ \E recorded \in {{i \in DOMAIN shares : i < k} : k \in DOMAIN shares} \cup {DOMAIN shares} :
          /\ voTraded' = [i \in Intents |-> voTraded[i] + IF i \in recorded THEN shares[i] ELSE 0]
          /\ voShort' = (voShort \/ recorded # DOMAIN shares)

(* finalize_book on the book as it is in the cache now *)

(* Mutant: one retry too few. *)
FinalizeTooSoon(executed) ==
    LET shares == Allocate(voBook, executed)
        rest   == Remaining(voBook, shares)
    IN  /\ Record(shares)
        /\ IF rest # EmptyBook /\ voRetry + 1 < MaxRetries
           THEN voBook' = rest /\ voRetry' = voRetry + 1 /\ UNCHANGED voGivenUp
           ELSE voBook' = EmptyBook /\ voRetry' = 0 /\ voGivenUp' = voGivenUp \cup DOMAIN rest

(* Mutant: what was wanted is put back, not what remains of it. *)
FinalizeWhole(executed) ==
    LET shares == Allocate(voBook, executed)
        rest   == Remaining(voBook, shares)
    IN  /\ Record(shares)
        /\ IF rest # EmptyBook /\ voRetry < MaxRetries
           THEN voBook' = [i \in DOMAIN rest |-> voBook[i]] /\ voRetry' = voRetry + 1 /\ UNCHANGED voGivenUp
           ELSE voBook' = EmptyBook /\ voRetry' = 0 /\ voGivenUp' = voGivenUp \cup DOMAIN rest

Finalize(executed) ==
    IF voBook = EmptyBook THEN UNCHANGED <<voRecords, voBook, voRetry, voGivenUp>>
    ELSE LET shares == Allocate(voBook, executed)
             rest   == Remaining(voBook, shares)
         IN  /\ Record(shares)
             /\ IF rest # EmptyBook /\ voRetry < MaxRetries
                THEN voBook' = rest /\ voRetry' = voRetry + 1 /\ UNCHANGED voGivenUp
                ELSE voBook' = EmptyBook /\ voRetry' = 0 /\ voGivenUp' = voGivenUp \cup DOMAIN rest

(* flush_virtual_orders in paper mode: the order is of the book's size when *)
(* it is sent, and is awaited; an error leaves the book as it is.           *)
SendOrder(f) ==
    /\ voMode = "paper" /\ ~voFlush[f].on
    /\ voBook # EmptyBook /\ voOrders < MaxOrders
    /\ voFlush' = [voFlush EXCEPT ![f] = [on |-> TRUE, size |-> Wanted(voBook)]]
    /\ voOrders' = voOrders + 1
    /\ voAstray' = (voAstray \/ \E g \in Flushes \ {f} : voFlush[g].on)
    /\ UNCHANGED <<voRecords, voMode, voBook, voRetry, voStaged, voBought, voUnshared, voGivenUp, voExpired>>

OrderAnswered(f) ==
    /\ voFlush[f].on
    /\ \/ \E executed \in 0..voFlush[f].size :
            Buy(executed, IF voBook = EmptyBook THEN 0 ELSE executed) /\ Finalize(executed)
       \/ UNCHANGED <<voRecords, voBought, voUnshared, voBook, voRetry, voGivenUp>>
    /\ voFlush' = [voFlush EXCEPT ![f] = Asleep]
    /\ UNCHANGED <<voMode, voStaged, voOrders, voAstray, voExpired>>

(* flush_book in live mode.  Tries of place_order whose answer is lost may    *)
(* have executed units that no answer speaks of, whether a later try answers  *)
(* or the call raises, which counts as a retry.  The book may expire while    *)
(* the call goes on.                                                         *)
FlushBook ==
    /\ voMode = "live"
    /\ voBook # EmptyBook /\ voOrders < MaxOrders
    /\ voOrders' = voOrders + 1
    /\ \E lost \in 0..MaxLost :
          \/ \E executed \in 0..Wanted(voBook) :
                \/ Buy(executed + lost, executed) /\ Finalize(executed) /\ UNCHANGED voExpired
                \/ Buy(executed + lost, 0) /\ LoseBook /\ UNCHANGED <<voRecords, voGivenUp>>
          \/ Buy(lost, 0) /\ voRetry' = voRetry + 1 /\ UNCHANGED <<voRecords, voBook, voGivenUp, voExpired>>
    /\ UNCHANGED <<voMode, voFlush, voStaged, voAstray>>

VoNext ==
    \/ \E i \in Intents : Submit(i)
    \/ \E f \in Flushes : SendOrder(f) \/ OrderAnswered(f)
    \/ FlushBook \/ ExpireBook

VoSpec == VoInit /\ [][VoNext]_voVars

-----------------------------------------------------------------------------
(* What the users are promised *)

(* All that an order is known to have executed for a book is shared out, to   *)
(* the unit, though intents that arrived while it was awaited take a share of *)
(* it.  What nobody is given was bought by live tries whose answers were      *)
(* lost, or for a book that expired while its order was awaited.              *)
BoughtIsAllocated ==
    /\ voBought = Wanted(voFilled) + voUnshared
    /\ voUnshared > 0 => voMode = "live" \/ voAstray

(* Over any number of partial fills and retries what the book still wants is  *)
(* what an intent lacks, and nobody is allocated more than he asked for,      *)
(* unless an order was answered to a book it was not sent for.                *)
NobodyGetsMore ==
    \A i \in voStaged :
        /\ ~voAstray => voFilled[i] <= Wants[i]
        /\ i \in DOMAIN voBook => voBook[i] = Wants[i] - voFilled[i]

(* An intent leaves the book when it is filled, when the book is given up     *)
(* after its last retry, or with the ttl of the book.                         *)
IntentsAccounted ==
    \A i \in voStaged :
        i \notin DOMAIN voBook => voFilled[i] >= Wants[i] \/ i \in voGivenUp \cup voExpired

(* A share is the proportional one up to a unit, and no larger intent gets  *)
(* less than a smaller one: for each book and each executed quantity that   *)
(* occurs.                                                                  *)
SharesAreFair ==
    voBook # EmptyBook => \A executed \in 0..Wanted(voBook) :
        LET shares == Allocate(voBook, executed)
            least  == ShareFloor(voBook, executed)
        IN  \A i \in DOMAIN voBook :
               /\ shares[i] \in least[i]..(least[i] + 1)
               /\ \A j \in DOMAIN voBook : voBook[i] > voBook[j] => shares[i] >= shares[j]

(* Every unit allocated is one of a position, unless a record failed; and    *)
(* none is in two.                                                          *)
PositionsFollow ==
    \A i \in Intents : voTraded[i] <= voFilled[i] /\ (~voShort => voTraded[i] = voFilled[i])

(* However often a book is filled in part and tried again, what was bought  *)
(* for it is shared out, fairly, and nobody's order leaves it but filled,   *)
(* given up or expired.                                                     *)
BookBalances == BoughtIsAllocated /\ NobodyGetsMore /\ IntentsAccounted /\ SharesAreFair /\ PositionsFollow

(* The book is given up only after as many attempts as the settings say;    *)
(* a failed order of live mode counts as one of them.                       *)
GivenUpAfterRetries ==
    [][voGivenUp' # voGivenUp => voRetry >= MaxRetries /\ voOrders' > MaxRetries]_voVars
=============================================================================
