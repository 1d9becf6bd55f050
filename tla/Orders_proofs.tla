---------------------------- MODULE Orders_proofs ----------------------------
(***************************************************************************)
(* Proofs about orders: OrderPlacement, for any number of exchanges,        *)
(* attempts, chunks and units, and VirtualOrders, for any intents, retries  *)
(* and flushes.                                                             *)
(*                                                                         *)
(* The invariant of a call says for each place of it how much of the        *)
(* running try has been spent already.  That of a book sets its retries and *)
(* the flushes under way against the orders that were sent, and what was    *)
(* executed against what is shared out: the units that the rounding of the  *)
(* shares leaves are fewer than the intents, and go to the first of them.   *)
(***************************************************************************)
EXTENDS OrderPlacement, VirtualOrders, Sums

-----------------------------------------------------------------------------
(* A call of place_order *)

USE PlacementAssumption

Even == Quantity \div NumChunks

(* What one try may execute or leave in a book. *)
CapOfTry == Quantity * (IF kind = "LIMIT" THEN 2 ELSE 1)

Exposed == filled + mine + resting

(* The tries are counted by the loops. *)
TriesCounted == tries = (attempt - 1) * NumExchanges + at

(* Before a limit order is sent there is none. *)
Placed ==
    /\ pc \in {"try", "chunks", "done", "raised"} => mine = 0 /\ want = 0
    /\ pc \in {"check", "fallback"} => kind = "LIMIT"
    /\ pc = "chunks" => kind = "MARKET"

(* Chunks are counted from nought in every try. *)
SentBefore == pc # "chunks" => sent = 0

(* What the answer will speak of has been executed. *)
Backed ==
    /\ pc = "done" => told <= filled
    /\ pc # "done" => told = 0
    /\ pc \in {"check", "fallback"} => filled + mine >= Quantity
    /\ pc = "chunks" => filled >= Even * sent

(* The earlier tries spent their share, and the running one a part of its. *)
Spent ==
    /\ pc = "try" => Exposed <= (tries - 1) * CapOfTry
    /\ pc = "chunks" => Exposed <= (tries - 1) * CapOfTry + Even * sent
    /\ pc \in {"check", "fallback"} => Exposed <= (tries - 1) * CapOfTry + Quantity
    /\ pc \in {"done", "raised"} => Exposed <= tries * CapOfTry

(* A call that met no ambiguity has executed exactly what it knows of. *)
Exact ==
    clean => /\ resting = 0
             /\ pc \in {"try", "raised"} => filled = 0
             /\ pc = "chunks" => filled = Even * sent
             /\ pc \in {"check", "fallback"} => filled + mine = Quantity
             /\ pc = "done" => filled = told

IInv == OpTypeOK /\ TriesCounted /\ Placed /\ SentBefore /\ Backed /\ Spent /\ Exact

-----------------------------------------------------------------------------
(* Arithmetic *)

LEMMA EvenChunks ==
    /\ Even \in Nat
    /\ Even * NumChunks <= Quantity
    /\ Even * 0 = 0
<1>1. Even \in Nat /\ Even * NumChunks <= Quantity
  BY DEF Even
<1>2. QED BY <1>1

(* The chunks sent and the next one stay within the quantity, and the last  *)
(* one completes it.                                                        *)
LEMMA NextChunk ==
    ASSUME NEW n \in 0..(NumChunks - 1)
    PROVE  /\ Even * n \in Nat
           /\ n < NumChunks - 1 => Even * (n + 1) = Even * n + Even
           /\ Even * n + Even <= Quantity
           /\ Even * n <= Quantity
           /\ Even * (NumChunks - 1) \in Nat /\ Even * (NumChunks - 1) <= Quantity
<1>0. Even \in Nat /\ Even * NumChunks <= Quantity
  BY EvenChunks
<1>1. n \in Nat /\ n + 1 <= NumChunks /\ NumChunks \in Nat
  OBVIOUS
<1>2. \A e, a, b \in Nat : a <= b => e * a <= e * b
  OBVIOUS
<1>3. Even * (n + 1) = Even * n + Even
  BY <1>0, <1>1
<1>4. Even * (n + 1) <= Even * NumChunks
  BY <1>0, <1>1, <1>2
<1>5. Even * n \in Nat /\ Even * (NumChunks - 1) \in Nat
  BY <1>0, <1>1
<1>6. Even * (NumChunks - 1) <= Even * NumChunks
  BY <1>0, <1>1, <1>2
<1>7. Even * NumChunks \in Nat
  BY <1>0
<1>8. QED
  BY <1>0, <1>1, <1>3, <1>4, <1>5, <1>6, <1>7

LEMMA CapFacts ==
    ASSUME kind \in {"MARKET", "LIMIT"}
    PROVE  /\ CapOfTry \in Nat /\ CapOfTry >= Quantity
           /\ kind = "LIMIT" => CapOfTry = Quantity + Quantity
           /\ kind = "MARKET" => CapOfTry = Quantity
BY DEF CapOfTry

LEMMA OneMoreTry ==
    ASSUME NEW n \in Nat \ {0}, NEW c \in Nat
    PROVE  /\ n * c = (n - 1) * c + c
           /\ (n - 1) * c \in Nat /\ n * c \in Nat
           /\ (n + 1 - 1) * c = n * c
<1>1. n - 1 \in Nat /\ n + 1 - 1 = n
  OBVIOUS
<1>2. n * c = (n - 1) * c + c
  BY <1>1
<1>3. QED BY <1>1, <1>2

(* The number of tries stays in its range as the loops go on. *)
LEMMA TriesBound ==
    ASSUME NEW a \in 1..Attempts, NEW e \in 1..NumExchanges
    PROVE  /\ (a - 1) * NumExchanges + e \in 1..(Attempts * NumExchanges)
           /\ (a + 1 - 1) * NumExchanges + 1 = (a - 1) * NumExchanges + NumExchanges + 1
<1>1. \A i, j, k \in Nat : i <= j => i * k <= j * k
  OBVIOUS
<1>2. a - 1 \in Nat /\ a \in Nat /\ e \in Nat /\ NumExchanges \in Nat /\ Attempts \in Nat
  OBVIOUS
<1>3. a * NumExchanges = (a - 1) * NumExchanges + NumExchanges
  BY <1>2
<1>4. a * NumExchanges <= Attempts * NumExchanges
  BY <1>1, <1>2
<1>5. (a - 1) * NumExchanges \in Nat /\ Attempts * NumExchanges \in Nat
  BY <1>2
<1>6. QED
  BY <1>2, <1>3, <1>4, <1>5

-----------------------------------------------------------------------------
(* The three ways a step of a call goes on *)

LEMMA GoOnStep ==
    ASSUME OpTypeOK, TriesCounted, GoOn
    PROVE  /\ attempt' \in 1..Attempts /\ at' \in 1..NumExchanges
           /\ tries' \in 1..(Attempts * NumExchanges) /\ sent' = 0
           /\ TriesCounted'
           /\ \/ pc' = "try" /\ tries' = tries + 1
              \/ pc' = "raised" /\ tries' = tries
<1>1. CASE at < NumExchanges /\ at' = at + 1 /\ tries' = tries + 1 /\ pc' = "try" /\ attempt' = attempt
  <2>1. attempt' \in 1..Attempts /\ at' \in 1..NumExchanges
    BY <1>1 DEF OpTypeOK
  <2>2. tries' = (attempt' - 1) * NumExchanges + at'
    <3>1. (attempt - 1) * NumExchanges \in Nat
      BY DEF OpTypeOK
    <3>2. QED BY <1>1, <3>1 DEF OpTypeOK, TriesCounted
  <2>3. QED
    BY <1>1, <2>1, <2>2, TriesBound DEF GoOn, TriesCounted
<1>2. CASE at = NumExchanges /\ attempt < Attempts /\ attempt' = attempt + 1 /\ at' = 1
           /\ tries' = tries + 1 /\ pc' = "try"
  <2>1. attempt' \in 1..Attempts /\ at' \in 1..NumExchanges
    BY <1>2 DEF OpTypeOK
  <2>2. tries' = (attempt' - 1) * NumExchanges + at'
    <3>1. (attempt - 1) * NumExchanges \in Nat
      BY DEF OpTypeOK
    <3>2. (attempt + 1 - 1) * NumExchanges + 1 = (attempt - 1) * NumExchanges + NumExchanges + 1
      BY TriesBound DEF OpTypeOK
    <3>3. QED BY <1>2, <3>1, <3>2 DEF OpTypeOK, TriesCounted
  <2>3. QED
    BY <1>2, <2>1, <2>2, TriesBound DEF GoOn, TriesCounted
<1>3. CASE pc' = "raised" /\ attempt' = attempt /\ at' = at /\ tries' = tries
  BY <1>3 DEF GoOn, OpTypeOK, TriesCounted
<1>4. QED
  BY <1>1, <1>2, <1>3 DEF GoOn

(* A try is given up; units were executed by it in the end. *)
LEMMA AbandonStep ==
    ASSUME IInv, Abandon, pc \in Running,
           filled' \in Nat, filled' + mine + resting <= tries * CapOfTry,
           clean' \in BOOLEAN,
           clean' => clean /\ mine = 0 /\ filled' = 0
    PROVE  IInv'
<1> USE DEF IInv
<1>1. /\ attempt' \in 1..Attempts /\ at' \in 1..NumExchanges
      /\ tries' \in 1..(Attempts * NumExchanges) /\ sent' = 0
      /\ TriesCounted'
      /\ \/ pc' = "try" /\ tries' = tries + 1
         \/ pc' = "raised" /\ tries' = tries
  BY GoOnStep DEF Abandon
<1>2. OpTypeOK'
  BY <1>1 DEF Abandon, OpTypeOK, Running
<1>3. Placed'
  BY <1>1 DEF Abandon, Placed
<1>4. Backed'
  BY <1>1 DEF Abandon, Backed, Running
<1>5. Spent'
  <2>1. Exposed' <= tries * CapOfTry
    BY DEF Abandon, Exposed, OpTypeOK
  <2>2. CapOfTry' = CapOfTry /\ CapOfTry \in Nat
    BY CapFacts DEF Abandon, CapOfTry, OpTypeOK
  <2>3. (tries + 1 - 1) * CapOfTry = tries * CapOfTry
    BY <2>2, OneMoreTry DEF OpTypeOK
  <2>4. QED
    <3>1. pc' = "try" => tries' - 1 = tries
      BY <1>1 DEF OpTypeOK
    <3>2. pc' = "try" => (tries' - 1) * CapOfTry = tries * CapOfTry
      BY <3>1
    <3>3. pc' = "raised" => tries' * CapOfTry = tries * CapOfTry
      BY <1>1
    <3>4. QED
      BY <1>1, <2>1, <2>2, <3>2, <3>3 DEF Spent
<1>6. Exact'
  BY <1>1 DEF Abandon, Exact, OpTypeOK
<1>7. SentBefore'
  BY <1>1 DEF SentBefore
<1>8. QED
  BY <1>1, <1>2, <1>3, <1>4, <1>5, <1>6, <1>7

LEMMA AnswerStep ==
    ASSUME IInv, NEW units \in 0..Quantity, Answer(units), pc \in Running,
           filled' \in Nat, filled' >= units, filled' + mine + resting <= tries * CapOfTry,
           clean' \in BOOLEAN,
           clean' => clean /\ mine = 0 /\ filled' = units
    PROVE  IInv'
<1> USE DEF IInv
<1>1. OpTypeOK' /\ TriesCounted' /\ Placed' /\ Backed' /\ SentBefore'
  <2>1. OpTypeOK'
    BY DEF Answer, OpTypeOK
  <2>2. TriesCounted' /\ Placed' /\ Backed' /\ SentBefore'
    BY DEF Answer, TriesCounted, Placed, Backed, SentBefore
  <2>3. QED BY <2>1, <2>2
<1>2. Spent'
  <2>1. kind' = kind /\ tries' = tries /\ pc' = "done"
    BY DEF Answer
  <2>2. CapOfTry' = CapOfTry
    BY <2>1 DEF CapOfTry
  <2>3. Exposed' = filled' + mine + resting
    BY DEF Answer, Exposed, OpTypeOK
  <2>4. QED BY <2>1, <2>2, <2>3 DEF Spent
<1>3. Exact'
  BY DEF Answer, Exact, OpTypeOK
<1>4. QED BY <1>1, <1>2, <1>3

(* What the running try may still spend. *)
LEMMA RoomLeft ==
    ASSUME IInv
    PROVE  /\ tries * CapOfTry \in Nat
           /\ pc = "try" => Exposed + CapOfTry <= tries * CapOfTry
           /\ pc = "chunks" => Exposed + (Quantity - Even * sent) <= tries * CapOfTry
           /\ pc \in {"check", "fallback"} => Exposed + Quantity <= tries * CapOfTry
<1> USE DEF IInv
<1>1. kind \in {"MARKET", "LIMIT"} /\ tries \in Nat \ {0} /\ sent \in 0..(NumChunks - 1)
  BY DEF OpTypeOK
<1>2. /\ CapOfTry \in Nat
      /\ kind = "LIMIT" => CapOfTry = Quantity + Quantity
      /\ kind = "MARKET" => CapOfTry = Quantity
  BY <1>1, CapFacts
<1>3. /\ tries * CapOfTry = (tries - 1) * CapOfTry + CapOfTry
      /\ (tries - 1) * CapOfTry \in Nat /\ tries * CapOfTry \in Nat
  BY <1>1, <1>2, OneMoreTry
<1>4. Exposed \in Nat
  BY DEF Exposed, OpTypeOK
<1>5. pc = "try" => Exposed + CapOfTry <= tries * CapOfTry
  BY <1>2, <1>3, <1>4 DEF Spent
<1>6. pc = "chunks" => Exposed + (Quantity - Even * sent) <= tries * CapOfTry
  <2>1. Even * sent \in Nat
    BY <1>1, NextChunk
  <2>2. QED
    BY <1>2, <1>3, <1>4, <2>1 DEF Spent, Placed
<1>7. pc \in {"check", "fallback"} => Exposed + Quantity <= tries * CapOfTry
  BY <1>2, <1>3, <1>4 DEF Spent, Placed
<1>8. QED
  BY <1>3, <1>5, <1>6, <1>7

-----------------------------------------------------------------------------
(* The steps *)

LEMMA MarketSteps ==
    ASSUME IInv, NotSent \/ SendMarket
    PROVE  IInv'
<1>1. /\ filled \in Nat /\ mine \in Nat /\ resting \in Nat /\ clean \in BOOLEAN
      /\ kind \in {"MARKET", "LIMIT"} /\ Quantity \in 0..Quantity
  BY DEF IInv, OpTypeOK
<1>2. pc = "try" /\ pc \in Running
  BY DEF NotSent, SendMarket, Running
<1>3. mine = 0 /\ (clean => filled = 0 /\ resting = 0)
  BY <1>2 DEF IInv, Placed, Exact
<1>4. CapOfTry \in Nat /\ CapOfTry >= Quantity
  BY <1>1, CapFacts
<1>5. tries * CapOfTry \in Nat /\ filled + mine + resting + CapOfTry <= tries * CapOfTry
  BY <1>2, RoomLeft DEF Exposed
<1>6. CASE Refused /\ clean' = clean
  BY <1>1, <1>2, <1>3, <1>4, <1>5, <1>6, AbandonStep DEF Refused
<1>7. CASE Lost(Quantity)
  <2>1. filled' \in Nat /\ filled' + mine + resting <= tries * CapOfTry
    BY <1>1, <1>4, <1>5, <1>7 DEF Lost
  <2>2. QED
    BY <1>2, <1>7, <2>1, AbandonStep DEF Lost
<1>8. CASE Answer(Quantity) /\ filled' = filled + Quantity /\ clean' = clean
  <2>1. filled' \in Nat /\ filled' >= Quantity /\ filled' + mine + resting <= tries * CapOfTry
    BY <1>1, <1>4, <1>5, <1>8
  <2>2. clean' \in BOOLEAN /\ (clean' => clean /\ mine = 0 /\ filled' = Quantity)
    BY <1>1, <1>3, <1>8
  <2>3. QED
    BY <1>1, <1>2, <1>8, <2>1, <2>2, AnswerStep
<1>9. QED
  BY <1>6, <1>7, <1>8 DEF NotSent, SendMarket

LEMMA SendLimitStep ==
    ASSUME IInv, SendLimit
    PROVE  IInv'
<1>1. /\ filled \in Nat /\ mine \in Nat /\ resting \in Nat /\ clean \in BOOLEAN
      /\ kind \in {"MARKET", "LIMIT"} /\ Quantity \in 0..Quantity
  BY DEF IInv, OpTypeOK
<1>2. pc = "try" /\ pc \in Running /\ kind = "LIMIT"
  BY DEF SendLimit, Running
<1>3. mine = 0 /\ want = 0 /\ (clean => filled = 0 /\ resting = 0)
  BY <1>2 DEF IInv, Placed, Exact
<1>4. CapOfTry \in Nat /\ CapOfTry = Quantity + Quantity /\ CapOfTry' \in Nat
  BY <1>1, <1>2, CapFacts DEF SendLimit, GoOn, Refused, Abandon, Answer, CapOfTry
<1>5. tries * CapOfTry \in Nat /\ filled + mine + resting + CapOfTry <= tries * CapOfTry
  BY <1>2, RoomLeft DEF Exposed
<1>6. CASE Answer(Quantity) /\ filled' = filled + Quantity /\ clean' = clean
  <2>1. filled' \in Nat /\ filled' >= Quantity /\ filled' + mine + resting <= tries * CapOfTry
    BY <1>1, <1>4, <1>5, <1>6
  <2>2. clean' \in BOOLEAN /\ (clean' => clean /\ mine = 0 /\ filled' = Quantity)
    BY <1>1, <1>3, <1>6
  <2>3. QED
    BY <1>1, <1>2, <1>6, <2>1, <2>2, AnswerStep
<1>7. CASE Refused /\ clean' = clean
  BY <1>1, <1>2, <1>3, <1>4, <1>5, <1>7, AbandonStep DEF Refused
<1>8. ASSUME NEW now \in 0..(Quantity - 1),
             filled' = filled + now, mine' = Quantity - now, pc' = "check",
             UNCHANGED <<kind, attempt, at, tries, sent, want, resting, told, clean>>
      PROVE  IInv'
  <2>1. OpTypeOK'
    BY <1>1, <1>8 DEF IInv, OpTypeOK, Running
  <2>2. TriesCounted' /\ Placed' /\ SentBefore' /\ Backed' /\ Exact'
    BY <1>1, <1>2, <1>3, <1>8 DEF IInv, OpTypeOK, TriesCounted, Placed, SentBefore, Backed, Exact
  <2>3. Spent'
    <3>1. CapOfTry' = CapOfTry /\ Exposed' = Exposed + Quantity
      BY <1>1, <1>3, <1>8 DEF CapOfTry, Exposed
    <3>2. Exposed \in Nat /\ Exposed <= (tries - 1) * CapOfTry /\ (tries - 1) * CapOfTry \in Nat
      BY <1>1, <1>2, <1>4, OneMoreTry DEF IInv, Spent, Exposed, OpTypeOK
    <3>3. Exposed' <= (tries - 1) * CapOfTry + Quantity
      BY <3>1, <3>2
    <3>4. tries' = tries
      BY <1>8
    <3>5. QED BY <1>8, <3>1, <3>3, <3>4 DEF Spent
  <2>4. QED BY <2>1, <2>2, <2>3 DEF IInv
<1>9. ASSUME NEW now \in 0..Quantity,
             filled' = filled + now, resting' = resting + (Quantity - now),
             GoOn, clean' = FALSE, UNCHANGED <<kind, mine, want, told>>
      PROVE  IInv'
  <2>1. /\ attempt' \in 1..Attempts /\ at' \in 1..NumExchanges
        /\ tries' \in 1..(Attempts * NumExchanges) /\ sent' = 0
        /\ TriesCounted'
        /\ \/ pc' = "try" /\ tries' = tries + 1
           \/ pc' = "raised" /\ tries' = tries
    BY <1>9, GoOnStep DEF IInv
  <2>2. OpTypeOK'
    <3>1. filled' \in Nat /\ resting' \in Nat
      BY <1>1, <1>9
    <3>2. pc' \in Running \cup {"done", "raised"}
      BY <2>1 DEF Running
    <3>3. UNCHANGED <<kind, mine, want, told>> /\ clean' \in BOOLEAN
      BY <1>9
    <3>4. sent' \in 0..(NumChunks - 1)
      BY <2>1
    <3>5. QED BY <2>1, <3>1, <3>2, <3>3, <3>4 DEF IInv, OpTypeOK
  <2>3. Placed' /\ SentBefore' /\ Exact'
    BY <1>3, <1>9, <2>1 DEF Placed, SentBefore, Exact
  <2>4. Backed'
    BY <1>2, <1>9, <2>1 DEF IInv, Backed
  <2>5. Spent'
    <3>1. CapOfTry' = CapOfTry /\ Exposed' <= tries * CapOfTry
      <4>1. CapOfTry' = CapOfTry
        BY <1>9 DEF CapOfTry
      <4>2. Exposed' = filled + mine + resting + Quantity
        BY <1>1, <1>3, <1>9 DEF Exposed
      <4>3. QED BY <1>1, <1>4, <1>5, <4>1, <4>2
    <3>2. pc' = "try" => tries' - 1 = tries
      BY <2>1 DEF IInv, OpTypeOK
    <3>3. pc' = "try" => (tries' - 1) * CapOfTry = tries * CapOfTry
      BY <3>2
    <3>4. pc' = "raised" => tries' * CapOfTry = tries * CapOfTry
      BY <2>1
    <3>5. QED BY <2>1, <3>1, <3>3, <3>4 DEF Spent
  <2>6. QED BY <2>1, <2>2, <2>3, <2>4, <2>5 DEF IInv
<1>10. QED
  BY <1>6, <1>7, <1>8, <1>9 DEF SendLimit

LEMMA LimitSteps ==
    ASSUME IInv, Reconcile \/ Fallback
    PROVE  IInv'
<1>1. /\ filled \in Nat /\ mine \in Nat /\ resting \in Nat /\ clean \in BOOLEAN
      /\ kind \in {"MARKET", "LIMIT"} /\ Quantity \in 0..Quantity
      /\ want \in 0..Quantity /\ mine \in 0..Quantity
  BY DEF IInv, OpTypeOK
<1>2. pc \in {"check", "fallback"} /\ pc \in Running
  BY DEF Reconcile, Fallback, Running
<1>3. /\ filled + mine >= Quantity
      /\ clean => filled + mine = Quantity /\ resting = 0
  BY <1>2 DEF IInv, Backed, Exact
<1>4. tries * CapOfTry \in Nat /\ filled + mine + resting + Quantity <= tries * CapOfTry
  BY <1>2, RoomLeft DEF Exposed
<1>5. CASE mine = 0 /\ Answer(Quantity) /\ UNCHANGED <<filled, clean>>
  <2>1. filled' \in Nat /\ filled' >= Quantity /\ filled' + mine + resting <= tries * CapOfTry
    BY <1>1, <1>3, <1>4, <1>5
  <2>2. clean' \in BOOLEAN /\ (clean' => clean /\ mine = 0 /\ filled' = Quantity)
    BY <1>1, <1>3, <1>5
  <2>3. QED
    BY <1>1, <1>2, <1>5, <2>1, <2>2, AnswerStep
<1>6. CASE /\ mine > 0 /\ pc = "check" /\ pc' = "fallback" /\ want' = mine
           /\ UNCHANGED <<kind, attempt, at, tries, sent, mine, resting, filled, told, clean>>
  <2>1. OpTypeOK'
    BY <1>1, <1>6 DEF IInv, OpTypeOK, Running
  <2>2. TriesCounted' /\ Placed' /\ SentBefore' /\ Backed' /\ Exact'
    BY <1>6 DEF IInv, TriesCounted, Placed, SentBefore, Backed, Exact
  <2>3. Spent'
    <3>1. CapOfTry' = CapOfTry /\ Exposed' = Exposed /\ tries' = tries
      BY <1>6 DEF CapOfTry, Exposed
    <3>2. QED BY <1>6, <3>1 DEF IInv, Spent
  <2>4. QED BY <2>1, <2>2, <2>3 DEF IInv
<1>7. CASE Refused /\ clean' = FALSE
  <2>1. filled' \in Nat /\ filled' + mine + resting <= tries * CapOfTry
    BY <1>1, <1>4, <1>7 DEF Refused
  <2>2. QED
    BY <1>2, <1>7, <2>1, AbandonStep DEF Refused
<1>8. CASE Lost(want)
  <2>1. filled' \in Nat /\ filled' + mine + resting <= tries * CapOfTry
    BY <1>1, <1>4, <1>8 DEF Lost
  <2>2. QED
    BY <1>2, <1>8, <2>1, AbandonStep DEF Lost
<1>9. CASE Answer(want) /\ filled' = filled + want /\ clean' = FALSE
  <2>1. filled' \in Nat /\ filled' >= want /\ filled' + mine + resting <= tries * CapOfTry
    BY <1>1, <1>4, <1>9
  <2>2. QED
    BY <1>1, <1>2, <1>9, <2>1, AnswerStep
<1>10. QED
  BY <1>5, <1>6, <1>7, <1>8, <1>9 DEF Reconcile, Fallback

LEMMA StartChunksStep ==
    ASSUME IInv, StartChunks
    PROVE  IInv'
<1>1. sent = 0
  BY DEF IInv, StartChunks, SentBefore
<1>2. Even * sent = 0
  BY <1>1, EvenChunks
<1>3. OpTypeOK' /\ TriesCounted' /\ Placed'
  BY DEF IInv, StartChunks, OpTypeOK, TriesCounted, Placed, Running
<1>4. Backed' /\ Exact'
  BY <1>1, <1>2 DEF IInv, StartChunks, Backed, Exact, OpTypeOK
<1>5. Spent'
  <2>1. CapOfTry' = CapOfTry /\ Exposed' = Exposed /\ tries' = tries /\ sent' = sent /\ pc' = "chunks"
    BY DEF StartChunks, CapOfTry, Exposed
  <2>2. Exposed <= (tries - 1) * CapOfTry
    BY DEF IInv, Spent, StartChunks
  <2>3. (tries - 1) * CapOfTry + 0 = (tries - 1) * CapOfTry
    <3>1. (tries - 1) * CapOfTry \in Nat
      BY CapFacts, OneMoreTry DEF IInv, OpTypeOK
    <3>2. QED BY <3>1
  <2>4. QED BY <1>2, <2>1, <2>2, <2>3 DEF Spent
<1>6. SentBefore'
  BY <1>1 DEF StartChunks, SentBefore
<1>7. QED BY <1>3, <1>4, <1>5, <1>6 DEF IInv

LEMMA SendChunkStep ==
    ASSUME IInv, SendChunk
    PROVE  IInv'
<1>1. /\ filled \in Nat /\ mine \in Nat /\ resting \in Nat /\ clean \in BOOLEAN
      /\ kind \in {"MARKET", "LIMIT"} /\ Quantity \in 0..Quantity
      /\ sent \in 0..(NumChunks - 1) /\ tries \in Nat \ {0}
  BY DEF IInv, OpTypeOK
<1>2. pc = "chunks" /\ pc \in Running
  BY DEF SendChunk, Running
<1>3. /\ mine = 0 /\ filled >= Even * sent
      /\ clean => filled = Even * sent /\ resting = 0
  BY <1>2 DEF IInv, Placed, Backed, Exact
<1>4. tries * CapOfTry \in Nat /\ filled + mine + resting + (Quantity - Even * sent) <= tries * CapOfTry
  BY <1>2, RoomLeft DEF Exposed
<1>5. /\ Even * sent \in Nat /\ Even \in Nat
      /\ sent < NumChunks - 1 => Even * (sent + 1) = Even * sent + Even
      /\ Even * sent + Even <= Quantity
      /\ Even * sent <= Quantity
  BY <1>1, NextChunk, EvenChunks
<1>6. /\ sent < NumChunks - 1 => ChunkUnits = Even
      /\ sent = NumChunks - 1 => ChunkUnits = Quantity - Even * sent
  <2>1. sent < NumChunks - 1 => ChunkUnits = Even
    BY Zenon DEF ChunkUnits, Even
  <2>2. ~(sent < NumChunks - 1) => ChunkUnits = Quantity - Even * (NumChunks - 1)
    BY Zenon DEF ChunkUnits, Even
  <2>3. sent = NumChunks - 1 => ~(sent < NumChunks - 1)
    BY <1>1, PlacementAssumption
  <2>4. sent = NumChunks - 1 => Even * sent = Even * (NumChunks - 1)
    BY Zenon
  <2>5. QED BY Zenon, <2>1, <2>2, <2>3, <2>4
<1>7. ChunkUnits \in Nat /\ Even * sent + ChunkUnits <= Quantity
  BY <1>1, <1>5, <1>6
<1>8. CASE /\ sent < NumChunks - 1
           /\ sent' = sent + 1 /\ filled' = filled + ChunkUnits
           /\ UNCHANGED <<kind, pc, attempt, at, tries, mine, want, resting, told, clean>>
  <2>1. OpTypeOK'
    BY <1>1, <1>7, <1>8 DEF IInv, OpTypeOK
  <2>2. TriesCounted' /\ Placed' /\ SentBefore'
    BY <1>2, <1>8 DEF IInv, TriesCounted, Placed, SentBefore
  <2>3. Even * sent' = Even * sent + Even /\ Even * sent' \in Nat /\ ChunkUnits = Even
    BY <1>5, <1>6, <1>8
  <2>4. Backed' /\ Exact'
    BY <1>1, <1>2, <1>3, <1>5, <1>8, <2>3 DEF IInv, Backed, Exact
  <2>5. Spent'
    <3>1. CapOfTry' = CapOfTry /\ tries' = tries /\ pc' = "chunks" /\ Exposed' = Exposed + Even
      BY <1>1, <1>2, <1>5, <1>8, <2>3 DEF CapOfTry, Exposed
    <3>2. Exposed \in Nat /\ Exposed <= (tries - 1) * CapOfTry + Even * sent /\ (tries - 1) * CapOfTry \in Nat
      BY <1>1, <1>2, CapFacts, OneMoreTry DEF IInv, Spent, Exposed
    <3>3. Exposed' <= (tries - 1) * CapOfTry + Even * sent'
      BY <1>5, <2>3, <3>1, <3>2
    <3>4. QED BY <3>1, <3>3 DEF Spent
  <2>6. QED BY <2>1, <2>2, <2>4, <2>5 DEF IInv
<1>9. CASE sent = NumChunks - 1 /\ Answer(Quantity) /\ filled' = filled + ChunkUnits /\ clean' = clean
  <2>1. filled' \in Nat /\ filled' >= Quantity /\ filled' + mine + resting <= tries * CapOfTry
    BY <1>1, <1>3, <1>4, <1>5, <1>6, <1>9
  <2>2. clean' \in BOOLEAN /\ (clean' => clean /\ mine = 0 /\ filled' = Quantity)
    BY <1>1, <1>3, <1>5, <1>6, <1>9
  <2>3. QED
    BY <1>1, <1>2, <1>9, <2>1, <2>2, AnswerStep
<1>10. CASE Refused /\ clean' = (clean /\ sent = 0)
  <2>1. filled' \in Nat /\ filled' + mine + resting <= tries * CapOfTry
    BY <1>1, <1>4, <1>5, <1>10 DEF Refused
  <2>2. clean' \in BOOLEAN /\ (clean' => clean /\ mine = 0 /\ filled' = 0)
    <3>1. Even * 0 = 0
      BY EvenChunks
    <3>2. QED BY <1>1, <1>3, <1>10, <3>1 DEF Refused
  <2>3. QED
    BY <1>2, <1>10, <2>1, <2>2, AbandonStep DEF Refused
<1>11. CASE Lost(ChunkUnits)
  <2>1. filled' \in Nat /\ filled' + mine + resting <= tries * CapOfTry
    BY <1>1, <1>4, <1>5, <1>7, <1>11 DEF Lost
  <2>2. QED
    BY <1>2, <1>11, <2>1, AbandonStep DEF Lost
<1>12. QED
  BY <1>8, <1>9, <1>10, <1>11 DEF SendChunk

LEMMA FillLimitStep ==
    ASSUME IInv, FillLimit
    PROVE  IInv'
<1>1. /\ UNCHANGED <<kind, pc, attempt, at, tries, sent, want, told, clean>>
      /\ filled' = filled + 1
      /\ filled \in Nat /\ mine \in 0..Quantity /\ resting \in Nat
      /\ \/ mine > 0 /\ mine' = mine - 1 /\ resting' = resting
         \/ resting > 0 /\ resting' = resting - 1 /\ mine' = mine
  BY DEF IInv, OpTypeOK, FillLimit, callVars
<1>2. Exposed' = Exposed
  BY <1>1 DEF Exposed
<1>3. OpTypeOK'
  BY <1>1 DEF IInv, OpTypeOK
<1>4. TriesCounted' /\ SentBefore'
  BY <1>1 DEF IInv, TriesCounted, SentBefore
<1>5. Placed'
  BY <1>1 DEF IInv, Placed
<1>6. Backed'
  <2>1. Even * sent \in Nat
    BY NextChunk DEF IInv, OpTypeOK
  <2>2. told \in Nat
    BY DEF IInv, OpTypeOK
  <2>3. QED BY <1>1, <2>1, <2>2 DEF IInv, Backed
<1>7. Spent'
  <2>1. CapOfTry' = CapOfTry
    BY <1>1 DEF CapOfTry
  <2>2. QED BY <1>1, <1>2, <2>1 DEF IInv, Spent
<1>8. Exact'
  <2>1. clean => resting = 0 /\ mine > 0 /\ pc \in {"check", "fallback"}
    BY <1>1 DEF IInv, Exact, Placed, OpTypeOK, Running
  <2>2. QED BY <1>1, <2>1 DEF IInv, Exact
<1>9. QED BY <1>3, <1>4, <1>5, <1>6, <1>7, <1>8 DEF IInv

-----------------------------------------------------------------------------
(* The invariant and what follows from it *)

LEMMA InitIInv == OpInit => IInv
<1> SUFFICES ASSUME OpInit PROVE IInv
  OBVIOUS
<1>1. 1 \in 1..(Attempts * NumExchanges)
  <2>1. (1 - 1) * NumExchanges + 1 = 1
    OBVIOUS
  <2>2. QED BY <2>1, TriesBound
<1>2. OpTypeOK
  BY <1>1 DEF OpInit, OpTypeOK, Running
<1>3. TriesCounted /\ Placed /\ SentBefore /\ Backed /\ Exact
  BY DEF OpInit, TriesCounted, Placed, SentBefore, Backed, Exact
<1>4. Spent
  <2>1. CapOfTry \in Nat
    BY <1>2, CapFacts DEF OpTypeOK
  <2>2. (tries - 1) * CapOfTry = 0 /\ Exposed = 0
    BY <2>1 DEF OpInit, Exposed
  <2>3. QED BY <2>2 DEF OpInit, Spent
<1>5. QED BY <1>2, <1>3, <1>4 DEF IInv

LEMMA NextIInv == IInv /\ [OpNext]_opVars => IInv'
<1> SUFFICES ASSUME IInv, [OpNext]_opVars PROVE IInv'
  OBVIOUS
<1>1. CASE NotSent \/ SendMarket
  BY <1>1, MarketSteps
<1>2. CASE SendLimit
  BY <1>2, SendLimitStep
<1>3. CASE Reconcile \/ Fallback
  BY <1>3, LimitSteps
<1>4. CASE StartChunks
  BY <1>4, StartChunksStep
<1>5. CASE SendChunk
  BY <1>5, SendChunkStep
<1>6. CASE FillLimit
  BY <1>6, FillLimitStep
<1>7. CASE UNCHANGED opVars
  <2>1. UNCHANGED <<kind, pc, attempt, at, tries, sent, mine, want, resting, filled, told, clean>>
    BY <1>7 DEF opVars, callVars
  <2>2. CapOfTry' = CapOfTry /\ Exposed' = Exposed
    BY <2>1 DEF CapOfTry, Exposed
  <2>3. OpTypeOK' /\ TriesCounted' /\ Placed' /\ SentBefore' /\ Backed' /\ Exact'
    BY <2>1 DEF IInv, OpTypeOK, TriesCounted, Placed, SentBefore, Backed, Exact
  <2>4. Spent'
    BY <2>1, <2>2 DEF IInv, Spent
  <2>5. QED BY <2>3, <2>4 DEF IInv
<1>8. QED
  BY <1>1, <1>2, <1>3, <1>4, <1>5, <1>6, <1>7 DEF OpNext, Call, Over

LEMMA Invariance == OpSpec => []IInv
<1>1. QED BY InitIInv, NextIInv, PTL DEF OpSpec

(* Every reachable state of a call is well typed; in particular the retries *)
(* never run past their number.                                             *)
THEOREM TypeCorrect == OpSpec => []OpTypeOK
<1>1. IInv => OpTypeOK
  BY DEF IInv
<1>2. QED BY <1>1, Invariance, PTL

(* The quantity place_order answers with was executed, for any number of    *)
(* exchanges, retries and chunks.                                           *)
THEOREM AnswersAreBacked == OpSpec => []AnswerIsBacked
<1>1. IInv => AnswerIsBacked
  BY DEF IInv, Backed, AnswerIsBacked, OpTypeOK
<1>2. QED BY <1>1, Invariance, PTL

(* Failover and retries multiply the exposure by the number of tries, and   *)
(* the market fallback of a limit order by two, but nothing more.           *)
THEOREM BoundedExposure == OpSpec => []ExposureBound
<1>1. ASSUME IInv PROVE ExposureBound
  <2>1. Exposed <= tries * CapOfTry
    <3>1. Exposed \in Nat /\ tries * CapOfTry \in Nat
      BY <1>1, RoomLeft DEF IInv, OpTypeOK, Exposed
    <3>2. CapOfTry \in Nat
      BY <1>1, CapFacts DEF IInv, OpTypeOK
    <3>3. CASE pc = "try"
      BY <1>1, <3>1, <3>2, <3>3, RoomLeft
    <3>4. CASE pc = "chunks"
      <4>1. Even * sent \in Nat /\ Even * sent <= Quantity
        BY <1>1, NextChunk DEF IInv, OpTypeOK
      <4>2. QED BY <1>1, <3>1, <3>4, <4>1, RoomLeft
    <3>5. CASE pc \in {"check", "fallback"}
      BY <1>1, <3>1, <3>5, RoomLeft
    <3>6. CASE pc \in {"done", "raised"}
      BY <1>1, <3>6 DEF IInv, Spent
    <3>7. QED BY <1>1, <3>3, <3>4, <3>5, <3>6 DEF IInv, OpTypeOK, Running
  <2>2. tries * CapOfTry = tries * Quantity * (IF kind = "LIMIT" THEN 2 ELSE 1)
    BY <1>1 DEF CapOfTry, IInv, OpTypeOK
  <2>3. QED BY <2>1, <2>2 DEF ExposureBound, Exposed
<1>2. QED BY <1>1, Invariance, PTL

(* Without a lost answer, a failing chunk or a limit order that rested, an  *)
(* answer is exact and an error means that nothing was executed.            *)
THEOREM ExactUnlessAmbiguous == OpSpec => []CleanCallsAreExact
<1>1. IInv => CleanCallsAreExact
  BY DEF IInv, Exact, CleanCallsAreExact
<1>2. QED BY <1>1, Invariance, PTL

-----------------------------------------------------------------------------
(* A book is given up after its retries.  Each retry is an order that was   *)
(* answered, and each flush under way is one that was sent and is not yet   *)
(* counted: the two together never exceed the orders.                       *)

Busy == {f \in Flushes : voFlush[f].on}

RetriesInv ==
    /\ voRetry \in Nat /\ voOrders \in Nat
    /\ voFlush = [f \in Flushes |-> voFlush[f]]
    /\ IsFiniteSet(Busy) /\ voRetry + Cardinality(Busy) <= voOrders

(* What finalize_book does to the retries: one more, or none and the book   *)
(* is given up, which it is for want of retries only.                       *)
LEMMA FinalizeCounts ==
    ASSUME RetriesInv, NEW executed, Finalize(executed)
    PROVE  /\ voRetry' \in Nat /\ voRetry' <= voRetry + 1
           /\ voGivenUp' # voGivenUp => voRetry >= MaxRetries
<1> DEFINE rest == Remaining(voBook, Allocate(voBook, executed))
<1>1. CASE voBook = EmptyBook
    BY <1>1 DEF Finalize, RetriesInv
<1>2. CASE voBook # EmptyBook /\ rest # EmptyBook /\ voRetry < MaxRetries
    BY <1>2 DEF Finalize, RetriesInv
<1>3. CASE voBook # EmptyBook /\ ~(rest # EmptyBook /\ voRetry < MaxRetries)
    <2>1. voRetry' = 0 /\ voGivenUp' = voGivenUp \cup DOMAIN rest
        BY <1>3 DEF Finalize
    <2>2. rest = EmptyBook => DOMAIN rest = {}
        BY DEF EmptyBook
    <2>3. voGivenUp' # voGivenUp => voRetry >= MaxRetries
        BY <1>3, <2>1, <2>2, VirtualOrdersAssumption DEF RetriesInv, VirtualOrdersAssumption
    <2> QED BY <2>1, <2>3 DEF RetriesInv
<1> QED BY <1>1, <1>2, <1>3

LEMMA RetriesInit == VoInit => RetriesInv
<1> SUFFICES ASSUME VoInit PROVE RetriesInv
    OBVIOUS
<1>1. Busy = {}
    BY DEF VoInit, Asleep, Busy
<1> QED BY <1>1, FS_EmptySet DEF VoInit, RetriesInv

LEMMA RetriesStep ==
    ASSUME RetriesInv, [VoNext]_voVars
    PROVE  /\ RetriesInv'
           /\ voGivenUp' # voGivenUp => voRetry >= MaxRetries /\ voOrders' > MaxRetries
<1>0. Cardinality(Busy) \in Nat
    BY FS_CardinalityType DEF RetriesInv
<1>1. ASSUME UNCHANGED <<voFlush, voRetry, voOrders, voGivenUp>>
      PROVE  RetriesInv' /\ voGivenUp' = voGivenUp
    BY <1>1 DEF RetriesInv, Busy
<1>2. ASSUME NEW i \in Intents, Submit(i)
      PROVE  RetriesInv' /\ voGivenUp' = voGivenUp
    BY <1>1, <1>2 DEF Submit
<1>3. ASSUME NEW f \in Flushes, SendOrder(f)
      PROVE  RetriesInv' /\ voGivenUp' = voGivenUp
    <2>1. /\ f \notin Busy /\ Busy' = Busy \cup {f}
          /\ voFlush' = [g \in Flushes |-> voFlush'[g]]
          /\ voOrders' = voOrders + 1 /\ voRetry' = voRetry /\ voGivenUp' = voGivenUp
        BY <1>3 DEF SendOrder, Busy, RetriesInv
    <2>2. IsFiniteSet(Busy') /\ Cardinality(Busy') = Cardinality(Busy) + 1
        BY <2>1, FS_AddElement DEF RetriesInv
    <2> QED BY <1>0, <2>1, <2>2 DEF RetriesInv
<1>4. ASSUME NEW f \in Flushes, OrderAnswered(f)
      PROVE  /\ RetriesInv'
             /\ voGivenUp' # voGivenUp => voRetry >= MaxRetries /\ voOrders' > MaxRetries
    <2>1. /\ f \in Busy /\ Busy' = Busy \ {f} /\ voOrders' = voOrders
          /\ voFlush' = [g \in Flushes |-> voFlush'[g]]
        BY <1>4 DEF OrderAnswered, Asleep, Busy, RetriesInv
    <2>2. IsFiniteSet(Busy') /\ Cardinality(Busy') = Cardinality(Busy) - 1
        BY <2>1, FS_RemoveElement DEF RetriesInv
    <2>3. /\ voRetry' \in Nat /\ voRetry' <= voRetry + 1
          /\ voGivenUp' # voGivenUp => voRetry >= MaxRetries
        <3>1. CASE voRetry' = voRetry /\ voGivenUp' = voGivenUp
            BY <3>1 DEF RetriesInv
        <3> QED BY <1>4, <3>1, FinalizeCounts DEF OrderAnswered
    <2>4. Cardinality(Busy') \in Nat
        BY <2>2, FS_CardinalityType
    <2>5. voRetry + 1 <= voOrders
        BY <1>0, <2>2, <2>4 DEF RetriesInv
    <2>6. RetriesInv'
        BY <1>0, <2>1, <2>2, <2>3, <2>4 DEF RetriesInv
    <2> QED BY <2>1, <2>3, <2>5, <2>6, VirtualOrdersAssumption DEF VirtualOrdersAssumption, RetriesInv
<1>5. ASSUME FlushBook
      PROVE  /\ RetriesInv'
             /\ voGivenUp' # voGivenUp => voRetry >= MaxRetries /\ voOrders' > MaxRetries
    <2>1. Busy' = Busy /\ voFlush' = voFlush /\ voOrders' = voOrders + 1
        BY <1>5 DEF FlushBook, Busy
    <2>2. /\ voRetry' \in Nat /\ voRetry' <= voRetry + 1
          /\ voGivenUp' # voGivenUp => voRetry >= MaxRetries
        <3>1. CASE voRetry' = voRetry + 1 /\ voGivenUp' = voGivenUp
            BY <3>1 DEF RetriesInv
        <3>2. CASE LoseBook /\ voGivenUp' = voGivenUp
            BY <3>2 DEF RetriesInv, LoseBook
        <3>3. \/ \E x \in 0..Wanted(voBook) : Finalize(x)
              \/ LoseBook /\ voGivenUp' = voGivenUp
              \/ voRetry' = voRetry + 1 /\ voGivenUp' = voGivenUp
            BY <1>5 DEF FlushBook
        <3> QED BY <3>1, <3>2, <3>3, FinalizeCounts
    <2>3. voRetry <= voOrders
        BY <1>0 DEF RetriesInv
    <2>4. RetriesInv'
        BY <1>0, <2>1, <2>2 DEF RetriesInv
    <2> QED BY <2>1, <2>2, <2>3, <2>4, VirtualOrdersAssumption DEF VirtualOrdersAssumption, RetriesInv
<1>6. ASSUME UNCHANGED voVars PROVE RetriesInv' /\ voGivenUp' = voGivenUp
    BY <1>1, <1>6 DEF voVars
<1>7. ASSUME ExpireBook PROVE RetriesInv' /\ voGivenUp' = voGivenUp
    <2>1. Busy' = Busy /\ voRetry' = 0 /\ UNCHANGED <<voFlush, voOrders, voGivenUp>>
        BY <1>7 DEF ExpireBook, LoseBook, Busy
    <2> QED BY <1>0, <2>1 DEF RetriesInv
<1> QED BY <1>2, <1>3, <1>4, <1>5, <1>6, <1>7 DEF VoNext

(* For any intents, quantities, retries and number of flushes at once: a    *)
(* book is given up only when its retries are used up, and not before that  *)
(* many orders and one more were sent.                                      *)
THEOREM BooksAreTriedAgain == VoSpec => GivenUpAfterRetries
<1>1. RetriesInv /\ [VoNext]_voVars => [voGivenUp' # voGivenUp => voRetry >= MaxRetries /\ voOrders' > MaxRetries]_voVars
    BY RetriesStep
<1> QED BY <1>1, RetriesInit, RetriesStep, PTL DEF VoSpec, GivenUpAfterRetries

LEMMA WantedIs == \A f : Wanted(f) = SumOf(f)
BY DEF Wanted, SumOf

(* The allocation of what was executed *)

(* A book, and what was executed for it. *)
Book(b) ==
    /\ IsFiniteSet(DOMAIN b) /\ DOMAIN b # {} /\ DOMAIN b \subseteq Nat
    /\ \A i \in DOMAIN b : b[i] \in Nat \ {0}

Left(b, x) == x - Wanted(ShareFloor(b, x))

LEMMA Division ==
    ASSUME NEW a \in Nat, NEW n \in Nat \ {0}
    PROVE  /\ a \div n \in Nat /\ a % n \in 0..n - 1 /\ a = n * (a \div n) + (a % n)
OBVIOUS

(* A remainder is below the divisor, so that a share of equal quotients is   *)
(* ordered by the remainders.                                                *)
LEMMA Quotients ==
    ASSUME NEW n \in Nat \ {0}, NEW p \in Nat, NEW q \in Nat, NEW r \in 0..n - 1, NEW t \in 0..n - 1,
           n * p + r >= n * q + t
    PROVE  p >= q
<1> SUFFICES ASSUME p < q PROVE FALSE  OBVIOUS
<1>1. PICK d \in Nat : q = p + 1 + d
  <2>1. q - p - 1 \in Nat  OBVIOUS
  <2> QED  BY <2>1
<1>2. n * q = n * p + n + n * d  BY <1>1
<1>3. n * d >= 0 /\ n * d \in Int /\ n * p \in Int  OBVIOUS
<1> QED  BY <1>2, <1>3

LEMMA Shares ==
    ASSUME NEW b, Book(b), NEW x \in Nat
    PROVE  /\ Wanted(b) \in Nat \ {0}
           /\ DOMAIN ShareFloor(b, x) = DOMAIN b /\ DOMAIN ShareRest(b, x) = DOMAIN b
           /\ \A i \in DOMAIN b :
                 /\ ShareFloor(b, x)[i] \in Nat /\ ShareRest(b, x)[i] \in 0..Wanted(b) - 1
                 /\ x * b[i] = Wanted(b) * ShareFloor(b, x)[i] + ShareRest(b, x)[i]
<1>1. PICK D, w : D = DOMAIN b /\ w = Wanted(b)  OBVIOUS
<1>2. w \in Nat  BY <1>1, SumType, WantedIs DEF Book
<1>3. w # 0
  <2> DEFINE z == [i \in D |-> 0]
  <2>1. \A i \in D : z[i] \in Int /\ b[i] \in Int /\ z[i] <= b[i] /\ z[i] < b[i]  BY <1>1 DEF Book
  <2>2. DOMAIN z = D /\ \E i \in D : z[i] < b[i]  BY <1>1, <2>1 DEF Book
  <2>3. \A i \in D : z[i] \in Nat  OBVIOUS
  <2> HIDE DEF z
  <2>4. IsFiniteSet(D)  BY <1>1 DEF Book
  <2>5. Wanted(z) < w  BY <1>1, <2>1, <2>2, <2>4, SumsCompare, WantedIs
  <2>6. Wanted(z) \in Nat  BY <2>2, <2>3, <2>4, SumType, WantedIs
  <2> QED  BY <1>2, <2>5, <2>6
<1>4. ASSUME NEW i \in D
      PROVE  /\ ShareFloor(b, x)[i] \in Nat /\ ShareRest(b, x)[i] \in 0..w - 1
             /\ x * b[i] = w * ShareFloor(b, x)[i] + ShareRest(b, x)[i]
  <2>1. x * b[i] \in Nat  BY <1>1 DEF Book
  <2>2. ShareFloor(b, x)[i] = (x * b[i]) \div w /\ ShareRest(b, x)[i] = (x * b[i]) % w
    BY <1>1 DEF ShareFloor, ShareRest
  <2> QED  BY ONLY <1>2, <1>3, <2>1, <2>2, Division
<1> QED  BY <1>1, <1>2, <1>3, <1>4 DEF ShareFloor, ShareRest

(* What is left over once the shares are rounded down: fewer units than      *)
(* there are intents.                                                        *)
LEMMA LeftOver ==
    ASSUME NEW b, Book(b), NEW x \in Nat
    PROVE  /\ Left(b, x) \in Nat /\ Left(b, x) < Cardinality(DOMAIN b)
           /\ Wanted(ShareFloor(b, x)) \in Nat
           /\ Left(b, x) # 0 => \E i \in DOMAIN b : ShareRest(b, x)[i] > 0
<1>1. PICK D, w, n : D = DOMAIN b /\ w = Wanted(b) /\ n = Cardinality(D)  OBVIOUS
<1>2. PICK q, r : q = ShareFloor(b, x) /\ r = ShareRest(b, x)  OBVIOUS
<1>3. /\ IsFiniteSet(D) /\ w \in Nat \ {0} /\ DOMAIN q = D /\ DOMAIN r = D /\ n \in Nat \ {0}
  <2>1. IsFiniteSet(D) /\ D # {}  BY <1>1 DEF Book
  <2>2. n \in Nat /\ n # 0  BY <1>1, <2>1, FS_CardinalityType, FS_EmptySet
  <2> QED  BY <1>1, <1>2, <2>1, <2>2, Shares
<1>4. \A i \in D : b[i] \in Int /\ q[i] \in Nat /\ r[i] \in Nat /\ r[i] < w /\ x * b[i] = w * q[i] + r[i]
  <2> SUFFICES ASSUME NEW i \in D
               PROVE  b[i] \in Int /\ q[i] \in Nat /\ r[i] \in Nat /\ r[i] < w /\ x * b[i] = w * q[i] + r[i]
    OBVIOUS
  <2>1. b[i] \in Int  BY <1>1 DEF Book
  <2>2. q[i] \in Nat /\ r[i] \in 0..w - 1 /\ x * b[i] = w * q[i] + r[i]  BY <1>1, <1>2, Shares
  <2> QED  BY ONLY <1>3, <2>1, <2>2
<1> DEFINE e == [i \in D |-> x * b[i]]  m == [i \in D |-> w * q[i]]  ones == [i \in D |-> IF i \in D THEN 1 ELSE 0]
           top == [i \in D |-> w * ones[i]]
<1>5. Wanted(e) = x * w
  <2>1. DOMAIN e = D /\ \A i \in D : b[i] \in Int /\ e[i] = x * b[i]  BY <1>4
  <2> HIDE DEF e
  <2>2. x \in Int  OBVIOUS
  <2> QED  BY <1>1, <1>3, <2>1, <2>2, SumOfMultiples, WantedIs
<1>6. Wanted(m) = w * Wanted(q)
  <2>1. DOMAIN m = D /\ \A i \in D : q[i] \in Int /\ m[i] = w * q[i]  BY <1>4
  <2> HIDE DEF m
  <2>2. w \in Int  BY <1>3
  <2> QED  BY <1>3, <2>1, <2>2, SumOfMultiples, WantedIs
<1>7. Wanted(e) = Wanted(m) + Wanted(r)
  <2>1. DOMAIN e = D /\ DOMAIN m = D  OBVIOUS
  <2>2. ASSUME NEW i \in D  PROVE m[i] \in Int /\ r[i] \in Int /\ e[i] = m[i] + r[i]
    <3>1. w * q[i] \in Int  BY <1>3, <1>4
    <3> QED  BY <1>4, <3>1
  <2> HIDE DEF e, m
  <2> QED  BY <1>3, <2>1, <2>2, SumOfSums, WantedIs
<1>8. Wanted(top) = w * n
  <2>1. Wanted(ones) = n
    <3>1. D \cap D = D  OBVIOUS
    <3> QED  BY <1>1, <1>3, <3>1, SumOfOnes, WantedIs
  <2>2. DOMAIN top = D /\ DOMAIN ones = D /\ \A i \in D : ones[i] \in Int /\ top[i] = w * ones[i]  OBVIOUS
  <2> HIDE DEF top, ones
  <2>3. w \in Int  BY <1>3
  <2>4. Wanted(top) = w * Wanted(ones)  BY <1>3, <2>2, <2>3, SumOfMultiples, WantedIs
  <2> QED  BY <2>1, <2>4
<1>9. Wanted(r) < Wanted(top)
  <2>1. DOMAIN top = D  OBVIOUS
  <2>2. \A i \in D : r[i] \in Int /\ top[i] \in Int /\ r[i] <= top[i] /\ r[i] < top[i]
    <3> SUFFICES ASSUME NEW i \in D PROVE r[i] \in Int /\ top[i] \in Int /\ r[i] < top[i]  BY <1>4
    <3>1. top[i] = w  BY <1>3
    <3> QED  BY <1>3, <1>4, <3>1
  <2>3. \E i \in D : TRUE  BY <1>1 DEF Book
  <2> HIDE DEF top
  <2> QED  BY <1>3, <2>1, <2>2, <2>3, SumsCompare, WantedIs
<1>10. Wanted(q) \in Nat /\ Wanted(r) \in Nat
  <2>1. \A i \in D : q[i] \in Int /\ r[i] \in Int /\ q[i] \in Nat /\ r[i] \in Nat  BY <1>4
  <2> QED  BY <1>3, <2>1, SumType, WantedIs
<1> DEFINE k == x - Wanted(q)
<1>11. w * k = Wanted(r) /\ k \in Int
  <2>1. x * w = w * Wanted(q) + Wanted(r)  BY <1>5, <1>6, <1>7
  <2> QED  BY ONLY <1>3, <1>10, <2>1, x \in Nat
<1> HIDE DEF k
<1>12. w * k < w * n  BY <1>8, <1>9, <1>11
<1>13. k < n  BY ONLY <1>3, <1>11, <1>12
<1>14. k >= 0  BY ONLY <1>3, <1>10, <1>11
<1>15. ASSUME k # 0  PROVE \E i \in D : r[i] > 0
  <2> SUFFICES ASSUME \A i \in D : ~(r[i] > 0)  PROVE FALSE  OBVIOUS
  <2> DEFINE z == [i \in D |-> 0 * r[i]]
  <2>1. DOMAIN z = D /\ \A i \in D : r[i] \in Int /\ z[i] = 0 * r[i]  BY <1>4
  <2>2. r = z
    <3>1. \A i \in D : r[i] = z[i]  BY <1>4
    <3>2. r = [i \in D |-> r[i]]  BY <1>1, <1>2 DEF ShareRest
    <3> QED  BY <3>1, <3>2
  <2> HIDE DEF z
  <2>3. Wanted(z) = 0 * Wanted(r)  BY <1>3, <2>1, SumOfMultiples, WantedIs
  <2>4. Wanted(r) = 0  BY <1>10, <2>2, <2>3
  <2>5. k = 0  BY ONLY <1>3, <1>11, <2>4
  <2> QED  BY <1>15, <2>5
<1>16. k = Left(b, x)  BY <1>2 DEF k, Left
<1> QED  BY <1>1, <1>2, <1>10, <1>11, <1>13, <1>14, <1>15, <1>16

(* Ranks *)

(* The order of the units left over is a strict one of all intents.          *)
LEMMA BeforeIsAnOrder ==
    ASSUME NEW b, NEW r, DOMAIN b \subseteq Nat, \A i \in DOMAIN b : b[i] \in Int /\ r[i] \in Int,
           NEW i \in DOMAIN b, NEW j \in DOMAIN b, NEW k \in DOMAIN b
    PROVE  /\ ~Before(b, r, i, i)
           /\ i # j => Before(b, r, i, j) \/ Before(b, r, j, i)
           /\ Before(b, r, i, j) /\ Before(b, r, j, k) => Before(b, r, i, k)
<1>1. i \in Nat /\ j \in Nat /\ k \in Nat  OBVIOUS
<1> QED  BY <1>1 DEF Before

LEMMA RankFollowsOrder ==
    ASSUME NEW b, NEW r, IsFiniteSet(DOMAIN b), DOMAIN b \subseteq Nat, \A i \in DOMAIN b : b[i] \in Int /\ r[i] \in Int,
           NEW i \in DOMAIN b, NEW j \in DOMAIN b, Before(b, r, i, j)
    PROVE  Rank(b, r, i) < Rank(b, r, j)
<1> DEFINE S(k) == {l \in DOMAIN b : Before(b, r, l, k)}
<1>1. S(i) \subseteq S(j)  BY BeforeIsAnOrder
<1>2. i \in S(j) /\ i \notin S(i)  BY BeforeIsAnOrder
<1>3. IsFiniteSet(S(j))  BY FS_Subset
<1>4. Cardinality(S(i)) <= Cardinality(S(j)) /\ Cardinality(S(i)) # Cardinality(S(j))
  <2>1. S(i) \in SUBSET S(j) /\ S(i) # S(j)  BY <1>1, <1>2
  <2> HIDE DEF S
  <2> QED  BY <1>3, <2>1, FS_Subset
<1>5. Cardinality(S(i)) \in Nat /\ Cardinality(S(j)) \in Nat
  <2>1. IsFiniteSet(S(i))  BY FS_Subset
  <2> QED  BY <1>3, <2>1, FS_CardinalityType
<1>6. Rank(b, r, i) = Cardinality(S(i)) /\ Rank(b, r, j) = Cardinality(S(j))  BY DEF Rank
<1> HIDE DEF S
<1> QED  BY ONLY <1>4, <1>5, <1>6

(* Each unit left over has one intent of its rank. *)
LEMMA RanksCount ==
    ASSUME NEW b, NEW r, IsFiniteSet(DOMAIN b), DOMAIN b \subseteq Nat, \A i \in DOMAIN b : b[i] \in Int /\ r[i] \in Int,
           NEW k \in Nat, k <= Cardinality(DOMAIN b)
    PROVE  Cardinality({i \in DOMAIN b : Rank(b, r, i) < k}) = k
<1>1. PICK D, n : D = DOMAIN b /\ n = Cardinality(D)  OBVIOUS
<1>2. IsFiniteSet(D) /\ n \in Nat  BY <1>1, FS_CardinalityType
<1> DEFINE rank == [i \in D |-> Rank(b, r, i)]
<1>3. \A i \in D : rank[i] \in 0..n - 1
  <2> SUFFICES ASSUME NEW i \in D PROVE rank[i] \in 0..n - 1  OBVIOUS
  <2> DEFINE S == {l \in D : Before(b, r, l, i)}
  <2>1. S \in SUBSET (D \ {i})  BY <1>1, BeforeIsAnOrder
  <2>2. IsFiniteSet(D \ {i}) /\ Cardinality(D \ {i}) = n - 1  BY <1>1, <1>2, OneOff
  <2>3. rank[i] = Cardinality(S)  BY <1>1 DEF Rank
  <2> HIDE DEF S
  <2>4. IsFiniteSet(S) /\ Cardinality(S) <= n - 1  BY <2>1, <2>2, FS_Subset
  <2>5. Cardinality(S) \in Nat  BY <2>4, FS_CardinalityType
  <2> HIDE DEF rank
  <2> QED  BY ONLY <1>2, <2>3, <2>4, <2>5
<1>4. \A i, j \in D : rank[i] = rank[j] => i = j
  <2> SUFFICES ASSUME NEW i \in D, NEW j \in D, i # j PROVE rank[i] # rank[j]  OBVIOUS
  <2>1. rank[i] = Rank(b, r, i) /\ rank[j] = Rank(b, r, j)  OBVIOUS
  <2>2. Before(b, r, i, j) \/ Before(b, r, j, i)  BY <1>1, BeforeIsAnOrder
  <2>3. rank[i] \in Int /\ rank[j] \in Int  BY <1>3
  <2>4. rank[i] < rank[j] \/ rank[j] < rank[i]  BY <1>1, <2>1, <2>2, RankFollowsOrder
  <2> HIDE DEF rank
  <2> QED  BY ONLY <2>3, <2>4
<1> DEFINE T == 0..n - 1  C == {i \in D : rank[i] < k}  U == 0..k - 1
           part == [i \in C |-> rank[i]]
<1>5. rank \in Injection(D, T)
  <2>1. rank \in [D -> T]  BY <1>3
  <2> HIDE DEF rank, T
  <2> QED  BY <1>4, <2>1 DEF Injection, IsInjective
<1>6. IsFiniteSet(T) /\ Cardinality(T) = n  BY <1>2, FS_Interval
<1>7. rank \in Surjection(D, T)
  <2> HIDE DEF rank, T
  <2> QED  BY <1>1, <1>5, <1>6, FS_Injection
<1>8. part \in Surjection(C, U) /\ part \in Injection(C, U)
  <2>1. part \in [C -> U]  BY <1>3
  <2>2. \A u \in U : \E i \in C : part[i] = u
    <3> SUFFICES ASSUME NEW u \in U PROVE \E i \in C : part[i] = u  OBVIOUS
    <3>1. u \in T /\ u < k  BY <1>1, <1>2
    <3>2. PICK i \in D : rank[i] = u  BY <1>7, <3>1 DEF Surjection
    <3>3. i \in C  BY <3>1, <3>2
    <3>4. part[i] = u  BY <3>2, <3>3
    <3> QED  BY <3>3, <3>4
  <2>3. \A i, j \in C : part[i] = part[j] => i = j  BY <1>4
  <2> HIDE DEF part, C, U
  <2> QED  BY <2>1, <2>2, <2>3 DEF Surjection, Injection, IsInjective
<1>9. IsFiniteSet(U) /\ Cardinality(U) = k
  <2>1. 0 \in Int /\ k - 1 \in Int  OBVIOUS
  <2>2. IsFiniteSet(U) /\ Cardinality(U) = (IF 0 > k - 1 THEN 0 ELSE (k - 1) - 0 + 1)  BY ONLY <2>1, FS_Interval
  <2>3. (IF 0 > k - 1 THEN 0 ELSE (k - 1) - 0 + 1) = k  BY ONLY k \in Nat
  <2> QED  BY <2>2, <2>3
<1>10. Cardinality(C) = k
  <2> HIDE DEF part, C, U
  <2> QED  BY <1>8, <1>9, FS_Injection
<1>11. C = {i \in DOMAIN b : Rank(b, r, i) < k}  BY <1>1
<1> QED  BY <1>10, <1>11

LEMMA AllocateIs ==
    ASSUME NEW b, Book(b), NEW x \in Nat
    PROVE  /\ DOMAIN Allocate(b, x) = DOMAIN b
           /\ \A i \in DOMAIN b :
                 /\ Allocate(b, x)[i] = ShareFloor(b, x)[i]
                        + (IF Rank(b, ShareRest(b, x), i) < Left(b, x) THEN 1 ELSE 0)
                 /\ Allocate(b, x)[i] \in Nat
<1>1. DOMAIN Allocate(b, x) = DOMAIN b  BY DEF Allocate
<1>2. ASSUME NEW i \in DOMAIN b
      PROVE  Allocate(b, x)[i] = ShareFloor(b, x)[i]
                + (IF Rank(b, ShareRest(b, x), i) < Left(b, x) THEN 1 ELSE 0)
  BY DEF Allocate, Left
<1>3. ASSUME NEW i \in DOMAIN b  PROVE Allocate(b, x)[i] \in Nat
  <2>1. ShareFloor(b, x)[i] \in Nat  BY Shares
  <2>2. CASE Rank(b, ShareRest(b, x), i) < Left(b, x)  BY <1>2, <2>1, <2>2
  <2>3. CASE ~(Rank(b, ShareRest(b, x), i) < Left(b, x))  BY <1>2, <2>1, <2>3
  <2> QED  BY <2>2, <2>3
<1> QED  BY <1>1, <1>2, <1>3

(* AllocationEngine.allocate shares out what was executed, to the unit.      *)
LEMMA AllIsAllocated ==
    ASSUME NEW b, Book(b), NEW x \in Nat
    PROVE  Wanted(Allocate(b, x)) = x
<1>1. PICK D, q, r, k : D = DOMAIN b /\ q = ShareFloor(b, x) /\ r = ShareRest(b, x) /\ k = Left(b, x)  OBVIOUS
<1>2. IsFiniteSet(D) /\ DOMAIN q = D /\ DOMAIN r = D  BY <1>1, Shares DEF Book
<1>3. \A i \in D : q[i] \in Int /\ r[i] \in Int /\ b[i] \in Int  BY <1>1, Shares DEF Book
<1>4. k \in Nat /\ k <= Cardinality(D)
  <2>1. k \in Nat /\ k < Cardinality(D)  BY <1>1, LeftOver
  <2>2. Cardinality(D) \in Nat  BY <1>2, FS_CardinalityType
  <2> QED  BY <2>1, <2>2
<1> DEFINE C == {i \in D : Rank(b, r, i) < k}  e == [i \in D |-> IF i \in C THEN 1 ELSE 0]
<1>5. Cardinality(C) = k
  <2>1. D \subseteq Nat  BY <1>1 DEF Book
  <2> QED  BY <1>1, <1>2, <1>3, <1>4, <2>1, RanksCount
<1>6. Wanted(e) = k
  <2>1. D \cap C = C  OBVIOUS
  <2> HIDE DEF C
  <2> QED  BY <1>2, <1>5, <2>1, SumOfOnes, WantedIs
<1>7. Wanted(Allocate(b, x)) = Wanted(q) + Wanted(e)
  <2>1. PICK a : a = Allocate(b, x)  OBVIOUS
  <2>2. DOMAIN a = D /\ DOMAIN e = D  BY <1>1, <2>1, AllocateIs
  <2>3. \A i \in D : q[i] \in Int /\ e[i] \in Int /\ a[i] = q[i] + e[i]
    <3> SUFFICES ASSUME NEW i \in D PROVE a[i] = q[i] + e[i]  BY <1>3
    <3>1. a[i] = q[i] + (IF Rank(b, r, i) < k THEN 1 ELSE 0)  BY <1>1, <2>1, AllocateIs
    <3>2. e[i] = IF Rank(b, r, i) < k THEN 1 ELSE 0  OBVIOUS
    <3> HIDE DEF e
    <3> QED  BY <3>1, <3>2
  <2> HIDE DEF e
  <2>4. Wanted(a) = Wanted(q) + Wanted(e)  BY <1>2, <2>2, <2>3, SumOfSums, WantedIs
  <2> QED  BY <2>1, <2>4
<1>8. Wanted(q) \in Nat /\ k = x - Wanted(q)  BY <1>1, LeftOver DEF Left
<1> HIDE DEF e
<1> QED  BY <1>6, <1>7, <1>8

(* Nobody is given more than he is still waiting for.                        *)
LEMMA SharesFit ==
    ASSUME NEW b, Book(b), NEW x \in 0..Wanted(b), NEW i \in DOMAIN b
    PROVE  Allocate(b, x)[i] <= b[i]
<1>1. PICK w, q, r, k : w = Wanted(b) /\ q = ShareFloor(b, x)[i] /\ r = ShareRest(b, x)[i] /\ k = Left(b, x)  OBVIOUS
<1>2. w \in Nat \ {0} /\ x \in 0..w  BY <1>1, Shares
<1>3. b[i] \in Nat  BY DEF Book
<1>4. q \in Nat /\ r \in 0..w - 1 /\ x * b[i] = w * q + r  BY <1>1, <1>2, Shares
<1>5. CASE x = w
  <2>1. \A j \in DOMAIN b : ShareRest(b, x)[j] = 0
    <3> SUFFICES ASSUME NEW j \in DOMAIN b PROVE ShareRest(b, x)[j] = 0  OBVIOUS
    <3>1. PICK p, t : p = ShareFloor(b, x)[j] /\ t = ShareRest(b, x)[j]  OBVIOUS
    <3>9. x \in Nat  BY <1>2
    <3>10. p \in Nat /\ t \in 0..w - 1 /\ x * b[j] = w * p + t  BY <1>1, <3>1, <3>9, Shares
    <3>11. b[j] \in Nat  BY DEF Book
    <3>2. p \in Nat /\ t \in 0..w - 1 /\ x * b[j] = w * p + t /\ b[j] \in Nat  BY <3>10, <3>11
    <3>3. w * b[j] + 0 = w * p + t  BY <1>2, <1>5, <3>2
    <3>4. 0 \in 0..w - 1  BY <1>2
    <3>5. w * b[j] + 0 >= w * p + t /\ w * p + t >= w * b[j] + 0
      <4>1. w * b[j] \in Int /\ w * p \in Int  BY <1>2, <3>2
      <4> QED  BY <3>2, <3>3, <4>1
    <3>6. b[j] >= p /\ p >= b[j]  BY ONLY <1>2, <3>2, <3>4, <3>5, Quotients
    <3>7. p = b[j]  BY <3>2, <3>6
    <3>8. t = 0  BY ONLY <1>2, <3>2, <3>3, <3>7
    <3> QED  BY <3>1, <3>8
  <2>2. k = 0  BY <1>1, <1>2, <2>1, LeftOver
  <2>3. ~(Rank(b, ShareRest(b, x), i) < k)
    <3>1. Rank(b, ShareRest(b, x), i) \in Nat
      <4>1. IsFiniteSet(DOMAIN b)  BY DEF Book
      <4>2. IsFiniteSet({j \in DOMAIN b : Before(b, ShareRest(b, x), j, i)})  BY <4>1, FS_Subset
      <4> QED  BY <4>2, FS_CardinalityType DEF Rank
    <3> QED  BY <2>2, <3>1
  <2>4. Allocate(b, x)[i] = q
    <3>1. Allocate(b, x)[i] = ShareFloor(b, x)[i] + 0  BY <1>1, <1>2, <2>3, AllocateIs
    <3> QED  BY <1>1, <1>4, <3>1
  <2>5. w * b[i] + 0 >= w * q + r
    <3>1. w * b[i] = w * q + r  BY <1>4, <1>5
    <3>2. w * b[i] \in Int /\ w * q \in Int  BY <1>2, <1>3, <1>4
    <3> QED  BY <1>4, <3>1, <3>2
  <2>6. 0 \in 0..w - 1  BY <1>2
  <2>7. b[i] >= q  BY ONLY <1>2, <1>3, <1>4, <2>5, <2>6, Quotients
  <2> QED  BY <1>3, <1>4, <2>4, <2>7
<1>6. CASE x < w
  <2>1. Allocate(b, x)[i] <= q + 1
    <3>1. Allocate(b, x)[i] = ShareFloor(b, x)[i] + (IF Rank(b, ShareRest(b, x), i) < Left(b, x) THEN 1 ELSE 0)
      BY <1>2, AllocateIs
    <3> QED  BY <1>1, <1>4, <3>1
  <2>2. b[i] # 0  BY DEF Book
  <2>3. q < b[i]
    <3> SUFFICES ASSUME q >= b[i] PROVE FALSE  BY <1>3, <1>4
    <3>1. w * q >= w * b[i]  BY ONLY <1>2, <1>3, <1>4, q >= b[i]
    <3>2. x * b[i] < w * b[i]  BY ONLY <1>2, <1>3, <1>6, <2>2
    <3>3. w * q \in Int /\ w * b[i] \in Int /\ x * b[i] \in Int  BY <1>2, <1>3, <1>4
    <3> QED  BY ONLY <1>4, <3>1, <3>2, <3>3
  <2>4. Allocate(b, x)[i] \in Nat  BY <1>2, AllocateIs
  <2> QED  BY <1>3, <1>4, <2>1, <2>3, <2>4
<1> QED  BY <1>2, <1>5, <1>6

(* Of two intents the larger is given no less.                               *)
LEMMA LargerGetsMore ==
    ASSUME NEW b, Book(b), NEW x \in Nat, NEW i \in DOMAIN b, NEW j \in DOMAIN b, b[i] > b[j]
    PROVE  Allocate(b, x)[i] >= Allocate(b, x)[j]
<1> DEFINE r == ShareRest(b, x)
<1>1. PICK w, p, q, s, t : /\ w = Wanted(b) /\ p = ShareFloor(b, x)[i] /\ q = ShareFloor(b, x)[j]
                           /\ s = r[i] /\ t = r[j]
  OBVIOUS
<1>2. w \in Nat \ {0} /\ b[i] \in Nat /\ b[j] \in Nat  BY <1>1, Shares DEF Book
<1>3. p \in Nat /\ s \in 0..w - 1 /\ x * b[i] = w * p + s  BY <1>1, <1>2, Shares
<1>4. q \in Nat /\ t \in 0..w - 1 /\ x * b[j] = w * q + t  BY <1>1, <1>2, Shares
<1> HIDE DEF r
<1>5. x * b[i] >= x * b[j] /\ x * b[i] \in Int /\ x * b[j] \in Int  BY ONLY <1>2, x \in Nat, b[i] > b[j]
<1>6. p >= q
  <2>1. w * p + s >= w * q + t  BY <1>3, <1>4, <1>5
  <2> QED  BY ONLY <1>2, <1>3, <1>4, <2>1, Quotients
<1>7. \A l \in DOMAIN b : Allocate(b, x)[l] = ShareFloor(b, x)[l] + (IF Rank(b, r, l) < Left(b, x) THEN 1 ELSE 0)
  BY AllocateIs DEF r
<1>8. CASE p > q
  <2>1. Allocate(b, x)[i] >= p /\ Allocate(b, x)[j] <= q + 1  BY <1>1, <1>3, <1>4, <1>7
  <2>2. Allocate(b, x)[i] \in Nat /\ Allocate(b, x)[j] \in Nat  BY AllocateIs
  <2> QED  BY ONLY <1>3, <1>4, <1>8, <2>1, <2>2
<1>9. CASE p = q
  <2>1. CASE Rank(b, r, j) < Left(b, x)
    <3>1. \A l \in DOMAIN b : b[l] \in Int /\ r[l] \in Int
      <4> SUFFICES ASSUME NEW l \in DOMAIN b PROVE b[l] \in Int /\ r[l] \in Int  OBVIOUS
      <4>1. ShareRest(b, x)[l] \in 0..w - 1  BY <1>1, Shares
      <4> QED  BY <1>2, <4>1 DEF Book, r
    <3>2. s >= t
      <4>1. w * p \in Int /\ w * q \in Int /\ w * p = w * q  BY <1>2, <1>3, <1>4, <1>9
      <4> QED  BY ONLY <1>3, <1>4, <1>5, <4>1
    <3>3. Before(b, r, i, j)
      <4>1. s > t \/ s = t  BY ONLY <1>2, <1>3, <1>4, <3>2
      <4>2. r[i] > r[j] \/ (r[i] = r[j] /\ b[i] > b[j])  BY <1>1, <4>1
      <4> QED  BY ONLY <4>2 DEF Before
    <3>4. Rank(b, r, i) < Rank(b, r, j)
      <4>1. IsFiniteSet(DOMAIN b) /\ DOMAIN b \subseteq Nat  BY DEF Book
      <4> QED  BY <3>1, <3>3, <4>1, RankFollowsOrder
    <3>5. Rank(b, r, i) \in Nat /\ Rank(b, r, j) \in Nat
      <4>1. IsFiniteSet(DOMAIN b)  BY DEF Book
      <4>2. \A l : IsFiniteSet({m \in DOMAIN b : Before(b, r, m, l)})  BY <4>1, FS_Subset
      <4> QED  BY <4>2, FS_CardinalityType DEF Rank
    <3>6. Left(b, x) \in Nat  BY LeftOver
    <3>7. Rank(b, r, i) < Left(b, x)  BY ONLY <2>1, <3>4, <3>5, <3>6
    <3>8. Allocate(b, x)[i] = p + 1 /\ Allocate(b, x)[j] = q + 1  BY <1>1, <1>7, <2>1, <3>7
    <3> QED  BY <1>3, <1>4, <1>9, <3>8
  <2>2. CASE ~(Rank(b, r, j) < Left(b, x))
    <3>1. Allocate(b, x)[j] = q /\ Allocate(b, x)[i] >= p  BY <1>1, <1>3, <1>4, <1>7, <2>2
    <3> QED  BY <1>9, <3>1
  <2> QED  BY <2>1, <2>2
<1> QED  BY <1>3, <1>4, <1>6, <1>8, <1>9

(* A book is a function with finitely many intents. *)
ShapeInv == IsFiniteSet(voStaged) /\ voBook = [i \in DOMAIN voBook |-> voBook[i]]

BookInv == VoTypeOK /\ ShapeInv

LEMMA BookFacts ==
    ASSUME BookInv
    PROVE  /\ IsFiniteSet(DOMAIN voBook) /\ DOMAIN voBook \subseteq Intents
           /\ \A i \in DOMAIN voBook : voBook[i] \in Nat \ {0} /\ voBook[i] <= Wants[i] /\ Wants[i] \in Nat \ {0}
           /\ Wanted(voBook) \in Nat
           /\ voBook # EmptyBook => Book(voBook)
<1>1. DOMAIN voBook \subseteq voStaged /\ voStaged \subseteq Intents  BY DEF BookInv, VoTypeOK
<1>2. IsFiniteSet(DOMAIN voBook)  BY <1>1, FS_Subset DEF BookInv, ShapeInv
<1>3. ASSUME NEW i \in DOMAIN voBook
      PROVE  voBook[i] \in Nat \ {0} /\ voBook[i] <= Wants[i] /\ Wants[i] \in Nat \ {0}
  <2>1. voBook[i] \in 1..Wants[i]  BY DEF BookInv, VoTypeOK
  <2>2. Wants[i] \in Nat \ {0}  BY <1>1, VirtualOrdersAssumption DEF VirtualOrdersAssumption
  <2> QED  BY <2>1, <2>2
<1>4. Wanted(voBook) \in Nat
  <2>1. \A i \in DOMAIN voBook : voBook[i] \in Int /\ voBook[i] \in Nat  BY <1>3
  <2> QED  BY <1>2, <2>1, SumType, WantedIs
<1>5. ASSUME voBook # EmptyBook  PROVE Book(voBook)
  <2>1. DOMAIN voBook # {}  BY <1>5 DEF BookInv, ShapeInv, EmptyBook
  <2>2. DOMAIN voBook \subseteq Nat  BY <1>1, VirtualOrdersAssumption DEF VirtualOrdersAssumption
  <2> QED  BY <1>2, <1>3, <2>1, <2>2 DEF Book
<1> QED  BY <1>1, <1>2, <1>3, <1>4, <1>5

(* What finalize_book does to the book, its records and its retries.         *)
LEMMA FinalizeIs ==
    ASSUME BookInv, voBook # EmptyBook, NEW x \in Nat, Finalize(x)
    PROVE  LET shares == Allocate(voBook, x)  rest == Remaining(voBook, shares) IN
           /\ DOMAIN shares = DOMAIN voBook /\ \A i \in DOMAIN voBook : shares[i] \in Nat
           /\ DOMAIN rest = {i \in DOMAIN voBook : shares[i] < voBook[i]}
           /\ \A i \in DOMAIN rest : rest[i] = voBook[i] - shares[i] /\ rest[i] \in 1..Wants[i]
           /\ rest = [i \in DOMAIN rest |-> rest[i]]
           /\ Record(shares)
           /\ \/ voBook' = rest /\ voRetry' = voRetry + 1 /\ UNCHANGED voGivenUp
              \/ voBook' = EmptyBook /\ voRetry' = 0 /\ voGivenUp' = voGivenUp \cup DOMAIN rest
<1>1. PICK shares : shares = Allocate(voBook, x)  OBVIOUS
<1>2. PICK rest : rest = Remaining(voBook, shares)  OBVIOUS
<1>3. Book(voBook)  BY BookFacts
<1>4. DOMAIN shares = DOMAIN voBook /\ \A i \in DOMAIN voBook : shares[i] \in Nat  BY <1>1, <1>3, AllocateIs
<1>5. /\ DOMAIN rest = {i \in DOMAIN voBook : shares[i] < voBook[i]}
      /\ \A i \in DOMAIN rest : rest[i] = voBook[i] - shares[i]
      /\ rest = [i \in DOMAIN rest |-> rest[i]]
  BY <1>2 DEF Remaining
<1>6. ASSUME NEW i \in DOMAIN rest  PROVE rest[i] \in 1..Wants[i]
  <2>1. i \in DOMAIN voBook /\ shares[i] < voBook[i] /\ rest[i] = voBook[i] - shares[i] /\ shares[i] \in Nat
    BY <1>4, <1>5
  <2>2. voBook[i] \in Nat \ {0} /\ voBook[i] <= Wants[i] /\ Wants[i] \in Nat \ {0}  BY <2>1, BookFacts
  <2> QED  BY ONLY <2>1, <2>2
<1>7. /\ Record(shares)
      /\ \/ voBook' = rest /\ voRetry' = voRetry + 1 /\ UNCHANGED voGivenUp
         \/ voBook' = EmptyBook /\ voRetry' = 0 /\ voGivenUp' = voGivenUp \cup DOMAIN rest
  BY <1>1, <1>2 DEF Finalize
<1> QED  BY <1>1, <1>2, <1>4, <1>5, <1>6, <1>7

(* The records of some shares. *)
LEMMA RecordIs ==
    ASSUME BookInv, NEW shares, DOMAIN shares \subseteq Intents, \A i \in DOMAIN shares : shares[i] \in Nat, Record(shares)
    PROVE  /\ voFilled' \in [Intents -> Nat] /\ voTraded' \in [Intents -> Nat] /\ voShort' \in BOOLEAN
           /\ \A i \in Intents : voFilled'[i] = voFilled[i] + (IF i \in DOMAIN shares THEN shares[i] ELSE 0)
           /\ PositionsFollow => PositionsFollow'
<1>1. PICK recorded \in {{i \in DOMAIN shares : i < k} : k \in DOMAIN shares} \cup {DOMAIN shares} :
          /\ voTraded' = [i \in Intents |-> voTraded[i] + IF i \in recorded THEN shares[i] ELSE 0]
          /\ voShort' = (voShort \/ recorded # DOMAIN shares)
  BY DEF Record
<1>2. recorded \subseteq DOMAIN shares  BY <1>1
<1>3. voFilled' = [i \in Intents |-> voFilled[i] + IF i \in DOMAIN shares THEN shares[i] ELSE 0]  BY DEF Record
<1>4. ASSUME NEW i \in Intents
      PROVE  /\ voFilled[i] \in Nat /\ voTraded[i] \in Nat /\ voFilled'[i] \in Nat /\ voTraded'[i] \in Nat
             /\ voFilled'[i] = voFilled[i] + (IF i \in DOMAIN shares THEN shares[i] ELSE 0)
             /\ voTraded'[i] = voTraded[i] + (IF i \in recorded THEN shares[i] ELSE 0)
             /\ i \in DOMAIN shares => shares[i] \in Nat
  <2>1. voFilled[i] \in Nat /\ voTraded[i] \in Nat  BY DEF BookInv, VoTypeOK
  <2>2. voFilled'[i] = voFilled[i] + (IF i \in DOMAIN shares THEN shares[i] ELSE 0)  BY <1>3
  <2>3. voTraded'[i] = voTraded[i] + (IF i \in recorded THEN shares[i] ELSE 0)  BY <1>1
  <2>4. i \in DOMAIN shares => shares[i] \in Nat  OBVIOUS
  <2> QED  BY ONLY <1>2, <2>1, <2>2, <2>3, <2>4
<1>5. voFilled' \in [Intents -> Nat] /\ voTraded' \in [Intents -> Nat]  BY <1>1, <1>3, <1>4
<1>6. ASSUME PositionsFollow  PROVE PositionsFollow'
  <2> SUFFICES ASSUME NEW i \in Intents
               PROVE  voTraded'[i] <= voFilled'[i] /\ (~voShort' => voTraded'[i] = voFilled'[i])
    BY DEF PositionsFollow
  <2>1. voTraded[i] <= voFilled[i] /\ (~voShort => voTraded[i] = voFilled[i])  BY <1>6 DEF PositionsFollow
  <2>2. ~voShort' => ~voShort /\ recorded = DOMAIN shares  BY <1>1
  <2>3. voTraded'[i] <= voFilled'[i]  BY ONLY <1>2, <1>4, <2>1
  <2>4. ASSUME ~voShort'  PROVE voTraded'[i] = voFilled'[i]
    BY ONLY <1>4, <2>1, <2>2, <2>4
  <2> QED  BY <2>3, <2>4
<1>7. voShort' \in BOOLEAN
  BY <1>1
<1> QED  BY <1>4, <1>5, <1>6, <1>7

(* Types *)

LEMMA BookInit == VoInit => BookInv
<1> SUFFICES ASSUME VoInit PROVE BookInv  OBVIOUS
<1>1. DOMAIN voBook = {} /\ voBook = [i \in DOMAIN voBook |-> voBook[i]]  BY DEF VoInit, EmptyBook
<1>2. IsFiniteSet(voStaged)  BY FS_EmptySet DEF VoInit
<1>3. voFlush \in [Flushes -> [on : BOOLEAN, size : Nat]]  BY DEF VoInit, Asleep
<1>4. MaxOrders \in Nat  BY VirtualOrdersAssumption DEF VirtualOrdersAssumption
<1>5. VoTypeOK
  <2>1. voFilled \in [Intents -> Nat] /\ voTraded \in [Intents -> Nat]  BY DEF VoInit
  <2>2. DOMAIN voBook \subseteq voStaged /\ \A i \in DOMAIN voBook : voBook[i] \in 1..Wants[i]  BY <1>1
  <2>4. voMode \in {"paper", "live"} /\ voStaged \subseteq Intents /\ voGivenUp \subseteq voStaged  BY DEF VoInit
  <2>5. voRetry \in Nat /\ voBought \in Nat /\ voUnshared \in Nat /\ voExpired \subseteq voStaged  BY DEF VoInit
  <2>6. voAstray \in BOOLEAN /\ voShort \in BOOLEAN  BY DEF VoInit
  <2>7. voOrders \in 0..MaxOrders
    <3>1. voOrders = 0  BY DEF VoInit
    <3> QED  BY ONLY <1>4, <3>1
  <2>3. /\ voMode \in {"paper", "live"} /\ voRetry \in Nat /\ voStaged \subseteq Intents /\ voBought \in Nat
        /\ voOrders \in 0..MaxOrders /\ voAstray \in BOOLEAN /\ voShort \in BOOLEAN /\ voGivenUp \subseteq voStaged
        /\ voUnshared \in Nat /\ voExpired \subseteq voStaged
    BY ONLY <2>4, <2>5, <2>6, <2>7
  <2> QED  BY ONLY <1>3, <2>1, <2>2, <2>3 DEF VoTypeOK
<1> QED  BY <1>1, <1>2, <1>5 DEF BookInv, ShapeInv

LEMMA FinalizeTypes ==
    ASSUME BookInv, NEW x \in Nat, Finalize(x)
    PROVE  /\ voFilled' \in [Intents -> Nat] /\ voTraded' \in [Intents -> Nat] /\ voShort' \in BOOLEAN
           /\ DOMAIN voBook' \subseteq voStaged /\ \A i \in DOMAIN voBook' : voBook'[i] \in 1..Wants[i]
           /\ voBook' = [i \in DOMAIN voBook' |-> voBook'[i]]
           /\ voRetry' \in Nat /\ voGivenUp' \subseteq voStaged
<1>1. CASE voBook = EmptyBook
  <2>1. UNCHANGED <<voRecords, voBook, voRetry, voGivenUp>>  BY <1>1 DEF Finalize
  <2> QED  BY <2>1 DEF BookInv, VoTypeOK, ShapeInv, voRecords
<1>2. CASE voBook # EmptyBook
  <2>1. PICK shares, rest : shares = Allocate(voBook, x) /\ rest = Remaining(voBook, shares)  OBVIOUS
  <2>2. /\ DOMAIN shares = DOMAIN voBook /\ \A i \in DOMAIN voBook : shares[i] \in Nat
        /\ DOMAIN rest = {i \in DOMAIN voBook : shares[i] < voBook[i]}
        /\ \A i \in DOMAIN rest : rest[i] \in 1..Wants[i]
        /\ rest = [i \in DOMAIN rest |-> rest[i]]
        /\ Record(shares)
        /\ \/ voBook' = rest /\ voRetry' = voRetry + 1 /\ UNCHANGED voGivenUp
           \/ voBook' = EmptyBook /\ voRetry' = 0 /\ voGivenUp' = voGivenUp \cup DOMAIN rest
    BY <1>2, <2>1, FinalizeIs
  <2>3. DOMAIN voBook \subseteq voStaged /\ voGivenUp \subseteq voStaged /\ voRetry \in Nat  BY DEF BookInv, VoTypeOK
  <2>4. DOMAIN shares \subseteq Intents  BY <2>2, BookFacts
  <2>5. voFilled' \in [Intents -> Nat] /\ voTraded' \in [Intents -> Nat] /\ voShort' \in BOOLEAN
    BY <2>2, <2>4, RecordIs
  <2>6. CASE voBook' = rest /\ voRetry' = voRetry + 1 /\ UNCHANGED voGivenUp
    BY <2>2, <2>3, <2>5, <2>6
  <2>7. CASE voBook' = EmptyBook /\ voRetry' = 0 /\ voGivenUp' = voGivenUp \cup DOMAIN rest
    <3>1. DOMAIN EmptyBook = {} /\ EmptyBook = [i \in DOMAIN EmptyBook |-> EmptyBook[i]]  BY DEF EmptyBook
    <3>2. DOMAIN rest \subseteq voStaged  BY <2>2, <2>3
    <3> QED  BY <2>3, <2>5, <2>7, <3>1, <3>2
  <2> QED  BY <2>2, <2>6, <2>7
<1> QED  BY <1>1, <1>2

(* What is bought, and what of it nobody is given. *)
LEMMA BuyIs ==
    ASSUME NEW x \in Nat, voBought \in Nat, voUnshared \in Nat,
           Buy(x, IF voBook = EmptyBook THEN 0 ELSE x)
    PROVE  /\ voBought' \in Nat /\ voUnshared' \in Nat /\ voBought' = voBought + x
           /\ voBook = EmptyBook => voUnshared' = voUnshared + x
           /\ voBook # EmptyBook => voUnshared' = voUnshared
<1>1. CASE voBook = EmptyBook  BY <1>1 DEF Buy
<1>2. CASE voBook # EmptyBook  BY <1>2 DEF Buy
<1> QED  BY <1>1, <1>2

LEMMA BookStep == BookInv /\ [VoNext]_voVars => BookInv'
<1> SUFFICES ASSUME BookInv, [VoNext]_voVars PROVE BookInv'  OBVIOUS
<1>0. /\ voMode \in {"paper", "live"}
      /\ DOMAIN voBook \subseteq voStaged /\ \A i \in DOMAIN voBook : voBook[i] \in 1..Wants[i]
      /\ voRetry \in Nat
      /\ voFlush \in [Flushes -> [on : BOOLEAN, size : Nat]]
      /\ voFilled \in [Intents -> Nat] /\ voStaged \subseteq Intents
      /\ voBought \in Nat /\ voOrders \in 0..MaxOrders /\ voAstray \in BOOLEAN
      /\ voTraded \in [Intents -> Nat] /\ voShort \in BOOLEAN
      /\ voGivenUp \subseteq voStaged /\ voUnshared \in Nat /\ voExpired \subseteq voStaged
      /\ IsFiniteSet(voStaged) /\ voBook = [i \in DOMAIN voBook |-> voBook[i]]
      /\ Wanted(voBook) \in Nat /\ MaxOrders \in Nat
  BY BookFacts, VirtualOrdersAssumption DEF BookInv, VoTypeOK, ShapeInv, VirtualOrdersAssumption
<1>1. ASSUME NEW i \in Intents, Submit(i)  PROVE BookInv'
  <2>1. IsFiniteSet(voStaged') /\ voStaged' = voStaged \cup {i}  BY <1>0, <1>1, FS_AddElement DEF Submit
  <2>2. voBook' = [j \in DOMAIN voBook \cup {i} |-> IF j = i THEN Wants[i] ELSE voBook[j]]  BY <1>1 DEF Submit
  <2>3. Wants[i] \in 1..Wants[i]
    <3>1. Wants[i] \in Nat \ {0}  BY VirtualOrdersAssumption DEF VirtualOrdersAssumption
    <3> QED  BY <3>1
  <2>4. \A j \in DOMAIN voBook' : voBook'[j] \in 1..Wants[j]  BY <1>0, <2>2, <2>3
  <2>5. DOMAIN voBook' \subseteq voStaged' /\ voBook' = [j \in DOMAIN voBook' |-> voBook'[j]]  BY <1>0, <2>1, <2>2
  <2>6. UNCHANGED <<voFilled, voTraded, voShort, voMode, voRetry, voFlush, voBought, voOrders, voUnshared, voAstray,
                  voGivenUp, voExpired>>
    BY <1>1 DEF Submit, voRecords
  <2>7. VoTypeOK'  BY <1>0, <2>1, <2>4, <2>5, <2>6 DEF VoTypeOK
  <2> QED  BY <2>1, <2>5, <2>7 DEF BookInv, ShapeInv
<1>2. ASSUME NEW f \in Flushes, SendOrder(f)  PROVE BookInv'
  <2>1. /\ voFlush' = [voFlush EXCEPT ![f] = [on |-> TRUE, size |-> Wanted(voBook)]]
        /\ voOrders' = voOrders + 1 /\ voOrders < MaxOrders
        /\ voAstray' = (voAstray \/ \E g \in Flushes \ {f} : voFlush[g].on)
        /\ UNCHANGED <<voFilled, voTraded, voShort, voMode, voBook, voRetry, voStaged, voBought, voUnshared, voGivenUp, voExpired>>
    BY <1>2 DEF SendOrder, voRecords
  <2>2. voFlush' \in [Flushes -> [on : BOOLEAN, size : Nat]]
    <3>1. [on |-> TRUE, size |-> Wanted(voBook)] \in [on : BOOLEAN, size : Nat]  BY <1>0
    <3> QED  BY <1>0, <2>1, <3>1
  <2>3. voOrders' \in 0..MaxOrders  BY <1>0, <2>1
  <2>4. voAstray' \in BOOLEAN  BY <2>1
  <2>5. VoTypeOK'  BY <1>0, <2>1, <2>2, <2>3, <2>4 DEF VoTypeOK
  <2> QED  BY <1>0, <2>1, <2>5 DEF BookInv, ShapeInv
<1>3. ASSUME UNCHANGED <<voMode, voStaged>>, voAstray' \in BOOLEAN,
             voFlush' \in [Flushes -> [on : BOOLEAN, size : Nat]],
             voBought' \in Nat, voUnshared' \in Nat, voOrders' \in 0..MaxOrders,
             \/ (\E x \in Nat : Finalize(x)) /\ UNCHANGED voExpired
             \/ LoseBook /\ UNCHANGED <<voRecords, voGivenUp>>
             \/ UNCHANGED <<voRecords, voBook, voGivenUp, voExpired>> /\ voRetry' \in Nat
      PROVE  BookInv'
  <2>1. /\ voFilled' \in [Intents -> Nat] /\ voTraded' \in [Intents -> Nat] /\ voShort' \in BOOLEAN
        /\ DOMAIN voBook' \subseteq voStaged /\ \A i \in DOMAIN voBook' : voBook'[i] \in 1..Wants[i]
        /\ voBook' = [i \in DOMAIN voBook' |-> voBook'[i]]
        /\ voRetry' \in Nat /\ voGivenUp' \subseteq voStaged /\ voExpired' \subseteq voStaged
    <3>1. CASE (\E x \in Nat : Finalize(x)) /\ UNCHANGED voExpired  BY <1>0, <3>1, FinalizeTypes
    <3>2. CASE UNCHANGED <<voRecords, voBook, voGivenUp, voExpired>> /\ voRetry' \in Nat  BY <1>0, <3>2 DEF voRecords
    <3>3. CASE LoseBook /\ UNCHANGED <<voRecords, voGivenUp>>
      <4>1. DOMAIN EmptyBook = {} /\ EmptyBook = [i \in DOMAIN EmptyBook |-> EmptyBook[i]]  BY DEF EmptyBook
      <4>2. /\ voBook' = EmptyBook /\ voRetry' = 0 /\ voExpired' = voExpired \cup DOMAIN voBook
            /\ UNCHANGED <<voFilled, voTraded, voShort, voGivenUp>>
        BY <3>3 DEF LoseBook, voRecords
      <4> QED  BY <1>0, <4>1, <4>2
    <3> QED  BY <1>3, <3>1, <3>2, <3>3
  <2>2. VoTypeOK'  BY <1>0, <1>3, <2>1 DEF VoTypeOK
  <2> QED  BY <1>0, <1>3, <2>1, <2>2 DEF BookInv, ShapeInv
<1>4. ASSUME NEW f \in Flushes, OrderAnswered(f)  PROVE BookInv'
  <2>1. voFlush' = [voFlush EXCEPT ![f] = Asleep] /\ UNCHANGED <<voMode, voStaged, voOrders, voAstray, voExpired>>
    BY <1>4 DEF OrderAnswered
  <2>2. voFlush' \in [Flushes -> [on : BOOLEAN, size : Nat]]  BY <1>0, <2>1 DEF Asleep
  <2>3. CASE \E x \in 0..voFlush[f].size : Buy(x, IF voBook = EmptyBook THEN 0 ELSE x) /\ Finalize(x)
    <3>1. PICK x \in 0..voFlush[f].size : Buy(x, IF voBook = EmptyBook THEN 0 ELSE x) /\ Finalize(x)  BY <2>3
    <3>2. voFlush[f].size \in Nat  BY <1>0
    <3>3. x \in Nat  BY <3>1, <3>2
    <3>4. voBought' \in Nat /\ voUnshared' \in Nat  BY <1>0, <3>1, <3>3, BuyIs
    <3> QED  BY <1>0, <1>3, <2>1, <2>2, <3>1, <3>3, <3>4
  <2>4. CASE UNCHANGED <<voRecords, voBought, voUnshared, voBook, voRetry, voGivenUp>>
    <3>1. voBought' \in Nat /\ voUnshared' \in Nat /\ voRetry' \in Nat /\ UNCHANGED <<voRecords, voBook, voGivenUp>>  BY <1>0, <2>4
    <3> QED  BY <1>0, <1>3, <2>1, <2>2, <3>1
  <2> QED  BY <1>4, <2>3, <2>4 DEF OrderAnswered
<1>5. ASSUME FlushBook  PROVE BookInv'
  <2>1. /\ voOrders' = voOrders + 1 /\ voOrders < MaxOrders /\ UNCHANGED <<voMode, voFlush, voStaged, voAstray>>
    BY <1>5 DEF FlushBook
  <2>2. /\ voOrders' \in 0..MaxOrders /\ voFlush' \in [Flushes -> [on : BOOLEAN, size : Nat]]
        /\ voAstray' \in BOOLEAN
    BY <1>0, <2>1
  <2>3. PICK lost \in 0..MaxLost :
          \/ \E x \in 0..Wanted(voBook) :
                \/ Buy(x + lost, x) /\ Finalize(x) /\ UNCHANGED voExpired
                \/ Buy(x + lost, 0) /\ LoseBook /\ UNCHANGED <<voRecords, voGivenUp>>
          \/ Buy(lost, 0) /\ voRetry' = voRetry + 1 /\ UNCHANGED <<voRecords, voBook, voGivenUp, voExpired>>
    BY <1>5 DEF FlushBook
  <2>4. lost \in Nat  BY VirtualOrdersAssumption DEF VirtualOrdersAssumption
  <2>5. ASSUME NEW x \in 0..Wanted(voBook), Buy(x + lost, x), Finalize(x), UNCHANGED voExpired  PROVE BookInv'
    <3>1. x \in Nat  BY <1>0
    <3>2. voBought' \in Nat /\ voUnshared' \in Nat  BY ONLY <1>0, <2>4, <2>5, <3>1 DEF Buy
    <3> QED  BY <1>3, <2>1, <2>2, <2>5, <3>1, <3>2
  <2>6. ASSUME NEW x \in 0..Wanted(voBook), Buy(x + lost, 0), LoseBook, UNCHANGED <<voRecords, voGivenUp>>  PROVE BookInv'
    <3>1. x \in Nat  BY <1>0
    <3>2. voBought' \in Nat /\ voUnshared' \in Nat  BY ONLY <1>0, <2>4, <2>6, <3>1 DEF Buy
    <3> QED  BY <1>3, <2>1, <2>2, <2>6, <3>2
  <2>7. ASSUME Buy(lost, 0), voRetry' = voRetry + 1, UNCHANGED <<voRecords, voBook, voGivenUp, voExpired>>  PROVE BookInv'
    <3>1. voBought' \in Nat /\ voUnshared' \in Nat /\ voRetry' \in Nat  BY ONLY <1>0, <2>4, <2>7 DEF Buy
    <3> QED  BY <1>3, <2>1, <2>2, <2>7, <3>1
  <2> QED  BY <2>3, <2>5, <2>6, <2>7
<1>6. ASSUME UNCHANGED voVars  PROVE BookInv'
  BY <1>6 DEF BookInv, VoTypeOK, ShapeInv, voVars
<1>7. ASSUME ExpireBook  PROVE BookInv'
  <2>1. /\ LoseBook /\ voAstray' = (voAstray \/ \E f \in Flushes : voFlush[f].on)
        /\ UNCHANGED <<voRecords, voMode, voFlush, voStaged, voBought, voOrders, voUnshared, voGivenUp>>
    BY <1>7 DEF ExpireBook
  <2>2. voAstray' \in BOOLEAN  BY <2>1
  <2> QED  BY <1>0, <1>3, <2>1, <2>2
<1> QED  BY <1>1, <1>2, <1>4, <1>5, <1>6, <1>7 DEF VoNext

(* One flush at a time, for no more than the book wants; and nothing for     *)
(* those who have not asked.                                                 *)
OneFlush ==
    /\ voMode = "live" => \A f \in Flushes : ~voFlush[f].on
    /\ ~voAstray =>
          /\ \A f, g \in Flushes : voFlush[f].on /\ voFlush[g].on => f = g
          /\ \A f \in Flushes : voFlush[f].on => voBook # EmptyBook /\ voFlush[f].size <= Wanted(voBook)
NoneUnasked == \A i \in Intents \ voStaged : voFilled[i] = 0

Balance == BoughtIsAllocated /\ NobodyGetsMore /\ IntentsAccounted /\ NoneUnasked
BalanceInv == BookInv /\ OneFlush /\ Balance /\ PositionsFollow

(* The allocation of an order within what the book wants keeps the balance.  *)
LEMMA FinalizeBalances ==
    ASSUME BookInv, Balance, IsFiniteSet(Intents), voBook # EmptyBook, NEW x \in Nat,
           ~voAstray => x \in 0..Wanted(voBook), Finalize(x),
           NEW lost \in Nat, voBought' = voBought + x + lost, voUnshared' = voUnshared + lost,
           lost > 0 => voMode = "live",
           UNCHANGED <<voMode, voAstray, voStaged, voExpired>>
    PROVE  Balance'
<1>1. PICK shares, rest : shares = Allocate(voBook, x) /\ rest = Remaining(voBook, shares)  OBVIOUS
<1>2. x \in Nat /\ Book(voBook)  BY BookFacts
<1>3. /\ DOMAIN shares = DOMAIN voBook /\ \A i \in DOMAIN voBook : shares[i] \in Nat
      /\ DOMAIN rest = {i \in DOMAIN voBook : shares[i] < voBook[i]}
      /\ \A i \in DOMAIN rest : rest[i] = voBook[i] - shares[i]
      /\ Record(shares)
      /\ \/ voBook' = rest /\ voRetry' = voRetry + 1 /\ UNCHANGED voGivenUp
         \/ voBook' = EmptyBook /\ voRetry' = 0 /\ voGivenUp' = voGivenUp \cup DOMAIN rest
  BY <1>1, <1>2, FinalizeIs
<1>4. DOMAIN shares \subseteq Intents /\ DOMAIN voBook \subseteq voStaged /\ voStaged \subseteq Intents
  BY <1>3 DEF BookInv, VoTypeOK
<1>5. /\ voFilled' \in [Intents -> Nat]
      /\ \A i \in Intents : voFilled'[i] = voFilled[i] + (IF i \in DOMAIN shares THEN shares[i] ELSE 0)
  BY <1>3, <1>4, RecordIs
<1>6. voFilled \in [Intents -> Nat]  BY DEF BookInv, VoTypeOK
<1>7. ~voAstray => \A i \in DOMAIN voBook : shares[i] <= voBook[i]  BY <1>1, <1>2, SharesFit
<1>8. BoughtIsAllocated'
  <2> DEFINE e == [i \in Intents |-> IF i \in DOMAIN shares THEN shares[i] ELSE 0]
  <2>1. Wanted(shares) = x  BY <1>1, <1>2, AllIsAllocated
  <2>2. Wanted(shares) = Wanted(e)
    <3>1. DOMAIN e = Intents /\ \A i \in Intents : e[i] \in Int /\ (IF i \in DOMAIN shares THEN shares[i] = e[i] ELSE e[i] = 0)
      BY <1>3
    <3> HIDE DEF e
    <3> QED  BY <1>4, <3>1, SumOfSome, WantedIs
  <2>3. Wanted(voFilled') = Wanted(voFilled) + Wanted(e)
    <3>1. PICK g, h : g = voFilled /\ h = voFilled'  OBVIOUS
    <3>2. DOMAIN e = Intents /\ DOMAIN g = Intents /\ DOMAIN h = Intents  BY <1>5, <1>6, <3>1
    <3>3. \A i \in Intents : g[i] \in Int /\ e[i] \in Int /\ h[i] = g[i] + e[i]
      <4> SUFFICES ASSUME NEW i \in Intents PROVE g[i] \in Int /\ e[i] \in Int /\ h[i] = g[i] + e[i]  OBVIOUS
      <4>1. e[i] = IF i \in DOMAIN shares THEN shares[i] ELSE 0  OBVIOUS
      <4>2. e[i] \in Int  BY <1>3, <4>1
      <4> HIDE DEF e
      <4> QED  BY <1>5, <1>6, <3>1, <4>1, <4>2
    <3> HIDE DEF e
    <3>4. Wanted(h) = Wanted(g) + Wanted(e)  BY <3>2, <3>3, SumOfSums, WantedIs
    <3> QED  BY <3>1, <3>4
  <2> HIDE DEF e
  <2>4. /\ voBought = Wanted(voFilled) + voUnshared
        /\ voUnshared > 0 => voMode = "live" \/ voAstray
        /\ voUnshared \in Nat
    BY DEF Balance, BoughtIsAllocated, BookInv, VoTypeOK
  <2>5. Wanted(voFilled) \in Int
    <3>1. PICK g : g = voFilled  OBVIOUS
    <3>2. DOMAIN g = Intents /\ \A i \in Intents : g[i] \in Int  BY <1>6, <3>1
    <3> QED  BY <3>1, <3>2, SumType, WantedIs
  <2>6. voBought' = Wanted(voFilled') + voUnshared'
    <3>1. PICK a, c, u : a = Wanted(voFilled) /\ c = Wanted(voFilled') /\ u = voUnshared'  OBVIOUS
    <3>2. a \in Int /\ c = a + x /\ u = voUnshared + lost /\ voBought' = a + voUnshared + x + lost
      BY <2>1, <2>2, <2>3, <2>4, <2>5, <3>1
    <3>3. voBought' = c + u  BY ONLY <1>2, <2>4, <3>2, lost \in Nat
    <3> QED  BY <3>1, <3>3
  <2>7. voUnshared' > 0 => voMode = "live" \/ voAstray  BY <2>4
  <2> QED  BY <2>6, <2>7 DEF BoughtIsAllocated
<1>9. ASSUME NEW i \in voStaged
      PROVE  /\ ~voAstray => voFilled'[i] <= Wants[i]
             /\ i \in DOMAIN voBook' => voBook'[i] = Wants[i] - voFilled'[i]
             /\ i \notin DOMAIN voBook' => voFilled'[i] >= Wants[i] \/ i \in voGivenUp' \cup voExpired'
  <2>0. i \in Intents  BY <1>4
  <2>1. /\ ~voAstray => voFilled[i] <= Wants[i]
        /\ i \in DOMAIN voBook => voBook[i] = Wants[i] - voFilled[i]
        /\ i \notin DOMAIN voBook => voFilled[i] >= Wants[i] \/ i \in voGivenUp \cup voExpired
    BY DEF Balance, NobodyGetsMore, IntentsAccounted
  <2>2. Wants[i] \in Nat /\ voFilled[i] \in Nat
    BY <1>6, <2>0, VirtualOrdersAssumption DEF VirtualOrdersAssumption
  <2>3. voFilled'[i] = voFilled[i] + (IF i \in DOMAIN shares THEN shares[i] ELSE 0)  BY <1>5, <2>0
  <2>4. DOMAIN EmptyBook = {}  BY DEF EmptyBook
  <2>5. CASE i \in DOMAIN voBook
    <3>1. shares[i] \in Nat /\ (~voAstray => shares[i] <= voBook[i]) /\ voBook[i] = Wants[i] - voFilled[i]
      BY <1>3, <1>7, <2>1, <2>5
    <3>2. voFilled'[i] = voFilled[i] + shares[i]  BY <1>3, <2>3, <2>5
    <3>3. i \in DOMAIN rest => rest[i] = voBook[i] - shares[i]  BY <1>3
    <3>4. i \notin DOMAIN rest => ~(shares[i] < voBook[i])  BY <1>3, <2>5
    <3>5. ~voAstray => voFilled'[i] <= Wants[i]  BY ONLY <2>2, <3>1, <3>2
    <3>6. i \in DOMAIN rest => rest[i] = Wants[i] - voFilled'[i]  BY ONLY <2>2, <3>1, <3>2, <3>3
    <3>7. i \notin DOMAIN rest => voFilled'[i] >= Wants[i]  BY ONLY <2>2, <3>1, <3>2, <3>4
    <3>8. CASE voBook' = rest  BY <3>5, <3>6, <3>7, <3>8
    <3>9. CASE voBook' = EmptyBook /\ voGivenUp' = voGivenUp \cup DOMAIN rest
      <4>1. i \notin DOMAIN voBook'  BY <2>4, <3>9
      <4>2. voFilled'[i] >= Wants[i] \/ i \in voGivenUp' \cup voExpired'  BY <3>7, <3>9
      <4> QED  BY <3>5, <4>1, <4>2
    <3> QED  BY <1>3, <3>8, <3>9
  <2>6. CASE i \notin DOMAIN voBook
    <3>1. voFilled'[i] = voFilled[i]  BY <1>3, <2>2, <2>3, <2>6
    <3>2. i \notin DOMAIN voBook'  BY <1>3, <2>4, <2>6
    <3>3. i \in voGivenUp \cup voExpired => i \in voGivenUp' \cup voExpired'  BY <1>3
    <3> QED  BY <2>1, <2>6, <3>1, <3>2, <3>3
  <2> QED  BY <2>5, <2>6
<1>10. NobodyGetsMore'  BY <1>9 DEF NobodyGetsMore
<1>11. IntentsAccounted'  BY <1>9 DEF IntentsAccounted
<1>12. NoneUnasked'
  <2> SUFFICES ASSUME NEW i \in Intents \ voStaged PROVE voFilled'[i] = 0  BY DEF NoneUnasked
  <2>1. voFilled[i] = 0 /\ i \notin DOMAIN shares  BY <1>3, <1>4 DEF Balance, NoneUnasked
  <2> QED  BY <1>5, <2>1
<1> QED  BY <1>8, <1>10, <1>11, <1>12 DEF Balance

LEMMA BalanceInit ==
    ASSUME IsFiniteSet(Intents), VoInit
    PROVE  BalanceInv
<1>1. BookInv  BY BookInit
<1>2. \A f \in Flushes : ~voFlush[f].on  BY DEF VoInit, Asleep
<1>3. OneFlush  BY <1>2 DEF OneFlush
<1>4. Wanted(voFilled) = 0
  <2> DEFINE z == [i \in Intents |-> 0 * 1]  o == [i \in Intents |-> 1]
  <2>1. DOMAIN z = Intents /\ DOMAIN o = Intents /\ \A i \in Intents : o[i] \in Int /\ z[i] = 0 * o[i]  OBVIOUS
  <2>2. voFilled = z  BY DEF VoInit
  <2>3. \A i \in DOMAIN o : o[i] \in Int  OBVIOUS
  <2> HIDE DEF z, o
  <2>4. Wanted(z) = 0 * Wanted(o)  BY <2>1, SumOfMultiples, WantedIs
  <2>5. Wanted(o) \in Int  BY <2>1, <2>3, SumType, WantedIs
  <2> QED  BY <2>2, <2>4, <2>5
<1>5. Balance
  <2>1. BoughtIsAllocated
    <3>1. voBought = 0 /\ voUnshared = 0  BY DEF VoInit
    <3> QED  BY <1>4, <3>1 DEF BoughtIsAllocated
  <2>2. NobodyGetsMore /\ IntentsAccounted /\ NoneUnasked  BY DEF VoInit, NobodyGetsMore, IntentsAccounted, NoneUnasked
  <2> QED  BY <2>1, <2>2 DEF Balance
<1>6. PositionsFollow  BY DEF VoInit, PositionsFollow
<1> QED  BY <1>1, <1>3, <1>5, <1>6 DEF BalanceInv

LEMMA BalanceStep ==
    ASSUME IsFiniteSet(Intents), BalanceInv, [VoNext]_voVars
    PROVE  BalanceInv'
<1>1. BookInv /\ BookInv' /\ OneFlush /\ Balance /\ PositionsFollow  BY BookStep DEF BalanceInv
<1>2. /\ voFlush \in [Flushes -> [on : BOOLEAN, size : Nat]] /\ voFilled \in [Intents -> Nat]
      /\ DOMAIN voBook \subseteq voStaged /\ voStaged \subseteq Intents /\ Wanted(voBook) \in Nat
  BY <1>1, BookFacts DEF BookInv, VoTypeOK
<1>3. \A shares : DOMAIN shares \subseteq Intents /\ (\A i \in DOMAIN shares : shares[i] \in Nat) /\ Record(shares)
                     => PositionsFollow'
  BY <1>1, RecordIs
<1>4. ASSUME NEW x \in Nat, Finalize(x)  PROVE PositionsFollow'
  <2>1. CASE voBook = EmptyBook
    <3>1. UNCHANGED <<voFilled, voTraded, voShort>>  BY <1>4, <2>1 DEF Finalize, voRecords
    <3> QED  BY <1>1, <3>1 DEF PositionsFollow
  <2>2. CASE voBook # EmptyBook
    <3>1. PICK shares : shares = Allocate(voBook, x)  OBVIOUS
    <3>2. DOMAIN shares = DOMAIN voBook /\ (\A i \in DOMAIN voBook : shares[i] \in Nat) /\ Record(shares)
      BY <1>1, <1>4, <2>2, <3>1, FinalizeIs
    <3>3. DOMAIN shares \subseteq Intents  BY <1>2, <3>2
    <3> QED  BY <1>3, <3>2, <3>3
  <2> QED  BY <2>1, <2>2
<1>5. ASSUME NEW i \in Intents, Submit(i)  PROVE BalanceInv'
  <2>1. voBook' = [j \in DOMAIN voBook \cup {i} |-> IF j = i THEN Wants[i] ELSE voBook[j]]  BY <1>5 DEF Submit
  <2>2. i \notin voStaged /\ voStaged' = voStaged \cup {i} /\ i \notin DOMAIN voBook  BY <1>2, <1>5 DEF Submit
  <2>3. UNCHANGED <<voFilled, voTraded, voShort, voMode, voRetry, voFlush, voBought, voOrders, voUnshared, voAstray,
                  voGivenUp, voExpired>>
    BY <1>5 DEF Submit, voRecords
  <2>4. Wanted(voBook) <= Wanted(voBook') /\ Wanted(voBook') \in Int /\ voBook' # EmptyBook
    <3>1. PICK b, c : b = voBook /\ c = voBook'  OBVIOUS
    <3>2. DOMAIN c = DOMAIN b \cup {i} /\ c = [j \in DOMAIN b \cup {i} |-> IF j = i THEN Wants[i] ELSE b[j]]
      BY <2>1, <3>1
    <3>3. IsFiniteSet(DOMAIN c)  BY <3>1, <3>2, <1>1, BookFacts, FS_AddElement
    <3> DEFINE e == [j \in DOMAIN c |-> IF j = i THEN 0 ELSE b[j]]
    <3>4. \A j \in DOMAIN b : b[j] \in Nat /\ j # i  BY <1>1, <2>2, <3>1, BookFacts
    <3>5. Wants[i] \in Nat  BY VirtualOrdersAssumption DEF VirtualOrdersAssumption
    <3>6. DOMAIN e = DOMAIN c /\ \A j \in DOMAIN c : e[j] \in Int /\ c[j] \in Int /\ e[j] <= c[j]
      <4> SUFFICES ASSUME NEW j \in DOMAIN c PROVE e[j] \in Int /\ c[j] \in Int /\ e[j] <= c[j]  OBVIOUS
      <4>1. CASE j = i
        <5>1. e[j] = 0 /\ c[j] = Wants[i]  BY <3>2, <4>1
        <5> QED  BY <3>5, <5>1
      <4>2. CASE j # i
        <5>1. e[j] = b[j] /\ c[j] = b[j] /\ j \in DOMAIN b  BY <3>2, <4>2
        <5> QED  BY <3>4, <5>1
      <4> QED  BY <4>1, <4>2
    <3>7. \A j \in DOMAIN e : e[j] \in Int /\ (IF j \in DOMAIN b THEN b[j] = e[j] ELSE e[j] = 0)
      <4> SUFFICES ASSUME NEW j \in DOMAIN e PROVE IF j \in DOMAIN b THEN b[j] = e[j] ELSE e[j] = 0  BY <3>6
      <4> QED  BY <3>2, <3>4
    <3> HIDE DEF e
    <3>8. Wanted(b) = Wanted(e)  BY <3>2, <3>3, <3>6, <3>7, SumOfSome, WantedIs
    <3>9. Wanted(e) <= Wanted(c)  BY <3>3, <3>6, SumsCompare, WantedIs
    <3>10. c # EmptyBook
      <4>1. DOMAIN EmptyBook = {} /\ i \in DOMAIN c  BY <3>2 DEF EmptyBook
      <4> QED  BY <4>1
    <3>11. Wanted(b) <= Wanted(c)  BY <3>8, <3>9
    <3>12. Wanted(c) \in Int  BY <3>3, <3>6, SumType, WantedIs
    <3> QED  BY <3>1, <3>10, <3>11, <3>12
  <2>5. OneFlush'
    <3>1. ASSUME ~voAstray, NEW f \in Flushes, voFlush[f].on  PROVE voFlush[f].size <= Wanted(voBook')
      <4>1. voFlush[f].size <= Wanted(voBook) /\ voFlush[f].size \in Nat  BY <1>1, <1>2, <3>1 DEF OneFlush
      <4> QED  BY <1>2, <2>4, <4>1
    <3> QED  BY <1>1, <2>3, <2>4, <3>1 DEF OneFlush
  <2>6. Balance'
    <3>1. BoughtIsAllocated'  BY <1>1, <2>3 DEF Balance, BoughtIsAllocated
    <3>2. NobodyGetsMore'
      <4> SUFFICES ASSUME NEW j \in voStaged \cup {i}
                   PROVE  (~voAstray => voFilled[j] <= Wants[j]) /\ (j \in DOMAIN voBook' => voBook'[j] = Wants[j] - voFilled[j])
        BY <2>2, <2>3 DEF NobodyGetsMore
      <4>1. CASE j = i
        <5>1. voFilled[i] = 0  BY <1>1, <2>2 DEF Balance, NoneUnasked
        <5>2. Wants[i] \in Nat  BY VirtualOrdersAssumption DEF VirtualOrdersAssumption
        <5>3. voBook'[i] = Wants[i]  BY <2>1
        <5> QED  BY <4>1, <5>1, <5>2, <5>3
      <4>2. CASE j # i
        <5>1. j \in voStaged /\ (j \in DOMAIN voBook' => j \in DOMAIN voBook /\ voBook'[j] = voBook[j])
          BY <2>1, <4>2
        <5> QED  BY <1>1, <5>1 DEF Balance, NobodyGetsMore
      <4> QED  BY <4>1, <4>2
    <3>3. IntentsAccounted'
      <4>1. \A j \in voStaged' : j \notin DOMAIN voBook' => j \in voStaged /\ j \notin DOMAIN voBook  BY <2>1, <2>2
      <4> QED  BY <1>1, <2>3, <4>1 DEF Balance, IntentsAccounted
    <3>4. NoneUnasked'  BY <1>1, <2>2, <2>3 DEF Balance, NoneUnasked
    <3> QED  BY <3>1, <3>2, <3>3, <3>4 DEF Balance
  <2>7. PositionsFollow'  BY <1>1, <2>3 DEF PositionsFollow
  <2> QED  BY <1>1, <2>5, <2>6, <2>7 DEF BalanceInv
<1>6. ASSUME UNCHANGED <<voMode, voFilled, voTraded, voShort, voBook, voStaged, voBought, voUnshared, voGivenUp, voExpired>>, OneFlush',
             voAstray => voAstray'
      PROVE  BalanceInv'
  <2>1. Balance'
    BY <1>1, <1>6 DEF Balance, BoughtIsAllocated, NobodyGetsMore, IntentsAccounted, NoneUnasked
  <2>2. PositionsFollow'  BY <1>1, <1>6 DEF PositionsFollow
  <2> QED  BY <1>1, <1>6, <2>1, <2>2 DEF BalanceInv
<1>7. voAstray \in BOOLEAN /\ voBought \in Nat /\ voUnshared \in Nat  BY <1>1 DEF BookInv, VoTypeOK
<1>12. Wanted(voFilled) \in Int
  <2>1. PICK g : g = voFilled  OBVIOUS
  <2>2. DOMAIN g = Intents /\ \A i \in Intents : g[i] \in Int  BY <1>2, <2>1
  <2> QED  BY <2>1, <2>2, SumType, WantedIs
<1>11. ASSUME LoseBook, NEW lost \in Nat, voBought' = voBought + lost, voUnshared' = voUnshared + lost,
              lost > 0 => voMode = "live", OneFlush', voAstray => voAstray',
              UNCHANGED <<voRecords, voMode, voStaged, voGivenUp>>
       PROVE  BalanceInv'
  <2>1. /\ UNCHANGED <<voFilled, voTraded, voShort>>
        /\ DOMAIN voBook' = {} /\ voExpired' = voExpired \cup DOMAIN voBook
    BY <1>11 DEF LoseBook, EmptyBook, voRecords
  <2>2. BoughtIsAllocated'
    <3>1. /\ voBought = Wanted(voFilled) + voUnshared
          /\ voUnshared > 0 => voMode = "live" \/ voAstray
      BY <1>1 DEF Balance, BoughtIsAllocated
    <3>2. voBought' = Wanted(voFilled) + voUnshared'  BY ONLY <1>7, <1>11, <1>12, <3>1
    <3>3. voUnshared' > 0 => voMode' = "live" \/ voAstray'  BY <1>7, <1>11, <3>1
    <3> QED  BY <2>1, <3>2, <3>3 DEF BoughtIsAllocated
  <2>3. NobodyGetsMore'  BY <1>1, <1>11, <2>1 DEF Balance, NobodyGetsMore
  <2>4. IntentsAccounted' /\ NoneUnasked'
    BY <1>1, <1>11, <2>1 DEF Balance, IntentsAccounted, NoneUnasked
  <2>5. PositionsFollow'  BY <1>1, <2>1 DEF PositionsFollow
  <2> QED  BY <1>1, <1>11, <2>2, <2>3, <2>4, <2>5 DEF BalanceInv, Balance
<1>8. ASSUME NEW f \in Flushes, SendOrder(f)  PROVE BalanceInv'
  <2>1. /\ voMode = "paper" /\ voMode' = voMode /\ voBook # EmptyBook
        /\ voFlush' = [voFlush EXCEPT ![f] = [on |-> TRUE, size |-> Wanted(voBook)]]
        /\ voAstray' = (voAstray \/ \E g \in Flushes \ {f} : voFlush[g].on)
        /\ UNCHANGED <<voMode, voFilled, voTraded, voShort, voBook, voStaged, voBought, voUnshared, voGivenUp, voExpired>>
    BY <1>8 DEF SendOrder, voRecords
  <2>2. OneFlush'
    <3>1. ASSUME ~voAstray'  PROVE \A g \in Flushes : voFlush'[g].on => g = f  BY <1>2, <2>1, <3>1
    <3>2. voFlush'[f].size = Wanted(voBook)  BY <1>2, <2>1
    <3>3. Wanted(voBook) <= Wanted(voBook)  BY <1>2
    <3> QED  BY <2>1, <3>1, <3>2, <3>3 DEF OneFlush
  <2>3. voAstray => voAstray'  BY <2>1
  <2> QED  BY <1>6, <2>1, <2>2, <2>3
<1>9. ASSUME NEW f \in Flushes, OrderAnswered(f)  PROVE BalanceInv'
  <2>1. voFlush[f].on /\ voFlush' = [voFlush EXCEPT ![f] = Asleep]
        /\ UNCHANGED <<voMode, voStaged, voOrders, voAstray, voExpired>>
    BY <1>9 DEF OrderAnswered
  <2>2. ~voAstray => \A g \in Flushes : ~voFlush'[g].on
    BY <1>1, <1>2, <2>1 DEF OneFlush, Asleep
  <2>3. OneFlush'
    <3>1. \A g \in Flushes : voFlush'[g].on => voFlush[g].on  BY <1>2, <2>1 DEF Asleep
    <3> QED  BY <1>1, <2>1, <2>2, <3>1 DEF OneFlush
  <2>4. CASE \E x \in 0..voFlush[f].size : Buy(x, IF voBook = EmptyBook THEN 0 ELSE x) /\ Finalize(x)
    <3>1. PICK x \in 0..voFlush[f].size : Buy(x, IF voBook = EmptyBook THEN 0 ELSE x) /\ Finalize(x)  BY <2>4
    <3>2. voFlush[f].size \in Nat /\ x \in Nat  BY <1>2
    <3>3. PositionsFollow'  BY <1>4, <3>1, <3>2
    <3>4. /\ voBought' = voBought + x
          /\ voBook = EmptyBook => voUnshared' = voUnshared + x
          /\ voBook # EmptyBook => voUnshared' = voUnshared
      BY <1>7, <3>1, <3>2, BuyIs
    <3>5. ~voAstray => voBook # EmptyBook /\ x \in 0..Wanted(voBook)
      BY <1>1, <1>2, <2>1, <3>2 DEF OneFlush
    <3>6. CASE voBook # EmptyBook
      <4>1. voBought' = voBought + x + 0 /\ voUnshared' = voUnshared + 0  BY <1>7, <3>2, <3>4, <3>6
      <4>2. 0 \in Nat /\ ~(0 > 0)  OBVIOUS
      <4>3. Balance'  BY ONLY <1>1, <2>1, <3>1, <3>2, <3>5, <3>6, <4>1, <4>2, IsFiniteSet(Intents), FinalizeBalances
      <4> QED  BY <1>1, <2>3, <3>3, <4>3 DEF BalanceInv
    <3>7. CASE voBook = EmptyBook
      <4>1. UNCHANGED <<voFilled, voTraded, voShort, voBook, voGivenUp>>  BY <3>1, <3>7 DEF Finalize, voRecords
      <4>2. voBought' = voBought + x /\ voUnshared' = voUnshared + x /\ voAstray'  BY <2>1, <3>4, <3>5, <3>7
      <4>3. BoughtIsAllocated'
        <5>1. voBought = Wanted(voFilled) + voUnshared  BY <1>1 DEF Balance, BoughtIsAllocated
        <5>2. voBought' = Wanted(voFilled) + voUnshared'  BY ONLY <1>7, <1>12, <3>2, <4>2, <5>1
        <5> QED  BY <4>1, <4>2, <5>2 DEF BoughtIsAllocated
      <4>4. NobodyGetsMore' /\ IntentsAccounted' /\ NoneUnasked'
        BY <1>1, <2>1, <4>1 DEF Balance, NobodyGetsMore, IntentsAccounted, NoneUnasked
      <4> QED  BY <1>1, <2>3, <3>3, <4>3, <4>4 DEF BalanceInv, Balance
    <3> QED  BY <3>6, <3>7
  <2>5. CASE UNCHANGED <<voRecords, voBought, voUnshared, voBook, voRetry, voGivenUp>>
    <3>1. UNCHANGED <<voMode, voFilled, voTraded, voShort, voBook, voStaged, voBought, voUnshared, voGivenUp, voExpired>>
      BY <2>1, <2>5 DEF voRecords
    <3> QED  BY <1>6, <2>1, <2>3, <3>1
  <2> QED  BY <1>9, <2>4, <2>5 DEF OrderAnswered
<1>10. ASSUME FlushBook  PROVE BalanceInv'
  <2>1. voMode = "live" /\ voBook # EmptyBook /\ UNCHANGED <<voMode, voFlush, voStaged, voAstray>>
    BY <1>10 DEF FlushBook
  <2>2. OneFlush'
    <3>1. \A f \in Flushes : ~voFlush[f].on  BY <1>1, <2>1 DEF OneFlush
    <3> QED  BY <2>1, <3>1 DEF OneFlush
  <2>3. PICK lost \in 0..MaxLost :
          \/ \E x \in 0..Wanted(voBook) :
                \/ Buy(x + lost, x) /\ Finalize(x) /\ UNCHANGED voExpired
                \/ Buy(x + lost, 0) /\ LoseBook /\ UNCHANGED <<voRecords, voGivenUp>>
          \/ Buy(lost, 0) /\ voRetry' = voRetry + 1 /\ UNCHANGED <<voRecords, voBook, voGivenUp, voExpired>>
    BY <1>10 DEF FlushBook
  <2>4. lost \in Nat  BY VirtualOrdersAssumption DEF VirtualOrdersAssumption
  <2>5. ASSUME NEW x \in 0..Wanted(voBook), Buy(x + lost, x), Finalize(x), UNCHANGED voExpired  PROVE BalanceInv'
    <3>1. x \in Nat  BY <1>2
    <3>2. voBought' = voBought + x + lost /\ voUnshared' = voUnshared + lost
      BY ONLY <1>7, <2>4, <2>5, <3>1 DEF Buy
    <3>3. PositionsFollow'  BY <1>4, <2>5, <3>1
    <3>4. Balance'  BY ONLY <1>1, <2>1, <2>4, <2>5, <3>1, <3>2, IsFiniteSet(Intents), FinalizeBalances
    <3> QED  BY <1>1, <2>2, <3>3, <3>4 DEF BalanceInv
  <2>6. ASSUME NEW x \in 0..Wanted(voBook), Buy(x + lost, 0), LoseBook, UNCHANGED <<voRecords, voGivenUp>>
        PROVE  BalanceInv'
    <3>1. x + lost \in Nat  BY <1>2, <2>4
    <3>2. voBought' = voBought + (x + lost) /\ voUnshared' = voUnshared + (x + lost)
      BY ONLY <1>7, <2>6, <3>1 DEF Buy
    <3> QED  BY <1>11, <2>1, <2>2, <2>6, <3>1, <3>2
  <2>7. ASSUME Buy(lost, 0), voRetry' = voRetry + 1, UNCHANGED <<voRecords, voBook, voGivenUp, voExpired>>
        PROVE  BalanceInv'
    <3>1. voBought' = voBought + lost /\ voUnshared' = voUnshared + lost
      BY ONLY <1>7, <2>4, <2>7 DEF Buy
    <3>2. UNCHANGED <<voFilled, voTraded, voShort>>  BY <2>7 DEF voRecords
    <3>3. BoughtIsAllocated'
      <4>1. voBought = Wanted(voFilled) + voUnshared  BY <1>1 DEF Balance, BoughtIsAllocated
      <4>2. voBought' = Wanted(voFilled) + voUnshared'  BY ONLY <1>7, <1>12, <2>4, <3>1, <4>1
      <4> QED  BY <2>1, <3>2, <4>2 DEF BoughtIsAllocated
    <3>4. NobodyGetsMore' /\ IntentsAccounted' /\ NoneUnasked'
      BY <1>1, <2>1, <2>7, <3>2 DEF Balance, NobodyGetsMore, IntentsAccounted, NoneUnasked
    <3>5. PositionsFollow'  BY <1>1, <3>2 DEF PositionsFollow
    <3> QED  BY <1>1, <2>2, <3>3, <3>4, <3>5 DEF BalanceInv, Balance
  <2> QED  BY <2>3, <2>5, <2>6, <2>7
<1>13. ASSUME ExpireBook  PROVE BalanceInv'
  <2>1. /\ LoseBook /\ voAstray' = (voAstray \/ \E f \in Flushes : voFlush[f].on)
        /\ UNCHANGED <<voRecords, voMode, voFlush, voStaged, voBought, voUnshared, voGivenUp>>
    BY <1>13 DEF ExpireBook
  <2>2. OneFlush'
    <3>1. ~voAstray' => ~voAstray /\ \A f \in Flushes : ~voFlush[f].on  BY <2>1
    <3> QED  BY <1>1, <2>1, <3>1 DEF OneFlush
  <2>3. voBought' = voBought + 0 /\ voUnshared' = voUnshared + 0  BY <1>7, <2>1
  <2>4. voAstray => voAstray'  BY <2>1
  <2>5. 0 \in Nat /\ ~(0 > 0)  OBVIOUS
  <2>6. UNCHANGED <<voRecords, voMode, voStaged, voGivenUp>> /\ LoseBook  BY <2>1
  <2>7. PICK lost \in Nat : lost = 0  OBVIOUS
  <2> QED  BY ONLY <1>11, <2>2, <2>3, <2>4, <2>5, <2>6, <2>7
<1>14. ASSUME UNCHANGED voVars  PROVE BalanceInv'
  <2>1. /\ UNCHANGED <<voMode, voFilled, voTraded, voShort, voBook, voStaged, voBought, voUnshared, voGivenUp, voExpired>>
        /\ UNCHANGED <<voFlush, voAstray>>
    BY <1>14 DEF voVars
  <2>2. OneFlush'  BY <1>1, <2>1 DEF OneFlush
  <2> QED  BY <1>6, <2>1, <2>2
<1> QED  BY <1>5, <1>8, <1>9, <1>10, <1>13, <1>14 DEF VoNext

LEMMA FairShares == BookInv => SharesAreFair
<1> SUFFICES ASSUME BookInv, voBook # EmptyBook, NEW x \in 0..Wanted(voBook), NEW i \in DOMAIN voBook
             PROVE  /\ Allocate(voBook, x)[i] \in ShareFloor(voBook, x)[i]..(ShareFloor(voBook, x)[i] + 1)
                    /\ \A j \in DOMAIN voBook : voBook[i] > voBook[j] => Allocate(voBook, x)[i] >= Allocate(voBook, x)[j]
  BY DEF SharesAreFair
<1>1. x \in Nat /\ Book(voBook)
  <2>1. Wanted(voBook) \in Nat  BY BookFacts
  <2> QED  BY <2>1, BookFacts
<1>2. /\ ShareFloor(voBook, x)[i] \in Nat
      /\ Allocate(voBook, x)[i] = ShareFloor(voBook, x)[i]
            + (IF Rank(voBook, ShareRest(voBook, x), i) < Left(voBook, x) THEN 1 ELSE 0)
  BY <1>1, Shares, AllocateIs
<1>3. Allocate(voBook, x)[i] \in ShareFloor(voBook, x)[i]..(ShareFloor(voBook, x)[i] + 1)
  BY ONLY <1>2
<1>4. \A j \in DOMAIN voBook : voBook[i] > voBook[j] => Allocate(voBook, x)[i] >= Allocate(voBook, x)[j]
  BY <1>1, LargerGetsMore
<1> QED  BY <1>3, <1>4

(* For finitely many intents, of any size, any number of flushes, retries   *)
(* and orders: what was bought is allocated, fairly and to the unit, nobody  *)
(* gets more than he asked for or is forgotten, and positions follow.        *)
THEOREM BooksBalance ==
    ASSUME IsFiniteSet(Intents)
    PROVE  VoSpec => []BookBalances
<1>1. VoInit => BalanceInv  BY BalanceInit
<1>2. BalanceInv /\ [VoNext]_voVars => BalanceInv'  BY BalanceStep
<1>3. BalanceInv => BookBalances  BY FairShares DEF BalanceInv, Balance, BookBalances
<1> QED  BY <1>1, <1>2, <1>3, PTL DEF VoSpec

(* The book keeps its types, for any intents.                                *)
THEOREM BooksAreTyped == VoSpec => []VoTypeOK
<1>1. BookInv => VoTypeOK  BY DEF BookInv
<1> QED  BY <1>1, BookInit, BookStep, PTL DEF VoSpec

=============================================================================
