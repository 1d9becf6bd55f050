------------------------------ MODULE LiveSignals ------------------------------
(***************************************************************************)
(* The live signals of a dashboard: the route /signals/live answers with    *)
(* the last published signals and, when these are few, lets the             *)
(* orchestrator scan its symbols within a time limit.                       *)
(*                                                                         *)
(* A scan awaits an evaluation, the events about it and, when it fails, a   *)
(* stand-in; it may be cut at each of these.  Between two awaits it closes  *)
(* one symbol and begins the next.  A request asks for as many signals as   *)
(* there can be, so that only a scan leaves signals out.                    *)
(***************************************************************************)
EXTENDS Integers, Sequences, FiniteSets

CONSTANTS
    Viewers, TierOf,  \* and the tier of each one's subscription, a number
    Ranked,           \* the symbols, best priority first
    Outcomes,         \* signals that an evaluation may publish: kind, tier, score
    Target,           \* how many signals make a scan unnecessary, and may come of one
    MaxAsks           \* bound: requests

LvSymbols == {Ranked[i] : i \in DOMAIN Ranked}

ASSUME LiveSignalsAssumption ==
    /\ Target \in Nat \ {0} /\ MaxAsks \in Nat /\ Ranked \in Seq(LvSymbols) /\ Ranked # <<>>
    /\ \A o \in Outcomes : o.kind \in {"accepted", "almost", "skipped"} /\ o.tier \in Nat /\ o.score \in Nat
    /\ \A v \in Viewers : TierOf[v] \in Nat

VARIABLES
    lvStored,   \* signal:latest:<symbol>
    lvBoard,    \* activity:readiness: the status of each symbol
    lvAsk,      \* each viewer's request: where its scan is, and what it has
    lvReply,    \* the response kept for each viewer; history: what its scan found
    lvAsks,     \* history: scans begun
    lvCut       \* history: a scan was cut

lvVars == <<lvStored, lvBoard, lvAsk, lvReply, lvAsks, lvCut>>

None == [kind |-> "none"]
NoAsk == [at |-> "none", kept |-> {}, left |-> <<>>, found |-> <<>>, now |-> None]
NoReply == [whole |-> FALSE, items |-> {}, found |-> <<>>, kept |-> FALSE]

LvTypeOK ==
    /\ \A s \in LvSymbols : /\ lvStored[s] \in Outcomes \cup {None}
                            /\ lvBoard[s] \in {"none", "started", "failed", "accepted", "almost", "skipped"}
    /\ \A v \in Viewers : /\ lvAsk[v].at \in {"none", "evaluation", "events", "stand-in"}
                          /\ lvAsk[v].at # "none" => lvAsk[v].left # <<>>
                          /\ Len(lvAsk[v].found) <= Len(Ranked)
    /\ lvAsks \in 0..MaxAsks /\ lvCut \in BOOLEAN

LvInit ==
    /\ lvStored = [s \in LvSymbols |-> None] /\ lvBoard = [s \in LvSymbols |-> "none"]
    /\ lvAsk = [v \in Viewers |-> NoAsk] /\ lvReply = [v \in Viewers |-> NoReply]
    /\ lvAsks = 0 /\ lvCut = FALSE

-----------------------------------------------------------------------------
(* Answers                                                                   *)

(* _collect_live_signals: what the viewer's subscription allows.             *)
Visible(v) ==
    {[symbol |-> s, kind |-> lvStored[s].kind, by |-> "store"] :
        s \in {s \in LvSymbols : lvStored[s] # None /\ lvStored[s].tier <= TierOf[v]}}

(* Another way: the first of what a scan found.                             *)
FirstFound(found) == {i \in DOMAIN found : i <= Target}

(* The best of what a scan found; of equals, the first.                      *)
Best(found) ==
    {i \in DOMAIN found :
        Cardinality({j \in DOMAIN found : found[j].score > found[i].score
                                             \/ (found[j].score = found[i].score /\ j < i)}) < Target}

(* _live_signal_from_response: in the answer whatever the viewer's tier.     *)
Listed(found, chosen) == {[symbol |-> found[i].symbol, kind |-> found[i].kind, by |-> "scan"] : i \in chosen}

AnswerAsk(v, items, whole, found) ==
    /\ lvAsk' = [lvAsk EXCEPT ![v] = NoAsk]
    /\ lvReply' = [lvReply EXCEPT ![v] = [whole |-> whole, items |-> items, found |-> found, kept |-> TRUE]]

-----------------------------------------------------------------------------
(* A request                                                                 *)

(* publish_activity: a symbol's latest status replaces the one on the board. *)
OnBoard(board, s, status) == [board EXCEPT ![s] = status]

(* The scan is over, or goes on with the next symbol, whose status on the    *)
(* board is that it has started.                                             *)
Proceed(v, left, found, board) ==
    IF left = <<>>
    THEN /\ lvBoard' = board
         /\ AnswerAsk(v, lvAsk[v].kept \cup Listed(found, Best(found)), TRUE, found)
    ELSE /\ lvBoard' = OnBoard(board, Head(left), "started")
         /\ lvAsk' = [lvAsk EXCEPT ![v].at = "evaluation", ![v].left = left, ![v].found = found, ![v].now = None]
         /\ UNCHANGED lvReply

(* get_live_signals, when no response is kept: signals enough, or a scan.    *)
AskEnough(v) ==
    /\ lvAsk[v] = NoAsk /\ ~lvReply[v].kept /\ Cardinality(Visible(v)) >= Target
    /\ AnswerAsk(v, Visible(v), FALSE, <<>>)
    /\ UNCHANGED <<lvStored, lvBoard, lvAsks, lvCut>>

AskFew(v) ==
    /\ lvAsk[v] = NoAsk /\ ~lvReply[v].kept /\ Cardinality(Visible(v)) < Target
    /\ lvAsks < MaxAsks /\ lvAsks' = lvAsks + 1
    /\ lvAsk' = [lvAsk EXCEPT ![v] = [NoAsk EXCEPT !.at = "evaluation", !.kept = Visible(v), !.left = Ranked]]
    /\ lvBoard' = OnBoard(lvBoard, Ranked[1], "started")
    /\ UNCHANGED <<lvStored, lvReply, lvCut>>

(* evaluate_symbol ends with a publication, of a rejected signal too,        *)
Evaluated(v, outcome) ==
    /\ lvAsk[v].at = "evaluation"
    /\ lvStored' = [lvStored EXCEPT ![Head(lvAsk[v].left)] = outcome]
    /\ lvAsk' = [lvAsk EXCEPT ![v].at = "events", ![v].now = outcome]
    /\ UNCHANGED <<lvBoard, lvReply, lvAsks, lvCut>>

(* and its market events are sent: what goes wrong with them is only logged. *)
EventsEnd(v) == lvAsk[v].at = "events"

(* Only an accepted signal counts as found.                                  *)
EventsSent(v) ==
    LET d == lvAsk[v]  s == Head(d.left)
        found == IF d.now.kind # "accepted" THEN d.found
                 ELSE Append(d.found, [symbol |-> s, kind |-> "accepted", score |-> d.now.score])
    IN  /\ EventsEnd(v)
        /\ Proceed(v, Tail(d.left), found, OnBoard(lvBoard, s, d.now.kind))
        /\ UNCHANGED <<lvStored, lvAsks, lvCut>>

EvaluationFails(v) ==
    /\ lvAsk[v].at = "evaluation"
    /\ lvBoard' = OnBoard(lvBoard, Head(lvAsk[v].left), "failed")
    /\ lvAsk' = [lvAsk EXCEPT ![v].at = "stand-in"]
    /\ UNCHANGED <<lvStored, lvReply, lvAsks, lvCut>>

(* _best_effort_live_signal: of the last price, and no score.                *)
StandIn(v) ==
    LET d == lvAsk[v] IN
    /\ d.at = "stand-in"
    /\ Proceed(v, Tail(d.left), Append(d.found, [symbol |-> Head(d.left), kind |-> "degraded", score |-> 0]), lvBoard)
    /\ UNCHANGED <<lvStored, lvAsks, lvCut>>

(* No price either: the scan raises, and what it found is lost.              *)
StandInFails(v) ==
    /\ lvAsk[v].at = "stand-in" /\ AnswerAsk(v, lvAsk[v].kept, FALSE, <<>>)
    /\ UNCHANGED <<lvStored, lvBoard, lvAsks, lvCut>>

TimesOut(v) ==
    /\ lvAsk[v].at # "none" /\ AnswerAsk(v, lvAsk[v].kept, FALSE, <<>>)
    /\ lvCut' = TRUE
    /\ UNCHANGED <<lvStored, lvBoard, lvAsks>>

ViewerLeaves(v) ==
    /\ lvAsk[v].at # "none" /\ lvAsk' = [lvAsk EXCEPT ![v] = NoAsk]
    /\ lvCut' = TRUE
    /\ UNCHANGED <<lvStored, lvBoard, lvReply, lvAsks>>

ReplyExpires(v) ==
    /\ lvReply[v].kept /\ lvReply' = [lvReply EXCEPT ![v] = NoReply]
    /\ UNCHANGED <<lvStored, lvBoard, lvAsk, lvAsks, lvCut>>

SignalExpires(s) ==
    /\ lvStored[s] # None /\ lvStored' = [lvStored EXCEPT ![s] = None]
    /\ UNCHANGED <<lvBoard, lvAsk, lvReply, lvAsks, lvCut>>

LvNext ==
    \/ \E v \in Viewers :
          \/ AskEnough(v) \/ AskFew(v) \/ (\E o \in Outcomes : Evaluated(v, o)) \/ EventsSent(v)
          \/ EvaluationFails(v) \/ StandIn(v) \/ StandInFails(v) \/ TimesOut(v) \/ ViewerLeaves(v) \/ ReplyExpires(v)
    \/ \E s \in LvSymbols : SignalExpires(s)

-----------------------------------------------------------------------------

(* A symbol that could not be evaluated takes no place from one that was     *)
(* accepted, and a scan that was not cut fills its places.                   *)
BestAreListed ==
    \A v \in Viewers : lvReply[v].whole =>
        LET found == lvReply[v].found
            here  == {i \in DOMAIN found : [symbol |-> found[i].symbol, kind |-> found[i].kind, by |-> "scan"] \in lvReply[v].items}
        IN  /\ Cardinality(here) = (IF Len(found) < Target THEN Len(found) ELSE Target)
            /\ \A i \in here, j \in DOMAIN found \ here : found[i].score >= found[j].score

(* The board of a bot that scans nothing shows no scan, unless one was cut.  *)
BoardSettles ==
    ~lvCut /\ (\A v \in Viewers : lvAsk[v] = NoAsk) => \A s \in LvSymbols : lvBoard[s] # "started"

(* A request is answered, whatever its scan waits for.                       *)
AllAnswered == \A v \in Viewers : []<>(lvAsk[v] = NoAsk)
=============================================================================
