--------------------------- MODULE Platform_proofs ---------------------------
(* The components that MCPlatform checks side by side: proofs about each of *)
(* them, in a part of its own; at last, that side by side they keep types.   *)
EXTENDS MCPlatform, StandAlone_proofs, Sums, FiniteSetTheorems, SequenceTheorems, TLAPS

-----------------------------------------------------------------------------
(* BacktestJobs: jobs survive restarts, finish once, and are forgotten      *)
(* oldest first.                                                            *)

(* A list of files names each at most once. *)
NoneTwice(list) == list \in Seq(Jobs) /\ \A a, b \in 1..Len(list) : list[a] = list[b] => a = b

(* A name goes to the front of the list, from where it was or as a new one. *)
LEMMA ToTheFront ==
    ASSUME NEW list, NoneTwice(list), NEW j \in Jobs
    PROVE  LET new == <<j>> \o RemoveFirst(list, j)
           IN  /\ NoneTwice(new) /\ ToSet(new) = ToSet(list) \cup {j} /\ new # <<>> /\ new[1] = j
               /\ Len(new) = IF j \in ToSet(list) THEN Len(list) ELSE Len(list) + 1
<1> DEFINE rest == RemoveFirst(list, j)
           new == <<j>> \o rest
<1>1. list \in Seq(Jobs) /\ Len(list) \in Nat /\ DOMAIN list = 1..Len(list) BY DEF NoneTwice
<1>2. /\ rest \in Seq(Jobs) /\ \A a, b \in 1..Len(rest) : rest[a] = rest[b] => a = b
      /\ ToSet(rest) = ToSet(list) \ {j}
      /\ Len(rest) = IF j \in ToSet(list) THEN Len(list) - 1 ELSE Len(list)
  <2>1. CASE j \notin ToSet(list)
    <3>1. ~\E i \in 1..Len(list) : list[i] = j BY <1>1, <2>1 DEF ToSet
    <3>2. rest = list BY <3>1 DEF RemoveFirst
    <3> QED BY <2>1, <3>2 DEF NoneTwice
  <2>2. ASSUME NEW i \in 1..Len(list), list[i] = j
        PROVE  /\ rest \in Seq(Jobs) /\ \A a, b \in 1..Len(rest) : rest[a] = rest[b] => a = b
               /\ ToSet(rest) = ToSet(list) \ {j} /\ Len(rest) = Len(list) - 1
    <3>1. {k \in 1..Len(list) : list[k] = j} = {i} BY <2>2 DEF NoneTwice
    <3>2. SelectInSeq(list, LAMBDA v : v = j) = i
      <4>1. Min({i}) = i BY DEF Min
      <4> QED BY <3>1, <4>1 DEF SelectInSeq
    <3>3. rest = SubSeq(list, 1, i - 1) \o SubSeq(list, i + 1, Len(list)) BY <2>2, <3>2 DEF RemoveFirst, RemoveAt
    <3> DEFINE head == SubSeq(list, 1, i - 1)
               tail == SubSeq(list, i + 1, Len(list))
    <3>4. head \in Seq(Jobs) /\ Len(head) = i - 1 /\ \A a \in 1..(i - 1) : head[a] = list[a]
      BY <1>1, SubSeqProperties
    <3>5. tail \in Seq(Jobs) /\ Len(tail) = Len(list) - i /\ \A a \in 1..(Len(list) - i) : tail[a] = list[i + a]
      <4>1. i \in Nat /\ i + 1 \in Int /\ Len(list) \in Int /\ \A a \in (i + 1)..Len(list) : list[a] \in Jobs BY <1>1
      <4>2. /\ tail \in Seq(Jobs) /\ Len(tail) = IF i + 1 <= Len(list) THEN Len(list) - (i + 1) + 1 ELSE 0
            /\ \A a \in 1..(Len(list) - (i + 1) + 1) : tail[a] = list[(i + 1) + a - 1]
        BY ONLY <4>1, SubSeqProperties
      <4> HIDE DEF tail
      <4>5. Len(list) \in Nat BY <1>1
      <4>3. Len(tail) = Len(list) - i BY ONLY <4>2, <4>5, i \in 1..Len(list)
      <4>4. ASSUME NEW a \in 1..(Len(list) - i) PROVE tail[a] = list[i + a]
        <5>1. a \in 1..(Len(list) - (i + 1) + 1) /\ (i + 1) + a - 1 = i + a BY <1>1, <4>1
        <5> QED BY <4>2, <5>1
      <4> QED BY <4>2, <4>3, <4>4
    <3>11. rest = head \o tail BY <3>3
    <3> HIDE DEF head, tail, rest
    <3>6. rest \in Seq(Jobs) /\ Len(rest) = Len(list) - 1
      <4>1. rest \in Seq(Jobs) /\ Len(rest) = Len(head) + Len(tail) BY ONLY <3>11, <3>4, <3>5, ConcatProperties
      <4>2. Len(list) \in Nat /\ Len(head) = i - 1 /\ Len(tail) = Len(list) - i BY <1>1, <3>4, <3>5
      <4> QED BY ONLY <4>1, <4>2, i \in 1..Len(list)
    <3>7. \A a \in 1..(Len(list) - 1) : rest[a] = IF a < i THEN list[a] ELSE list[a + 1]
      <4>1. rest = head \o tail BY <3>11
      <4> SUFFICES ASSUME NEW a \in 1..(Len(list) - 1) PROVE rest[a] = IF a < i THEN list[a] ELSE list[a + 1]
        OBVIOUS
      <4>2. CASE a < i BY <1>1, <3>4, <3>5, <4>1, <4>2, ConcatProperties
      <4>3. CASE a >= i
        <5>1. rest[a] = tail[a - (i - 1)] BY <1>1, <3>4, <3>5, <4>1, <4>3, ConcatProperties
        <5>2. a - (i - 1) \in 1..(Len(list) - i) /\ i + (a - (i - 1)) = a + 1 BY <1>1, <4>3
        <5> QED BY <3>5, <4>3, <5>1, <5>2
      <4> QED BY <1>1, <4>2, <4>3
    <3>8. \A a, b \in 1..Len(rest) : rest[a] = rest[b] => a = b BY <1>1, <3>6, <3>7 DEF NoneTwice
    <3>9. ToSet(rest) \subseteq ToSet(list) \ {j}
      <4>1. \A a \in 1..Len(rest) : \E b \in 1..Len(list) : b # i /\ rest[a] = list[b]
        <5> SUFFICES ASSUME NEW a \in 1..Len(rest) PROVE \E b \in 1..Len(list) : b # i /\ rest[a] = list[b]
          OBVIOUS
        <5>1. CASE a < i
          <6>1. a \in 1..Len(list) /\ a # i /\ rest[a] = list[a] BY <1>1, <3>6, <3>7, <5>1
          <6> QED BY <6>1
        <5>2. CASE a >= i
          <6>1. a + 1 \in 1..Len(list) /\ a + 1 # i /\ rest[a] = list[a + 1] BY <1>1, <3>6, <3>7, <5>2
          <6> QED BY <6>1
        <5>3. a \in Int /\ i \in Int BY <1>1, <3>6
        <5>4. a < i \/ a >= i BY <5>3
        <5> QED BY <5>1, <5>2, <5>4
      <4>2. DOMAIN rest = 1..Len(rest) BY <3>6
      <4>3. \A b \in 1..Len(list) : list[b] \in ToSet(list) BY <1>1 DEF ToSet
      <4>4. \A b \in 1..Len(list) : b # i => list[b] # j BY <2>2 DEF NoneTwice
      <4>5. \A a \in DOMAIN rest : rest[a] \in ToSet(list) \ {j} BY <4>1, <4>2, <4>3, <4>4
      <4> QED BY <4>5 DEF ToSet
    <3>10. ToSet(list) \ {j} \subseteq ToSet(rest)
      <4> SUFFICES ASSUME NEW b \in 1..Len(list), list[b] # j PROVE list[b] \in ToSet(rest)
        BY <1>1 DEF ToSet
      <4>1. CASE b < i
        <5>1. b \in 1..(Len(list) - 1) BY <1>1, <4>1
        <5>2. b \in DOMAIN rest /\ rest[b] = list[b] BY <3>6, <3>7, <4>1, <5>1
        <5> QED BY <5>2 DEF ToSet
      <4>2. CASE b > i
        <5>1. b - 1 \in 1..(Len(list) - 1) /\ ~(b - 1 < i) /\ (b - 1) + 1 = b BY <1>1, <4>2
        <5>2. b - 1 \in DOMAIN rest /\ rest[b - 1] = list[b] BY <3>6, <3>7, <5>1
        <5> QED BY <5>2 DEF ToSet
      <4> QED BY <1>1, <2>2, <4>1, <4>2
    <3> QED BY <3>6, <3>8, <3>9, <3>10
  <2>3. CASE j \in ToSet(list)
    <3>1. PICK i \in 1..Len(list) : list[i] = j BY <1>1, <2>3 DEF ToSet
    <3> HIDE DEF rest
    <3> QED BY <2>2, <2>3, <3>1
  <2> HIDE DEF rest
  <2> QED BY <2>1, <2>3
<1> HIDE DEF rest
<1>3. new \in Seq(Jobs) /\ Len(new) = Len(rest) + 1 /\ new[1] = j /\ \A a \in 1..Len(rest) : new[a + 1] = rest[a]
  <2>1. <<j>> \in Seq(Jobs) /\ Len(<<j>>) = 1 /\ <<j>>[1] = j OBVIOUS
  <2>2. new \in Seq(Jobs) /\ Len(new) = Len(rest) + 1 /\ new[1] = j BY <1>2, <2>1, ConcatProperties
  <2>3. \A a \in 1..Len(rest) : new[a + 1] = rest[a]
    BY <1>2, <2>1, ConcatProperties
  <2> QED BY <2>2, <2>3
<1> HIDE DEF new
<1>4. Len(rest) \in Nat /\ Len(new) \in Nat /\ DOMAIN new = 1..Len(new) /\ DOMAIN rest = 1..Len(rest) BY <1>2, <1>3
<1>5. \A a \in 1..Len(rest) : rest[a] # j BY <1>2, <1>4 DEF ToSet
<1>6. \A a \in 1..Len(new) : a = 1 \/ (a - 1 \in 1..Len(rest) /\ new[a] = rest[a - 1])
  <2> SUFFICES ASSUME NEW a \in 1..Len(new), a # 1 PROVE a - 1 \in 1..Len(rest) /\ new[a] = rest[a - 1]
    OBVIOUS
  <2>1. a - 1 \in 1..Len(rest) /\ (a - 1) + 1 = a BY <1>3, <1>4
  <2> QED BY <1>3, <2>1
<1>7. \A a, b \in 1..Len(new) : new[a] = new[b] => a = b
  <2> SUFFICES ASSUME NEW a \in 1..Len(new), NEW b \in 1..Len(new), new[a] = new[b] PROVE a = b
    OBVIOUS
  <2>1. CASE a = 1 \/ b = 1 BY <1>3, <1>5, <1>6, <2>1
  <2>2. CASE a # 1 /\ b # 1
    <3>1. a - 1 = b - 1 BY <1>2, <1>6, <2>2
    <3> QED BY <1>4, <3>1
  <2> QED BY <2>1, <2>2
<1>8. ToSet(new) = ToSet(rest) \cup {j}
  <2>1. \A a \in DOMAIN rest : rest[a] \in ToSet(rest) BY DEF ToSet
  <2>2. \A a \in DOMAIN new : new[a] \in ToSet(new) BY DEF ToSet
  <2>3. \A a \in DOMAIN new : new[a] \in ToSet(rest) \cup {j} BY <1>3, <1>4, <1>6, <2>1
  <2>4. ToSet(new) \subseteq ToSet(rest) \cup {j} BY <2>3 DEF ToSet
  <2>5. 1 \in DOMAIN new /\ \A a \in DOMAIN rest : a + 1 \in DOMAIN new BY <1>3, <1>4
  <2>6. j \in ToSet(new) /\ \A a \in DOMAIN rest : rest[a] \in ToSet(new) BY <1>3, <1>4, <2>2, <2>5
  <2>7. ToSet(rest) \subseteq ToSet(new) BY <2>6 DEF ToSet
  <2> QED BY <2>4, <2>6, <2>7
<1>9. NoneTwice(new) BY <1>3, <1>7 DEF NoneTwice
<1>10. ToSet(new) = ToSet(list) \cup {j} BY <1>2, <1>8
<1>11. Len(new) = IF j \in ToSet(list) THEN Len(list) ELSE Len(list) + 1
  <2>1. Len(list) \in Nat /\ Len(new) = Len(rest) + 1 /\ Len(rest) = IF j \in ToSet(list) THEN Len(list) - 1 ELSE Len(list)
    BY <1>1, <1>2, <1>3, Zenon
  <2> QED BY ONLY <2>1
<1>12. new # <<>> /\ new[1] = j BY <1>3, <1>4
<1> QED BY <1>9, <1>10, <1>11, <1>12 DEF new, rest

(* The newest are kept. *)
LEMMA KeptOnes ==
    ASSUME NEW list, NoneTwice(list)
    PROVE  /\ NoneTwice(Kept(list)) /\ ToSet(Kept(list)) \subseteq ToSet(list)
           /\ Len(Kept(list)) = IF Len(list) < HistoryLimit THEN Len(list) ELSE HistoryLimit
           /\ Len(list) <= HistoryLimit => Kept(list) = list
           /\ list # <<>> => list[1] \in ToSet(Kept(list))
<1>1. list \in Seq(Jobs) /\ Len(list) \in Nat /\ HistoryLimit \in Nat \ {0} /\ DOMAIN list = 1..Len(list)
  BY BacktestAssumption DEF NoneTwice
<1> DEFINE n == IF Len(list) < HistoryLimit THEN Len(list) ELSE HistoryLimit
<1>2. n \in Nat /\ n <= Len(list) /\ (Len(list) <= HistoryLimit => n = Len(list)) /\ Kept(list) = SubSeq(list, 1, n)
  <2>1. Kept(list) = SubSeq(list, 1, n) BY DEF Kept
  <2>2. Len(list) \in Nat /\ HistoryLimit \in Nat BY <1>1
  <2>3. n \in Nat /\ n <= Len(list) /\ (Len(list) <= HistoryLimit => n = Len(list)) BY ONLY <2>2
  <2> QED BY <2>1, <2>3
<1>3. list # <<>> => Len(list) >= 1 /\ n >= 1 BY <1>1
<1> HIDE DEF n
<1>11. Len(list) \in Nat /\ n \in Nat /\ n <= Len(list) BY <1>1, <1>2, Zenon
<1>10. \A a \in 1..n : a \in 1..Len(list) BY ONLY <1>11
<1>4. Kept(list) \in Seq(Jobs) /\ Len(Kept(list)) = n /\ \A a \in 1..n : Kept(list)[a] = list[a]
  <2>1. \A a \in 1..n : list[a] \in Jobs BY <1>1, <1>10
  <2>2. n \in Int /\ 1 \in Int BY <1>11
  <2>3. /\ SubSeq(list, 1, n) \in Seq(Jobs) /\ Len(SubSeq(list, 1, n)) = IF 1 <= n THEN n - 1 + 1 ELSE 0
        /\ \A a \in 1..(n - 1 + 1) : SubSeq(list, 1, n)[a] = list[1 + a - 1]
    BY ONLY <2>1, <2>2, SubSeqProperties
  <2>4. (IF 1 <= n THEN n - 1 + 1 ELSE 0) = n /\ n - 1 + 1 = n /\ \A a \in 1..n : 1 + a - 1 = a BY ONLY <1>11
  <2>5. Kept(list) = SubSeq(list, 1, n) BY <1>2
  <2> QED BY ONLY <2>3, <2>4, <2>5
<1>5. DOMAIN Kept(list) = 1..n BY <1>4
<1>6. NoneTwice(Kept(list))
  <2>1. \A a, b \in 1..Len(list) : list[a] = list[b] => a = b BY DEF NoneTwice
  <2> QED BY <1>4, <1>10, <2>1 DEF NoneTwice
<1>7. ToSet(Kept(list)) \subseteq ToSet(list)
  <2>1. \A a \in DOMAIN list : list[a] \in ToSet(list) BY DEF ToSet
  <2>2. \A a \in DOMAIN Kept(list) : Kept(list)[a] \in ToSet(list) BY <1>1, <1>4, <1>5, <1>10, <2>1
  <2> QED BY <2>2 DEF ToSet
<1>8. Len(list) <= HistoryLimit => Kept(list) = list
  <2>1. list \in Seq(Jobs) BY <1>1
  <2>2. SubSeq(list, 1, Len(list)) = list BY ONLY <2>1, SubSeqFull
  <2> QED BY <1>2, <2>2
<1>9. list # <<>> => list[1] \in ToSet(Kept(list))
  <2>1. ASSUME list # <<>> PROVE 1 \in DOMAIN Kept(list) /\ Kept(list)[1] = list[1] BY <1>2, <1>3, <1>4, <1>5, <2>1
  <2> QED BY <2>1 DEF ToSet
<1> QED BY <1>4, <1>6, <1>7, <1>8, <1>9 DEF n

Contents == [status : {"QUEUED", "RUNNING", "COMPLETED", "FAILED"}, found : Nat, profiles : Nat]
AtWork == {"chunks", "fetching", "replay"}
Tasks == [at : AtWork \cup {"none", "created", "ended"}, chunk : Nat, nth : Nat, payload : Contents \cup {Missing}]

ListInv == NoneTwice(bjRecent) /\ \A k \in Jobs : k \in ToSet(bjRecent) <=> bjFile[k] # Missing

BacktestShape ==
    /\ bjFile \in [Jobs -> Contents \cup {Missing, Torn}] /\ bjTask \in [Jobs -> Tasks] /\ bjRedone \in [Jobs -> BOOLEAN]
    /\ bjAsked \subseteq Jobs /\ bjFailing \in BOOLEAN
    /\ bjProcess \in [at : {"up", "down", "starting"}, todo : SUBSET Jobs]
    /\ bjProcess.at # "up" => bjLoop = NoOne
    /\ ListInv

(* What the task of a job holds, and what its file says, while it works:     *)
(* its count is that of the replays it made, unless it was resumed with some. *)
TaskAndFile(j) ==
    /\ bjTask[j].at \in AtWork =>
         /\ bjTask[j].payload \in Contents /\ bjTask[j].payload.status = "RUNNING"
         /\ bjTask[j].nth > 0 => bjTask[j].payload.profiles = bjTask[j].nth
         /\ ~bjRedone[j] => bjTask[j].payload.found = bjTask[j].nth
         /\ bjTask[j].at # "replay" => bjTask[j].nth = 0
         /\ bjFile[j].status \in {"RUNNING", "MISSING"}
    /\ bjTask[j].at = "created" => /\ bjFile[j].status \in {"QUEUED", "MISSING"}
                                   /\ ~bjRedone[j] => bjFile[j].found = 0
    /\ bjTask[j].at = "ended" => bjFile[j] = Missing
    /\ j \in Compare /\ bjFile[j].status = "COMPLETED" /\ ~bjRedone[j] =>
         bjFile[j].found = NumProfiles /\ bjFile[j].profiles = NumProfiles

(* Which jobs have a task, by what the process does. *)
HasTask(j) ==
    /\ bjProcess.at = "up" /\ bjTask[j].at = "none" /\ ~bjFailing => bjFile[j].status \notin Unfinished
    /\ bjProcess.at = "starting" => /\ bjTask[j].at \in {"none", "created"}
                                    /\ j \in bjProcess.todo => bjTask[j].at = "none"
                                    /\ j \notin bjProcess.todo /\ bjTask[j].at = "none" => bjFile[j].status \notin Unfinished
    /\ bjProcess.at = "down" => bjTask[j].at = "none"
    /\ bjLoop = j => bjTask[j].at \in {"chunks", "replay"}
    /\ j \notin bjAsked => bjFile[j] = Missing /\ bjTask[j].at = "none"

BacktestInv ==
    /\ BacktestShape /\ OnlyOldFilesGo
    /\ \A j \in Jobs : TaskAndFile(j) /\ HasTask(j)

(* A write puts the file in front, and at most the oldest one goes. *)
LEMMA Persisted ==
    ASSUME NEW j \in Jobs, NEW content, content # Missing, Persist(j, content), ListInv
    PROVE  /\ ListInv' /\ bjFile'[j] = content
           /\ bjFile' = [k \in Jobs |-> bjFile'[k]]
           /\ \A k \in Jobs : k # j => bjFile'[k] \in {bjFile[k], Missing}
           /\ \A k \in Jobs : bjFile'[k] = Missing =>
                Len(bjRecent') >= HistoryLimit \/ (k # j /\ bjFile[k] = Missing /\ Len(bjRecent) < HistoryLimit)
<1> DEFINE new == <<j>> \o RemoveFirst(bjRecent, j)
<1>1. /\ bjRecent' = Kept(new)
      /\ bjFile' = [k \in Jobs |-> IF k \notin ToSet(bjRecent') THEN Missing ELSE IF k = j THEN content ELSE bjFile[k]]
  BY DEF Persist
<1>2. /\ NoneTwice(new) /\ ToSet(new) = ToSet(bjRecent) \cup {j} /\ new # <<>> /\ new[1] = j
      /\ Len(new) = IF j \in ToSet(bjRecent) THEN Len(bjRecent) ELSE Len(bjRecent) + 1
  BY ToTheFront DEF ListInv
<1> HIDE DEF new
<1>3. /\ NoneTwice(bjRecent') /\ ToSet(bjRecent') \subseteq ToSet(new) /\ j \in ToSet(bjRecent')
      /\ Len(bjRecent') = IF Len(new) < HistoryLimit THEN Len(new) ELSE HistoryLimit
      /\ Len(new) <= HistoryLimit => bjRecent' = new
  BY <1>1, <1>2, KeptOnes
<1>4. /\ \A k \in Jobs : bjFile'[k] = IF k \notin ToSet(bjRecent') THEN Missing ELSE IF k = j THEN content ELSE bjFile[k]
      /\ bjFile' = [k \in Jobs |-> bjFile'[k]]
  BY <1>1
<1>5. \A k \in Jobs : k \in ToSet(bjRecent) <=> bjFile[k] # Missing BY DEF ListInv
<1>6. \A k \in Jobs : k \in ToSet(bjRecent') <=> bjFile'[k] # Missing BY <1>2, <1>3, <1>4, <1>5
<1>7. ASSUME NEW k \in Jobs, bjFile'[k] = Missing, Len(bjRecent') < HistoryLimit
      PROVE  k # j /\ bjFile[k] = Missing /\ Len(bjRecent) < HistoryLimit
  <2>1. Len(bjRecent) \in Nat /\ Len(new) \in Nat /\ HistoryLimit \in Nat
    BY <1>2, BacktestAssumption DEF NoneTwice, ListInv
  <2>2. Len(new) < HistoryLimit /\ Len(bjRecent) <= Len(new) BY <1>2, <1>3, <1>7, <2>1
  <2>3. bjRecent' = new BY <1>3, <2>1, <2>2
  <2>4. k \notin ToSet(new) BY <1>6, <1>7, <2>3
  <2> QED BY <1>2, <1>5, <2>1, <2>2, <2>4
<1>8. Len(bjRecent') \in Nat /\ HistoryLimit \in Nat BY <1>3, BacktestAssumption DEF NoneTwice
<1> QED BY <1>3, <1>4, <1>6, <1>7, <1>8 DEF ListInv

(* A job that a step leaves alone, but for its file, which may go. *)
LEMMA OtherJobs ==
    ASSUME NEW k \in Jobs, TaskAndFile(k), HasTask(k), bjFile'[k] \in {bjFile[k], Missing},
           bjTask'[k] = bjTask[k], bjRedone'[k] = bjRedone[k], bjLoop' = k => bjLoop = k,
           bjProcess'.at = bjProcess.at, k \in bjProcess'.todo <=> k \in bjProcess.todo,
           k \in bjAsked' <=> k \in bjAsked, bjFailing' = bjFailing
    PROVE  TaskAndFile(k)' /\ HasTask(k)'
<1>1. Missing.status = "MISSING" /\ Missing.found = 0 /\ "MISSING" \notin Unfinished BY DEF Missing, Unfinished
<1>2. TaskAndFile(k)' BY <1>1 DEF TaskAndFile
<1>3. HasTask(k)' BY <1>1 DEF HasTask
<1> QED BY <1>2, <1>3

(* A step of one job, which may write its file. *)
LEMMA OneJob ==
    ASSUME BacktestInv, NEW j \in Jobs, NEW content \in Contents,
           Persist(j, content) \/ UNCHANGED <<bjFile, bjRecent>>,
           bjTask' \in [Jobs -> Tasks], \A k \in Jobs : k # j => bjTask'[k] = bjTask[k],
           bjRedone' \in [Jobs -> BOOLEAN], \A k \in Jobs : k # j => bjRedone'[k] = bjRedone[k],
           bjLoop' \in {bjLoop, j, NoOne}, bjProcess.at # "up" => bjLoop' = NoOne,
           bjProcess' \in [at : {bjProcess.at}, todo : {bjProcess.todo, bjProcess.todo \ {j}}],
           bjAsked' = bjAsked \/ (bjAsked' = bjAsked \cup {j} /\ Persist(j, content)), bjFailing' = bjFailing,
           TaskAndFile(j)', HasTask(j)'
    PROVE  BacktestInv'
<1>1. content # Missing BY DEF Contents, Missing
<1>2. BacktestShape /\ OnlyOldFilesGo /\ ListInv BY DEF BacktestInv, BacktestShape
<1>3. ListInv' /\ bjFile' = [k \in Jobs |-> bjFile'[k]] /\ \A k \in Jobs : k # j => bjFile'[k] \in {bjFile[k], Missing}
  <2>1. CASE Persist(j, content) BY <1>1, <1>2, <2>1, Persisted
  <2>2. CASE UNCHANGED <<bjFile, bjRecent>> BY <1>2, <2>2 DEF ListInv, NoneTwice, BacktestShape
  <2> QED BY <2>1, <2>2
<1>4. bjFile'[j] \in Contents \cup {Missing, Torn}
  <2>1. CASE Persist(j, content) BY <1>1, <1>2, <2>1, Persisted
  <2>2. CASE UNCHANGED <<bjFile, bjRecent>> BY <1>2, <2>2 DEF BacktestShape
  <2> QED BY <2>1, <2>2
<1>5. bjFile' \in [Jobs -> Contents \cup {Missing, Torn}] BY <1>2, <1>3, <1>4 DEF BacktestShape
<1>6. bjProcess'.at = bjProcess.at /\ \A k \in Jobs : k # j => (k \in bjProcess'.todo <=> k \in bjProcess.todo) OBVIOUS
<1>7. bjProcess' \in [at : {"up", "down", "starting"}, todo : SUBSET Jobs] BY <1>2 DEF BacktestShape
<1>8. BacktestShape' BY <1>2, <1>3, <1>5, <1>6, <1>7 DEF BacktestShape
<1>9. OnlyOldFilesGo'
  <2>1. CASE Persist(j, content)
    <3> SUFFICES ASSUME NEW k \in bjAsked', bjFile'[k] = Missing PROVE Len(bjRecent') >= HistoryLimit
      BY DEF OnlyOldFilesGo
    <3>1. k \in Jobs BY <1>8 DEF BacktestShape
    <3>2. Len(bjRecent') >= HistoryLimit \/ (k # j /\ bjFile[k] = Missing /\ Len(bjRecent) < HistoryLimit)
      BY <1>1, <1>2, <2>1, <3>1, Persisted
    <3>3. Len(bjRecent) \in Nat /\ HistoryLimit \in Nat BY <1>2, BacktestAssumption DEF ListInv, NoneTwice
    <3>4. k # j => k \in bjAsked OBVIOUS
    <3> QED BY <1>2, <3>2, <3>3, <3>4 DEF OnlyOldFilesGo
  <2>2. CASE UNCHANGED <<bjFile, bjRecent>> /\ bjAsked' = bjAsked BY <1>2, <2>2 DEF OnlyOldFilesGo
  <2> QED BY <2>1, <2>2
<1>10. ASSUME NEW k \in Jobs, k # j PROVE TaskAndFile(k)' /\ HasTask(k)'
  <2>1. k # NoOne BY BacktestAssumption DEF NoOne
  <2>2. bjLoop' = k => bjLoop = k BY <1>10, <2>1
  <2>3. TaskAndFile(k) /\ HasTask(k) BY DEF BacktestInv
  <2>4. k \in bjAsked' <=> k \in bjAsked BY <1>10
  <2>5. bjFile'[k] \in {bjFile[k], Missing} BY <1>3, <1>10
  <2> QED BY <1>6, <1>10, <2>2, <2>3, <2>4, <2>5, OtherJobs
<1> QED BY <1>8, <1>9, <1>10 DEF BacktestInv

(* The invariant holds when no job was asked for. *)
LEMMA BacktestInit == BjInit => BacktestInv
<1> SUFFICES ASSUME BjInit PROVE BacktestInv
  OBVIOUS
<1>1. Missing.status = "MISSING" /\ "MISSING" \notin Unfinished BY DEF Missing, Unfinished
<1>2. NoTask \in Tasks /\ NoTask.at = "none" BY DEF NoTask, Tasks
<1>3. ListInv
  <2>1. <<>> \in Seq(Jobs) /\ Len(<<>>) = 0 /\ ToSet(<<>>) = {} BY DEF ToSet
  <2>2. NoneTwice(<<>>) BY <2>1 DEF NoneTwice
  <2> QED BY <2>1, <2>2 DEF ListInv, BjInit
<1>4. BacktestShape BY <1>2, <1>3 DEF BacktestShape, BjInit
<1>5. OnlyOldFilesGo BY DEF OnlyOldFilesGo, BjInit
<1>6. ASSUME NEW j \in Jobs PROVE TaskAndFile(j) /\ HasTask(j)
  <2>1. bjFile[j] = Missing /\ bjTask[j] = NoTask /\ bjLoop # j /\ bjProcess.at = "up"
    BY BacktestAssumption DEF BjInit, NoOne
  <2> QED BY <1>1, <1>2, <2>1 DEF TaskAndFile, HasTask, AtWork
<1> QED BY <1>4, <1>5, <1>6 DEF BacktestInv

(* What the invariant says of one job, for the steps that follow. *)
LEMMA JobFacts ==
    ASSUME BacktestInv, NEW j \in Jobs
    PROVE  /\ TaskAndFile(j) /\ HasTask(j) /\ ListInv /\ bjTask \in [Jobs -> Tasks] /\ bjTask[j] \in Tasks
           /\ bjFile[j] \in Contents \cup {Missing, Torn} /\ bjRedone \in [Jobs -> BOOLEAN] /\ j # NoOne
           /\ bjProcess \in [at : {bjProcess.at}, todo : {bjProcess.todo, bjProcess.todo \ {j}}]
           /\ Missing.status = "MISSING" /\ Torn.status = "TORN" /\ \A c \in Contents : c # Missing /\ c # Torn
<1>1. \A c \in Contents : c # Missing /\ c # Torn BY DEF Contents, Missing, Torn
<1>2. Missing.status = "MISSING" /\ Torn.status = "TORN" BY DEF Missing, Torn
<1>3. j # NoOne BY BacktestAssumption DEF NoOne
<1>4. bjProcess \in [at : {bjProcess.at}, todo : {bjProcess.todo, bjProcess.todo \ {j}}] BY DEF BacktestInv, BacktestShape
<1> QED BY <1>1, <1>2, <1>3, <1>4 DEF BacktestInv, BacktestShape

(* A job is asked for. *)
LEMMA EnqueueKeeps ==
    ASSUME BacktestInv, NEW j \in Jobs, EnqueueJob(j)
    PROVE  BacktestInv'
<1> DEFINE task == [NoTask EXCEPT !.at = "created"]
<1>1. task \in Tasks /\ task.at = "created" BY DEF NoTask, Tasks
<1>2. Queued \in Contents /\ Queued.status = "QUEUED" /\ Queued.found = 0 BY DEF Queued, Contents
<1>3. /\ Persist(j, Queued) /\ bjTask' = [bjTask EXCEPT ![j] = task] /\ bjAsked' = bjAsked \cup {j}
      /\ UNCHANGED <<bjLoop, bjProcess, bjRedone, bjFailing>> /\ bjProcess.at = "up" /\ bjLoop = NoOne
  BY DEF EnqueueJob, Serving
<1> HIDE DEF task
<1>4. bjTask' \in [Jobs -> Tasks] /\ bjTask'[j] = task /\ \A k \in Jobs : k # j => bjTask'[k] = bjTask[k]
  BY <1>1, <1>3, JobFacts
<1>5. bjFile'[j] = Queued BY <1>2, <1>3, JobFacts, Persisted
<1>6. TaskAndFile(j)' BY <1>1, <1>2, <1>4, <1>5 DEF TaskAndFile, AtWork
<1>7. HasTask(j)' BY <1>1, <1>3, <1>4, JobFacts DEF HasTask
<1> QED BY <1>2, <1>3, <1>4, <1>6, <1>7, JobFacts, OneJob

(* A task begins, or finds no file. *)
LEMMA BeginKeeps ==
    ASSUME BacktestInv, NEW j \in Jobs, BeginRun(j)
    PROVE  BacktestInv'
<1>1. /\ bjProcess.at = "up" /\ bjLoop = NoOne /\ bjTask[j].at = "created" /\ bjFile[j].status \in {"QUEUED", "MISSING"}
      /\ ~bjRedone[j] => bjFile[j].found = 0
      /\ UNCHANGED <<bjProcess, bjAsked, bjRedone, bjFailing>>
  BY JobFacts DEF BeginRun, Free, TaskAndFile, bjRest
<1>2. j \in bjAsked BY <1>1, JobFacts DEF HasTask
<1>3. CASE bjFile[j] = Missing
  <2> DEFINE task == [bjTask[j] EXCEPT !.at = "ended"]
  <2>1. task \in Tasks /\ task.at = "ended" BY JobFacts DEF Tasks
  <2>2. UNCHANGED <<bjFile, bjRecent, bjLoop>> /\ bjTask' = [bjTask EXCEPT ![j] = task] BY <1>3 DEF BeginRun
  <2> HIDE DEF task
  <2>3. bjTask' \in [Jobs -> Tasks] /\ bjTask'[j] = task /\ \A k \in Jobs : k # j => bjTask'[k] = bjTask[k]
    BY <2>1, <2>2, JobFacts
  <2>4. TaskAndFile(j)' BY <1>1, <1>3, <2>1, <2>2, <2>3, JobFacts DEF TaskAndFile, AtWork
  <2>5. HasTask(j)' BY <1>1, <1>2, <2>1, <2>2, <2>3, JobFacts DEF HasTask
  <2>6. Queued \in Contents BY DEF Queued, Contents
  <2> QED BY <1>1, <2>2, <2>3, <2>4, <2>5, <2>6, JobFacts, OneJob
<1>4. CASE bjFile[j] # Missing
  <2> DEFINE running == [bjFile[j] EXCEPT !.status = "RUNNING"]
             task == [at |-> "chunks", chunk |-> 1, nth |-> 0, payload |-> running]
  <2>1. bjFile[j] \in Contents BY <1>1, <1>4, JobFacts
  <2>2. running \in Contents /\ running.status = "RUNNING" /\ running.found = bjFile[j].found BY <2>1 DEF Contents
  <2>3. Persist(j, running) /\ bjTask' = [bjTask EXCEPT ![j] = task] /\ bjLoop' = j BY <1>4 DEF BeginRun
  <2> HIDE DEF running
  <2>4. task \in Tasks /\ task.at = "chunks" /\ task.nth = 0 /\ task.payload = running BY <2>2 DEF Tasks, AtWork
  <2> HIDE DEF task
  <2>5. bjTask' \in [Jobs -> Tasks] /\ bjTask'[j] = task /\ \A k \in Jobs : k # j => bjTask'[k] = bjTask[k]
    BY <2>3, <2>4, JobFacts
  <2>6. bjFile'[j] = running BY <2>2, <2>3, JobFacts, Persisted
  <2>7. TaskAndFile(j)' BY <1>1, <2>2, <2>4, <2>5, <2>6 DEF TaskAndFile, AtWork
  <2>8. HasTask(j)' BY <1>1, <1>2, <2>2, <2>4, <2>5, <2>6 DEF HasTask, Unfinished
  <2> QED BY <1>1, <2>2, <2>3, <2>5, <2>7, <2>8, JobFacts, OneJob
<1> QED BY <1>3, <1>4

(* A job at work goes on, with a write of what it holds or without one. *)
LEMMA WorkKeeps ==
    ASSUME BacktestInv, NEW j \in Jobs, NEW task \in Tasks, bjTask[j].at \in AtWork, task.at \in AtWork,
           bjTask' \in [Jobs -> Tasks], bjTask'[j] = task, \A k \in Jobs : k # j => bjTask'[k] = bjTask[k],
           task.payload \in Contents, task.payload.status = "RUNNING",
           task.nth > 0 => task.payload.profiles = task.nth, ~bjRedone[j] => task.payload.found = task.nth,
           task.at # "replay" => task.nth = 0,
           Persist(j, task.payload) \/ UNCHANGED <<bjFile, bjRecent>>,
           bjLoop' = IF task.at = "fetching" THEN NoOne ELSE j,
           bjProcess.at = "up", UNCHANGED <<bjProcess, bjRest>>
    PROVE  BacktestInv'
<1>1. bjFile'[j].status \in {"RUNNING", "MISSING"} /\ bjFile'[j].status # "COMPLETED"
  <2>1. CASE Persist(j, task.payload) BY <2>1, JobFacts, Persisted
  <2>2. CASE UNCHANGED <<bjFile, bjRecent>> BY <2>2, JobFacts DEF TaskAndFile
  <2> QED BY <2>1, <2>2
<1>2. UNCHANGED <<bjAsked, bjRedone, bjFailing>> BY DEF bjRest
<1>3. TaskAndFile(j)' BY <1>1, <1>2, JobFacts DEF TaskAndFile, AtWork
<1>4. j \in bjAsked BY JobFacts DEF HasTask, AtWork
<1>5. HasTask(j)' BY <1>2, <1>4, JobFacts DEF HasTask, AtWork
<1> QED BY <1>2, <1>3, <1>5, JobFacts, OneJob

(* A job ends: its last write says so, and its task goes. *)
LEMMA EndKeeps ==
    ASSUME BacktestInv, NEW j \in Jobs, NEW content \in Contents, bjTask[j].at \in AtWork,
           content.status \in Final, Persist(j, content),
           content.status = "COMPLETED" /\ j \in Compare /\ ~bjRedone[j] =>
             content.found = NumProfiles /\ content.profiles = NumProfiles,
           bjTask' = [bjTask EXCEPT ![j] = NoTask], bjLoop' = NoOne,
           bjProcess.at = "up", UNCHANGED <<bjProcess, bjRest>>
    PROVE  BacktestInv'
<1>1. NoTask \in Tasks /\ NoTask.at = "none" BY DEF NoTask, Tasks
<1>2. bjTask' \in [Jobs -> Tasks] /\ bjTask'[j] = NoTask /\ \A k \in Jobs : k # j => bjTask'[k] = bjTask[k]
  BY <1>1, JobFacts
<1>3. bjFile'[j] = content BY JobFacts, Persisted
<1>4. UNCHANGED <<bjAsked, bjRedone, bjFailing>> BY DEF bjRest
<1>5. TaskAndFile(j)' BY <1>1, <1>2, <1>3, <1>4 DEF TaskAndFile, AtWork
<1>6. j \in bjAsked BY JobFacts DEF HasTask, AtWork
<1>7. HasTask(j)' BY <1>1, <1>2, <1>3, <1>4, <1>6, JobFacts DEF HasTask, Final, Unfinished
<1> QED BY <1>2, <1>4, <1>5, <1>7, JobFacts, OneJob

(* A step of a task. *)
LEMMA StepKeeps ==
    ASSUME BacktestInv, NEW j \in Jobs, StepJob(j)
    PROVE  BacktestInv'
<1> DEFINE now == bjTask[j]
<1>1. now \in Tasks /\ bjTask \in [Jobs -> Tasks] /\ TaskAndFile(j) /\ HasTask(j) BY JobFacts
<1>2. bjLoop = j => bjProcess.at = "up" BY JobFacts DEF BacktestInv, BacktestShape
<1>3. now.at \in AtWork =>
        /\ now.payload \in Contents /\ now.payload.status = "RUNNING"
        /\ now.nth > 0 => now.payload.profiles = now.nth
        /\ ~bjRedone[j] => now.payload.found = now.nth
        /\ now.at # "replay" => now.nth = 0
  BY <1>1 DEF TaskAndFile
<1>4. CASE BeginRun(j) BY <1>4, BeginKeeps
<1>5. CASE NextChunk(j)
  <2>1. bjLoop = j /\ now.at = "chunks" /\ now.nth = 0 /\ UNCHANGED <<bjProcess, bjRest>> BY <1>3, <1>5 DEF NextChunk, AtWork
  <2>2. ASSUME NEW task \in Tasks, task.at \in AtWork, task.nth = 0, task.payload = now.payload, bjTask' = [bjTask EXCEPT ![j] = task],
               Persist(j, now.payload) \/ UNCHANGED <<bjFile, bjRecent>>,
               bjLoop' = IF task.at = "fetching" THEN NoOne ELSE j
        PROVE  BacktestInv'
    <3>1. bjTask' \in [Jobs -> Tasks] /\ bjTask'[j] = task /\ \A k \in Jobs : k # j => bjTask'[k] = bjTask[k]
      BY <1>1, <2>2
    <3>2. bjTask[j].at \in AtWork /\ bjProcess.at = "up" BY <1>2, <2>1 DEF AtWork
    <3>3. task.payload \in Contents /\ task.payload.status = "RUNNING" /\ (~bjRedone[j] => task.payload.found = task.nth)
      BY <1>3, <2>1, <2>2, <3>2
    <3>4. Persist(j, task.payload) \/ UNCHANGED <<bjFile, bjRecent>> BY <2>2
    <3> HIDE DEF now
    <3> QED BY <2>1, <2>2, <3>1, <3>2, <3>3, <3>4, WorkKeeps
  <2>3. now.chunk \in Nat /\ now.chunk + 1 \in Nat BY <1>1 DEF Tasks
  <2>4. CASE now.chunk > NumChunks
    <3> DEFINE task == [now EXCEPT !.at = "replay"]
    <3>1. task \in Tasks /\ task.at = "replay" /\ task.nth = now.nth /\ task.payload = now.payload BY <1>1 DEF Tasks, AtWork
    <3>2. Persist(j, now.payload) /\ bjLoop' = j /\ bjTask' = [bjTask EXCEPT ![j] = task] BY <1>5, <2>1, <2>4 DEF NextChunk
    <3> HIDE DEF task
    <3> QED BY <2>1, <2>2, <3>1, <3>2 DEF AtWork
  <2>5. CASE ~(now.chunk > NumChunks) /\ now.chunk \in bjChunks
    <3> DEFINE task == [now EXCEPT !.chunk = @ + 1]
    <3>1. task \in Tasks /\ task.at = now.at /\ task.nth = now.nth /\ task.payload = now.payload BY <1>1, <2>3 DEF Tasks
    <3>2. Persist(j, now.payload) /\ bjLoop' = j /\ bjTask' = [bjTask EXCEPT ![j] = task] BY <1>5, <2>1, <2>5 DEF NextChunk
    <3> HIDE DEF task
    <3> QED BY <2>1, <2>2, <3>1, <3>2 DEF AtWork
  <2>6. CASE ~(now.chunk > NumChunks) /\ now.chunk \notin bjChunks
    <3> DEFINE task == [now EXCEPT !.at = "fetching"]
    <3>1. task \in Tasks /\ task.at = "fetching" /\ task.nth = now.nth /\ task.payload = now.payload BY <1>1 DEF Tasks, AtWork
    <3>2. UNCHANGED <<bjFile, bjRecent>> /\ bjLoop' = NoOne /\ bjTask' = [bjTask EXCEPT ![j] = task] BY <1>5, <2>6 DEF NextChunk
    <3> HIDE DEF task
    <3> QED BY <2>1, <2>2, <3>1, <3>2 DEF AtWork
  <2> QED BY <2>4, <2>5, <2>6
<1>6. CASE ChunkFetched(j)
  <2> DEFINE task == [now EXCEPT !.at = "chunks", !.chunk = now.chunk + 1]
  <2>1. now.at = "fetching" /\ bjProcess.at = "up" /\ bjLoop' = j /\ UNCHANGED <<bjProcess, bjRest>> /\ Persist(j, now.payload)
    BY <1>6 DEF ChunkFetched, Free
  <2>2. task \in Tasks /\ task.at = "chunks" /\ task.nth = now.nth /\ task.payload = now.payload
    <3>1. now.chunk + 1 \in Nat BY <1>1 DEF Tasks
    <3> QED BY <1>1, <3>1 DEF Tasks, AtWork
  <2>3. bjTask' = [bjTask EXCEPT ![j] = task] BY <1>1, <1>6 DEF ChunkFetched, Tasks
  <2> HIDE DEF task
  <2>4. bjTask' \in [Jobs -> Tasks] /\ bjTask'[j] = task /\ \A k \in Jobs : k # j => bjTask'[k] = bjTask[k]
    BY <1>1, <2>2, <2>3
  <2>5. now.at \in AtWork /\ now.nth = 0 BY <1>3, <2>1 DEF AtWork
  <2>6. now = bjTask[j] OBVIOUS
  <2> HIDE DEF now
  <2> QED BY <1>3, <2>1, <2>2, <2>4, <2>5, <2>6, WorkKeeps DEF AtWork
<1>7. CASE RunFails(j)
  <2> DEFINE base == IF bjFile[j] = Missing THEN bjTask[j].payload ELSE bjFile[j]
             content == [base EXCEPT !.status = "FAILED"]
  <2>1. now.at \in AtWork /\ bjProcess.at = "up" /\ bjLoop' = NoOne /\ UNCHANGED <<bjProcess, bjRest>>
        /\ bjTask' = [bjTask EXCEPT ![j] = NoTask] /\ Persist(j, content)
    BY <1>1, <1>2, <1>7 DEF RunFails, Free, AtWork, HasTask
  <2>2. base \in Contents
    <3>1. now.at \in AtWork BY <2>1
    <3>2. bjFile[j].status \in {"RUNNING", "MISSING"} BY <1>1, <3>1 DEF TaskAndFile
    <3> QED BY <1>3, <3>1, <3>2, JobFacts
  <2> HIDE DEF base
  <2>3. content \in Contents /\ content.status = "FAILED" BY <2>2 DEF Contents
  <2> HIDE DEF content
  <2>4. bjTask[j].at \in AtWork /\ content.status \in Final BY <2>1, <2>3 DEF Final
  <2> QED BY <2>1, <2>3, <2>4, EndKeeps
<1>8. CASE ReplayProfile(j)
  <2> DEFINE payload == [now.payload EXCEPT !.found = @ + 1, !.profiles = now.nth + 1]
             task == [now EXCEPT !.payload = payload, !.nth = @ + 1]
  <2>1. bjLoop = j /\ now.at = "replay" /\ UNCHANGED <<bjLoop, bjProcess, bjRest>> /\ Persist(j, payload)
        /\ bjTask' = [bjTask EXCEPT ![j].payload = payload, ![j].nth = @ + 1]
    BY <1>8 DEF ReplayProfile
  <2>2. now.payload \in Contents /\ now.payload.status = "RUNNING" /\ now.nth \in Nat BY <1>1, <1>3, <2>1 DEF AtWork, Tasks
  <2>3. payload \in Contents /\ payload.status = "RUNNING" /\ payload.profiles = now.nth + 1 /\ payload.found = now.payload.found + 1
    <3>1. now.payload.found + 1 \in Nat /\ now.nth + 1 \in Nat BY <2>2 DEF Contents
    <3> QED BY <2>2, <3>1 DEF Contents
  <2> HIDE DEF payload
  <2>4. task \in Tasks /\ task.at = "replay" /\ task.nth = now.nth + 1 /\ task.payload = payload
    BY <1>1, <2>1, <2>3 DEF Tasks
  <2>5. bjTask' = [bjTask EXCEPT ![j] = task] BY <1>1, <2>1 DEF Tasks
  <2> HIDE DEF task
  <2>6. bjTask' \in [Jobs -> Tasks] /\ bjTask'[j] = task /\ \A k \in Jobs : k # j => bjTask'[k] = bjTask[k]
    BY <1>1, <2>4, <2>5
  <2>7. ~bjRedone[j] => task.payload.found = task.nth BY <1>3, <2>1, <2>3, <2>4 DEF AtWork
  <2>8. bjTask[j].at \in AtWork /\ task.at \in AtWork BY <2>1, <2>4 DEF AtWork
  <2> QED BY <1>2, <2>1, <2>3, <2>4, <2>6, <2>7, <2>8, WorkKeeps
<1>9. CASE CompleteRun(j)
  <2> DEFINE found == IF j \in Compare THEN now.payload.found ELSE 1
             content == [now.payload EXCEPT !.status = "COMPLETED", !.found = found]
  <2>1. bjLoop = j /\ now.at = "replay" /\ (j \in Compare => now.nth = NumProfiles) /\ bjLoop' = NoOne
        /\ UNCHANGED <<bjProcess, bjRest>> /\ bjTask' = [bjTask EXCEPT ![j] = NoTask] /\ Persist(j, content)
    BY <1>9 DEF CompleteRun
  <2>2. now.payload \in Contents /\ NumProfiles \in Nat \ {0} /\ now.at \in AtWork
    BY <1>3, <2>1, BacktestAssumption DEF AtWork
  <2>3. content \in Contents /\ content.status = "COMPLETED" /\ content.profiles = now.payload.profiles
        /\ (j \in Compare => content.found = now.payload.found)
    <3>1. found \in Nat /\ (j \in Compare => found = now.payload.found) BY <2>2 DEF Contents
    <3> HIDE DEF found
    <3> QED BY <2>2, <3>1 DEF Contents
  <2> HIDE DEF content
  <2>4. j \in Compare /\ ~bjRedone[j] => content.found = NumProfiles /\ content.profiles = NumProfiles
    BY <1>3, <2>1, <2>2, <2>3
  <2>5. content.status \in Final BY <2>3 DEF Final
  <2> QED BY <1>2, <2>1, <2>2, <2>3, <2>4, <2>5, EndKeeps
<1> QED BY <1>4, <1>5, <1>6, <1>7, <1>8, <1>9 DEF StepJob

(* The process dies, with a write that it had begun cut off or not. *)
LEMMA DeathKeeps ==
    ASSUME BacktestInv, ProcessDies
    PROVE  BacktestInv'
<1>1. BacktestShape /\ OnlyOldFilesGo /\ ListInv BY DEF BacktestInv, BacktestShape
<1>2. /\ \A j \in Jobs : bjTask'[j] = NoTask
      /\ bjTask' \in [Jobs -> Tasks] /\ NoTask.at = "none" /\ bjLoop' = NoOne /\ bjProcess' = [at |-> "down", todo |-> {}]
      /\ UNCHANGED bjRedone /\ bjFailing' = FALSE
  <2>1. NoTask \in Tasks /\ NoTask.at = "none" BY DEF NoTask, Tasks
  <2> QED BY <2>1 DEF ProcessDies
<1>3. ASSUME ListInv', bjFile' \in [Jobs -> Contents \cup {Missing, Torn}], Len(bjRecent') >= Len(bjRecent), Len(bjRecent') \in Nat,
             bjAsked \subseteq bjAsked', bjAsked' \subseteq Jobs, \A j \in bjAsked' \ bjAsked : bjFile'[j] = Torn,
             \A j \in Jobs : bjFile'[j] = bjFile[j] \/ (bjFile'[j] = Torn /\ j \in bjAsked')
      PROVE  BacktestInv'
  <2>1. BacktestShape' BY <1>1, <1>2, <1>3 DEF BacktestShape
  <2>2. OnlyOldFilesGo'
    <3>1. Torn # Missing /\ Len(bjRecent) \in Nat /\ HistoryLimit \in Nat
      BY <1>1, BacktestAssumption DEF Torn, Missing, ListInv, NoneTwice
    <3> SUFFICES ASSUME NEW j \in bjAsked', bjFile'[j] = Missing PROVE Len(bjRecent') >= HistoryLimit
      BY DEF OnlyOldFilesGo
    <3>2. j \in Jobs /\ j \in bjAsked BY <1>1, <1>3, <3>1 DEF BacktestShape
    <3>3. Len(bjRecent) >= HistoryLimit BY <1>1, <1>3, <3>1, <3>2 DEF OnlyOldFilesGo
    <3> QED BY <1>3, <3>1, <3>3
  <2>3. ASSUME NEW j \in Jobs PROVE TaskAndFile(j)' /\ HasTask(j)'
    <3>1. TaskAndFile(j) /\ HasTask(j) /\ j # NoOne /\ Torn.status = "TORN" BY JobFacts
    <3>2. bjFile'[j].status = "COMPLETED" => bjFile'[j] = bjFile[j] BY <1>3, <3>1
    <3>3. TaskAndFile(j)' BY <1>2, <3>1, <3>2 DEF TaskAndFile, AtWork
    <3>4. HasTask(j)' BY <1>2, <1>3, <3>1 DEF HasTask
    <3> QED BY <3>3, <3>4
  <2> QED BY <2>1, <2>2, <2>3 DEF BacktestInv
<1>4. CASE UNCHANGED <<bjFile, bjRecent>>
  <2>1. Len(bjRecent) \in Nat BY <1>1 DEF ListInv, NoneTwice
  <2>2. ListInv' BY <1>1, <1>4 DEF ListInv, NoneTwice
  <2>3. bjFile' \in [Jobs -> Contents \cup {Missing, Torn}] BY <1>1, <1>4 DEF BacktestShape
  <2>4. Len(bjRecent') >= Len(bjRecent) /\ Len(bjRecent') \in Nat BY <1>4, <2>1
  <2>5. bjAsked' = bjAsked /\ bjAsked \subseteq Jobs
    <3>1. CASE UNCHANGED bjAsked BY <1>1, <3>1 DEF BacktestShape
    <3>2. ASSUME NEW j \in Jobs, AboutToWrite(j), bjFile' = [bjFile EXCEPT ![j] = Torn], bjAsked' = bjAsked \cup {j} PROVE bjAsked' = bjAsked
      <4>1. bjFile[j] = Torn BY <1>1, <1>4, <3>2 DEF BacktestShape
      <4>2. bjFile[j] # Missing BY <4>1 DEF Torn, Missing
      <4> QED BY <3>2, <4>2, JobFacts DEF HasTask
    <3> QED BY <1>1, <3>1, <3>2 DEF ProcessDies, BacktestShape
  <2> QED BY <1>3, <1>4, <2>2, <2>3, <2>4, <2>5
<1>5. ASSUME NEW j \in Jobs, AboutToWrite(j), bjFile' = [bjFile EXCEPT ![j] = Torn], bjRecent' = <<j>> \o RemoveFirst(bjRecent, j), bjAsked' = bjAsked \cup {j}
      PROVE  BacktestInv'
  <2>1. /\ NoneTwice(bjRecent') /\ ToSet(bjRecent') = ToSet(bjRecent) \cup {j}
        /\ Len(bjRecent') = IF j \in ToSet(bjRecent) THEN Len(bjRecent) ELSE Len(bjRecent) + 1
    BY <1>1, <1>5, ToTheFront DEF ListInv
  <2>2. Len(bjRecent) \in Nat BY <1>1 DEF ListInv, NoneTwice
  <2>3. Len(bjRecent') >= Len(bjRecent) /\ Len(bjRecent') \in Nat BY ONLY <2>1, <2>2
  <2>4. bjFile' \in [Jobs -> Contents \cup {Missing, Torn}] /\ \A k \in Jobs : bjFile'[k] = IF k = j THEN Torn ELSE bjFile[k]
    BY <1>1, <1>5 DEF BacktestShape
  <2>5. Torn # Missing BY DEF Torn, Missing
  <2>6. ListInv' BY <1>1, <2>1, <2>4, <2>5 DEF ListInv
  <2>7. bjAsked \subseteq bjAsked' /\ bjAsked' \subseteq Jobs /\ j \in bjAsked' /\ \A k \in bjAsked' \ bjAsked : k = j
    BY <1>1, <1>5 DEF BacktestShape
  <2> QED BY <1>3, <2>3, <2>4, <2>6, <2>7
<1> QED BY <1>4, <1>5 DEF ProcessDies

(* A start-up forgets the oldest files, and has all others before it. *)
LEMMA StartKeeps ==
    ASSUME BacktestInv, StartProcess
    PROVE  BacktestInv'
<1>1. BacktestShape /\ OnlyOldFilesGo /\ ListInv /\ bjLoop = NoOne BY DEF BacktestInv, BacktestShape, StartProcess
<1>2. /\ bjRecent' = Kept(bjRecent) /\ bjProcess' = [at |-> "starting", todo |-> ToSet(bjRecent')]
      /\ UNCHANGED <<bjTask, bjLoop, bjAsked, bjRedone, bjFailing>> /\ bjProcess.at = "down"
  BY DEF StartProcess, bjRest
<1>3. /\ NoneTwice(bjRecent') /\ ToSet(bjRecent') \subseteq ToSet(bjRecent)
      /\ Len(bjRecent') = IF Len(bjRecent) < HistoryLimit THEN Len(bjRecent) ELSE HistoryLimit
      /\ Len(bjRecent) <= HistoryLimit => bjRecent' = bjRecent
  BY <1>1, <1>2, KeptOnes DEF ListInv
<1>4. \A j \in Jobs : bjFile'[j] = IF j \in ToSet(bjRecent') THEN bjFile[j] ELSE Missing BY DEF StartProcess
<1>5. bjFile' \in [Jobs -> Contents \cup {Missing, Torn}] BY <1>1 DEF StartProcess, BacktestShape
<1>6. ListInv' BY <1>1, <1>3, <1>4 DEF ListInv
<1>7. ToSet(bjRecent') \subseteq Jobs
  <2>1. bjRecent' \in Seq(Jobs) BY <1>3 DEF NoneTwice
  <2>2. \A i \in DOMAIN bjRecent' : bjRecent'[i] \in Jobs BY <2>1
  <2> QED BY <2>2 DEF ToSet
<1>8. BacktestShape' BY <1>1, <1>2, <1>5, <1>6, <1>7 DEF BacktestShape
<1>9. OnlyOldFilesGo'
  <2>1. Len(bjRecent) \in Nat /\ HistoryLimit \in Nat BY <1>1, BacktestAssumption DEF ListInv, NoneTwice
  <2> SUFFICES ASSUME NEW j \in bjAsked, bjFile'[j] = Missing PROVE Len(bjRecent') >= HistoryLimit
    BY <1>2 DEF OnlyOldFilesGo
  <2>2. j \in Jobs BY <1>1 DEF BacktestShape
  <2>3. CASE Len(bjRecent) < HistoryLimit
    <3>1. bjRecent' = bjRecent BY <1>3, <2>1, <2>3
    <3>2. bjFile[j] = Missing BY <1>1, <1>4, <2>2, <3>1 DEF ListInv
    <3> QED BY <1>1, <3>1, <3>2 DEF OnlyOldFilesGo
  <2>4. CASE ~(Len(bjRecent) < HistoryLimit) BY <1>3, <2>1, <2>4
  <2> QED BY <2>3, <2>4
<1>10. ASSUME NEW j \in Jobs PROVE TaskAndFile(j)' /\ HasTask(j)'
  <2>1. TaskAndFile(j) /\ HasTask(j) /\ j # NoOne /\ Missing.status = "MISSING" /\ "MISSING" \notin Unfinished
    BY JobFacts DEF Unfinished
  <2>2. bjTask[j].at = "none" BY <1>2, <2>1 DEF HasTask
  <2>3. bjFile'[j] \in {bjFile[j], Missing} BY <1>4
  <2>4. TaskAndFile(j)' BY <1>2, <2>1, <2>2, <2>3 DEF TaskAndFile, AtWork
  <2>5. j \notin ToSet(bjRecent') => bjFile'[j] = Missing BY <1>4
  <2>6. HasTask(j)' BY <1>1, <1>2, <2>1, <2>2, <2>3, <2>5 DEF HasTask
  <2> QED BY <2>4, <2>6
<1> QED BY <1>8, <1>9, <1>10 DEF BacktestInv

(* A start-up looks at a file. *)
LEMMA LookKeeps ==
    ASSUME BacktestInv, NEW j \in Jobs, LookAt(j)
    PROVE  BacktestInv'
<1>1. BacktestShape /\ OnlyOldFilesGo /\ ListInv /\ bjLoop = NoOne BY DEF BacktestInv, BacktestShape, LookAt
<1>2. bjProcess.at = "starting" /\ j \in bjProcess.todo /\ UNCHANGED <<bjLoop, bjAsked>> BY DEF LookAt
<1>3. bjTask[j].at = "none" BY <1>2, JobFacts DEF HasTask
<1>4. CASE bjFile[j] = Torn
  <2>1. bjProcess' = [at |-> "up", todo |-> {}] /\ bjFailing' = TRUE /\ UNCHANGED <<bjFile, bjRecent, bjTask, bjRedone>>
    BY <1>4 DEF LookAt
  <2>2. ListInv' BY <1>1, <2>1 DEF ListInv, NoneTwice
  <2>3. BacktestShape' BY <1>1, <1>2, <2>1, <2>2 DEF BacktestShape
  <2>4. OnlyOldFilesGo' BY <1>1, <1>2, <2>1 DEF OnlyOldFilesGo
  <2>5. ASSUME NEW k \in Jobs PROVE TaskAndFile(k)' /\ HasTask(k)'
    <3>1. TaskAndFile(k) /\ HasTask(k) /\ k # NoOne BY JobFacts
    <3>2. TaskAndFile(k)' BY <2>1, <3>1 DEF TaskAndFile
    <3>3. HasTask(k)' BY <1>1, <1>2, <2>1, <3>1 DEF HasTask
    <3> QED BY <3>2, <3>3
  <2> QED BY <2>3, <2>4, <2>5 DEF BacktestInv
<1>5. CASE bjFile[j] # Torn
  <2>1. Resume(j) /\ UNCHANGED bjFailing /\ bjProcess' = [bjProcess EXCEPT !.todo = @ \ {j}] BY <1>5 DEF LookAt
  <2>2. bjProcess' \in [at : {bjProcess.at}, todo : {bjProcess.todo, bjProcess.todo \ {j}}] /\ bjProcess'.at = "starting"
        /\ j \notin bjProcess'.todo
    BY <1>1, <1>2, <2>1 DEF BacktestShape
  <2>3. Queued \in Contents BY DEF Queued, Contents
  <2>4. CASE bjFile[j].status \in Unfinished
    <3> DEFINE content == [bjFile[j] EXCEPT !.status = "QUEUED"]
               task == [bjTask[j] EXCEPT !.at = "created"]
    <3>1. bjFile[j] \in Contents BY <1>5, <2>4, JobFacts DEF Unfinished
    <3>2. content \in Contents /\ content.status = "QUEUED" /\ content.found = bjFile[j].found /\ bjFile[j].found \in Nat
      BY <3>1 DEF Contents
    <3>3. task \in Tasks /\ task.at = "created" BY JobFacts DEF Tasks
    <3>4. /\ Persist(j, content) /\ bjTask' = [bjTask EXCEPT ![j] = task]
          /\ bjRedone' = [bjRedone EXCEPT ![j] = @ \/ bjFile[j].found > 0]
      BY <2>1, <2>4 DEF Resume
    <3> HIDE DEF content, task
    <3>5. bjTask' \in [Jobs -> Tasks] /\ bjTask'[j] = task /\ \A k \in Jobs : k # j => bjTask'[k] = bjTask[k]
      BY <3>3, <3>4, JobFacts
    <3>6. /\ bjRedone' \in [Jobs -> BOOLEAN] /\ (~bjRedone'[j] => ~(bjFile[j].found > 0))
          /\ \A k \in Jobs : k # j => bjRedone'[k] = bjRedone[k]
      BY <3>4, JobFacts
    <3>7. bjFile'[j] = content BY <3>2, <3>4, JobFacts, Persisted
    <3>8. ~bjRedone'[j] => content.found = 0 BY <3>2, <3>6
    <3>9. TaskAndFile(j)' BY <3>2, <3>3, <3>5, <3>7, <3>8 DEF TaskAndFile, AtWork
    <3>10. j \in bjAsked
      <4>1. bjFile[j] # Missing BY <3>1, JobFacts
      <4> QED BY <4>1, JobFacts DEF HasTask
    <3>11. HasTask(j)' BY <1>1, <1>2, <2>2, <3>3, <3>5, <3>10, JobFacts DEF HasTask
    <3> QED BY <1>1, <1>2, <2>1, <2>2, <3>2, <3>4, <3>5, <3>6, <3>9, <3>11, OneJob
  <2>5. CASE bjFile[j].status \notin Unfinished
    <3>1. UNCHANGED <<bjFile, bjRecent, bjTask, bjRedone>> BY <2>1, <2>5 DEF Resume
    <3>2. TaskAndFile(j)' BY <3>1, JobFacts DEF TaskAndFile
    <3>3. HasTask(j)' BY <1>1, <1>2, <1>3, <2>2, <2>5, <3>1, JobFacts DEF HasTask
    <3> QED BY <1>1, <1>2, <2>1, <2>2, <2>3, <3>1, <3>2, <3>3, JobFacts, OneJob
  <2> QED BY <2>4, <2>5
<1> QED BY <1>4, <1>5

(* Every step keeps it. *)
LEMMA BacktestNext == BacktestInv /\ [BjNext]_bjVars => BacktestInv'
<1> SUFFICES ASSUME BacktestInv, [BjNext]_bjVars PROVE BacktestInv'
  OBVIOUS
<1>1. CASE UNCHANGED bjVars
  <2>1. BacktestShape' BY <1>1 DEF BacktestInv, BacktestShape, ListInv, NoneTwice, bjVars
  <2>2. OnlyOldFilesGo' BY <1>1 DEF BacktestInv, OnlyOldFilesGo, bjVars
  <2>3. \A j \in Jobs : TaskAndFile(j)' /\ HasTask(j)' BY <1>1 DEF BacktestInv, TaskAndFile, HasTask, bjVars
  <2> QED BY <2>1, <2>2, <2>3 DEF BacktestInv
<1>2. CASE Started
  <2>1. bjProcess.at = "starting" /\ bjProcess.todo = {} /\ bjProcess' = [at |-> "up", todo |-> {}]
        /\ UNCHANGED <<bjFile, bjRecent, bjTask, bjLoop, bjAsked, bjRedone, bjFailing>>
    BY <1>2 DEF Started, bjRest
  <2>2. BacktestShape' BY <2>1 DEF BacktestInv, BacktestShape, ListInv, NoneTwice
  <2>3. OnlyOldFilesGo' BY <2>1 DEF BacktestInv, OnlyOldFilesGo
  <2>4. ASSUME NEW j \in Jobs PROVE TaskAndFile(j)' /\ HasTask(j)'
    <3>1. TaskAndFile(j)' BY <2>1, JobFacts DEF TaskAndFile
    <3>2. HasTask(j)' BY <2>1, JobFacts DEF HasTask
    <3> QED BY <3>1, <3>2
  <2> QED BY <2>2, <2>3, <2>4 DEF BacktestInv
<1> QED BY <1>1, <1>2, EnqueueKeeps, StepKeeps, LookKeeps, DeathKeeps, StartKeeps DEF BjNext

(* BacktestJobService: an unfinished job that has a file has a task whenever *)
(* the process serves, a job loses its file to newer ones only, and  *)
(* a comparison that no restart redid counts each profile once.              *)
THEOREM JobsAreNotForgotten == BjSpec => [](UnfinishedHaveTasks /\ OnlyOldFilesGo /\ ReportAddsUp)
<1>1. BjInit => BacktestInv BY BacktestInit
<1>2. BacktestInv /\ [BjNext]_bjVars => BacktestInv' BY BacktestNext
<1>3. BacktestInv => UnfinishedHaveTasks /\ OnlyOldFilesGo /\ ReportAddsUp
  <2> SUFFICES ASSUME BacktestInv PROVE UnfinishedHaveTasks /\ OnlyOldFilesGo /\ ReportAddsUp
    OBVIOUS
  <2>1. ASSUME NEW j \in Jobs, Serving
        PROVE  /\ bjFile[j].status \in Unfinished => bjTask[j].at \notin {"none", "ended"}
               /\ bjFile[j].status \in Final => bjTask[j].at \in {"none", "ended"}
    <3>1. TaskAndFile(j) /\ HasTask(j) /\ bjTask[j] \in Tasks /\ Missing.status = "MISSING" BY JobFacts
    <3>2. bjTask[j].at \in AtWork \cup {"none", "created", "ended"} BY <3>1 DEF Tasks
    <3>3. bjFile[j].status \in Unfinished => bjTask[j].at \notin {"none", "ended"}
      BY <2>1, <3>1 DEF TaskAndFile, HasTask, Unfinished, Serving
    <3>4. bjFile[j].status \in Final => bjTask[j].at \in {"none", "ended"} BY <3>1, <3>2 DEF TaskAndFile, Final
    <3> QED BY <3>3, <3>4
  <2>2. UnfinishedHaveTasks BY <2>1 DEF UnfinishedHaveTasks
  <2>3. ReportAddsUp BY BacktestAssumption DEF BacktestInv, TaskAndFile, ReportAddsUp
  <2> QED BY <2>2, <2>3 DEF BacktestInv
<1> QED BY <1>1, <1>2, <1>3, PTL DEF BjSpec

(* What a step may do to a finished job. *)
LEMMA FinishedRest ==
    ASSUME BacktestInv, BjNext, NEW j \in Jobs, bjFile[j].status \in Final
    PROVE  bjFile'[j] \in {bjFile[j], Missing}
<1>1. bjTask[j].at \notin AtWork \cup {"created"} /\ bjLoop # j /\ bjFile[j] # Missing /\ j \in bjAsked
  BY JobFacts DEF TaskAndFile, HasTask, Final, AtWork
<1>2. ASSUME NEW k \in Jobs, k # j, NEW content, content # Missing, Persist(k, content) PROVE bjFile'[j] \in {bjFile[j], Missing}
  BY <1>2, JobFacts, Persisted
<1>3. ASSUME NEW k \in Jobs, EnqueueJob(k) PROVE bjFile'[j] \in {bjFile[j], Missing}
  <2>1. bjAsked = {i \in Jobs : i < k} /\ Persist(k, Queued) BY <1>3 DEF EnqueueJob
  <2>2. k # j BY <1>1, <2>1, BacktestAssumption
  <2>3. Queued # Missing BY DEF Queued, Missing
  <2> QED BY <1>2, <2>1, <2>2, <2>3
<1>4. ASSUME NEW k \in Jobs, StepJob(k) PROVE bjFile'[j] \in {bjFile[j], Missing}
  <2>1. k # j BY <1>1, <1>4 DEF StepJob, BeginRun, NextChunk, ChunkFetched, RunFails, ReplayProfile, CompleteRun, AtWork
  <2>2. UNCHANGED bjFile \/ \E content : Persist(k, content)
    BY <1>4 DEF StepJob, BeginRun, NextChunk, ChunkFetched, RunFails, ReplayProfile, CompleteRun
  <2>3. ASSUME NEW content, Persist(k, content) PROVE bjFile'[j] \in {bjFile[j], Missing}
    BY <2>1, <2>3 DEF Persist
  <2> QED BY <2>2, <2>3
<1>5. ASSUME NEW k \in Jobs, LookAt(k) PROVE bjFile'[j] \in {bjFile[j], Missing}
  <2>1. CASE UNCHANGED bjFile BY <2>1
  <2>2. ASSUME bjFile[k].status \in Unfinished, NEW content, Persist(k, content) PROVE bjFile'[j] \in {bjFile[j], Missing}
    <3>1. k # j BY <2>2 DEF Unfinished, Final
    <3> QED BY <2>2, <3>1 DEF Persist
  <2> QED BY <1>5, <2>1, <2>2 DEF LookAt, Resume
<1>6. CASE ProcessDies
  <2>1. ~AboutToWrite(j)
    <3>1. bjAsked # {k \in Jobs : k < j} BY <1>1, BacktestAssumption
    <3> QED BY <1>1, <3>1 DEF AboutToWrite, AtWork, Final, Unfinished
  <2> QED BY <1>6, <2>1, JobFacts DEF ProcessDies, BacktestInv, BacktestShape
<1>7. CASE StartProcess \/ Started BY <1>7 DEF StartProcess, Started
<1> QED BY <1>3, <1>4, <1>5, <1>6, <1>7 DEF BjNext

(* A finished job keeps its file as it is until newer ones push it out:      *)
(* nothing resumes it, writes it again or cuts such a write off.             *)
THEOREM FinishedJobsStay == BjSpec => FinishedStay
<1>1. BjInit => BacktestInv BY BacktestInit
<1>2. BacktestInv /\ [BjNext]_bjVars => BacktestInv' BY BacktestNext
<1>3. BacktestInv /\ [BjNext]_bjVars => [\A j \in Jobs : bjFile[j].status \in Final => bjFile'[j] \in {bjFile[j], Missing}]_bjVars
  BY FinishedRest
<1> QED BY <1>1, <1>2, <1>3, PTL DEF BjSpec, FinishedStay

-----------------------------------------------------------------------------
(* Releases: images reach the stable track through a green run, and a job   *)
(* that rolls back restores what it found.                                  *)

(* What a revision deploys, and what the cluster runs. *)
Image    == Digests \cup {NoImage}
Deployed == [stable : Image, canary : Image]
At  == Ended \cup {"new", "ready", "surveyed", "bootstrap", "match", "canary", "watch", "promote", "smoke", "monitor", "undo"}
Job == [at : At, target : Image, current : Image, before : Nat, was : Deployed, disturbed : BOOLEAN]

(* What entitles a job to its next operation: the image it would make stable *)
(* is vetted, and an undisturbed job finds the cluster as it left it.        *)
Entitled(job, live, judged, vetted) ==
    /\ job.at = "match" => job.target \in vetted
    /\ job.at = "canary" => job.current \in vetted
    /\ job.at = "watch" /\ ~job.disturbed => live.canary = job.target
    /\ job.at = "promote" /\ ~job.disturbed => job.target \in judged
    /\ job.at = "smoke" /\ ~job.disturbed => live.canary = NoImage

ReleaseShape ==
    /\ rlRevs \in Seq(Deployed) /\ rlLive \in Deployed
    /\ rlJob \in [Deploys -> Job]
    /\ \A j \in Deploys : rlJob[j].before <= Len(rlRevs)

ReleaseInv ==
    /\ ReleaseShape
    /\ rlLive.stable \in Vetted
    /\ \A i \in 1..Len(rlRevs) : rlRevs[i].stable \in Vetted
    /\ \A j \in Deploys : Entitled(rlJob[j], rlLive, rlJudged, Vetted)

(* A deployment that begins is a job. *)
LEMMA FreshIsAJob == Fresh \in Job
BY DEF Fresh, Job, At, Image, Nothing, Deployed

(* A job goes on: what it knew stays or is forgotten. *)
LEMMA MovedIsAJob ==
    ASSUME ReleaseShape, NEW j \in Deploys, NEW at \in At
    PROVE  /\ Moved(j, at) \in Job /\ Moved(j, at).at = at
           /\ Moved(j, at).before <= Len(rlRevs)
           /\ at \notin Ended => /\ Moved(j, at).target = rlJob[j].target
                                 /\ Moved(j, at).disturbed = rlJob[j].disturbed
<1>1. CASE at \in Ended
  <2>1. Moved(j, at) = [Fresh EXCEPT !.at = at] BY <1>1 DEF Moved
  <2>2. Fresh.before = 0 BY DEF Fresh
  <2>3. Len(rlRevs) \in Nat BY DEF ReleaseShape
  <2> QED BY <1>1, <2>1, <2>2, <2>3, FreshIsAJob DEF Job
<1>2. CASE at \notin Ended
  <2>1. Moved(j, at) = [rlJob[j] EXCEPT !.at = at] BY <1>2 DEF Moved
  <2>2. rlJob[j] \in Job /\ rlJob[j].before <= Len(rlRevs) BY DEF ReleaseShape
  <2> QED BY <2>1, <2>2 DEF Job
<1> QED BY <1>1, <1>2

(* An entitlement lasts while images are found healthy or excused.           *)
LEMMA EntitledLasts ==
    ASSUME NEW job, NEW live, NEW judged, NEW more, NEW vetted, NEW all,
           judged \subseteq more, vetted \subseteq all, Entitled(job, live, judged, vetted)
    PROVE  Entitled(job, live, more, all)
BY DEF Entitled

(* What a job is entitled to that another one disturbs does not depend on    *)
(* the cluster.                                                              *)
LEMMA EntitledDisturbed ==
    ASSUME NEW job \in Job, NEW live, NEW other, NEW judged, NEW more, NEW vetted, NEW all,
           judged \subseteq more, vetted \subseteq all, Entitled(job, live, judged, vetted)
    PROVE  Entitled([job EXCEPT !.disturbed = TRUE], other, more, all)
<1> DEFINE j2 == [job EXCEPT !.disturbed = TRUE]
<1>1. j2.at = job.at /\ j2.target = job.target /\ j2.current = job.current /\ j2.disturbed = TRUE BY DEF Job
<1> QED BY <1>1 DEF Entitled

(* An operation of Helm keeps the invariant when what it deploys is vetted   *)
(* and the job is entitled to what follows.                                  *)
LEMMA HelmKeepsInv ==
    ASSUME ReleaseInv, NEW j \in Deploys, NEW content \in Deployed, NEW well \in Job, NEW failing \in Job,
           Helm(j, content, well, failing),
           rlJudged' = rlJudged, rlExcused \subseteq rlExcused',
           content.stable \in Vetted',
           failing.at \in {"undo", "failed"}, Entitled(well, content, rlJudged, Vetted'),
           well.before <= Len(rlRevs), failing.before <= Len(rlRevs)
    PROVE  ReleaseInv'
<1>1. Vetted \subseteq Vetted' BY DEF Vetted
<1>2. \A live : Entitled(failing, live, rlJudged', Vetted') BY DEF Entitled
<1>3. rlJob \in [Deploys -> Job] /\ rlRevs \in Seq(Deployed) /\ rlLive \in Deployed /\ Len(rlRevs) \in Nat
      /\ \A k \in Deploys : rlJob[k].before <= Len(rlRevs)
  BY DEF ReleaseInv, ReleaseShape
<1>4. \A k \in Deploys : Entitled(rlJob[k], rlLive, rlJudged, Vetted) BY DEF ReleaseInv
<1>5. \A k \in Deploys : Entitled(rlJob[k], rlLive, rlJudged', Vetted')
  BY <1>1, <1>4, EntitledLasts
<1>6. rlLive.stable \in Vetted' BY <1>1 DEF ReleaseInv
<1>7. \A i \in 1..Len(rlRevs) : rlRevs[i].stable \in Vetted' BY <1>1 DEF ReleaseInv
<1>8. ASSUME rlRevs' = Append(rlRevs, content)
      PROVE  /\ rlRevs' \in Seq(Deployed) /\ Len(rlRevs') = Len(rlRevs) + 1
             /\ \A i \in 1..Len(rlRevs') : rlRevs'[i].stable \in Vetted'
  <2>1. rlRevs' \in Seq(Deployed) /\ Len(rlRevs') = Len(rlRevs) + 1 BY <1>3, <1>8
  <2>2. ASSUME NEW i \in 1..Len(rlRevs') PROVE rlRevs'[i].stable \in Vetted'
    <3>1. CASE i = Len(rlRevs) + 1 BY <1>3, <1>8, <3>1
    <3>2. CASE i \in 1..Len(rlRevs)
      <4>1. rlRevs'[i] = rlRevs[i] BY <1>3, <1>8, <3>2
      <4> QED BY <1>7, <3>2, <4>1
    <3> QED BY <1>3, <2>1, <3>1, <3>2
  <2> QED BY <2>1, <2>2
<1>9. ASSUME NEW job \in Job, rlJob' = WithJob(j, job), job.before <= Len(rlRevs), Len(rlRevs') = Len(rlRevs) + 1,
             Entitled(job, rlLive', rlJudged', Vetted')
      PROVE  /\ rlJob' \in [Deploys -> Job]
             /\ \A k \in Deploys : rlJob'[k].before <= Len(rlRevs') /\ Entitled(rlJob'[k], rlLive', rlJudged', Vetted')
  <2> DEFINE stirred(k) == [rlJob[k] EXCEPT !.disturbed = TRUE]
  <2>1. ASSUME NEW k \in Deploys
        PROVE  rlJob'[k] \in Job /\ rlJob'[k].before <= Len(rlRevs') /\ Entitled(rlJob'[k], rlLive', rlJudged', Vetted')
    <3>1. CASE k = j BY <1>3, <1>9, <3>1 DEF WithJob, Job
    <3>2. CASE k # j /\ Active(k)
      <4>1. rlJob'[k] = stirred(k) BY <1>9, <3>2 DEF WithJob
      <4>2. rlJob[k] \in Job BY <1>3
      <4>3. stirred(k) \in Job /\ stirred(k).before = rlJob[k].before BY <4>2 DEF Job
      <4>4. Entitled(stirred(k), rlLive', rlJudged', Vetted') BY <1>5, <4>2, EntitledDisturbed
      <4> QED BY <1>3, <1>9, <4>1, <4>2, <4>3, <4>4 DEF Job
    <3>3. CASE k # j /\ ~Active(k)
      <4>1. rlJob'[k] = rlJob[k] BY <1>9, <3>3 DEF WithJob
      <4>2. rlJob[k].at \in Ended \cup {"new"} BY <3>3 DEF Active
      <4>3. Entitled(rlJob[k], rlLive', rlJudged', Vetted') BY <4>2 DEF Entitled, Ended
      <4> QED BY <1>3, <1>9, <4>1, <4>3 DEF Job
    <3> QED BY <3>1, <3>2, <3>3
  <2>2. rlJob' = [k \in Deploys |-> rlJob'[k]] BY <1>9 DEF WithJob
  <2> QED BY <2>1, <2>2
<1>10. CASE rlRevs' = Append(rlRevs, content) /\ rlLive' = content /\ rlJob' = WithJob(j, well)
  BY <1>8, <1>9, <1>10 DEF ReleaseInv, ReleaseShape
<1>11. CASE rlRevs' = Append(rlRevs, content) /\ rlLive' \in {content, rlLive} /\ rlJob' = WithJob(j, failing)
  BY <1>2, <1>3, <1>6, <1>8, <1>9, <1>11 DEF ReleaseInv, ReleaseShape
<1>12. CASE UNCHANGED <<rlRevs, rlLive>> /\ rlJob' = [rlJob EXCEPT ![j] = failing]
  BY <1>2, <1>3, <1>5, <1>6, <1>7, <1>12 DEF ReleaseInv, ReleaseShape
<1> QED BY <1>10, <1>11, <1>12 DEF Helm

(* A step of one job that leaves the release alone. *)
LEMMA JobKeepsInv ==
    ASSUME ReleaseInv, NEW j \in Deploys, NEW job \in Job, job.before <= Len(rlRevs),
           rlJob' = [rlJob EXCEPT ![j] = job], UNCHANGED <<rlRevs, rlLive, rlExcused>>,
           rlJudged \subseteq rlJudged', Entitled(job, rlLive, rlJudged', Vetted')
    PROVE  ReleaseInv'
<1>1. Vetted \subseteq Vetted' BY DEF Vetted
<1>2. rlJob \in [Deploys -> Job] BY DEF ReleaseInv, ReleaseShape
<1>3. \A k \in Deploys : Entitled(rlJob[k], rlLive, rlJudged', Vetted')
  BY <1>1, EntitledLasts DEF ReleaseInv
<1>4. \A k \in Deploys : Entitled(rlJob'[k], rlLive', rlJudged', Vetted') BY <1>2, <1>3
<1>5. ReleaseShape' BY <1>2 DEF ReleaseInv, ReleaseShape
<1> QED BY <1>1, <1>4, <1>5 DEF ReleaseInv

(* The invariant holds when nothing was deployed. *)
LEMMA ReleaseInvInit == RlInit => ReleaseInv
<1> SUFFICES ASSUME RlInit PROVE ReleaseInv
  OBVIOUS
<1>1. FirstDigest \in Digests BY ReleasesAssumption
<1>2. rlLive \in Deployed /\ rlLive.stable \in Vetted BY <1>1 DEF RlInit, Nothing, Deployed, Image, Vetted
<1>3. rlRevs \in Seq(Deployed) /\ \A i \in 1..Len(rlRevs) : rlRevs[i] = rlLive
  <2>1. CASE rlLive = Nothing BY <2>1 DEF RlInit
  <2>2. CASE rlLive # Nothing BY <1>2, <2>2 DEF RlInit
  <2> QED BY <2>1, <2>2
<1>4. \A j \in Deploys : rlJob[j] = Fresh BY DEF RlInit
<1>5. Fresh.at = "new" /\ Fresh.before = 0 BY DEF Fresh
<1>6. ReleaseShape BY <1>2, <1>3, <1>4, <1>5, FreshIsAJob DEF ReleaseShape, RlInit
<1>7. \A j \in Deploys : Entitled(rlJob[j], rlLive, rlJudged, Vetted) BY <1>4, <1>5 DEF Entitled
<1> QED BY <1>2, <1>3, <1>6, <1>7 DEF ReleaseInv

(* One step of one job. *)
LEMMA ReleaseInvStart ==
    ASSUME ReleaseInv, NEW j \in Deploys, StartJob(j)
    PROVE  ReleaseInv'
<1>1. \A d \in Digests : [Fresh EXCEPT !.at = "ready", !.target = d] \in Job
  BY FreshIsAJob DEF Job, At, Image
<1>2. rlJob[j] \in Job /\ rlJob[j].before <= Len(rlRevs) /\ Len(rlRevs) \in Nat BY DEF ReleaseInv, ReleaseShape
<1>3. [rlJob[j] EXCEPT !.at = "failed"] \in Job BY <1>2 DEF Job, At, Ended
<1>4. Fresh.before = 0 BY DEF Fresh
<1>5. PICK d \in Digests : \/ rlJob' = [rlJob EXCEPT ![j] = [Fresh EXCEPT !.at = "ready", !.target = d]]
                           \/ rlJob' = [rlJob EXCEPT ![j].at = "failed"]
  BY Zenon DEF StartJob
<1>6. UNCHANGED <<rlRevs, rlLive, rlJudged, rlExcused>> BY DEF StartJob
<1>7. CASE rlJob' = [rlJob EXCEPT ![j] = [Fresh EXCEPT !.at = "ready", !.target = d]]
  <2> DEFINE job == [Fresh EXCEPT !.at = "ready", !.target = d]
  <2>1. job \in Job /\ job.at = "ready" /\ job.before = 0 BY <1>1, <1>4, FreshIsAJob, Zenon DEF Job
  <2>2. Entitled(job, rlLive, rlJudged', Vetted') BY <2>1 DEF Entitled
  <2>3. rlJob' = [rlJob EXCEPT ![j] = job] BY <1>7
  <2>4. job.before <= Len(rlRevs) BY <1>2, <2>1
  <2> HIDE DEF job
  <2> QED BY <1>6, <2>1, <2>2, <2>3, <2>4, JobKeepsInv
<1>8. CASE rlJob' = [rlJob EXCEPT ![j].at = "failed"]
  <2> DEFINE job == [rlJob[j] EXCEPT !.at = "failed"]
  <2>1. job \in Job /\ job.at = "failed" /\ job.before = rlJob[j].before BY <1>2, <1>3 DEF Job
  <2>2. Entitled(job, rlLive, rlJudged', Vetted') BY <2>1 DEF Entitled
  <2>3. rlJob' = [rlJob EXCEPT ![j] = job] BY <1>8
  <2> HIDE DEF job
  <2> QED BY <1>2, <1>6, <2>1, <2>2, <2>3, JobKeepsInv
<1> QED BY <1>5, <1>7, <1>8

(* The newest revision is one of those there are. *)
LEMMA ReleaseInvSurvey ==
    ASSUME ReleaseInv, NEW j \in Deploys, Survey(j)
    PROVE  ReleaseInv'
<1>1. rlJob \in [Deploys -> Job] /\ rlJob[j] \in Job /\ rlLive \in Deployed /\ Len(rlRevs) \in Nat BY DEF ReleaseInv, ReleaseShape
<1>2. PICK before \in {0, Len(rlRevs)} :
          rlJob' = [rlJob EXCEPT ![j] = [@ EXCEPT !.before = before, !.was = rlLive, !.at = "surveyed"]]
  BY DEF Survey
<1> DEFINE job == [rlJob[j] EXCEPT !.before = before, !.was = rlLive, !.at = "surveyed"]
<1>8. before \in Nat /\ "surveyed" \in At BY <1>1 DEF At
<1>3. job \in Job /\ job.at = "surveyed" /\ job.before = before BY <1>1, <1>8 DEF Job
<1>4. Entitled(job, rlLive, rlJudged', Vetted') BY <1>3 DEF Entitled
<1>5. rlJob' = [rlJob EXCEPT ![j] = job] BY <1>1, <1>2
<1>6. UNCHANGED <<rlRevs, rlLive, rlJudged, rlExcused>> BY DEF Survey
<1>7. job.before <= Len(rlRevs) BY <1>1, <1>3
<1> HIDE DEF job
<1> QED BY <1>3, <1>4, <1>5, <1>6, <1>7, JobKeepsInv

(* A look-up finds no image, or one that is vetted. *)
LEMMA ReleaseInvFind ==
    ASSUME ReleaseInv, NEW j \in Deploys, FindImage(j)
    PROVE  ReleaseInv'
<1>1. rlJob[j] \in Job /\ rlLive \in Deployed /\ Len(rlRevs) \in Nat /\ rlJob[j].before <= Len(rlRevs)
  BY DEF ReleaseInv, ReleaseShape
<1>2. PICK current \in {NoImage, rlLive.stable} :
          rlJob' = [rlJob EXCEPT ![j] =
              [@ EXCEPT !.current = current, !.at = IF current = NoImage THEN "bootstrap"
                                                    ELSE IF current = rlJob[j].target THEN "match" ELSE "canary"]]
  BY DEF FindImage
<1> DEFINE at == IF current = NoImage THEN "bootstrap" ELSE IF current = rlJob[j].target THEN "match" ELSE "canary"
           job == [rlJob[j] EXCEPT !.current = current, !.at = at]
<1>3. at \in {"bootstrap", "match", "canary"} OBVIOUS
<1>4. current \in Image BY <1>1 DEF Deployed, Image
<1>5. job \in Job BY <1>1, <1>3, <1>4 DEF Job, At
<1>6. job.at = at /\ job.before = rlJob[j].before /\ job.current = current /\ job.target = rlJob[j].target
  BY <1>1 DEF Job
<1>7. UNCHANGED <<rlRevs, rlLive, rlJudged, rlExcused>> BY DEF FindImage
<1>8. current \in Vetted' BY <1>7 DEF ReleaseInv, Vetted
<1>9. Entitled(job, rlLive, rlJudged', Vetted')
  <2>1. at = "match" => rlJob[j].target = current OBVIOUS
  <2> QED BY <1>3, <1>6, <1>8, <2>1 DEF Entitled
<1>10. rlJob' = [rlJob EXCEPT ![j] = job]
  <2>1. rlJob \in [Deploys -> Job] BY DEF ReleaseInv, ReleaseShape
  <2> QED BY <1>2, <2>1
<1> HIDE DEF job, at
<1> QED BY <1>1, <1>5, <1>6, <1>7, <1>9, <1>10, JobKeepsInv

(* A deployment with the image that the next step asks for. *)
LEMMA ReleaseInvHelm ==
    ASSUME ReleaseInv, NEW j \in Deploys,
           Bootstrap(j) \/ RemoveCanary(j) \/ DeployCanary(j) \/ Promote(j)
    PROVE  ReleaseInv'
<1> DEFINE going(at) == Moved(j, at)
<1>1. ReleaseShape BY DEF ReleaseInv
<1>2. \A at \in {"smoke", "watch", "undo"} :
         /\ going(at) \in Job /\ going(at).at = at /\ going(at).before <= Len(rlRevs)
         /\ going(at).target = rlJob[j].target /\ going(at).disturbed = rlJob[j].disturbed
  BY <1>1, MovedIsAJob DEF At, Ended
<1>3. rlJob[j].target \in Image /\ rlJob[j].current \in Image BY <1>1 DEF ReleaseShape, Job
<1> DEFINE whole == [stable |-> rlJob[j].target, canary |-> NoImage]
           partial == [stable |-> rlJob[j].current, canary |-> rlJob[j].target]
<1>4. whole \in Deployed /\ partial \in Deployed BY <1>3 DEF Deployed, Image
<1>5. \A judged, vetted : Entitled(going("smoke"), whole, judged, vetted)
  BY <1>2 DEF Entitled
<1>6. \A judged, vetted : Entitled(going("watch"), partial, judged, vetted)
  BY <1>2 DEF Entitled
<1>7. Entitled(rlJob[j], rlLive, rlJudged, Vetted) BY DEF ReleaseInv
<1> HIDE DEF going
<1>8. CASE Bootstrap(j)
  <2>1. Helm(j, whole, going("smoke"), going("undo")) BY <1>8 DEF Bootstrap, going
  <2>2. rlJudged' = rlJudged /\ rlExcused' = rlExcused \cup {rlJob[j].target} BY <1>8 DEF Bootstrap
  <2>3. whole.stable \in Vetted' BY <2>2 DEF Vetted
  <2> HIDE DEF whole
  <2> QED BY <1>2, <1>4, <1>5, <2>1, <2>2, <2>3, HelmKeepsInv
<1>9. CASE RemoveCanary(j)
  <2>1. Helm(j, whole, going("smoke"), going("undo")) BY <1>9 DEF RemoveCanary, going
  <2>2. rlJudged' = rlJudged /\ rlExcused' = rlExcused BY <1>9 DEF RemoveCanary
  <2>3. whole.stable \in Vetted' BY <1>7, <1>9, <2>2 DEF Vetted, RemoveCanary, Entitled
  <2> HIDE DEF whole
  <2> QED BY <1>2, <1>4, <1>5, <2>1, <2>2, <2>3, HelmKeepsInv
<1>10. CASE DeployCanary(j)
  <2>1. Helm(j, partial, going("watch"), going("undo")) BY <1>10 DEF DeployCanary, going
  <2>2. rlJudged' = rlJudged /\ rlExcused' = rlExcused BY <1>10 DEF DeployCanary
  <2>3. partial.stable \in Vetted' BY <1>7, <1>10, <2>2 DEF Vetted, DeployCanary, Entitled
  <2> HIDE DEF partial
  <2> QED BY <1>2, <1>4, <1>6, <2>1, <2>2, <2>3, HelmKeepsInv
<1>11. CASE Promote(j)
  <2>1. Helm(j, whole, going("smoke"), going("undo")) BY <1>11 DEF Promote, going
  <2>2. rlJudged' = rlJudged /\ rlExcused' = rlExcused \cup (IF rlJob[j].disturbed THEN {rlJob[j].target} ELSE {})
    BY <1>11 DEF Promote
  <2>3. whole.stable \in Vetted' BY <1>7, <1>11, <2>2 DEF Vetted, Promote, Entitled
  <2> HIDE DEF whole
  <2> QED BY <1>2, <1>4, <1>5, <2>1, <2>2, <2>3, HelmKeepsInv
<1> QED BY <1>8, <1>9, <1>10, <1>11

(* A move to a place that asks for nothing. *)
LEMMA ReleaseInvMove ==
    ASSUME ReleaseInv, NEW j \in Deploys, NEW at \in At \ {"match", "canary", "watch", "promote", "smoke"},
           Move(j, at), rlJudged \subseteq rlJudged'
    PROVE  ReleaseInv'
<1>1. /\ Moved(j, at) \in Job /\ Moved(j, at).at = at /\ Moved(j, at).before <= Len(rlRevs)
  BY MovedIsAJob DEF ReleaseInv
<1>2. Entitled(Moved(j, at), rlLive, rlJudged', Vetted') BY <1>1 DEF Entitled
<1> QED BY <1>1, <1>2, JobKeepsInv DEF Move

(* A canary that is found healthy is the one that runs. *)
LEMMA ReleaseInvWatch ==
    ASSUME ReleaseInv, NEW j \in Deploys, WatchCanary(j)
    PROVE  ReleaseInv'
<1>1. CASE UNCHANGED rlJudged /\ Move(j, "undo")
  BY <1>1, ReleaseInvMove DEF At
<1>2. CASE rlLive.canary # NoImage /\ rlJudged' = rlJudged \cup {rlLive.canary} /\ Move(j, "promote")
  <2>1. /\ Moved(j, "promote") \in Job /\ Moved(j, "promote").at = "promote"
        /\ Moved(j, "promote").before <= Len(rlRevs)
        /\ Moved(j, "promote").target = rlJob[j].target /\ Moved(j, "promote").disturbed = rlJob[j].disturbed
    BY MovedIsAJob DEF ReleaseInv, At, Ended
  <2>2. ~rlJob[j].disturbed => rlLive.canary = rlJob[j].target
    BY DEF WatchCanary, ReleaseInv, Entitled
  <2>3. Entitled(Moved(j, "promote"), rlLive, rlJudged', Vetted') BY <1>2, <2>1, <2>2 DEF Entitled
  <2> QED BY <1>2, <2>1, <2>3, JobKeepsInv DEF Move
<1> QED BY <1>1, <1>2 DEF WatchCanary

(* A return to a revision: all of them are vetted. *)
LEMMA ReleaseInvGoBack ==
    ASSUME ReleaseInv, NEW j \in Deploys, GoBack(j)
    PROVE  ReleaseInv'
<1>1. rlJob[j] \in Job /\ rlJob[j].before <= Len(rlRevs) /\ rlRevs \in Seq(Deployed)
  BY DEF ReleaseInv, ReleaseShape
<1>2. CASE rlJob[j].before = 0
  <2>1. Move(j, "failed") /\ UNCHANGED rlJudged BY <1>2 DEF GoBack
  <2> QED BY <2>1, ReleaseInvMove DEF At, Ended
<1>3. CASE rlJob[j].before # 0
  <2> DEFINE content == rlRevs[rlJob[j].before]
  <2>1. rlJob[j].before \in 1..Len(rlRevs) BY <1>1, <1>3 DEF Job
  <2>2. content \in Deployed BY <1>1, <2>1
  <2>3. UNCHANGED <<rlExcused, rlJudged>> /\ Helm(j, content, Moved(j, "undone"), Moved(j, "failed"))
    BY <1>3 DEF GoBack
  <2>4. content.stable \in Vetted' BY <2>1, <2>3 DEF ReleaseInv, Vetted
  <2>5. \A at \in {"undone", "failed"} : Moved(j, at) \in Job /\ Moved(j, at).at = at /\ Moved(j, at).before <= Len(rlRevs)
    BY MovedIsAJob DEF ReleaseInv, At, Ended
  <2>6. \A live, judged, vetted : Entitled(Moved(j, "undone"), live, judged, vetted) BY <2>5 DEF Entitled
  <2> HIDE DEF content
  <2> QED BY <2>2, <2>3, <2>4, <2>5, <2>6, HelmKeepsInv
<1> QED BY <1>2, <1>3

(* Every step keeps it. *)
LEMMA ReleaseInvNext == ReleaseInv /\ [RlNext]_rlVars => ReleaseInv'
<1> SUFFICES ASSUME ReleaseInv, [RlNext]_rlVars PROVE ReleaseInv'
  OBVIOUS
<1>1. CASE UNCHANGED rlVars
  BY <1>1 DEF rlVars, ReleaseInv, ReleaseShape, Vetted
<1>2. ASSUME NEW j \in Deploys, StartJob(j) \/ StepDeploy(j) \/ RunnerDies(j) PROVE ReleaseInv'
  <2>1. CASE StartJob(j) BY <2>1, ReleaseInvStart
  <2>2. CASE Survey(j) \/ FindImage(j) BY <2>2, ReleaseInvSurvey, ReleaseInvFind
  <2>3. CASE Bootstrap(j) \/ RemoveCanary(j) \/ DeployCanary(j) \/ Promote(j) BY <2>3, ReleaseInvHelm
  <2>4. CASE WatchCanary(j) BY <2>4, ReleaseInvWatch
  <2>5. CASE GoBack(j) BY <2>5, ReleaseInvGoBack
  <2>6. CASE Smoke(j)
    <3>1. PICK at \in {"monitor", "failed"} : Move(j, at) BY <2>6 DEF Smoke
    <3>2. rlJudged' = rlJudged BY <2>6 DEF Smoke
    <3>3. at \in At \ {"match", "canary", "watch", "promote", "smoke"} BY DEF At, Ended
    <3> QED BY <3>1, <3>2, <3>3, ReleaseInvMove
  <2>7. CASE MonitorRelease(j)
    <3>1. \E at \in {"failed", "done", "undo"} : Move(j, at) BY <2>7 DEF MonitorRelease
    <3>2. rlJudged' = rlJudged BY <2>7 DEF MonitorRelease
    <3>3. {"failed", "done", "undo"} \subseteq At \ {"match", "canary", "watch", "promote", "smoke"} BY DEF At, Ended
    <3> QED BY <3>1, <3>2, <3>3, ReleaseInvMove
  <2>8. CASE RunnerDies(j)
    <3>1. Move(j, "killed") /\ rlJudged' = rlJudged BY <2>8 DEF RunnerDies
    <3>2. "killed" \in At \ {"match", "canary", "watch", "promote", "smoke"} BY DEF At, Ended
    <3> QED BY <3>1, <3>2, ReleaseInvMove
  <2> QED BY <1>2, <2>1, <2>2, <2>3, <2>4, <2>5, <2>6, <2>7, <2>8 DEF StepDeploy
<1> QED BY <1>1, <1>2 DEF RlNext

(* "only promote the digest to the stable deployment when the canary stays   *)
(* healthy" (docs of canary_rollout.py): for any jobs, images, thresholds,   *)
(* failures, deaths and overlaps, and through every return to an older       *)
(* revision, a stable image was found healthy, or it was there first, or a   *)
(* job took the deployment to be missing, or jobs overlapped.                *)
THEOREM StableIsVetted == RlSpec => [](rlLive.stable \in Vetted)
<1>1. RlInit => ReleaseInv BY ReleaseInvInit
<1>2. ReleaseInv /\ [RlNext]_rlVars => ReleaseInv' BY ReleaseInvNext
<1>3. ReleaseInv => rlLive.stable \in Vetted BY DEF ReleaseInv
<1> QED BY <1>1, <1>2, <1>3, PTL DEF RlSpec

(* After a job that was killed or failed, the next one that ends well, and   *)
(* that no other disturbed, has left no canary behind.                       *)
THEOREM NoCanaryStays == RlSpec => NoCanaryLeft
<1>1. RlInit => ReleaseInv BY ReleaseInvInit
<1>2. ReleaseInv /\ [RlNext]_rlVars => ReleaseInv' BY ReleaseInvNext
<1>3. ReleaseInv => [\A j \in Deploys : rlJob[j].at = "smoke" /\ rlJob'[j].at = "monitor" /\ ~rlJob[j].disturbed
                       => rlLive.canary = NoImage]_rlVars
  BY DEF ReleaseInv, Entitled
<1> QED BY <1>1, <1>2, <1>3, PTL DEF RlSpec, NoCanaryLeft

(* Helm moves no other job. *)
LEMMA HelmMovesOne ==
    ASSUME ReleaseShape, NEW k \in Deploys, NEW content, NEW well, NEW failing, Helm(k, content, well, failing),
           NEW j \in Deploys
    PROVE  j # k => rlJob'[j].at = rlJob[j].at
<1>1. rlJob \in [Deploys -> Job] /\ rlJob[j] \in Job BY DEF ReleaseShape
<1>2. \A job : j # k => WithJob(k, job)[j].at = rlJob[j].at BY <1>1 DEF WithJob, Job
<1> QED BY <1>1, <1>2 DEF Helm

(* A job becomes undone when its rollback succeeds, and in no other way. *)
LEMMA UndoneByGoingBack ==
    ASSUME ReleaseInv, RlNext, NEW j \in Deploys, rlJob[j].at = "undo", rlJob'[j].at = "undone"
    PROVE  rlLive' = rlRevs[rlJob[j].before]
<1>1. ReleaseShape /\ rlJob \in [Deploys -> Job] BY DEF ReleaseInv, ReleaseShape
<1>2. \A at \in {"failed", "undo", "undone", "killed"} : Moved(j, at).at = at
  BY <1>1, MovedIsAJob DEF At, Ended
<1>3. PICK k \in Deploys : StartJob(k) \/ StepDeploy(k) \/ RunnerDies(k) BY DEF RlNext
<1>4. j = k
  <2> SUFFICES ASSUME j # k PROVE rlJob'[j].at = rlJob[j].at
    OBVIOUS
  <2>1. CASE Bootstrap(k) \/ RemoveCanary(k) \/ DeployCanary(k) \/ Promote(k)
    BY <1>1, <2>1, HelmMovesOne DEF Bootstrap, RemoveCanary, DeployCanary, Promote
  <2>2. CASE GoBack(k)
    <3>1. CASE rlJob[k].before = 0 BY <1>1, <2>2, <3>1 DEF GoBack, Move
    <3>2. CASE rlJob[k].before # 0 BY <1>1, <2>2, <3>2, HelmMovesOne DEF GoBack
    <3> QED BY <3>1, <3>2
  <2>3. CASE StartJob(k) BY <1>1, <2>3 DEF StartJob
  <2>4. CASE Survey(k) \/ FindImage(k) BY <1>1, <2>4 DEF Survey, FindImage
  <2>5. CASE WatchCanary(k) \/ Smoke(k) \/ MonitorRelease(k) \/ RunnerDies(k)
    BY <1>1, <2>5 DEF WatchCanary, Smoke, MonitorRelease, RunnerDies, Move
  <2> QED BY <1>3, <2>1, <2>2, <2>3, <2>4, <2>5 DEF StepDeploy
<1>5. GoBack(j)
  <2>1. ~RunnerDies(j) BY <1>1, <1>2 DEF RunnerDies, Move
  <2> QED BY <1>3, <1>4, <2>1, Zenon DEF StepDeploy, StartJob, Survey, FindImage, Bootstrap, RemoveCanary, DeployCanary, WatchCanary,
                                Promote, Smoke, MonitorRelease
<1>6. rlJob[j].before # 0 BY <1>1, <1>2, <1>5 DEF GoBack, Move
<1>7. Helm(j, rlRevs[rlJob[j].before], Moved(j, "undone"), Moved(j, "failed")) BY <1>5, <1>6 DEF GoBack
<1>8. \A job : WithJob(j, job)[j] = job BY DEF WithJob
<1> QED BY <1>1, <1>2, <1>7, <1>8 DEF Helm

(* _rollback: a job whose rollback succeeds, and which no other disturbed,   *)
(* leaves the release that it found, if that was the state of its newest     *)
(* revision.                                                                 *)
THEOREM RollbackRestores == RlSpec => GoneBack
<1>1. RlInit => ReleaseInv BY ReleaseInvInit
<1>2. ReleaseInv /\ [RlNext]_rlVars => ReleaseInv' BY ReleaseInvNext
<1>3. ReleaseInv /\ [RlNext]_rlVars
        => [\A j \in Deploys : /\ rlJob[j].at = "undo" /\ rlJob'[j].at = "undone"
                               /\ ~rlJob[j].disturbed /\ rlRevs[rlJob[j].before] = rlJob[j].was
                               => rlLive' = rlJob[j].was]_rlVars
  BY UndoneByGoingBack
<1> QED BY <1>1, <1>2, <1>3, PTL DEF RlSpec, GoneBack

-----------------------------------------------------------------------------
(* Models: outcomes that guards refuse teach nothing, and the bundles that  *)
(* a process scores with are of one model.                                  *)

Places == Writes \cup {"idle", "training", "load_model", "load_scaler"}

(* A process that writes is at one of its places. *)
LEMMA WritesArePlaces ==
    /\ Writes \subseteq Places /\ {"idle", "training", "load_model", "load_scaler"} \subseteq Places
    /\ "training" \notin Writes /\ "idle" \notin Writes
BY DEF Writes, Places

(* The guards: with one of them set, the training that was under way may     *)
(* still promote, and has not yet, or it has.                                *)
GuardInv ==
    /\ mdAt \in [Processes -> Places] /\ mdSince \in Nat
    /\ {mdFrozen, mdCooling} \subseteq BOOLEAN
    /\ Guarded => mdSince <= 1
    /\ Guarded /\ mdAt[Trainer] = "training" => mdSince = 0

(* Nothing is learnt before the first outcome. *)
LEMMA GuardInit == MdInit => GuardInv
<1> SUFFICES ASSUME MdInit PROVE GuardInv
  OBVIOUS
<1>1. mdAt \in [Processes -> Places] BY WritesArePlaces DEF MdInit
<1>2. mdFrozen = FALSE /\ mdCooling = FALSE /\ mdSince = 0 BY DEF MdInit
<1> QED BY <1>1, <1>2 DEF GuardInv, Guarded

(* A step that sets no guard, and lets no training begin or promote. *)
LEMMA GuardsRest ==
    ASSUME GuardInv, UNCHANGED mdSince, {mdFrozen', mdCooling'} \subseteq BOOLEAN, Guarded' => Guarded,
           NEW p \in Processes, NEW at \in Places \ {"training"},
           mdAt' = [mdAt EXCEPT ![p] = at] \/ mdAt' = mdAt
    PROVE  GuardInv'
<1>1. mdAt' \in [Processes -> Places] BY DEF GuardInv
<1>2. mdAt'[Trainer] = "training" => mdAt[Trainer] = "training" BY DEF GuardInv, Processes
<1> QED BY <1>1, <1>2 DEF GuardInv

(* Every step keeps the guards. *)
LEMMA GuardNext == GuardInv /\ [MdNext]_mdVars => GuardInv'
<1> SUFFICES ASSUME GuardInv, [MdNext]_mdVars PROVE GuardInv'
  OBVIOUS
<1>1. mdAt \in [Processes -> Places] /\ mdSince \in Nat /\ Trainer \in Processes /\ {mdFrozen, mdCooling} \subseteq BOOLEAN
  BY DEF GuardInv, Processes
<1>2. ASSUME UNCHANGED <<mdFrozen, mdCooling, mdSince>>, NEW p \in Processes, NEW at \in Places \ {"training"},
             Go(p, at) \/ UNCHANGED mdAt
      PROVE  GuardInv'
  <2>1. Guarded' => Guarded BY <1>2 DEF Guarded
  <2>2. mdAt' = [mdAt EXCEPT ![p] = at] \/ mdAt' = mdAt BY <1>2 DEF Go
  <2>3. {mdFrozen', mdCooling'} \subseteq BOOLEAN BY <1>1, <1>2
  <2> QED BY <1>2, <2>1, <2>2, <2>3, GuardsRest
<1>3. CASE BeginTraining
  <2>1. ~Guarded /\ UNCHANGED mdGuards /\ Go(Trainer, "training") BY <1>3 DEF BeginTraining
  <2>2. mdAt' \in [Processes -> Places] BY <1>1, <2>1, WritesArePlaces DEF Go
  <2> QED BY <1>1, <2>1, <2>2 DEF GuardInv, Guarded, mdGuards
<1>4. CASE EndTraining
  <2>1. mdAt[Trainer] = "training" /\ UNCHANGED <<mdFrozen, mdCooling>> BY <1>4 DEF EndTraining
  <2>2. CASE Go(Trainer, "idle") /\ UNCHANGED mdSince BY <1>1, <1>2, <2>1, <2>2, WritesArePlaces
  <2>3. CASE Go(Trainer, "keep_model") /\ mdSince' = IF Guarded THEN mdSince + 1 ELSE mdSince
    <3>1. mdAt' \in [Processes -> Places] /\ mdAt'[Trainer] = "keep_model" BY <1>1, <2>3 DEF Go, Places, Writes
    <3>2. Guarded' = Guarded BY <2>1 DEF Guarded
    <3>3. Guarded => mdSince' = 1 BY <2>1, <2>3 DEF GuardInv
    <3> QED BY <1>1, <2>1, <2>3, <3>1, <3>2, <3>3 DEF GuardInv
  <2> QED BY <1>4, <2>2, <2>3 DEF EndTraining
<1>5. CASE PromoteModel
  <2>1. \E at \in {"keep_scaler", "keep_meta", "put_scaler", "put_model", "put_meta", "note"} :
           Go(Trainer, at) /\ UNCHANGED mdGuards
    BY <1>5 DEF PromoteModel, Keep, Store
  <2> QED BY <1>1, <1>2, <2>1 DEF mdGuards, Places, Writes
<1>6. CASE AnnotatePromotion
  <2>1. \E at \in {"note_put", "idle"} : Go(Trainer, at) /\ UNCHANGED mdGuards
    BY <1>6 DEF AnnotatePromotion, Annotate
  <2> QED BY <1>1, <1>2, <2>1 DEF mdGuards, Places, Writes
<1>7. ASSUME NEW s \in Scorers, Refresh(s) \/ LoadBundle(s) PROVE GuardInv'
  <2>1. \E at \in {"load_model", "load_scaler", "idle"} : (Go(s, at) \/ UNCHANGED mdAt) /\ UNCHANGED mdGuards
    BY <1>7 DEF Refresh, LoadBundle, Load
  <2> QED BY <1>2, <1>7, <2>1 DEF mdGuards, Processes, Places
<1>8. ASSUME NEW s \in Scorers, NEW at \in {"admin_model", "live_model"}, BeginRollback(s, at) PROVE GuardInv'
  BY <1>2, <1>8 DEF BeginRollback, mdGuards, Processes, Places, Writes
<1>9. ASSUME NEW s \in Scorers, RollBack(s) PROVE GuardInv'
  <2>1. CASE ~(BackMeta(s, "admin_meta") \/ BackMeta(s, "live_meta"))
    <3>1. \E at \in {"admin_scaler", "admin_meta", "live_scaler", "live_meta"} : Go(s, at) /\ UNCHANGED mdGuards
      BY <1>9, <2>1 DEF RollBack, Back
    <3> QED BY <1>2, <1>9, <3>1 DEF mdGuards, Processes, Places, Writes
  <2>2. CASE BackMeta(s, "admin_meta") \/ BackMeta(s, "live_meta")
    <3>1. Go(s, "idle") /\ UNCHANGED mdFrozen BY <2>2 DEF BackMeta
    <3>2. CASE UNCHANGED <<mdCooling, mdSince>> BY <1>2, <1>9, <3>1, <3>2, WritesArePlaces DEF Processes
    <3>3. CASE mdCooling' = TRUE /\ mdSince' = IF Guarded THEN mdSince ELSE 0
      <4>1. mdAt' \in [Processes -> Places] /\ (mdAt'[Trainer] = "training" => mdAt[Trainer] = "training")
        BY <1>1, <1>9, <3>1 DEF Go, Processes, Places
      <4>2. mdSince' \in Nat /\ mdSince' <= 1 /\ (mdAt'[Trainer] = "training" => mdSince' = 0)
        BY <1>1, <3>3, <4>1 DEF GuardInv
      <4> QED BY <1>1, <3>1, <3>3, <4>1, <4>2 DEF GuardInv
    <3> QED BY <2>2, <3>2, <3>3 DEF BackMeta
  <2> QED BY <2>1, <2>2
<1>10. ASSUME NEW on \in BOOLEAN, SetFreeze(on) PROVE GuardInv'
  <2>1. mdFrozen' = on /\ mdSince' = (IF Guarded /\ (on \/ mdCooling) THEN mdSince ELSE 0) /\ UNCHANGED <<mdAt, mdCooling>>
    BY <1>10 DEF SetFreeze
  <2>2. Guarded' => mdSince' <= 1 /\ (mdAt'[Trainer] = "training" => mdSince' = 0)
    <3>1. CASE Guarded BY <2>1, <3>1 DEF GuardInv
    <3>2. CASE ~Guarded BY <2>1, <3>2
    <3> QED BY <3>1, <3>2
  <2> QED BY <1>1, <2>1, <2>2 DEF GuardInv
<1>11. CASE FreezeExpires BY <1>10, <1>11 DEF FreezeExpires
<1>12. CASE CoolingEnds
  <2>1. mdCooling' = FALSE /\ mdSince' = (IF mdFrozen THEN mdSince ELSE 0) /\ UNCHANGED <<mdAt, mdFrozen>> BY <1>12 DEF CoolingEnds
  <2> QED BY <1>1, <2>1 DEF GuardInv, Guarded
<1>13. ASSUME NEW p \in Processes, RestartOf(p) PROVE GuardInv'
  BY <1>2, <1>13, WritesArePlaces DEF RestartOf, mdGuards
<1>14. ASSUME NEW p \in Processes, ReadFails(p) PROVE GuardInv'
  BY <1>2, <1>14, WritesArePlaces DEF ReadFails, mdGuards
<1>15. CASE BeginCopy
  <2>1. UNCHANGED mdAt /\ UNCHANGED mdGuards BY <1>15 DEF BeginCopy, BeginKeep, BeginBack
  <2> QED BY <1>1, <1>2, <2>1, WritesArePlaces DEF mdGuards
<1>16. CASE UNCHANGED mdVars
  BY <1>16 DEF mdVars, GuardInv, Guarded
<1> QED BY <1>3, <1>4, <1>5, <1>6, <1>7, <1>8, <1>9, <1>10, <1>11, <1>12, <1>13, <1>14, <1>15, <1>16 DEF MdNext

(* "Rollback cooldowns to prevent immediate re-promotion": however freezes, *)
(* rollbacks, their ends and trainings interleave, after a freeze or a      *)
(* rollback only the training that was under way may still promote.         *)
THEOREM GuardsAreKept == MdSpec => []GuardsHold
<1>1. MdInit => GuardInv BY GuardInit
<1>2. GuardInv /\ [MdNext]_mdVars => GuardInv' BY GuardNext
<1>3. GuardInv => GuardsHold BY DEF GuardInv, GuardsHold
<1> QED BY <1>1, <1>2, <1>3, PTL DEF MdSpec

-----------------------------------------------------------------------------
(* Where the numbers of models come from: what is trained.                   *)
KeptVersions == [model : 0..Len(mdVersion), scaler : 0..Len(mdVersion), meta : 0..Len(mdVersion)]
OfOneModel(b) == b.scaler = b.model /\ b.meta = b.model

OfTrainer == {"keep_model", "keep_scaler", "keep_meta", "put_scaler", "put_model", "put_meta", "note", "note_put"}

BundleShape ==
    /\ mdVersion \in Seq(Int) /\ Len(mdVersion) <= MaxModels
    /\ mdActive \in KeptVersions /\ mdFallback \in KeptVersions /\ mdNote \in 0..Len(mdVersion)
    /\ mdEngine \in [Processes -> KeptVersions]
    /\ mdAt \in [Processes -> Places] /\ mdTorn \in BOOLEAN
    /\ \A p \in Processes : mdAt[p] \in OfTrainer => p = Trainer

(* What the only writer has done, and has still to do. *)
Progress(at, active, fallback, note, candidate) ==
    /\ at \in {"keep_model", "keep_scaler", "keep_meta", "put_scaler", "note", "note_put"} => OfOneModel(active)
    /\ at \notin {"keep_model", "keep_scaler", "keep_meta"} => OfOneModel(fallback)
    /\ at = "keep_model" =>
         /\ fallback.scaler = fallback.meta
         /\ fallback.model = fallback.meta \/ (active.model # Absent /\ fallback.model = active.model)
    /\ at = "keep_scaler" =>
         /\ fallback.scaler = fallback.meta \/ (active.model # Absent /\ fallback.scaler = active.model)
         /\ fallback.model = IF active.model = Absent THEN fallback.meta ELSE active.model
    /\ at = "keep_meta" =>
         /\ fallback.scaler = fallback.model
         /\ fallback.model = IF active.model = Absent THEN fallback.meta ELSE active.model
    /\ at = "put_model" => active.scaler = candidate
    /\ at = "put_meta" => active.scaler = candidate /\ active.model = candidate
    /\ at = "note_put" => note = active.meta
    /\ at \in {"admin_scaler", "live_scaler"} => active.model = fallback.model
    /\ at \in {"admin_meta", "live_meta"} => active.model = fallback.model /\ active.scaler = fallback.model
    /\ at \in {"admin_model", "live_model", "admin_scaler", "live_scaler", "admin_meta", "live_meta"}
         => fallback.model # Absent

(* Unless a write was cut off or two overlapped: one process writes at a     *)
(* time, and when none does the bundles are of one model each.               *)
BundleInv ==
    /\ BundleShape
    /\ ~mdTorn =>
         /\ \A p, q \in Processes : mdAt[p] \in Writes /\ mdAt[q] \in Writes => p = q
         /\ ~UnderWay => OfOneModel(mdActive) /\ OfOneModel(mdFallback)
         /\ \A p \in Processes : mdAt[p] \in Writes => Progress(mdAt[p], mdActive, mdFallback, mdNote, Candidate)

(* The bundles that are installed are whole. *)
LEMMA BundleInit == MdInit => BundleInv
<1> SUFFICES ASSUME MdInit PROVE BundleInv
  OBVIOUS
<1>1. mdVersion = <<>> /\ Len(mdVersion) = 0 BY DEF MdInit
<1>2. NoBundle \in KeptVersions /\ OfOneModel(NoBundle) BY <1>1 DEF NoBundle, KeptVersions, Absent, OfOneModel
<1>3. MaxModels \in Nat BY ModelsAssumption
<1>4. \A p \in Processes : mdAt[p] = "idle" BY DEF MdInit
<1>5. mdAt \in [Processes -> Places] BY WritesArePlaces DEF MdInit
<1>6. BundleShape
  <2>1. mdVersion \in Seq(Int) /\ Len(mdVersion) <= MaxModels /\ mdNote \in 0..Len(mdVersion)
    BY <1>1, <1>3 DEF MdInit, Absent
  <2>2. mdActive \in KeptVersions /\ mdFallback \in KeptVersions /\ mdEngine \in [Processes -> KeptVersions] BY <1>2 DEF MdInit
  <2>3. \A p \in Processes : mdAt[p] \in OfTrainer => p = Trainer BY <1>4 DEF OfTrainer
  <2>4. mdTorn \in BOOLEAN BY DEF MdInit
  <2> QED BY <1>5, <2>1, <2>2, <2>3, <2>4 DEF BundleShape
<1> QED BY <1>2, <1>4, <1>6, WritesArePlaces DEF BundleInv, MdInit

(* The only writer takes a step. *)
LEMMA WriterSteps ==
    ASSUME BundleInv, BundleShape', NEW p \in Processes, mdAt[p] \in Writes, NEW at \in Places, Go(p, at),
           mdTorn' = mdTorn,
           at \in Writes /\ ~mdTorn => Progress(at, mdActive', mdFallback', mdNote', Candidate'),
           at \notin Writes /\ ~mdTorn => OfOneModel(mdActive') /\ OfOneModel(mdFallback')
    PROVE  BundleInv'
<1> SUFFICES ASSUME ~mdTorn
    PROVE  /\ \A q, r \in Processes : mdAt'[q] \in Writes /\ mdAt'[r] \in Writes => q = r
           /\ ~UnderWay' => OfOneModel(mdActive') /\ OfOneModel(mdFallback')
           /\ \A q \in Processes : mdAt'[q] \in Writes => Progress(mdAt'[q], mdActive', mdFallback', mdNote', Candidate')
  BY DEF BundleInv
<1>1. mdAt \in [Processes -> Places] BY DEF BundleInv, BundleShape
<1>2. \A q \in Processes : mdAt'[q] = IF q = p THEN at ELSE mdAt[q] BY <1>1 DEF Go
<1>3. \A q \in Processes : mdAt[q] \in Writes => q = p BY DEF BundleInv
<1>4. \A q \in Processes : mdAt'[q] \in Writes => q = p /\ at \in Writes BY <1>2, <1>3
<1>5. at \in Writes => UnderWay' BY <1>2 DEF UnderWay
<1> QED BY <1>2, <1>4, <1>5

(* A step outside of the writes. *)
LEMMA OthersStep ==
    ASSUME BundleInv, BundleShape', UNCHANGED <<mdActive, mdFallback, mdTorn>>, Candidate' = Candidate \/ ~UnderWay,
           NEW p \in Processes, NEW at \in Places \ Writes, mdAt[p] \notin Writes, Go(p, at) \/ UNCHANGED mdAt,
           p = Trainer \/ UNCHANGED mdNote
    PROVE  BundleInv'
<1> SUFFICES ASSUME ~mdTorn
    PROVE  /\ \A q, r \in Processes : mdAt'[q] \in Writes /\ mdAt'[r] \in Writes => q = r
           /\ ~UnderWay' => OfOneModel(mdActive') /\ OfOneModel(mdFallback')
           /\ \A q \in Processes : mdAt'[q] \in Writes => Progress(mdAt'[q], mdActive', mdFallback', mdNote', Candidate')
  BY DEF BundleInv
<1>1. mdAt \in [Processes -> Places] BY DEF BundleInv, BundleShape
<1>2. \A q \in Processes : mdAt'[q] \in Writes => mdAt[q] \in Writes /\ mdAt'[q] = mdAt[q] /\ q # p
  BY <1>1 DEF Go
<1>3. \A q \in Processes : mdAt[q] \in Writes => mdAt'[q] \in Writes BY <1>1 DEF Go
<1>4. UnderWay' <=> UnderWay BY <1>2, <1>3 DEF UnderWay
<1>5. ASSUME NEW q \in Processes, mdAt'[q] \in Writes
      PROVE  Progress(mdAt'[q], mdActive', mdFallback', mdNote', Candidate')
  <2>1. Progress(mdAt[q], mdActive, mdFallback, mdNote, Candidate) /\ mdAt[q] = mdAt'[q]
    BY <1>2, <1>5 DEF BundleInv
  <2>2. Candidate' = Candidate BY <1>2, <1>5 DEF UnderWay
  <2>3. mdAt[q] = "note_put" => UNCHANGED mdNote BY <1>2, <1>5 DEF BundleInv, BundleShape, OfTrainer
  <2> QED BY <2>1, <2>2, <2>3 DEF Progress
<1> QED BY <1>2, <1>4, <1>5 DEF BundleInv

(* A write begins, with nothing else under way or as an overlap.             *)
LEMMA WriteBegins ==
    ASSUME BundleInv, BundleShape', UNCHANGED <<mdActive, mdFallback>>, NEW p \in Processes,
           NEW at \in {"keep_model", "admin_model", "live_model"}, Go(p, at), BeginWrite,
           at # "keep_model" => mdFallback.model # Absent
    PROVE  BundleInv'
<1> SUFFICES ASSUME ~mdTorn'
    PROVE  /\ \A q, r \in Processes : mdAt'[q] \in Writes /\ mdAt'[r] \in Writes => q = r
           /\ ~UnderWay' => OfOneModel(mdActive') /\ OfOneModel(mdFallback')
           /\ \A q \in Processes : mdAt'[q] \in Writes => Progress(mdAt'[q], mdActive', mdFallback', mdNote', Candidate')
  BY DEF BundleInv
<1>1. ~mdTorn /\ ~UnderWay BY DEF BeginWrite
<1>2. mdAt \in [Processes -> Places] /\ at \in Writes BY DEF BundleInv, BundleShape, Writes
<1>3. \A q \in Processes : mdAt'[q] = (IF q = p THEN at ELSE mdAt[q]) /\ mdAt[q] \notin Writes
  BY <1>1, <1>2 DEF Go, UnderWay
<1>4. OfOneModel(mdActive) /\ OfOneModel(mdFallback) BY <1>1 DEF BundleInv
<1>5. Progress(at, mdActive', mdFallback', mdNote', Candidate') BY <1>4 DEF Progress, OfOneModel
<1>6. UnderWay' BY <1>2, <1>3 DEF UnderWay
<1> QED BY <1>3, <1>5, <1>6

(* A process goes on, and the bundles keep their shape. *)
LEMMA BundleShapeStays ==
    ASSUME BundleShape, UNCHANGED mdVersion, mdActive' \in KeptVersions, mdFallback' \in KeptVersions, mdNote' \in 0..Len(mdVersion),
           mdEngine' \in [Processes -> KeptVersions], mdTorn' \in BOOLEAN,
           NEW p \in Processes, NEW at \in Places, Go(p, at) \/ UNCHANGED mdAt, at \in OfTrainer => p = Trainer
    PROVE  BundleShape'
<1>1. mdAt \in [Processes -> Places] BY DEF BundleShape
<1>2. mdAt' \in [Processes -> Places] BY <1>1 DEF Go
<1>3. \A q \in Processes : mdAt'[q] = mdAt[q] \/ (q = p /\ mdAt'[q] = at) BY <1>1 DEF Go
<1>4. \A q \in Processes : mdAt'[q] \in OfTrainer => q = Trainer BY <1>3 DEF BundleShape
<1>5. KeptVersions' = KeptVersions BY DEF KeptVersions
<1> QED BY <1>2, <1>4, <1>5 DEF BundleShape

(* The training of a candidate. *)
LEMMA TrainingKeeps ==
    ASSUME BundleInv, BeginTraining \/ EndTraining
    PROVE  BundleInv'
<1>1. BundleShape /\ Trainer \in Processes BY DEF BundleInv, Processes
<1>2. UNCHANGED <<mdActive, mdFallback, mdNote>> BY DEF BeginTraining, EndTraining, mdFiles
<1>3. mdAt[Trainer] \notin Writes BY DEF BeginTraining, EndTraining, Writes
<1> DEFINE previous == IF mdEngine[Trainer].meta # Absent THEN mdEngine[Trainer].meta ELSE mdActive.meta
           engine == [mdEngine EXCEPT ![Trainer].meta = previous]
<1>4. previous \in 0..Len(mdVersion) BY <1>1 DEF BundleShape, KeptVersions
<1>5. engine \in [Processes -> KeptVersions]
  <2>1. mdEngine \in [Processes -> KeptVersions] BY <1>1 DEF BundleShape
  <2>2. [mdEngine[Trainer] EXCEPT !.meta = previous] \in KeptVersions BY <1>1, <1>4, <2>1 DEF KeptVersions
  <2> QED BY <1>1, <2>1, <2>2
<1>6. ASSUME UNCHANGED <<mdVersion, mdTorn>>, mdEngine' \in {mdEngine, engine}, NEW at \in {"training", "idle"}, Go(Trainer, at)
      PROVE  BundleInv'
  <2>1. at \in Places \ Writes /\ at \notin OfTrainer BY DEF Places, Writes, OfTrainer
  <2>2. BundleShape'
    <3>1. mdEngine' \in [Processes -> KeptVersions] BY <1>1, <1>5, <1>6 DEF BundleShape
    <3>2. mdActive' \in KeptVersions /\ mdFallback' \in KeptVersions /\ mdNote' \in 0..Len(mdVersion) /\ mdTorn' \in BOOLEAN
      BY <1>1, <1>2, <1>6 DEF BundleShape
    <3> QED BY <1>1, <1>6, <2>1, <3>1, <3>2, BundleShapeStays
  <2>3. Candidate' = Candidate BY <1>6 DEF Candidate
  <2> QED BY <1>1, <1>2, <1>3, <1>6, <2>1, <2>2, <2>3, OthersStep
<1>7. CASE BeginTraining
  BY <1>6, <1>7 DEF BeginTraining
<1>8. CASE EndTraining
  <2>1. CASE Go(Trainer, "idle") /\ UNCHANGED <<mdVersion, mdTorn>> /\ mdEngine' \in {mdEngine, engine}
    BY <1>6, <2>1
  <2>2. CASE /\ Len(mdVersion) < MaxModels
             /\ mdVersion' = Append(mdVersion, VersionOf(previous) + 1)
             /\ mdEngine' = engine /\ BeginWrite /\ Go(Trainer, "keep_model")
    <3>1. VersionOf(previous) \in Int BY <1>1, <1>4 DEF VersionOf, BundleShape, Absent
    <3>2. mdVersion' \in Seq(Int) /\ Len(mdVersion') = Len(mdVersion) + 1 /\ Len(mdVersion) \in Nat /\ MaxModels \in Nat
      BY <1>1, <2>2, <3>1, ModelsAssumption DEF BundleShape
    <3>3. KeptVersions \subseteq KeptVersions' /\ 0..Len(mdVersion) \subseteq 0..Len(mdVersion')
      <4>1. 0..Len(mdVersion) \subseteq 0..(Len(mdVersion) + 1) BY ONLY <3>2
      <4>2. 0..Len(mdVersion) \subseteq 0..Len(mdVersion') BY <3>2, <4>1
      <4> QED BY ONLY <4>2 DEF KeptVersions
    <3>4. mdAt' \in [Processes -> Places] /\ \A q \in Processes : mdAt'[q] \in OfTrainer => q = Trainer
      BY <1>1, <2>2, WritesArePlaces DEF BundleShape, Go, Places, Writes
    <3>5. mdTorn' \in BOOLEAN BY <1>1, <2>2 DEF BundleShape, BeginWrite
    <3>6. mdEngine' \in [Processes -> KeptVersions'] BY <1>5, <2>2, <3>3
    <3>7. BundleShape' BY <1>1, <1>2, <2>2, <3>2, <3>3, <3>4, <3>5, <3>6 DEF BundleShape
    <3> QED BY <1>1, <1>2, <2>2, <3>7, WriteBegins
  <2> QED BY <1>8, <2>1, <2>2 DEF EndTraining
<1> QED BY <1>7, <1>8

(* The promotion of a candidate, write by write. *)
LEMMA PromotionKeeps ==
    ASSUME BundleInv, PromoteModel \/ AnnotatePromotion
    PROVE  BundleInv'
<1>1. BundleShape /\ Trainer \in Processes BY DEF BundleInv, Processes
<1>2. UNCHANGED <<mdVersion, mdTorn>> /\ Candidate' = Candidate
  BY DEF PromoteModel, AnnotatePromotion, Keep, Store, Candidate
<1>3. /\ mdActive \in KeptVersions /\ mdFallback \in KeptVersions /\ mdNote \in 0..Len(mdVersion) /\ Candidate \in 0..Len(mdVersion)
      /\ mdEngine \in [Processes -> KeptVersions] /\ mdTorn \in BOOLEAN
  BY <1>1 DEF BundleShape, Candidate
<1>4. ASSUME NEW here \in Writes, mdAt[Trainer] = here, ~mdTorn
      PROVE  Progress(here, mdActive, mdFallback, mdNote, Candidate)
  BY <1>1, <1>4 DEF BundleInv
<1>5. ASSUME mdAt[Trainer] \in Writes, NEW at \in OfTrainer \cup {"idle"}, Go(Trainer, at),
             mdActive' \in KeptVersions, mdFallback' \in KeptVersions, mdNote' \in 0..Len(mdVersion), mdEngine' \in [Processes -> KeptVersions],
             at \in Writes /\ ~mdTorn => Progress(at, mdActive', mdFallback', mdNote', Candidate),
             at = "idle" /\ ~mdTorn => OfOneModel(mdActive') /\ OfOneModel(mdFallback')
      PROVE  BundleInv'
  <2>1. at \in Places /\ (at \notin Writes => at = "idle") BY DEF Places, Writes, OfTrainer
  <2>2. BundleShape' BY <1>1, <1>2, <1>3, <1>5, <2>1, BundleShapeStays
  <2> QED BY <1>1, <1>2, <1>5, <2>1, <2>2, WriterSteps
<1>6. CASE Keep("keep_model", "model", "keep_scaler")
  <2>1. mdFallback' = (IF mdActive.model = Absent THEN mdFallback ELSE [mdFallback EXCEPT !.model = mdActive.model])
        /\ mdAt[Trainer] = "keep_model" /\ Go(Trainer, "keep_scaler") /\ UNCHANGED <<mdActive, mdEngine, mdNote>>
    BY <1>6 DEF Keep
  <2>2. mdFallback' \in KeptVersions BY <1>3, <2>1 DEF KeptVersions
  <2>3. ~mdTorn => Progress("keep_scaler", mdActive', mdFallback', mdNote', Candidate)
    <3>1. ~mdTorn => /\ OfOneModel(mdActive) /\ mdFallback.scaler = mdFallback.meta
                     /\ \/ mdFallback.model = mdFallback.meta
                        \/ mdActive.model # Absent /\ mdFallback.model = mdActive.model
      BY <1>4, <2>1 DEF Progress, Writes
    <3> QED BY <1>3, <2>1, <3>1 DEF Progress, OfOneModel, KeptVersions
  <2> QED BY <1>3, <1>5, <2>1, <2>2, <2>3 DEF OfTrainer, Writes
<1>7. CASE Keep("keep_scaler", "scaler", "keep_meta")
  <2>1. mdFallback' = (IF mdActive.scaler = Absent THEN mdFallback ELSE [mdFallback EXCEPT !.scaler = mdActive.scaler])
        /\ mdAt[Trainer] = "keep_scaler" /\ Go(Trainer, "keep_meta") /\ UNCHANGED <<mdActive, mdEngine, mdNote>>
    BY <1>7 DEF Keep
  <2>2. mdFallback' \in KeptVersions BY <1>3, <2>1 DEF KeptVersions
  <2>3. ~mdTorn => Progress("keep_meta", mdActive', mdFallback', mdNote', Candidate)
    <3>1. ~mdTorn => /\ OfOneModel(mdActive)
                     /\ \/ mdFallback.scaler = mdFallback.meta
                        \/ mdActive.model # Absent /\ mdFallback.scaler = mdActive.model
                     /\ mdFallback.model = IF mdActive.model = Absent THEN mdFallback.meta ELSE mdActive.model
      BY <1>4, <2>1 DEF Progress, Writes
    <3> QED BY <1>3, <2>1, <3>1 DEF Progress, OfOneModel, KeptVersions
  <2> QED BY <1>3, <1>5, <2>1, <2>2, <2>3 DEF OfTrainer, Writes
<1>8. CASE Keep("keep_meta", "meta", "put_scaler")
  <2>1. mdFallback' = (IF mdActive.meta = Absent THEN mdFallback ELSE [mdFallback EXCEPT !.meta = mdActive.meta])
        /\ mdAt[Trainer] = "keep_meta" /\ Go(Trainer, "put_scaler") /\ UNCHANGED <<mdActive, mdEngine, mdNote>>
    BY <1>8 DEF Keep
  <2>2. mdFallback' \in KeptVersions BY <1>3, <2>1 DEF KeptVersions
  <2>3. ~mdTorn => Progress("put_scaler", mdActive', mdFallback', mdNote', Candidate)
    <3>1. ~mdTorn => /\ OfOneModel(mdActive) /\ mdFallback.scaler = mdFallback.model
                     /\ mdFallback.model = IF mdActive.model = Absent THEN mdFallback.meta ELSE mdActive.model
      BY <1>4, <2>1 DEF Progress, Writes
    <3> QED BY <1>3, <2>1, <3>1 DEF Progress, OfOneModel, KeptVersions
  <2> QED BY <1>3, <1>5, <2>1, <2>2, <2>3 DEF OfTrainer, Writes
<1>9. CASE Store("put_scaler", "scaler", "put_model")
  <2>1. mdActive' = [mdActive EXCEPT !.scaler = Candidate]
        /\ mdAt[Trainer] = "put_scaler" /\ Go(Trainer, "put_model") /\ UNCHANGED <<mdFallback, mdEngine, mdNote>>
    BY <1>9 DEF Store
  <2>2. mdActive' \in KeptVersions BY <1>3, <2>1 DEF KeptVersions
  <2>3. ~mdTorn => Progress("put_model", mdActive', mdFallback', mdNote', Candidate)
    <3>1. ~mdTorn => OfOneModel(mdFallback) BY <1>4, <2>1 DEF Progress, Writes
    <3> QED BY <1>3, <2>1, <3>1 DEF Progress, KeptVersions
  <2> QED BY <1>3, <1>5, <2>1, <2>2, <2>3 DEF OfTrainer, Writes
<1>10. CASE Store("put_model", "model", "put_meta")
  <2>1. mdActive' = [mdActive EXCEPT !.model = Candidate]
        /\ mdAt[Trainer] = "put_model" /\ Go(Trainer, "put_meta") /\ UNCHANGED <<mdFallback, mdEngine, mdNote>>
    BY <1>10 DEF Store
  <2>2. mdActive' \in KeptVersions BY <1>3, <2>1 DEF KeptVersions
  <2>3. ~mdTorn => Progress("put_meta", mdActive', mdFallback', mdNote', Candidate)
    <3>1. ~mdTorn => OfOneModel(mdFallback) /\ mdActive.scaler = Candidate BY <1>4, <2>1 DEF Progress, Writes
    <3> QED BY <1>3, <2>1, <3>1 DEF Progress, KeptVersions
  <2> QED BY <1>3, <1>5, <2>1, <2>2, <2>3 DEF OfTrainer, Writes
<1>11. CASE Store("put_meta", "meta", "note")
  <2>1. mdActive' = [mdActive EXCEPT !.meta = Candidate] /\ mdEngine' = [mdEngine EXCEPT ![Trainer] = Whole(Candidate)]
        /\ mdAt[Trainer] = "put_meta" /\ Go(Trainer, "note") /\ UNCHANGED <<mdFallback, mdNote>>
    BY <1>11 DEF Store
  <2>2. mdActive' \in KeptVersions BY <1>3, <2>1 DEF KeptVersions
  <2>3. mdEngine' \in [Processes -> KeptVersions]
    <3>1. Whole(Candidate) \in KeptVersions BY <1>3 DEF Whole, KeptVersions
    <3> QED BY <1>3, <2>1, <3>1
  <2>4. ~mdTorn => Progress("note", mdActive', mdFallback', mdNote', Candidate)
    <3>1. ~mdTorn => OfOneModel(mdFallback) /\ mdActive.scaler = Candidate /\ mdActive.model = Candidate
      BY <1>4, <2>1 DEF Progress, Writes
    <3> QED BY <1>3, <2>1, <3>1 DEF Progress, KeptVersions, OfOneModel
  <2> QED BY <1>3, <1>5, <2>1, <2>2, <2>3, <2>4 DEF OfTrainer, Writes
<1>12. CASE AnnotatePromotion
  <2>1. UNCHANGED <<mdFallback, mdEngine>> BY <1>12 DEF AnnotatePromotion
  <2>2. CASE mdAt[Trainer] = "note" /\ mdNote' = mdActive.meta /\ Go(Trainer, "note_put") /\ UNCHANGED mdActive
    <3>1. ~mdTorn => OfOneModel(mdActive) /\ OfOneModel(mdFallback) BY <1>4, <2>2 DEF Progress, Writes
    <3>2. ~mdTorn => Progress("note_put", mdActive', mdFallback', mdNote', Candidate) BY <2>1, <2>2, <3>1 DEF Progress
    <3>3. mdNote' \in 0..Len(mdVersion) BY <1>3, <2>2 DEF KeptVersions
    <3> QED BY <1>3, <1>5, <2>1, <2>2, <3>2, <3>3 DEF OfTrainer, Writes
  <2>3. CASE mdAt[Trainer] = "note_put" /\ mdActive' = [mdActive EXCEPT !.meta = mdNote] /\ mdNote' = Absent /\ Go(Trainer, "idle")
    <3>1. ~mdTorn => OfOneModel(mdActive) /\ OfOneModel(mdFallback) /\ mdNote = mdActive.meta
      BY <1>4, <2>3 DEF Progress, Writes
    <3>2. ~mdTorn => OfOneModel(mdActive') /\ OfOneModel(mdFallback') BY <1>3, <2>1, <2>3, <3>1 DEF OfOneModel, KeptVersions
    <3>3. mdActive' \in KeptVersions BY <1>3, <2>3 DEF KeptVersions
    <3>4. mdNote' \in 0..Len(mdVersion) BY <1>1, <2>3 DEF Absent, BundleShape
    <3> QED BY <1>3, <1>5, <2>1, <2>3, <3>2, <3>3, <3>4, WritesArePlaces DEF Writes
  <2> QED BY <1>12, <2>2, <2>3 DEF AnnotatePromotion, Annotate
<1> QED BY <1>6, <1>7, <1>8, <1>9, <1>10, <1>11, <1>12 DEF PromoteModel

(* The processes of the API: what they load is trained, and a rollback puts *)
(* back the fallback file by file.                                           *)
LEMMA ScoringKeeps ==
    ASSUME BundleInv, NEW s \in Scorers, Refresh(s) \/ LoadBundle(s)
    PROVE  BundleInv'
<1>1. BundleShape /\ s \in Processes BY DEF BundleInv, Processes
<1>2. UNCHANGED <<mdActive, mdFallback, mdVersion, mdNote, mdTorn>> /\ Candidate' = Candidate
  BY DEF Refresh, LoadBundle, Load, mdFiles, Candidate
<1>3. mdActive \in KeptVersions /\ mdEngine \in [Processes -> KeptVersions] /\ mdEngine[s] \in KeptVersions BY <1>1 DEF BundleShape
<1>4. ASSUME mdAt[s] \notin Writes, NEW at \in {"idle", "load_model", "load_scaler"}, Go(s, at) \/ UNCHANGED mdAt,
             mdEngine' \in [Processes -> KeptVersions]
      PROVE  BundleInv'
  <2>1. at \in Places \ Writes /\ at \notin OfTrainer BY DEF Places, Writes, OfTrainer
  <2>2. BundleShape'
    <3>1. mdActive' \in KeptVersions /\ mdFallback' \in KeptVersions /\ mdNote' \in 0..Len(mdVersion) /\ mdTorn' \in BOOLEAN
      BY <1>1, <1>2 DEF BundleShape
    <3> QED BY <1>1, <1>2, <1>4, <2>1, <3>1, BundleShapeStays
  <2> QED BY <1>1, <1>2, <1>4, <2>1, <2>2, OthersStep
<1>5. CASE Refresh(s)
  <2> DEFINE stale == mdActive.meta # Absent /\ VersionOf(mdActive.meta) # VersionOf(mdEngine[s].meta)
             loaded == IF stale THEN [NoBundle EXCEPT !.meta = mdActive.meta] ELSE mdEngine[s]
  <2>1. mdAt[s] = "idle" /\ mdEngine' = [mdEngine EXCEPT ![s] = loaded] /\ (Go(s, "load_model") \/ UNCHANGED mdAt)
    BY <1>5 DEF Refresh
  <2>2. loaded \in KeptVersions
    <3>1. [NoBundle EXCEPT !.meta = mdActive.meta] \in KeptVersions
      <4>1. 0 \in 0..Len(mdVersion) BY <1>1 DEF BundleShape
      <4>2. mdActive.meta \in 0..Len(mdVersion) BY <1>3 DEF KeptVersions
      <4> QED BY <4>1, <4>2 DEF NoBundle, KeptVersions, Absent
    <3> QED BY <1>3, <3>1
  <2> HIDE DEF loaded
  <2>3. mdEngine' \in [Processes -> KeptVersions] BY <1>1, <1>3, <2>1, <2>2
  <2> QED BY <1>4, <2>1, <2>3, WritesArePlaces
<1>6. CASE LoadBundle(s)
  <2>1. CASE Load(s, "load_model", "model", "load_scaler")
    <3>1. [mdEngine[s] EXCEPT !.model = IF @ = Absent THEN mdActive.model ELSE @] \in KeptVersions BY <1>3 DEF KeptVersions
    <3>2. mdEngine' \in [Processes -> KeptVersions] BY <1>1, <1>3, <2>1, <3>1 DEF Load
    <3> QED BY <1>4, <2>1, <3>2 DEF Load, Writes
  <2>2. CASE Load(s, "load_scaler", "scaler", "idle")
    <3>1. [mdEngine[s] EXCEPT !.scaler = IF @ = Absent THEN mdActive.scaler ELSE @] \in KeptVersions BY <1>3 DEF KeptVersions
    <3>2. mdEngine' \in [Processes -> KeptVersions] BY <1>1, <1>3, <2>2, <3>1 DEF Load
    <3> QED BY <1>4, <2>2, <3>2 DEF Load, Writes
  <2> QED BY <1>6, <2>1, <2>2 DEF LoadBundle
<1> QED BY <1>5, <1>6

(* The return to the fallback. *)
LEMMA RollbackKeeps ==
    ASSUME BundleInv, NEW s \in Scorers, RollBack(s) \/ \E at \in {"admin_model", "live_model"} : BeginRollback(s, at)
    PROVE  BundleInv'
<1>1. BundleShape /\ s \in Processes BY DEF BundleInv, Processes
<1>2. /\ mdActive \in KeptVersions /\ mdFallback \in KeptVersions /\ mdNote \in 0..Len(mdVersion) /\ mdTorn \in BOOLEAN
      /\ mdEngine \in [Processes -> KeptVersions] /\ mdEngine[s] \in KeptVersions /\ mdAt \in [Processes -> Places]
  BY <1>1 DEF BundleShape
<1>3. UNCHANGED <<mdVersion, mdFallback, mdNote>> /\ Candidate' = Candidate
  BY DEF RollBack, Back, BackMeta, BeginRollback, mdFiles, Candidate
<1>4. ASSUME NEW here \in Writes, mdAt[s] = here, ~mdTorn
      PROVE  Progress(here, mdActive, mdFallback, mdNote, Candidate)
  BY <1>1, <1>4 DEF BundleInv
<1>5. ASSUME mdAt[s] \in Writes, NEW at \in {"admin_scaler", "admin_meta", "live_scaler", "live_meta", "idle"}, Go(s, at),
             mdActive' \in KeptVersions, mdEngine' \in [Processes -> KeptVersions], UNCHANGED mdTorn,
             at \in Writes /\ ~mdTorn => Progress(at, mdActive', mdFallback', mdNote', Candidate),
             at = "idle" /\ ~mdTorn => OfOneModel(mdActive') /\ OfOneModel(mdFallback')
      PROVE  BundleInv'
  <2>1. at \in Places /\ (at \notin Writes => at = "idle") /\ at \notin OfTrainer BY DEF Places, Writes, OfTrainer
  <2>2. BundleShape' BY <1>1, <1>2, <1>3, <1>5, <2>1, BundleShapeStays
  <2> QED BY <1>1, <1>3, <1>5, <2>1, <2>2, WriterSteps
<1>6. CASE \E at \in {"admin_model", "live_model"} : BeginRollback(s, at)
  <2>1. PICK at \in {"admin_model", "live_model"} : BeginRollback(s, at) BY <1>6
  <2>2. /\ Go(s, at) /\ BeginWrite /\ mdFallback.model # Absent
        /\ UNCHANGED <<mdActive, mdFallback, mdVersion, mdEngine, mdNote>>
    BY <2>1 DEF BeginRollback, mdFiles
  <2>3. at \in Places /\ at \notin OfTrainer BY DEF Places, Writes, OfTrainer
  <2>4. mdTorn' \in BOOLEAN BY <1>2, <2>2 DEF BeginWrite
  <2>5. BundleShape' BY <1>1, <1>2, <2>2, <2>3, <2>4, BundleShapeStays
  <2> QED BY <1>1, <2>2, <2>5, WriteBegins
<1>7. ASSUME NEW first \in {"admin_model", "live_model"}, NEW second \in {"admin_scaler", "live_scaler"},
             Back(s, first, "model", second)
      PROVE  BundleInv'
  <2>1. /\ mdActive' = [mdActive EXCEPT !.model = mdFallback.model] /\ mdAt[s] = first /\ Go(s, second)
        /\ UNCHANGED <<mdEngine, mdTorn>>
    BY <1>7 DEF Back
  <2>2. mdActive' \in KeptVersions BY <1>2, <2>1 DEF KeptVersions
  <2>3. ~mdTorn => Progress(second, mdActive', mdFallback', mdNote', Candidate)
    <3>1. ~mdTorn => OfOneModel(mdFallback) /\ mdFallback.model # Absent BY <1>4, <2>1 DEF Progress, Writes
    <3> QED BY <1>2, <1>3, <2>1, <3>1 DEF Progress, KeptVersions
  <2> QED BY <1>2, <1>5, <2>1, <2>2, <2>3 DEF Writes
<1>8. ASSUME NEW second \in {"admin_scaler", "live_scaler"}, NEW third \in {"admin_meta", "live_meta"},
             Back(s, second, "scaler", third)
      PROVE  BundleInv'
  <2>1. /\ mdActive' = [mdActive EXCEPT !.scaler = mdFallback.scaler] /\ mdAt[s] = second /\ Go(s, third)
        /\ UNCHANGED <<mdEngine, mdTorn>>
    BY <1>8 DEF Back
  <2>2. mdActive' \in KeptVersions BY <1>2, <2>1 DEF KeptVersions
  <2>3. ~mdTorn => Progress(third, mdActive', mdFallback', mdNote', Candidate)
    <3>1. ~mdTorn => OfOneModel(mdFallback) /\ mdFallback.model # Absent /\ mdActive.model = mdFallback.model
      BY <1>4, <2>1 DEF Progress, Writes
    <3> QED BY <1>2, <1>3, <2>1, <3>1 DEF Progress, KeptVersions, OfOneModel
  <2> QED BY <1>2, <1>5, <2>1, <2>2, <2>3 DEF Writes
<1>9. ASSUME NEW third \in {"admin_meta", "live_meta"}, BackMeta(s, third)
      PROVE  BundleInv'
  <2>1. /\ mdActive' = (IF mdFallback.meta = Absent THEN mdActive ELSE [mdActive EXCEPT !.meta = mdFallback.meta])
        /\ mdAt[s] = third /\ Go(s, "idle") /\ UNCHANGED mdTorn
    BY <1>9 DEF BackMeta
  <2>2. mdActive' \in KeptVersions BY <1>2, <2>1 DEF KeptVersions
  <2>3. mdEngine' \in [Processes -> KeptVersions]
    <3>1. mdEngine' \in {mdEngine, [mdEngine EXCEPT ![s] = [NoBundle EXCEPT !.meta = mdFallback.meta]]}
      BY <1>9 DEF BackMeta
    <3>2. [NoBundle EXCEPT !.meta = mdFallback.meta] \in KeptVersions
      <4>1. 0 \in 0..Len(mdVersion) BY <1>1 DEF BundleShape
      <4>2. mdFallback.meta \in 0..Len(mdVersion) BY <1>2 DEF KeptVersions
      <4> QED BY <4>1, <4>2 DEF NoBundle, KeptVersions, Absent
    <3> QED BY <1>1, <1>2, <3>1, <3>2
  <2>4. ~mdTorn => OfOneModel(mdActive') /\ OfOneModel(mdFallback')
    <3>1. ~mdTorn => /\ OfOneModel(mdFallback) /\ mdFallback.model # Absent
                     /\ mdActive.model = mdFallback.model /\ mdActive.scaler = mdFallback.model
      BY <1>4, <2>1 DEF Progress, Writes
    <3> QED BY <1>2, <1>3, <2>1, <3>1 DEF OfOneModel, KeptVersions
  <2> QED BY <1>2, <1>5, <2>1, <2>2, <2>3, <2>4, WritesArePlaces DEF Writes
<1> QED BY <1>6, <1>7, <1>8, <1>9 DEF RollBack

(* A restart cuts a write off, or changes nothing that a write depends on.   *)
LEMMA RestartKeeps ==
    ASSUME BundleInv, NEW p \in Processes, RestartOf(p)
    PROVE  BundleInv'
<1>1. BundleShape /\ UNCHANGED <<mdActive, mdFallback, mdVersion>> /\ Go(p, "idle") /\ Candidate' = Candidate
  BY DEF BundleInv, RestartOf, mdFiles, Candidate
<1>2. mdTorn' = (mdTorn \/ mdAt[p] \in Writes) /\ mdTorn \in BOOLEAN BY DEF RestartOf, BundleInv, BundleShape
<1>3. mdNote' = IF p = Trainer THEN Absent ELSE mdNote BY DEF RestartOf
<1>4. BundleShape'
  <2>1. mdEngine' \in [Processes -> KeptVersions]
    <3>1. NoBundle \in KeptVersions BY <1>1 DEF NoBundle, KeptVersions, Absent, BundleShape
    <3> QED BY <1>1, <3>1 DEF RestartOf, BundleShape
  <2>2. mdNote' \in 0..Len(mdVersion) /\ mdActive' \in KeptVersions /\ mdFallback' \in KeptVersions /\ mdTorn' \in BOOLEAN
    BY <1>1, <1>2, <1>3 DEF BundleShape, Absent
  <2> QED BY <1>1, <2>1, <2>2, WritesArePlaces, BundleShapeStays DEF OfTrainer
<1>5. CASE mdAt[p] \in Writes BY <1>2, <1>4, <1>5 DEF BundleInv
<1>6. CASE mdAt[p] \notin Writes
  <2>1. UNCHANGED mdTorn BY <1>2, <1>6
  <2> QED BY <1>1, <1>3, <1>4, <1>6, <2>1, WritesArePlaces, OthersStep
<1> QED BY <1>5, <1>6

(* What is copied in place, and where. *)
Keeping   == {"keep_model", "keep_scaler", "keep_meta"}
Returning == {"admin_model", "admin_scaler", "admin_meta", "live_model", "live_scaler", "live_meta"}

LEMMA CopiedFiles ==
    /\ DOMAIN Copied = Keeping \cup Returning /\ DOMAIN Copied \subseteq Writes
    /\ Copied["keep_model"] = <<"fallback", "model">> /\ Copied["keep_scaler"] = <<"fallback", "scaler">>
    /\ Copied["keep_meta"] = <<"fallback", "meta">>
    /\ Copied["admin_model"] = <<"active", "model">> /\ Copied["admin_scaler"] = <<"active", "scaler">>
    /\ Copied["admin_meta"] = <<"active", "meta">>
    /\ Copied["live_model"] = <<"active", "model">> /\ Copied["live_scaler"] = <<"active", "scaler">>
    /\ Copied["live_meta"] = <<"active", "meta">>
BY DEF Copied, Keeping, Returning, Writes, ActiveFile, FallbackFile

(* Where a file of either bundle may be copied. *)
LEMMA CopyPlaces ==
    /\ \A at \in DOMAIN Copied, field \in Fields : Copied[at] = FallbackFile(field) =>
          \/ at = "keep_model" /\ field = "model"
          \/ at = "keep_scaler" /\ field = "scaler"
          \/ at = "keep_meta" /\ field = "meta"
    /\ \A at \in DOMAIN Copied, field \in Fields : Copied[at] = ActiveFile(field) =>
          \/ at \in {"admin_model", "live_model"} /\ field = "model"
          \/ at \in {"admin_scaler", "live_scaler"} /\ field = "scaler"
          \/ at \in {"admin_meta", "live_meta"} /\ field = "meta"
<1>1. \A at \in DOMAIN Copied : at \in Keeping \/ at \in Returning BY CopiedFiles
<1>2. ASSUME NEW at \in Keeping, NEW field \in Fields
      PROVE  /\ Copied[at] = FallbackFile(field) =>
                  \/ at = "keep_model" /\ field = "model"
                  \/ at = "keep_scaler" /\ field = "scaler"
                  \/ at = "keep_meta" /\ field = "meta"
             /\ Copied[at] # ActiveFile(field)
  BY <1>2, CopiedFiles DEF Keeping, Fields, FallbackFile, ActiveFile
<1>3. ASSUME NEW at \in Returning, NEW field \in Fields
      PROVE  /\ Copied[at] = ActiveFile(field) =>
                  \/ at \in {"admin_model", "live_model"} /\ field = "model"
                  \/ at \in {"admin_scaler", "live_scaler"} /\ field = "scaler"
                  \/ at \in {"admin_meta", "live_meta"} /\ field = "meta"
             /\ Copied[at] # FallbackFile(field)
  BY <1>3, CopiedFiles DEF Returning, Fields, FallbackFile, ActiveFile
<1> QED BY <1>1, <1>2, <1>3

(* What is copied into a file. *)
SourceOf(f) == IF f[1] = "fallback" THEN mdActive[f[2]] ELSE mdFallback[f[2]]

(* Unless a write was cut off or two overlapped: a file that is cut short is *)
(* the one that is being copied, and there is something to copy.             *)
CutInv ==
    /\ mdCut \subseteq {"active", "fallback"} \X Fields
    /\ ~mdTorn => \A f \in mdCut :
          /\ SourceOf(f) # Absent
          /\ \E p \in Processes : mdAt[p] \in DOMAIN Copied /\ Copied[mdAt[p]] = f

(* No file is cut short at first. *)
LEMMA CutInit == MdInit => CutInv
BY DEF MdInit, CutInv

(* While one process writes, no other file is cut short than the one it      *)
(* copies, and with no write none is.                                        *)
LEMMA OnlyCut ==
    ASSUME BundleInv, CutInv, ~mdTorn
    PROVE  /\ ~UnderWay => mdCut = {}
           /\ \A p \in Processes, f \in mdCut : mdAt[p] \in Writes =>
                mdAt[p] \in DOMAIN Copied /\ Copied[mdAt[p]] = f
<1>1. \A f \in mdCut : \E q \in Processes : mdAt[q] \in Writes /\ mdAt[q] \in DOMAIN Copied /\ Copied[mdAt[q]] = f
  BY CopiedFiles DEF CutInv
<1>2. \A p, q \in Processes : mdAt[p] \in Writes /\ mdAt[q] \in Writes => p = q BY DEF BundleInv
<1> QED BY <1>1, <1>2 DEF UnderWay

(* A copy begins: the file has its number, but not what it stands for.       *)
LEMMA CopyKeeps ==
    ASSUME BundleInv, BeginCopy
    PROVE  BundleInv'
<1>1. BundleShape /\ Trainer \in Processes /\ Scorers \subseteq Processes BY DEF BundleInv, Processes
<1>2. /\ mdActive \in KeptVersions /\ mdFallback \in KeptVersions /\ mdNote \in 0..Len(mdVersion) /\ mdTorn \in BOOLEAN
      /\ mdEngine \in [Processes -> KeptVersions] /\ mdAt \in [Processes -> Places]
  BY <1>1 DEF BundleShape
<1>3. UNCHANGED <<mdVersion, mdEngine, mdAt, mdNote, mdTorn>> /\ Candidate' = Candidate
  BY DEF BeginCopy, BeginKeep, BeginBack, Candidate
<1>4. ASSUME NEW p \in Processes, mdAt[p] \in Writes, mdActive' \in KeptVersions, mdFallback' \in KeptVersions,
             ~mdTorn => Progress(mdAt[p], mdActive', mdFallback', mdNote, Candidate)
      PROVE  BundleInv'
  <2>1. mdAt[p] \in Places /\ Go(p, mdAt[p]) BY <1>2, <1>3, <1>4 DEF Go
  <2>2. mdAt[p] \in OfTrainer => p = Trainer BY <1>1 DEF BundleShape
  <2>3. BundleShape' BY <1>1, <1>2, <1>3, <1>4, <2>1, <2>2, BundleShapeStays
  <2> QED BY <1>3, <1>4, <2>1, <2>3, WriterSteps
<1>5. ASSUME NEW p \in Processes, mdAt[p] \in Writes, ~mdTorn
      PROVE  Progress(mdAt[p], mdActive, mdFallback, mdNote, Candidate)
  BY <1>5 DEF BundleInv
<1>6. ASSUME NEW field \in Fields, BeginKeep(field) PROVE BundleInv'
  <2>1. /\ mdFallback' = [mdFallback EXCEPT ![field] = mdActive[field]] /\ UNCHANGED mdActive
        /\ mdActive[field] # Absent /\ mdAt[Trainer] \in Writes
        /\ \/ mdAt[Trainer] = "keep_model" /\ field = "model"
           \/ mdAt[Trainer] = "keep_scaler" /\ field = "scaler"
           \/ mdAt[Trainer] = "keep_meta" /\ field = "meta"
    BY <1>6, CopiedFiles, CopyPlaces DEF BeginKeep
  <2>2. mdFallback' \in KeptVersions BY <1>2, <2>1 DEF KeptVersions
  <2>3. ~mdTorn => Progress(mdAt[Trainer], mdActive, mdFallback, mdNote, Candidate) BY <1>1, <1>5, <2>1
  <2>4. ~mdTorn => Progress(mdAt[Trainer], mdActive', mdFallback', mdNote, Candidate)
    <3>1. CASE mdAt[Trainer] = "keep_model" /\ field = "model"
      <4>1. mdFallback' = [mdFallback EXCEPT !.model = mdActive.model] /\ mdActive.model # Absent BY <2>1, <3>1
      <4> QED BY <1>2, <2>1, <2>3, <3>1, <4>1 DEF Progress, KeptVersions, OfOneModel
    <3>2. CASE mdAt[Trainer] = "keep_scaler" /\ field = "scaler"
      <4>1. mdFallback' = [mdFallback EXCEPT !.scaler = mdActive.scaler] /\ mdActive.scaler # Absent BY <2>1, <3>2
      <4> QED BY <1>2, <2>1, <2>3, <3>2, <4>1 DEF Progress, KeptVersions, OfOneModel
    <3>3. CASE mdAt[Trainer] = "keep_meta" /\ field = "meta"
      <4>1. mdFallback' = [mdFallback EXCEPT !.meta = mdActive.meta] /\ mdActive.meta # Absent BY <2>1, <3>3
      <4> QED BY <1>2, <2>1, <2>3, <3>3, <4>1 DEF Progress, KeptVersions, OfOneModel
    <3> QED BY <2>1, <3>1, <3>2, <3>3
  <2> QED BY <1>1, <1>2, <1>4, <2>1, <2>2, <2>4
<1>7. ASSUME NEW field \in Fields, NEW s \in Scorers, BeginBack(s, field) PROVE BundleInv'
  <2>1. /\ mdActive' = [mdActive EXCEPT ![field] = mdFallback[field]] /\ UNCHANGED mdFallback
        /\ mdAt[s] \in Writes
        /\ \/ mdAt[s] \in {"admin_model", "live_model"} /\ field = "model"
           \/ mdAt[s] \in {"admin_scaler", "live_scaler"} /\ field = "scaler"
           \/ mdAt[s] \in {"admin_meta", "live_meta"} /\ field = "meta"
    BY <1>7, CopiedFiles, CopyPlaces DEF BeginBack
  <2>2. mdActive' \in KeptVersions BY <1>2, <2>1 DEF KeptVersions
  <2>3. ~mdTorn => Progress(mdAt[s], mdActive, mdFallback, mdNote, Candidate) BY <1>1, <1>5, <2>1
  <2>4. ~mdTorn => Progress(mdAt[s], mdActive', mdFallback', mdNote, Candidate)
    <3>1. CASE mdAt[s] \in {"admin_model", "live_model"} /\ field = "model"
      BY <1>2, <2>1, <2>3, <3>1 DEF Progress, KeptVersions, OfOneModel
    <3>2. CASE mdAt[s] \in {"admin_scaler", "live_scaler"} /\ field = "scaler"
      <4>1. mdActive' = [mdActive EXCEPT !.scaler = mdFallback.scaler] BY <2>1, <3>2
      <4> QED BY <1>2, <2>1, <2>3, <3>2, <4>1 DEF Progress, KeptVersions, OfOneModel
    <3>3. CASE mdAt[s] \in {"admin_meta", "live_meta"} /\ field = "meta"
      <4>1. mdActive' = [mdActive EXCEPT !.meta = mdFallback.meta] BY <2>1, <3>3
      <4> QED BY <1>2, <2>1, <2>3, <3>3, <4>1 DEF Progress, KeptVersions, OfOneModel
    <3> QED BY <2>1, <3>1, <3>2, <3>3
  <2> QED BY <1>1, <1>2, <1>4, <2>1, <2>2, <2>4
<1> QED BY <1>6, <1>7 DEF BeginCopy

(* What a process reads at its place. *)
LEMMA ReadingPlaces ==
    ASSUME NEW p, ReadFails(p)
    PROVE  \/ mdAt[p] = "load_model" /\ mdEngine[p].model = Absent
           \/ mdAt[p] = "load_scaler" /\ mdEngine[p].scaler = Absent /\ ActiveFile("scaler") \in mdCut
           \/ mdAt[p] \in {"admin_meta", "live_meta"} /\ FallbackFile("meta") \in mdCut
           \/ mdAt[p] = "note" /\ ActiveFile("meta") \in mdCut
BY DEF ReadFails, Reads

(* A read that fails is of a process that writes nothing, or of one that was *)
(* disturbed.                                                                *)
LEMMA FailureKeeps ==
    ASSUME BundleInv, CutInv, NEW p \in Processes, ReadFails(p)
    PROVE  BundleInv'
<1>1. /\ BundleShape /\ UNCHANGED <<mdActive, mdFallback, mdVersion, mdEngine, mdNote, mdTorn>>
      /\ Go(p, "idle") /\ Candidate' = Candidate
  BY DEF BundleInv, ReadFails, mdFiles, Candidate
<1>2. BundleShape'
  <2>1. /\ mdNote' \in 0..Len(mdVersion) /\ mdActive' \in KeptVersions /\ mdFallback' \in KeptVersions
        /\ mdTorn' \in BOOLEAN /\ mdEngine' \in [Processes -> KeptVersions]
    BY <1>1 DEF BundleShape
  <2> QED BY <1>1, <2>1, WritesArePlaces, BundleShapeStays DEF OfTrainer
<1>3. CASE mdTorn BY <1>1, <1>2, <1>3 DEF BundleInv
<1>4. CASE ~mdTorn /\ mdAt[p] \in Writes
  <2>1. \A f \in mdCut : mdAt[p] \in DOMAIN Copied /\ Copied[mdAt[p]] = f BY <1>4, OnlyCut
  <2>2. "load_model" \notin Writes /\ "load_scaler" \notin Writes /\ "note" \notin DOMAIN Copied
    BY CopiedFiles DEF Writes, Keeping, Returning
  <2>3. mdAt[p] \in {"admin_meta", "live_meta"} /\ FallbackFile("meta") \in mdCut BY <1>4, <2>1, <2>2, ReadingPlaces
  <2>4. Copied[mdAt[p]] = <<"active", "meta">> BY <2>3, CopiedFiles
  <2> QED BY <2>1, <2>3, <2>4 DEF FallbackFile
<1>5. CASE ~mdTorn /\ mdAt[p] \notin Writes
  BY <1>1, <1>2, <1>5, WritesArePlaces, OthersStep
<1> QED BY <1>3, <1>4, <1>5

(* Every step keeps the bundles. *)
LEMMA BundleNext == BundleInv /\ CutInv /\ [MdNext]_mdVars => BundleInv'
<1> SUFFICES ASSUME BundleInv, CutInv, [MdNext]_mdVars PROVE BundleInv'
  OBVIOUS
<1>1. CASE BeginTraining \/ EndTraining BY <1>1, TrainingKeeps
<1>2. CASE PromoteModel \/ AnnotatePromotion BY <1>2, PromotionKeeps
<1>3. ASSUME NEW s \in Scorers, Refresh(s) \/ LoadBundle(s) PROVE BundleInv' BY <1>3, ScoringKeeps
<1>4. ASSUME NEW s \in Scorers, RollBack(s) \/ \E at \in {"admin_model", "live_model"} : BeginRollback(s, at)
      PROVE  BundleInv'
  BY <1>4, RollbackKeeps
<1>5. ASSUME NEW p \in Processes, RestartOf(p) PROVE BundleInv' BY <1>5, RestartKeeps
<1>6. CASE (\E on \in BOOLEAN : SetFreeze(on)) \/ FreezeExpires \/ CoolingEnds \/ UNCHANGED mdVars
  <2>1. UNCHANGED <<mdActive, mdFallback, mdVersion, mdEngine, mdAt, mdNote, mdTorn>>
    BY <1>6 DEF SetFreeze, FreezeExpires, CoolingEnds, mdVars, mdFiles
  <2> QED BY <2>1 DEF BundleInv, BundleShape, KeptVersions, UnderWay, Candidate
<1>7. CASE BeginCopy BY <1>7, CopyKeeps
<1>8. ASSUME NEW p \in Processes, ReadFails(p) PROVE BundleInv' BY <1>8, FailureKeeps
<1> QED BY <1>1, <1>2, <1>3, <1>4, <1>5, <1>6, <1>7, <1>8 DEF MdNext

(* A step outside of the writes leaves what is cut short, and what may be.   *)
LEMMA CutRests ==
    ASSUME CutInv, BundleShape, UNCHANGED <<mdActive, mdFallback, mdCut, mdTorn>>, NEW p \in Processes, NEW at,
           mdAt[p] \notin DOMAIN Copied, Go(p, at) \/ UNCHANGED mdAt
    PROVE  CutInv'
<1>1. \A q \in Processes : q # p => mdAt'[q] = mdAt[q] BY DEF Go, BundleShape
<1>2. \A f \in mdCut : SourceOf(f)' = SourceOf(f) BY DEF SourceOf
<1> QED BY <1>1, <1>2 DEF CutInv

(* The only writer is through with its file, or does not copy one.           *)
LEMMA CutEnds ==
    ASSUME BundleInv, CutInv, NEW p \in Processes, mdAt[p] \in Writes, UNCHANGED mdTorn,
           mdCut' \subseteq {"active", "fallback"} \X Fields,
           ~mdTorn /\ mdAt[p] \notin DOMAIN Copied => mdCut' \subseteq mdCut,
           ~mdTorn /\ mdAt[p] \in DOMAIN Copied => mdCut' \subseteq mdCut \ {Copied[mdAt[p]]}
    PROVE  CutInv'
<1>1. ~mdTorn => mdCut' = {} BY OnlyCut
<1> QED BY <1>1 DEF CutInv

(* A copy is filled by what is not cut short itself.                         *)
LEMMA FilledEnds ==
    ASSUME BundleInv, CutInv, ~mdTorn, NEW p \in Processes, mdAt[p] \in DOMAIN Copied,
           NEW from, from # Copied[mdAt[p]], Filled(Copied[mdAt[p]], from)
    PROVE  mdCut' \subseteq mdCut \ {Copied[mdAt[p]]}
<1>1. mdAt[p] \in Writes BY CopiedFiles
<1>2. from \notin mdCut BY <1>1, OnlyCut
<1> QED BY <1>2 DEF Filled

(* Every step keeps what is cut short.                                       *)
LEMMA CutNext == BundleInv /\ CutInv /\ [MdNext]_mdVars => CutInv'
<1> SUFFICES ASSUME BundleInv, CutInv, [MdNext]_mdVars PROVE CutInv'
  OBVIOUS
<1>1. /\ BundleShape /\ Trainer \in Processes /\ Scorers \subseteq Processes /\ mdAt \in [Processes -> Places]
      /\ mdCut \subseteq {"active", "fallback"} \X Fields
  BY DEF BundleInv, BundleShape, CutInv, Processes
<1>2. /\ {"idle", "training", "load_model", "load_scaler"} \cap DOMAIN Copied = {}
      /\ {"put_scaler", "put_model", "put_meta", "note", "note_put"} \cap DOMAIN Copied = {}
  BY CopiedFiles DEF Keeping, Returning
<1>3. \A field \in Fields : ActiveFile(field) \in {"active", "fallback"} \X Fields /\ FallbackFile(field) \in {"active", "fallback"} \X Fields
  BY DEF ActiveFile, FallbackFile
<1>4. {"model", "scaler", "meta"} \subseteq Fields BY DEF Fields
<1>5. ASSUME BeginWrite, UNCHANGED mdFiles PROVE CutInv'
  <2>1. UNCHANGED mdCut BY <1>5 DEF mdFiles
  <2>2. ~mdTorn' => mdCut = {} BY <1>5, OnlyCut DEF BeginWrite
  <2> QED BY <1>1, <2>1, <2>2 DEF CutInv
<1>6. CASE BeginTraining \/ EndTraining
  <2>1. mdAt[Trainer] \notin DOMAIN Copied BY <1>2, <1>6 DEF BeginTraining, EndTraining
  <2>2. CASE EndTraining /\ BeginWrite BY <1>5, <2>2 DEF EndTraining
  <2>3. CASE UNCHANGED mdTorn /\ \E at \in {"training", "idle"} : Go(Trainer, at)
    <3>1. UNCHANGED <<mdActive, mdFallback, mdCut, mdTorn>> BY <1>6, <2>3 DEF BeginTraining, EndTraining, mdFiles
    <3> QED BY <1>1, <2>1, <2>3, <3>1, CutRests
  <2> QED BY <1>6, <2>2, <2>3 DEF BeginTraining, EndTraining
<1>7. ASSUME NEW at \in Keeping, NEW field \in Fields, NEW next, Keep(at, field, next), Copied[at] = FallbackFile(field)
      PROVE  CutInv'
  <2>1. mdAt[Trainer] = at /\ at \in DOMAIN Copied /\ at \in Writes /\ UNCHANGED mdTorn BY <1>7, CopiedFiles DEF Keep
  <2>2. CASE mdActive[field] = Absent
    <3>1. UNCHANGED mdCut BY <1>7, <2>2 DEF Keep
    <3>2. SourceOf(FallbackFile(field)) = Absent BY <2>2 DEF SourceOf, FallbackFile
    <3>3. ~mdTorn => FallbackFile(field) \notin mdCut BY <3>2 DEF CutInv
    <3> QED BY <1>1, <1>7, <2>1, <3>1, <3>3, CutEnds
  <2>3. CASE mdActive[field] # Absent
    <3>1. Filled(FallbackFile(field), ActiveFile(field)) BY <1>7, <2>3 DEF Keep
    <3>2. ActiveFile(field) # FallbackFile(field) BY DEF ActiveFile, FallbackFile
    <3>3. mdCut' \subseteq {"active", "fallback"} \X Fields BY <1>1, <1>3, <3>1 DEF Filled
    <3>4. ~mdTorn => mdCut' \subseteq mdCut \ {Copied[mdAt[Trainer]]} BY <1>1, <1>7, <2>1, <3>1, <3>2, FilledEnds
    <3> QED BY <1>1, <2>1, <3>3, <3>4, CutEnds
  <2> QED BY <2>2, <2>3
<1>8. ASSUME NEW at \in {"put_scaler", "put_model", "put_meta"}, NEW field \in Fields, NEW next, Store(at, field, next)
      PROVE  CutInv'
  <2>1. mdAt[Trainer] = at /\ at \in Writes /\ at \notin DOMAIN Copied /\ UNCHANGED mdTorn /\ mdCut' \subseteq mdCut
    BY <1>2, <1>8 DEF Store, Writes
  <2> QED BY <1>1, <2>1, CutEnds
<1>9. CASE PromoteModel
  BY <1>4, <1>7, <1>8, <1>9, CopiedFiles DEF PromoteModel, Keeping, FallbackFile
<1>10. CASE AnnotatePromotion
  <2>1. mdAt[Trainer] \in {"note", "note_put"} /\ UNCHANGED mdTorn /\ mdCut' \subseteq mdCut
    BY <1>10 DEF AnnotatePromotion, Annotate
  <2>2. mdAt[Trainer] \in Writes /\ mdAt[Trainer] \notin DOMAIN Copied BY <1>2, <2>1 DEF Writes
  <2> QED BY <1>1, <2>1, <2>2, CutEnds
<1>11. ASSUME NEW s \in Scorers, Refresh(s) \/ LoadBundle(s) PROVE CutInv'
  <2>1. /\ UNCHANGED <<mdActive, mdFallback, mdCut, mdTorn>> /\ mdAt[s] \in {"idle", "load_model", "load_scaler"}
        /\ UNCHANGED mdAt \/ \E at : Go(s, at)
    BY <1>11 DEF Refresh, LoadBundle, Load, mdFiles
  <2>2. s \in Processes /\ mdAt[s] \notin DOMAIN Copied BY <1>1, <1>2, <2>1
  <2> QED BY <1>1, <2>1, <2>2, CutRests
<1>12. ASSUME NEW s \in Scorers, NEW at, BeginRollback(s, at) PROVE CutInv' BY <1>5, <1>12 DEF BeginRollback
<1>13. ASSUME NEW s \in Scorers, NEW at \in Returning, NEW field \in Fields, NEW next, Back(s, at, field, next),
              Copied[at] = ActiveFile(field)
       PROVE  CutInv'
  <2>1. mdAt[s] = at /\ at \in DOMAIN Copied /\ at \in Writes /\ UNCHANGED mdTorn /\ s \in Processes
    BY <1>1, <1>13, CopiedFiles DEF Back
  <2>2. Filled(ActiveFile(field), FallbackFile(field)) BY <1>13 DEF Back
  <2>3. ActiveFile(field) # FallbackFile(field) BY DEF ActiveFile, FallbackFile
  <2>4. mdCut' \subseteq {"active", "fallback"} \X Fields BY <1>1, <1>3, <2>2 DEF Filled
  <2>5. ~mdTorn => mdCut' \subseteq mdCut \ {Copied[mdAt[s]]} BY <1>13, <2>1, <2>2, <2>3, FilledEnds
  <2> QED BY <2>1, <2>4, <2>5, CutEnds
<1>14. ASSUME NEW s \in Scorers, NEW at \in {"admin_meta", "live_meta"}, BackMeta(s, at) PROVE CutInv'
  <2>1. mdAt[s] = at /\ at \in Writes /\ UNCHANGED mdTorn /\ s \in Processes /\ at \in DOMAIN Copied
    BY <1>1, <1>14, CopiedFiles DEF BackMeta, Returning, Writes
  <2>2. Copied[at] = ActiveFile("meta") BY CopiedFiles DEF ActiveFile
  <2>3. CASE mdFallback.meta = Absent
    <3>1. UNCHANGED mdCut BY <1>14, <2>3 DEF BackMeta
    <3>2. SourceOf(ActiveFile("meta")) = Absent BY <2>3 DEF SourceOf, ActiveFile
    <3>3. ~mdTorn => ActiveFile("meta") \notin mdCut BY <3>2 DEF CutInv
    <3> QED BY <1>1, <2>1, <2>2, <3>1, <3>3, CutEnds
  <2>4. CASE mdFallback.meta # Absent
    <3>1. mdCut' = mdCut \ {ActiveFile("meta")} BY <1>14, <2>4 DEF BackMeta
    <3> QED BY <1>1, <2>1, <2>2, <3>1, CutEnds
  <2> QED BY <2>3, <2>4
<1>15. ASSUME NEW s \in Scorers, RollBack(s) PROVE CutInv'
  BY <1>4, <1>13, <1>14, <1>15, CopiedFiles DEF RollBack, Returning, ActiveFile
<1>16. ASSUME NEW p \in Processes, RestartOf(p) PROVE CutInv'
  <2>1. UNCHANGED <<mdActive, mdFallback, mdCut>> /\ Go(p, "idle") /\ mdTorn' = (mdTorn \/ mdAt[p] \in Writes)
    BY <1>16 DEF RestartOf, mdFiles
  <2>2. CASE mdAt[p] \in Writes BY <1>1, <2>1, <2>2 DEF CutInv
  <2>3. CASE mdAt[p] \notin Writes
    <3>1. mdAt[p] \notin DOMAIN Copied /\ mdTorn' = mdTorn
      <4>1. mdTorn \in BOOLEAN BY <1>1 DEF BundleShape
      <4> QED BY <2>1, <2>3, <4>1, CopiedFiles
    <3> QED BY <1>1, <2>1, <3>1, CutRests
  <2> QED BY <2>2, <2>3
<1>17. ASSUME NEW p \in Processes, ReadFails(p) PROVE CutInv'
  <2>1. UNCHANGED <<mdActive, mdFallback, mdCut, mdTorn>> /\ Go(p, "idle") BY <1>17 DEF ReadFails, mdFiles
  <2>2. CASE mdAt[p] \notin DOMAIN Copied BY <1>1, <2>1, <2>2, CutRests
  <2>3. CASE mdAt[p] \in DOMAIN Copied
    <3>1. ~mdTorn => mdCut' \subseteq mdCut \ {Copied[mdAt[p]]}
      <4>1. mdAt[p] \in {"admin_meta", "live_meta"} /\ FallbackFile("meta") \in mdCut
        BY <1>2, <1>17, <2>3, ReadingPlaces
      <4>2. Copied[mdAt[p]] # FallbackFile("meta") BY <4>1, CopiedFiles DEF FallbackFile
      <4>3. mdTorn BY <2>3, <4>1, <4>2, OnlyCut, CopiedFiles
      <4> QED BY <4>3
    <3> QED BY <1>1, <2>1, <2>3, <3>1, CutEnds, CopiedFiles
  <2> QED BY <2>2, <2>3
<1>18. ASSUME NEW file, NEW p \in Processes, mdAt[p] \in DOMAIN Copied, file = Copied[mdAt[p]], mdCut' = mdCut \cup {file},
              file \in {"active", "fallback"} \X Fields, UNCHANGED <<mdAt, mdTorn>>, ~mdTorn => SourceOf(file)' # Absent
       PROVE  CutInv'
  <2>1. mdAt[p] \in Writes BY <1>18, CopiedFiles
  <2>2. ~mdTorn => \A f \in mdCut' : f = file BY <1>18, <2>1, OnlyCut
  <2> QED BY <1>1, <1>18, <2>2 DEF CutInv
<1>19. CASE BeginCopy
  <2>1. ASSUME NEW field \in Fields, BeginKeep(field) PROVE CutInv'
    <3>1. SourceOf(FallbackFile(field))' # Absent BY <2>1 DEF BeginKeep, SourceOf, FallbackFile
    <3> QED BY <1>1, <1>3, <1>18, <2>1, <3>1 DEF BeginKeep
  <2>2. ASSUME NEW field \in Fields, NEW s \in Scorers, BeginBack(s, field) PROVE CutInv'
    <3>1. SourceOf(ActiveFile(field))' # Absent BY <2>2 DEF BeginBack, SourceOf, ActiveFile
    <3> QED BY <1>1, <1>3, <1>18, <2>2, <3>1 DEF BeginBack
  <2> QED BY <1>19, <2>1, <2>2 DEF BeginCopy
<1>20. CASE (\E on \in BOOLEAN : SetFreeze(on)) \/ FreezeExpires \/ CoolingEnds \/ UNCHANGED mdVars
  <2>1. UNCHANGED <<mdActive, mdFallback, mdCut, mdTorn, mdAt>>
    BY <1>20 DEF SetFreeze, FreezeExpires, CoolingEnds, mdVars, mdFiles
  <2>2. \A f \in mdCut : SourceOf(f)' = SourceOf(f) BY <2>1 DEF SourceOf
  <2> QED BY <2>1, <2>2 DEF CutInv
<1> QED BY <1>6, <1>9, <1>10, <1>11, <1>12, <1>15, <1>16, <1>17, <1>19, <1>20 DEF MdNext

(* "Atomic model promotion with fallback bundles" (ModelRegistry): each      *)
(* promotion and rollback writes three files one by one, in any number of   *)
(* processes that restart, the copies where they stand; and when no write is *)
(* under way, none was cut off and no two overlapped, both bundles are of    *)
(* one model each and none of their files is cut short.                      *)
THEOREM BundlesStayWhole == MdSpec => []BundlesAreWhole
<1>1. MdInit => BundleInv /\ CutInv BY BundleInit, CutInit
<1>2. BundleInv /\ CutInv /\ [MdNext]_mdVars => (BundleInv /\ CutInv)' BY BundleNext, CutNext
<1>3. BundleInv /\ CutInv => BundlesAreWhole
  <2> SUFFICES ASSUME BundleInv, CutInv, ~UnderWay, ~mdTorn
               PROVE  mdCut = {} /\ \E n, m \in 0..MaxModels : mdActive = Whole(n) /\ mdFallback = Whole(m)
    BY DEF BundlesAreWhole
  <2>1. OfOneModel(mdActive) /\ OfOneModel(mdFallback) /\ mdActive \in KeptVersions /\ mdFallback \in KeptVersions
    BY DEF BundleInv, BundleShape
  <2>2. Len(mdVersion) \in Nat /\ Len(mdVersion) <= MaxModels /\ MaxModels \in Nat
    BY ModelsAssumption DEF BundleInv, BundleShape
  <2>3. mdActive.model \in 0..MaxModels /\ mdFallback.model \in 0..MaxModels BY <2>1, <2>2 DEF KeptVersions
  <2>4. mdActive = Whole(mdActive.model) /\ mdFallback = Whole(mdFallback.model)
    BY <2>1 DEF Whole, OfOneModel, KeptVersions
  <2>5. mdCut = {} BY OnlyCut
  <2> QED BY <2>3, <2>4, <2>5
<1> QED BY <1>1, <1>2, <1>3, PTL DEF MdSpec

(* A file that exists is written again, and never taken away: where the one *)
(* bundle has a file, the other has.                                        *)
Covers(a, b) ==
    /\ b.model # Absent => a.model # Absent
    /\ b.scaler # Absent => a.scaler # Absent
    /\ b.meta # Absent => a.meta # Absent

Promoting == {"keep_model", "keep_scaler", "keep_meta", "put_scaler", "put_model", "put_meta"}
Loading   == {"load_model", "load_scaler"}

(* Versions count from one, and files appear in the order of a promotion.   *)
FilesInv ==
    /\ \A n \in 1..Len(mdVersion) : mdVersion[n] \in 1..n
    /\ mdActive.model # Absent => mdActive.scaler # Absent
    /\ mdActive.meta # Absent => mdActive.model # Absent
    /\ Covers(mdActive, mdFallback)
    /\ \A s \in Scorers : Covers(mdActive, mdEngine[s])
    /\ mdAt[Trainer] \in Promoting => Candidate # 0
    /\ mdAt[Trainer] = "put_model" => mdActive.scaler # Absent
    /\ mdAt[Trainer] = "put_meta" => mdActive.model # Absent
    /\ mdAt[Trainer] = "note" => mdActive.meta # Absent
    /\ mdAt[Trainer] = "note_put" => mdActive.meta # Absent /\ mdNote # Absent
    /\ \A s \in Scorers : mdAt[s] \in Returning => mdFallback.model # Absent /\ mdFallback.scaler # Absent

(* What a process that has no model holds.                                  *)
Holds(e, at) ==
    /\ at # "load_scaler" /\ e.model = Absent /\ e.scaler # Absent => e.meta = Absent
    /\ at = "load_scaler" /\ e.model = Absent => e.meta = Absent

(* Unless a write was cut off or overlapped, or was under way as it loaded:  *)
(* it loads what is active, and what it has loaded is one model.            *)
LoadsOne(e, at, active) ==
    /\ at \in Loading => e.scaler = Absent /\ VersionOf(e.meta) = VersionOf(active.meta)
    /\ at = "load_model" => e.model = Absent
    /\ at = "load_scaler" => e.model = active.model
    /\ at \notin Loading /\ e.model # Absent => e.scaler = e.model /\ VersionOf(e.meta) = VersionOf(e.model)
ScorerInv(s) ==
    /\ Holds(mdEngine[s], mdAt[s])
    /\ ~mdTorn /\ ~mdBlur[s] =>
         /\ mdAt[s] \in Loading => ~UnderWay
         /\ LoadsOne(mdEngine[s], mdAt[s], mdActive)

AgreeInv ==
    /\ BundleInv /\ CutInv /\ FilesInv /\ mdBlur \in [Scorers -> BOOLEAN]
    /\ \A s \in Scorers : ScorerInv(s)

(* Nothing is there at first. *)
LEMMA AgreeInit == MdInit => AgreeInv
<1> SUFFICES ASSUME MdInit PROVE AgreeInv
  OBVIOUS
<1>1. BundleInv /\ CutInv BY BundleInit, CutInit
<1>2. Scorers \subseteq Processes /\ Trainer \in Processes BY DEF Processes
<1>3. /\ \A p \in Processes : mdAt[p] = "idle" /\ mdEngine[p] = NoBundle
      /\ mdActive = NoBundle /\ mdFallback = NoBundle /\ Len(mdVersion) = 0 /\ mdBlur \in [Scorers -> BOOLEAN]
  BY DEF MdInit
<1>4. NoBundle.model = Absent /\ NoBundle.scaler = Absent /\ NoBundle.meta = Absent BY DEF NoBundle
<1>5. \A b : Covers(b, NoBundle) BY <1>4 DEF Covers
<1>6. FilesInv BY <1>2, <1>3, <1>4, <1>5 DEF FilesInv, Promoting, Returning
<1>7. \A s \in Scorers : ScorerInv(s) BY <1>2, <1>3, <1>4 DEF ScorerInv, Holds, LoadsOne, Loading
<1> QED BY <1>1, <1>3, <1>6, <1>7 DEF AgreeInv

(* A step of one process that takes no file away. *)
LEMMA FilesStep ==
    ASSUME FilesInv, BundleShape, UNCHANGED mdVersion, NEW p \in Processes, NEW at,
           Covers(mdActive', mdFallback'), \A s \in Scorers : Covers(mdActive', mdEngine'[s]),
           Covers(mdActive', mdActive), Covers(mdFallback', mdFallback),
           mdActive'.model # Absent => mdActive'.scaler # Absent, mdActive'.meta # Absent => mdActive'.model # Absent,
           \/ Go(p, at) /\ (p = Trainer \/ UNCHANGED mdNote)
           \/ UNCHANGED <<mdAt, mdNote>>,
           at \in Promoting => Candidate # 0,
           at = "put_model" => mdActive'.scaler # Absent,
           at = "put_meta" => mdActive'.model # Absent,
           at = "note" => mdActive'.meta # Absent,
           at = "note_put" => mdActive'.meta # Absent /\ mdNote' # Absent,
           at \in Returning => mdFallback'.model # Absent /\ mdFallback'.scaler # Absent
    PROVE  FilesInv'
<1>1. Trainer \in Processes /\ mdAt \in [Processes -> Places] /\ Scorers \subseteq Processes
  BY DEF Processes, BundleShape
<1>2. \A q \in Processes : mdAt'[q] \in {mdAt[q], at} BY <1>1 DEF Go
<1>3. (mdAt'[Trainer] = mdAt[Trainer] /\ mdNote' = mdNote) \/ mdAt'[Trainer] = at BY <1>1 DEF Go
<1>4. Candidate' = Candidate BY DEF Candidate
<1>5. mdActive.model # Absent => mdActive'.model # Absent BY DEF Covers
<1>6. mdActive.scaler # Absent => mdActive'.scaler # Absent BY DEF Covers
<1>7. mdActive.meta # Absent => mdActive'.meta # Absent BY DEF Covers
<1>8. mdAt'[Trainer] \in Promoting => Candidate' # 0 BY <1>3, <1>4 DEF FilesInv
<1>9. mdAt'[Trainer] = "put_model" => mdActive'.scaler # Absent BY <1>3, <1>6 DEF FilesInv
<1>10. mdAt'[Trainer] = "put_meta" => mdActive'.model # Absent BY <1>3, <1>5 DEF FilesInv
<1>11. mdAt'[Trainer] = "note" => mdActive'.meta # Absent BY <1>3, <1>7 DEF FilesInv
<1>12. mdAt'[Trainer] = "note_put" => mdActive'.meta # Absent /\ mdNote' # Absent BY <1>3, <1>7 DEF FilesInv
<1>13. ASSUME NEW s \in Scorers, mdAt'[s] \in Returning PROVE mdFallback'.model # Absent /\ mdFallback'.scaler # Absent
  <2>1. CASE mdAt'[s] = mdAt[s] BY <1>13, <2>1 DEF FilesInv, Covers
  <2>2. CASE mdAt'[s] = at BY <1>13, <2>2
  <2> QED BY <1>1, <1>2, <2>1, <2>2
<1>14. \A n \in 1..Len(mdVersion') : mdVersion'[n] \in 1..n BY DEF FilesInv
<1> QED BY <1>8, <1>9, <1>10, <1>11, <1>12, <1>13, <1>14 DEF FilesInv

(* To cover is reflexive and transitive. *)
LEMMA CoversMore ==
    /\ \A b : Covers(b, b) /\ Covers(b, NoBundle)
    /\ \A a, b, c : Covers(a, b) /\ Covers(b, c) => Covers(a, c)
BY DEF Covers, NoBundle

(* A step that leaves the bundles and their versions as they are. *)
LEMMA FilesRest ==
    ASSUME FilesInv, BundleShape, UNCHANGED <<mdActive, mdFallback, mdVersion>>, NEW p \in Processes, NEW at,
           \A s \in Scorers : Covers(mdActive, mdEngine'[s]),
           \/ Go(p, at) /\ (p = Trainer \/ UNCHANGED mdNote)
           \/ UNCHANGED <<mdAt, mdNote>>,
           at \notin Promoting /\ at \notin {"note", "note_put"},
           at \in Returning => mdFallback.model # Absent /\ mdFallback.scaler # Absent
    PROVE  FilesInv'
<1>1. Covers(mdActive', mdFallback') /\ Covers(mdActive', mdActive) /\ Covers(mdFallback', mdFallback)
  BY CoversMore DEF FilesInv
<1>2. /\ mdActive'.model # Absent => mdActive'.scaler # Absent
      /\ mdActive'.meta # Absent => mdActive'.model # Absent
  BY DEF FilesInv
<1> QED BY <1>1, <1>2, FilesStep DEF Promoting

(* No version exceeds the number of models. *)
LEMMA VersionsCount ==
    ASSUME FilesInv, Len(mdVersion) \in Nat, NEW n \in 0..Len(mdVersion)
    PROVE  VersionOf(n) \in 0..Len(mdVersion)
<1>1. CASE n = 0 BY <1>1 DEF VersionOf, Absent
<1>2. CASE n # 0
  <2>1. n \in 1..Len(mdVersion) BY <1>2
  <2>2. VersionOf(n) = mdVersion[n] /\ mdVersion[n] \in 1..n BY <1>2, <2>1 DEF VersionOf, Absent, FilesInv
  <2> QED BY <2>1, <2>2
<1> QED BY <1>1, <1>2

(* The training of a candidate numbers it after another one. *)
LEMMA FilesTraining ==
    ASSUME BundleShape, FilesInv, BeginTraining \/ EndTraining
    PROVE  FilesInv'
<1>1. Trainer \in Processes /\ Scorers \subseteq Processes /\ Trainer \notin Scorers
  BY ModelsAssumption DEF Processes, Trainer
<1>2. UNCHANGED <<mdActive, mdFallback, mdNote>> BY DEF BeginTraining, EndTraining, mdFiles
<1> DEFINE previous == IF mdEngine[Trainer].meta # Absent THEN mdEngine[Trainer].meta ELSE mdActive.meta
<1>3. \A s \in Scorers : mdEngine'[s] = mdEngine[s]
  BY <1>1 DEF BeginTraining, EndTraining, BundleShape
<1>4. \A s \in Scorers : Covers(mdActive, mdEngine'[s]) BY <1>3 DEF FilesInv
<1>5. CASE BeginTraining
  <2>1. UNCHANGED mdVersion /\ Go(Trainer, "training") BY <1>5 DEF BeginTraining
  <2> QED BY <1>1, <1>2, <1>4, <2>1, FilesRest DEF Promoting, Returning
<1>6. CASE UNCHANGED mdVersion /\ Go(Trainer, "idle")
  BY <1>1, <1>2, <1>4, <1>6, FilesRest DEF Promoting, Returning
<1>7. CASE mdVersion' = Append(mdVersion, VersionOf(previous) + 1) /\ Go(Trainer, "keep_model")
  <2>1. mdVersion \in Seq(Int) /\ Len(mdVersion) \in Nat BY DEF BundleShape
  <2>2. previous \in 0..Len(mdVersion) BY <1>1 DEF BundleShape, KeptVersions
  <2>3. VersionOf(previous) \in 0..Len(mdVersion) BY <2>1, <2>2, VersionsCount
  <2> HIDE DEF previous
  <2>4. /\ Len(mdVersion') = Len(mdVersion) + 1 /\ mdVersion'[Len(mdVersion) + 1] = VersionOf(previous) + 1
        /\ \A n \in 1..Len(mdVersion) : mdVersion'[n] = mdVersion[n]
    BY <1>7, <2>1, <2>3
  <2>5. \A n \in 1..Len(mdVersion') : mdVersion'[n] \in 1..n
    <3>1. ASSUME NEW n \in 1..Len(mdVersion) PROVE mdVersion'[n] \in 1..n BY <2>4, <3>1 DEF FilesInv
    <3> DEFINE l == Len(mdVersion)
               v == VersionOf(previous)
    <3>2. l \in Nat /\ v \in 0..l BY <2>1, <2>3
    <3>3. mdVersion'[l + 1] = v + 1 /\ Len(mdVersion') = l + 1 /\ \A n \in 1..l : mdVersion'[n] \in 1..n BY <2>4, <3>1
    <3> HIDE DEF l, v
    <3>4. v + 1 \in 1..(l + 1) BY ONLY <3>2
    <3>5. \A n \in 1..(l + 1) : n = l + 1 \/ n \in 1..l BY ONLY <3>2
    <3> QED BY ONLY <3>3, <3>4, <3>5
  <2>6. Candidate' # 0 BY <2>1, <2>4 DEF Candidate
  <2>7. mdAt'[Trainer] = "keep_model" /\ \A s \in Scorers : mdAt'[s] = mdAt[s] BY <1>1, <1>7 DEF Go, BundleShape
  <2> QED BY <1>2, <1>4, <2>5, <2>6, <2>7 DEF FilesInv
<1> QED BY <1>5, <1>6, <1>7 DEF EndTraining

(* A promotion keeps what exists and writes what is missing. *)
LEMMA FilesPromotion ==
    ASSUME BundleShape, FilesInv, PromoteModel \/ AnnotatePromotion
    PROVE  FilesInv'
<1>1. Trainer \in Processes /\ Scorers \subseteq Processes /\ Trainer \notin Scorers
  BY ModelsAssumption DEF Processes, Trainer
<1>2. mdActive \in KeptVersions /\ mdFallback \in KeptVersions BY DEF BundleShape
<1>3. \A s \in Scorers : mdEngine'[s] = mdEngine[s]
  BY <1>1 DEF PromoteModel, Keep, Store, AnnotatePromotion, BundleShape
<1>4. UNCHANGED mdVersion BY DEF PromoteModel, Keep, Store, AnnotatePromotion
<1>5. ASSUME UNCHANGED mdActive, NEW at, Go(Trainer, at), at \notin {"put_model", "put_meta", "note", "note_put"} \cup Returning,
             mdAt[Trainer] \in Promoting,
             Covers(mdFallback', mdFallback), Covers(mdActive, mdFallback')
      PROVE  FilesInv'
  <2>1. /\ Covers(mdActive', mdActive) /\ Covers(mdActive', mdFallback')
        /\ \A s \in Scorers : Covers(mdActive', mdEngine'[s])
    BY <1>3, <1>5, CoversMore DEF FilesInv
  <2>2. Candidate # 0 BY <1>5 DEF FilesInv
  <2>3. (mdActive'.model # Absent => mdActive'.scaler # Absent) /\ (mdActive'.meta # Absent => mdActive'.model # Absent)
    BY <1>5 DEF FilesInv
  <2> QED BY <1>1, <1>4, <1>5, <2>1, <2>2, <2>3, FilesStep
<1>6. CASE Keep("keep_model", "model", "keep_scaler")
  <2>1. mdFallback' = IF mdActive.model = Absent THEN mdFallback ELSE [mdFallback EXCEPT !.model = mdActive.model]
    BY <1>6 DEF Keep
  <2>2. Covers(mdFallback', mdFallback) /\ Covers(mdActive, mdFallback')
    BY <1>2, <2>1 DEF Covers, KeptVersions, FilesInv
  <2> QED BY <1>5, <1>6, <2>2 DEF Keep, Promoting, Returning
<1>7. CASE Keep("keep_scaler", "scaler", "keep_meta")
  <2>1. mdFallback' = IF mdActive.scaler = Absent THEN mdFallback ELSE [mdFallback EXCEPT !.scaler = mdActive.scaler]
    BY <1>7 DEF Keep
  <2>2. Covers(mdFallback', mdFallback) /\ Covers(mdActive, mdFallback')
    BY <1>2, <2>1 DEF Covers, KeptVersions, FilesInv
  <2> QED BY <1>5, <1>7, <2>2 DEF Keep, Promoting, Returning
<1>8. CASE Keep("keep_meta", "meta", "put_scaler")
  <2>1. mdFallback' = IF mdActive.meta = Absent THEN mdFallback ELSE [mdFallback EXCEPT !.meta = mdActive.meta]
    BY <1>8 DEF Keep
  <2>2. Covers(mdFallback', mdFallback) /\ Covers(mdActive, mdFallback')
    BY <1>2, <2>1 DEF Covers, KeptVersions, FilesInv
  <2> QED BY <1>5, <1>8, <2>2 DEF Keep, Promoting, Returning
<1>9. ASSUME UNCHANGED <<mdFallback>>, Covers(mdActive', mdActive), NEW at, Go(Trainer, at),
             mdActive'.model # Absent => mdActive'.scaler # Absent, mdActive'.meta # Absent => mdActive'.model # Absent,
             at \in Promoting => Candidate # 0,
             at = "put_model" => mdActive'.scaler # Absent,
             at = "put_meta" => mdActive'.model # Absent,
             at = "note" => mdActive'.meta # Absent,
             at = "note_put" => mdActive'.meta # Absent /\ mdNote' # Absent,
             at \notin Returning
      PROVE  FilesInv'
  <2>1. /\ Covers(mdFallback', mdFallback) /\ Covers(mdActive', mdFallback')
        /\ \A s \in Scorers : Covers(mdActive', mdEngine'[s])
    BY <1>3, <1>9, CoversMore DEF FilesInv
  <2> QED BY <1>1, <1>4, <1>9, <2>1, FilesStep
<1>10. CASE Store("put_scaler", "scaler", "put_model")
  <2>1. mdActive' = [mdActive EXCEPT !.scaler = Candidate] /\ Go(Trainer, "put_model") /\ UNCHANGED mdFallback /\ Candidate # 0
    BY <1>10 DEF Store, FilesInv, Promoting
  <2>2. mdActive'.scaler # Absent /\ mdActive'.model = mdActive.model /\ mdActive'.meta = mdActive.meta
    BY <1>2, <2>1 DEF KeptVersions, Absent
  <2>3. Covers(mdActive', mdActive) BY <2>2 DEF Covers
  <2> QED BY <1>9, <2>1, <2>2, <2>3 DEF FilesInv, Returning
<1>11. CASE Store("put_model", "model", "put_meta")
  <2>1. /\ mdActive' = [mdActive EXCEPT !.model = Candidate] /\ Go(Trainer, "put_meta") /\ UNCHANGED mdFallback /\ Candidate # 0
        /\ mdActive.scaler # Absent
    BY <1>11 DEF Store, FilesInv, Promoting
  <2>2. mdActive'.scaler = mdActive.scaler /\ mdActive'.model # Absent /\ mdActive'.meta = mdActive.meta
    BY <1>2, <2>1 DEF KeptVersions, Absent
  <2>3. Covers(mdActive', mdActive) BY <2>2 DEF Covers
  <2> QED BY <1>9, <2>1, <2>2, <2>3 DEF FilesInv, Returning
<1>12. CASE Store("put_meta", "meta", "note")
  <2>1. /\ mdActive' = [mdActive EXCEPT !.meta = Candidate] /\ Go(Trainer, "note") /\ UNCHANGED mdFallback /\ Candidate # 0
        /\ mdActive.model # Absent
    BY <1>12 DEF Store, FilesInv, Promoting
  <2>2. mdActive'.scaler = mdActive.scaler /\ mdActive'.model = mdActive.model /\ mdActive'.meta # Absent
    BY <1>2, <2>1 DEF KeptVersions, Absent
  <2>3. Covers(mdActive', mdActive) BY <2>2 DEF Covers
  <2> QED BY <1>9, <2>1, <2>2, <2>3 DEF FilesInv, Returning, Promoting
<1>13. CASE AnnotatePromotion
  <2>1. CASE mdAt[Trainer] = "note" /\ mdNote' = mdActive.meta /\ Go(Trainer, "note_put") /\ UNCHANGED <<mdActive, mdFallback>>
    <3>1. mdActive.meta # Absent BY <2>1 DEF FilesInv
    <3> QED BY <1>9, <2>1, <3>1, CoversMore DEF FilesInv, Returning, Promoting
  <2>2. CASE /\ mdAt[Trainer] = "note_put" /\ mdActive' = [mdActive EXCEPT !.meta = mdNote] /\ Go(Trainer, "idle")
             /\ UNCHANGED mdFallback
    <3>1. mdActive.meta # Absent /\ mdNote # Absent BY <2>2 DEF FilesInv
    <3>2. mdActive'.scaler = mdActive.scaler /\ mdActive'.model = mdActive.model /\ mdActive'.meta # Absent
      BY <1>2, <2>2, <3>1 DEF KeptVersions
    <3>3. Covers(mdActive', mdActive) BY <3>2 DEF Covers
    <3> QED BY <1>9, <2>2, <3>1, <3>2, <3>3 DEF FilesInv, Returning, Promoting
  <2> QED BY <1>13, <2>1, <2>2 DEF AnnotatePromotion, Annotate
<1> QED BY <1>6, <1>7, <1>8, <1>10, <1>11, <1>12, <1>13 DEF PromoteModel

(* The processes of the API hold what exists, and roll back what does.      *)
LEMMA FilesScoring ==
    ASSUME BundleShape, FilesInv, NEW s \in Scorers,
           \/ Refresh(s) \/ LoadBundle(s) \/ RollBack(s)
           \/ \E at \in {"admin_model", "live_model"} : BeginRollback(s, at)
    PROVE  FilesInv'
<1>1. s \in Processes /\ Scorers \subseteq Processes BY DEF Processes
<1>2. mdActive \in KeptVersions /\ mdFallback \in KeptVersions /\ mdEngine[s] \in KeptVersions
  BY <1>1 DEF BundleShape
<1>3. UNCHANGED <<mdFallback, mdVersion, mdNote>>
  BY DEF Refresh, LoadBundle, Load, RollBack, Back, BackMeta, BeginRollback, mdFiles
<1>4. \A r \in Scorers : r # s => mdEngine'[r] = mdEngine[r]
  BY <1>1 DEF Refresh, LoadBundle, Load, RollBack, Back, BackMeta, BeginRollback, BundleShape
<1>5. Covers(mdActive, mdEngine[s]) /\ Covers(mdActive, mdFallback) BY DEF FilesInv
<1>6. ASSUME UNCHANGED mdActive, Covers(mdActive, mdEngine'[s]), NEW at \in {"idle", "load_model", "load_scaler"},
             Go(s, at) \/ UNCHANGED mdAt
      PROVE  FilesInv'
  <2>1. \A r \in Scorers : Covers(mdActive, mdEngine'[r]) BY <1>4, <1>6 DEF FilesInv
  <2>2. at \notin Promoting /\ at \notin {"note", "note_put"} /\ at \notin Returning BY DEF Promoting, Returning
  <2> QED BY <1>1, <1>3, <1>6, <2>1, <2>2, FilesRest
<1>7. CASE Refresh(s)
  <2>1. /\ mdEngine'[s] = mdEngine[s] \/ mdEngine'[s] = [NoBundle EXCEPT !.meta = mdActive.meta]
        /\ UNCHANGED mdActive /\ (Go(s, "load_model") \/ UNCHANGED mdAt)
    BY <1>1, <1>7 DEF Refresh, mdFiles, BundleShape
  <2>2. Covers(mdActive, mdEngine'[s]) BY <1>5, <2>1 DEF Covers, NoBundle
  <2> QED BY <1>6, <2>1, <2>2
<1>8. CASE LoadBundle(s)
  <2>1. CASE Load(s, "load_model", "model", "load_scaler")
    <3>1. mdEngine'[s] = [mdEngine[s] EXCEPT !.model = IF @ = Absent THEN mdActive.model ELSE @]
      BY <1>1, <2>1 DEF Load, BundleShape
    <3>2. Covers(mdActive, mdEngine'[s]) BY <1>2, <1>5, <3>1 DEF Covers, KeptVersions
    <3> QED BY <1>6, <2>1, <3>2 DEF Load, mdFiles
  <2>2. CASE Load(s, "load_scaler", "scaler", "idle")
    <3>1. mdEngine'[s] = [mdEngine[s] EXCEPT !.scaler = IF @ = Absent THEN mdActive.scaler ELSE @]
      BY <1>1, <2>2 DEF Load, BundleShape
    <3>2. Covers(mdActive, mdEngine'[s]) BY <1>2, <1>5, <3>1 DEF Covers, KeptVersions
    <3> QED BY <1>6, <2>2, <3>2 DEF Load, mdFiles
  <2> QED BY <1>8, <2>1, <2>2 DEF LoadBundle
<1>9. CASE \E at \in {"admin_model", "live_model"} : BeginRollback(s, at)
  <2>1. PICK at \in {"admin_model", "live_model"} : BeginRollback(s, at) BY <1>9
  <2>2. /\ UNCHANGED <<mdActive, mdEngine>> /\ Go(s, at)
        /\ mdFallback.model # Absent /\ mdFallback.scaler # Absent
    BY <2>1 DEF BeginRollback, mdFiles
  <2>3. at \notin Promoting /\ at \notin {"note", "note_put"} BY DEF Promoting
  <2>4. \A r \in Scorers : Covers(mdActive, mdEngine'[r]) BY <2>2 DEF FilesInv
  <2> QED BY <1>1, <1>3, <2>2, <2>3, <2>4, FilesRest
<1>10. ASSUME mdAt[s] \in Returning, NEW at \in Returning \cup {"idle"}, Go(s, at), Covers(mdActive, mdEngine'[s]),
              Covers(mdActive', mdActive),
              mdActive'.model # Absent => mdActive'.scaler # Absent, mdActive'.meta # Absent => mdActive'.model # Absent
       PROVE  FilesInv'
  <2>1. mdFallback.model # Absent /\ mdFallback.scaler # Absent BY <1>10 DEF FilesInv
  <2>2. \A r \in Scorers : Covers(mdActive, mdEngine'[r]) BY <1>4, <1>10 DEF FilesInv
  <2>3. \A r \in Scorers : Covers(mdActive', mdEngine'[r]) BY <1>10, <2>2, CoversMore
  <2>4. Covers(mdActive', mdFallback') /\ Covers(mdFallback', mdFallback) BY <1>3, <1>5, <1>10, CoversMore
  <2>5. at \notin Promoting /\ at \notin {"note", "note_put", "put_model", "put_meta"} BY DEF Promoting, Returning
  <2> QED BY <1>1, <1>3, <1>10, <2>1, <2>3, <2>4, <2>5, FilesStep
<1>11. ASSUME NEW first \in {"admin_model", "live_model"}, NEW second \in {"admin_scaler", "live_scaler"},
              Back(s, first, "model", second)
       PROVE  FilesInv'
  <2>1. mdAt[s] \in Returning /\ second \in Returning /\ Go(s, second) /\ UNCHANGED mdEngine
        /\ mdActive' = [mdActive EXCEPT !.model = mdFallback.model]
    BY <1>11 DEF Back, Returning
  <2>2. mdFallback.model # Absent /\ mdFallback.scaler # Absent BY <2>1 DEF FilesInv
  <2>3. /\ mdActive'.model # Absent /\ mdActive'.scaler = mdActive.scaler /\ mdActive'.meta = mdActive.meta
        /\ mdActive.scaler # Absent
    BY <1>2, <1>5, <2>1, <2>2 DEF KeptVersions, Covers
  <2>4. Covers(mdActive', mdActive) BY <2>3 DEF Covers
  <2> QED BY <1>5, <1>10, <2>1, <2>3, <2>4
<1>12. ASSUME NEW second \in {"admin_scaler", "live_scaler"}, NEW third \in {"admin_meta", "live_meta"},
              Back(s, second, "scaler", third)
       PROVE  FilesInv'
  <2>1. mdAt[s] \in Returning /\ third \in Returning /\ Go(s, third) /\ UNCHANGED mdEngine
        /\ mdActive' = [mdActive EXCEPT !.scaler = mdFallback.scaler]
    BY <1>12 DEF Back, Returning
  <2>2. mdFallback.scaler # Absent BY <2>1 DEF FilesInv
  <2>3. mdActive'.scaler # Absent /\ mdActive'.model = mdActive.model /\ mdActive'.meta = mdActive.meta
    BY <1>2, <2>1, <2>2 DEF KeptVersions
  <2>4. Covers(mdActive', mdActive) BY <2>3 DEF Covers
  <2> QED BY <1>5, <1>10, <2>1, <2>3, <2>4 DEF FilesInv
<1>13. ASSUME NEW third \in {"admin_meta", "live_meta"}, BackMeta(s, third)
       PROVE  FilesInv'
  <2>1. /\ mdAt[s] \in Returning /\ Go(s, "idle")
        /\ mdActive' = IF mdFallback.meta = Absent THEN mdActive ELSE [mdActive EXCEPT !.meta = mdFallback.meta]
        /\ mdEngine'[s] = mdEngine[s] \/ mdEngine'[s] = [NoBundle EXCEPT !.meta = mdFallback.meta]
    BY <1>1, <1>13 DEF BackMeta, Returning, BundleShape
  <2>2. /\ mdActive'.model = mdActive.model /\ mdActive'.scaler = mdActive.scaler
        /\ mdActive'.meta = IF mdFallback.meta = Absent THEN mdActive.meta ELSE mdFallback.meta
    BY <1>2, <2>1 DEF KeptVersions
  <2>3. Covers(mdActive', mdActive) BY <2>2 DEF Covers
  <2>4. Covers(mdActive, mdEngine'[s]) BY <1>5, <2>1 DEF Covers, NoBundle
  <2>5. mdActive'.meta # Absent => mdActive'.model # Absent BY <1>5, <2>2 DEF FilesInv, Covers
  <2> QED BY <1>10, <2>1, <2>2, <2>3, <2>4, <2>5 DEF FilesInv
<1> QED BY <1>7, <1>8, <1>9, <1>11, <1>12, <1>13 DEF RollBack

(* A copy that begins is of a file that exists. *)
LEMMA FilesCopy ==
    ASSUME BundleShape, FilesInv, BeginCopy
    PROVE  FilesInv'
<1>1. /\ mdActive \in KeptVersions /\ mdFallback \in KeptVersions /\ Trainer \in Processes
      /\ UNCHANGED <<mdVersion, mdEngine, mdAt, mdNote>>
  BY DEF BundleShape, Processes, BeginCopy, BeginKeep, BeginBack
<1>2. Covers(mdActive, mdFallback) /\ (mdActive.model # Absent => mdActive.scaler # Absent) /\ (mdActive.meta # Absent => mdActive.model # Absent)
  BY DEF FilesInv
<1>3. ASSUME NEW field \in Fields PROVE field \in {"model", "scaler", "meta"} BY DEF Fields
<1>4. ASSUME Covers(mdActive', mdActive), Covers(mdActive, mdActive'), Covers(mdFallback', mdFallback), Covers(mdActive', mdFallback')
      PROVE  FilesInv'
  <2>1. \A s \in Scorers : Covers(mdActive', mdEngine'[s]) BY <1>1, <1>4, CoversMore DEF FilesInv
  <2>2. (mdActive'.model # Absent => mdActive'.scaler # Absent) /\ (mdActive'.meta # Absent => mdActive'.model # Absent)
    BY <1>2, <1>4 DEF Covers
  <2>3. "idle" \notin Promoting /\ "idle" \notin Returning BY DEF Promoting, Returning
  <2> QED BY <1>1, <1>4, <2>1, <2>2, <2>3, FilesStep
<1>5. ASSUME NEW field \in Fields, BeginKeep(field) PROVE FilesInv'
  <2>1. mdFallback' = [mdFallback EXCEPT ![field] = mdActive[field]] /\ mdActive[field] # Absent /\ UNCHANGED mdActive
    BY <1>5 DEF BeginKeep
  <2>2. Covers(mdFallback', mdFallback) /\ Covers(mdActive, mdFallback')
    BY <1>1, <1>2, <1>3, <2>1 DEF Covers, KeptVersions
  <2> QED BY <1>4, <2>1, <2>2, CoversMore
<1>6. ASSUME NEW s \in Scorers, NEW field \in Fields, BeginBack(s, field) PROVE FilesInv'
  <2>1. mdActive' = [mdActive EXCEPT ![field] = mdFallback[field]] /\ mdFallback[field] # Absent /\ UNCHANGED mdFallback
    BY <1>6 DEF BeginBack
  <2>2. Covers(mdActive', mdActive) /\ Covers(mdActive, mdActive')
    BY <1>1, <1>2, <1>3, <2>1 DEF Covers, KeptVersions
  <2> QED BY <1>2, <1>4, <2>1, <2>2, CoversMore
<1> QED BY <1>5, <1>6 DEF BeginCopy

(* Every step keeps the files. *)
LEMMA FilesNext ==
    ASSUME BundleShape, FilesInv, [MdNext]_mdVars
    PROVE  FilesInv'
<1>1. CASE BeginTraining \/ EndTraining BY <1>1, FilesTraining
<1>2. CASE PromoteModel \/ AnnotatePromotion BY <1>2, FilesPromotion
<1>3. ASSUME NEW s \in Scorers,
             \/ Refresh(s) \/ LoadBundle(s) \/ RollBack(s)
             \/ \E at \in {"admin_model", "live_model"} : BeginRollback(s, at)
      PROVE  FilesInv'
  BY <1>3, FilesScoring
<1>4. ASSUME NEW p \in Processes, RestartOf(p) PROVE FilesInv'
  <2>1. /\ UNCHANGED <<mdActive, mdFallback, mdVersion>> /\ Go(p, "idle")
        /\ p = Trainer \/ UNCHANGED mdNote
        /\ mdEngine' = [mdEngine EXCEPT ![p] = NoBundle]
    BY <1>4 DEF RestartOf, mdFiles
  <2>2. \A s \in Scorers : mdEngine'[s] = mdEngine[s] \/ mdEngine'[s] = NoBundle
    BY <2>1 DEF BundleShape, Processes
  <2>3. \A s \in Scorers : Covers(mdActive, mdEngine'[s]) BY <2>2, CoversMore DEF FilesInv
  <2> QED BY <2>1, <2>3, FilesRest DEF Promoting, Returning
<1>5. CASE (\E on \in BOOLEAN : SetFreeze(on)) \/ FreezeExpires \/ CoolingEnds \/ UNCHANGED mdVars
  <2>1. UNCHANGED <<mdActive, mdFallback, mdVersion, mdEngine, mdAt, mdNote>>
    BY <1>5 DEF SetFreeze, FreezeExpires, CoolingEnds, mdVars, mdFiles
  <2> QED BY <2>1 DEF FilesInv, Candidate, Covers
<1>6. CASE BeginCopy BY <1>6, FilesCopy
<1>7. ASSUME NEW p \in Processes, ReadFails(p) PROVE FilesInv'
  <2>1. UNCHANGED <<mdActive, mdFallback, mdVersion, mdEngine, mdNote>> /\ Go(p, "idle") BY <1>7 DEF ReadFails, mdFiles
  <2>2. \A s \in Scorers : Covers(mdActive, mdEngine'[s]) BY <2>1 DEF FilesInv
  <2> QED BY <2>1, <2>2, FilesRest DEF Promoting, Returning
<1> QED BY <1>1, <1>2, <1>3, <1>4, <1>5, <1>6, <1>7 DEF MdNext

(* A process that leaves its places to others lets nobody start to write.   *)
LEMMA NoWriteBegins ==
    ASSUME BundleShape, ~UnderWay, NEW p \in Processes, NEW at, at \notin Writes, Go(p, at) \/ UNCHANGED mdAt
    PROVE  ~UnderWay'
BY DEF BundleShape, UnderWay, Go

(* A step that does not touch what a process has loaded or is loading.      *)
LEMMA OtherScorer ==
    ASSUME BundleShape, NEW s \in Scorers, ScorerInv(s), mdEngine'[s] = mdEngine[s],
           mdAt'[s] = mdAt[s] \/ (mdAt[s] \notin Loading /\ mdAt'[s] \notin Loading),
           mdTorn => mdTorn', mdBlur[s] => mdBlur'[s],
           \A n \in 0..Len(mdVersion) : VersionOf(n)' = VersionOf(n),
           mdAt[s] \in Loading /\ ~mdBlur'[s] /\ ~UnderWay => UNCHANGED mdActive /\ ~UnderWay'
    PROVE  ScorerInv(s)'
<1>1. s \in Processes /\ mdEngine[s] \in KeptVersions /\ mdActive \in KeptVersions BY DEF BundleShape, Processes
<1>2. Holds(mdEngine[s], mdAt[s])' BY DEF ScorerInv, Holds, Loading
<1>3. /\ VersionOf(mdEngine[s].meta)' = VersionOf(mdEngine[s].meta)
      /\ VersionOf(mdEngine[s].model)' = VersionOf(mdEngine[s].model)
  BY <1>1 DEF KeptVersions, VersionOf
<1>4. ASSUME ~mdTorn', ~mdBlur'[s] PROVE (mdAt'[s] \in Loading => ~UnderWay') /\ LoadsOne(mdEngine[s], mdAt[s], mdActive)'
  <2>1. (mdAt[s] \in Loading => ~UnderWay) /\ LoadsOne(mdEngine[s], mdAt[s], mdActive) BY <1>4 DEF ScorerInv
  <2>2. CASE mdAt[s] \in Loading
    <3>1. mdAt'[s] = mdAt[s] /\ UNCHANGED mdActive /\ ~UnderWay' BY <1>4, <2>1, <2>2
    <3>2. VersionOf(mdActive.meta)' = VersionOf(mdActive.meta) BY <1>1, <3>1 DEF KeptVersions, VersionOf
    <3> QED BY <1>3, <2>1, <2>2, <3>1, <3>2 DEF LoadsOne
  <2>3. CASE mdAt[s] \notin Loading
    <3>1. mdAt'[s] \notin Loading BY <2>3
    <3> QED BY <1>3, <2>1, <2>3, <3>1 DEF LoadsOne, Loading
  <2> QED BY <2>2, <2>3
<1> QED BY <1>2, <1>4 DEF ScorerInv

(* A process that forgets its model holds nothing that could disagree.      *)
LEMMA ForgetfulScorer ==
    ASSUME NEW s \in Scorers, mdAt'[s] \notin Loading, mdEngine'[s].model = Absent, mdEngine'[s].scaler = Absent
    PROVE  ScorerInv(s)'
BY DEF ScorerInv, Holds, LoadsOne, Loading

(* Refreshing: a new version is loaded from the start, and what was loaded  *)
(* in part is of the version that is active.                                *)
LEMMA RefreshAgrees ==
    ASSUME AgreeInv, NEW s \in Scorers, Refresh(s)
    PROVE  ScorerInv(s)'
<1>1. s \in Processes /\ BundleShape /\ FilesInv /\ ScorerInv(s) /\ Covers(mdActive, mdEngine[s])
  BY DEF AgreeInv, BundleInv, Processes, FilesInv
<1>2. /\ mdActive \in KeptVersions /\ mdEngine[s] \in KeptVersions /\ mdBlur \in [Scorers -> BOOLEAN]
      /\ mdVersion \in Seq(Int) /\ Len(mdVersion) \in Nat
  BY <1>1 DEF BundleShape, AgreeInv
<1>3. mdAt[s] = "idle" /\ UNCHANGED <<mdActive, mdVersion, mdTorn>> BY DEF Refresh, mdFiles
<1>4. Holds(mdEngine[s], "idle") BY <1>1, <1>3 DEF ScorerInv
<1> DEFINE stale == mdActive.meta # Absent /\ VersionOf(mdActive.meta) # VersionOf(mdEngine[s].meta)
           loaded == IF stale THEN [NoBundle EXCEPT !.meta = mdActive.meta] ELSE mdEngine[s]
<1>5. mdEngine'[s] = loaded BY <1>1 DEF Refresh, BundleShape
<1>6. CASE Absent \in {loaded.model, loaded.scaler}
  <2>1. Go(s, "load_model") /\ mdBlur'[s] = (UnderWay \/ (mdBlur[s] /\ Loaded(loaded))) BY <1>2, <1>6 DEF Refresh
  <2>2. mdAt'[s] = "load_model" /\ (~UnderWay => ~UnderWay')
    BY <1>1, <2>1, NoWriteBegins DEF Go, BundleShape, Writes
  <2>3. ASSUME ~stale, ~mdTorn, ~mdBlur[s] PROVE loaded.model = Absent
    <3>1. loaded = mdEngine[s] BY <2>3
    <3>2. LoadsOne(mdEngine[s], "idle", mdActive) BY <1>1, <1>3, <2>3 DEF ScorerInv
    <3> QED BY <1>6, <3>1, <3>2 DEF LoadsOne, Loading
  <2>4. ASSUME ~mdTorn, ~mdBlur'[s] PROVE loaded.model = Absent
    <3>1. stale => loaded.model = Absent BY DEF NoBundle
    <3>2. ~mdBlur[s] \/ loaded.model = Absent BY <2>1, <2>4 DEF Loaded
    <3> QED BY <2>3, <2>4, <3>1, <3>2
  <2>5. ASSUME ~mdTorn, ~UnderWay, loaded.model = Absent
        PROVE  loaded.scaler = Absent /\ VersionOf(loaded.meta) = VersionOf(mdActive.meta)
    <3>1. CASE stale
      <4>1. loaded.scaler = Absent /\ loaded.meta = mdActive.meta BY <3>1 DEF NoBundle
      <4> QED BY <4>1
    <3>2. CASE ~stale /\ mdActive.meta # Absent
      <4>1. loaded = mdEngine[s] /\ VersionOf(mdEngine[s].meta) = VersionOf(mdActive.meta) BY <3>2
      <4>2. mdActive.meta \in 1..Len(mdVersion) BY <1>2, <3>2 DEF KeptVersions, Absent
      <4>3. VersionOf(mdActive.meta) # 0 BY <1>1, <3>2, <4>2 DEF VersionOf, FilesInv
      <4>4. mdEngine[s].meta # Absent BY <4>1, <4>3 DEF VersionOf
      <4> QED BY <1>4, <2>5, <4>1, <4>4 DEF Holds
    <3>3. CASE mdActive.meta = Absent
      <4>1. OfOneModel(mdActive) BY <2>5 DEF AgreeInv, BundleInv
      <4>2. mdEngine[s].scaler = Absent /\ mdEngine[s].meta = Absent BY <1>1, <3>3, <4>1 DEF OfOneModel, Covers
      <4>3. loaded = mdEngine[s] BY <3>3
      <4> QED BY <3>3, <4>2, <4>3
    <3> QED BY <3>1, <3>2, <3>3
  <2>6. Holds(loaded, "load_model")
    <3>1. CASE stale BY <3>1 DEF Holds, NoBundle
    <3>2. CASE ~stale BY <1>4, <3>2 DEF Holds
    <3> QED BY <3>1, <3>2
  <2> HIDE DEF loaded
  <2>7. VersionOf(mdEngine[s].meta)' = VersionOf(loaded.meta) /\ VersionOf(mdActive.meta)' = VersionOf(mdActive.meta)
    BY <1>3, <1>5 DEF VersionOf
  <2>8. ASSUME ~mdTorn', ~mdBlur'[s] PROVE (mdAt'[s] \in Loading => ~UnderWay') /\ LoadsOne(mdEngine[s], mdAt[s], mdActive)'
    <3>1. ~mdTorn /\ ~UnderWay /\ loaded.model = Absent BY <1>3, <2>1, <2>4, <2>8
    <3>2. loaded.scaler = Absent /\ VersionOf(loaded.meta) = VersionOf(mdActive.meta) BY <2>5, <3>1
    <3> QED BY <1>5, <2>2, <2>7, <3>1, <3>2 DEF LoadsOne, Loading
  <2>9. Holds(mdEngine[s], mdAt[s])' BY <1>5, <2>2, <2>6 DEF Holds
  <2> QED BY <2>8, <2>9 DEF ScorerInv
<1>7. CASE Absent \notin {loaded.model, loaded.scaler}
  <2>1. ~stale
    <3>1. stale => loaded.model = Absent BY DEF NoBundle
    <3> QED BY <1>7, <3>1
  <2>2. mdEngine'[s] = mdEngine[s] /\ UNCHANGED <<mdAt, mdBlur>> BY <1>5, <1>7, <2>1 DEF Refresh
  <2> HIDE DEF loaded, stale
  <2>3. \A n \in 0..Len(mdVersion) : VersionOf(n)' = VersionOf(n) BY <1>3 DEF VersionOf
  <2> QED BY <1>1, <1>3, <2>2, <2>3, OtherScorer DEF Loading
<1> QED BY <1>6, <1>7

(* Loading: the model first, then its scaler.                               *)
LEMMA LoadAgrees ==
    ASSUME AgreeInv, NEW s \in Scorers, LoadBundle(s)
    PROVE  ScorerInv(s)'
<1>1. s \in Processes /\ BundleShape /\ FilesInv /\ ScorerInv(s) /\ Covers(mdActive, mdEngine[s])
  BY DEF AgreeInv, BundleInv, Processes, FilesInv
<1>2. mdActive \in KeptVersions /\ mdEngine[s] \in KeptVersions /\ mdBlur \in [Scorers -> BOOLEAN]
  BY <1>1 DEF BundleShape, AgreeInv
<1>3. UNCHANGED <<mdActive, mdVersion, mdTorn>> /\ mdBlur'[s] = (mdBlur[s] \/ UnderWay)
  BY <1>2 DEF LoadBundle, Load, mdFiles
<1>4. \A n : VersionOf(n)' = VersionOf(n) BY <1>3 DEF VersionOf
<1>5. ~UnderWay => ~UnderWay'
  <2>1. \E at \in {"load_scaler", "idle"} : Go(s, at) BY DEF LoadBundle, Load
  <2> QED BY <1>1, <2>1, NoWriteBegins DEF Writes
<1>6. CASE Load(s, "load_model", "model", "load_scaler")
  <2>1. mdAt[s] = "load_model" /\ mdAt'[s] = "load_scaler" BY <1>1, <1>6 DEF Load, Go, BundleShape
  <2>2. mdEngine'[s] = [mdEngine[s] EXCEPT !.model = IF @ = Absent THEN mdActive.model ELSE @]
    BY <1>1, <1>6 DEF Load, BundleShape
  <2>3. /\ mdEngine'[s].model = IF mdEngine[s].model = Absent THEN mdActive.model ELSE mdEngine[s].model
        /\ mdEngine'[s].scaler = mdEngine[s].scaler /\ mdEngine'[s].meta = mdEngine[s].meta
    BY <1>2, <2>2 DEF KeptVersions
  <2>4. Holds(mdEngine[s], mdAt[s])' BY <1>1, <2>1, <2>3 DEF Holds, Loading, FilesInv, Covers
  <2>5. ASSUME ~mdTorn', ~mdBlur'[s] PROVE (mdAt'[s] \in Loading => ~UnderWay') /\ LoadsOne(mdEngine[s], mdAt[s], mdActive)'
    <3>1. ~UnderWay' /\ LoadsOne(mdEngine[s], mdAt[s], mdActive) BY <1>1, <1>3, <1>5, <2>5 DEF ScorerInv
    <3>2. /\ mdEngine[s].scaler = Absent /\ mdEngine[s].model = Absent
          /\ VersionOf(mdEngine[s].meta) = VersionOf(mdActive.meta)
      BY <2>1, <3>1 DEF LoadsOne, Loading
    <3>3. VersionOf(mdEngine[s].meta)' = VersionOf(mdActive.meta)' BY <1>3, <1>4, <2>3, <3>2 DEF VersionOf
    <3> QED BY <1>3, <2>1, <2>3, <3>1, <3>2, <3>3 DEF LoadsOne, Loading
  <2> QED BY <2>4, <2>5 DEF ScorerInv
<1>7. CASE Load(s, "load_scaler", "scaler", "idle")
  <2>1. mdAt[s] = "load_scaler" /\ mdAt'[s] = "idle" BY <1>1, <1>7 DEF Load, Go, BundleShape
  <2>2. mdEngine'[s] = [mdEngine[s] EXCEPT !.scaler = IF @ = Absent THEN mdActive.scaler ELSE @]
    BY <1>1, <1>7 DEF Load, BundleShape
  <2>3. /\ mdEngine'[s].scaler = IF mdEngine[s].scaler = Absent THEN mdActive.scaler ELSE mdEngine[s].scaler
        /\ mdEngine'[s].model = mdEngine[s].model /\ mdEngine'[s].meta = mdEngine[s].meta
    BY <1>2, <2>2 DEF KeptVersions
  <2>4. Holds(mdEngine[s], "load_scaler") BY <1>1, <2>1 DEF ScorerInv
  <2>5. Holds(mdEngine[s], mdAt[s])' BY <1>1, <2>1, <2>3, <2>4 DEF Holds, Loading, FilesInv, Covers
  <2>6. ASSUME ~mdTorn', ~mdBlur'[s]
        PROVE  mdEngine'[s].scaler = mdEngine'[s].model /\ VersionOf(mdEngine[s].meta)' = VersionOf(mdEngine[s].model)'
    <3>1. ~UnderWay /\ LoadsOne(mdEngine[s], mdAt[s], mdActive) BY <1>1, <1>3, <2>1, <2>6 DEF ScorerInv, Loading
    <3>2. /\ mdEngine[s].scaler = Absent /\ mdEngine[s].model = mdActive.model
          /\ VersionOf(mdEngine[s].meta) = VersionOf(mdActive.meta)
      BY <2>1, <3>1 DEF LoadsOne, Loading
    <3>3. OfOneModel(mdActive) BY <1>3, <2>6, <3>1 DEF AgreeInv, BundleInv
    <3>4. mdEngine'[s].scaler = mdEngine'[s].model BY <2>3, <3>2, <3>3 DEF OfOneModel
    <3>5. VersionOf(mdEngine[s].meta) = VersionOf(mdEngine[s].model) BY <3>2, <3>3 DEF OfOneModel
    <3> QED BY <1>3, <2>3, <3>4, <3>5 DEF VersionOf
  <2> QED BY <2>1, <2>5, <2>6 DEF ScorerInv, LoadsOne, Loading
<1> QED BY <1>6, <1>7 DEF LoadBundle

(* The versions of the models there are stay what they are.                 *)
LEMMA VersionsStay ==
    ASSUME BundleShape, FilesInv, [MdNext]_mdVars
    PROVE  \A n \in 0..Len(mdVersion) : VersionOf(n)' = VersionOf(n)
<1>1. CASE UNCHANGED mdVersion BY <1>1 DEF VersionOf
<1>2. CASE EndTraining
  <2> DEFINE previous == IF mdEngine[Trainer].meta # Absent THEN mdEngine[Trainer].meta ELSE mdActive.meta
  <2>1. mdVersion \in Seq(Int) /\ Len(mdVersion) \in Nat /\ Trainer \in Processes BY DEF BundleShape, Processes
  <2>2. previous \in 0..Len(mdVersion) BY <2>1 DEF BundleShape, KeptVersions
  <2>3. VersionOf(previous) \in 0..Len(mdVersion) BY <2>1, <2>2, VersionsCount
  <2>4. UNCHANGED mdVersion \/ mdVersion' = Append(mdVersion, VersionOf(previous) + 1) BY <1>2 DEF EndTraining
  <2> HIDE DEF previous
  <2> DEFINE v == VersionOf(previous) + 1
  <2>5. v \in Int BY <2>1, <2>3
  <2>6. UNCHANGED mdVersion \/ mdVersion' = Append(mdVersion, v) BY <2>4
  <2> HIDE DEF v
  <2>7. \A n \in 1..Len(mdVersion) : Append(mdVersion, v)[n] = mdVersion[n] BY <2>1, <2>5
  <2>8. \A n \in 1..Len(mdVersion) : mdVersion'[n] = mdVersion[n] BY <2>6, <2>7
  <2> QED BY <2>1, <2>8 DEF VersionOf, Absent
<1> QED BY <1>1, <1>2 DEF MdNext, mdVars, BeginTraining, PromoteModel, Keep, Store, AnnotatePromotion, Refresh, LoadBundle, Load,
       RollBack, Back, BackMeta, BeginRollback, SetFreeze, FreezeExpires, CoolingEnds, RestartOf, BeginCopy, BeginKeep, BeginBack, ReadFails

(* What a process holds agrees after every step, its own and the others'.   *)
LEMMA ScorerNext ==
    ASSUME AgreeInv, [MdNext]_mdVars, NEW s \in Scorers
    PROVE  ScorerInv(s)'
<1>1. /\ s \in Processes /\ s # Trainer /\ Trainer \in Processes /\ Scorers \subseteq Processes
      /\ BundleShape /\ FilesInv /\ ScorerInv(s) /\ mdBlur \in [Scorers -> BOOLEAN]
  BY ModelsAssumption DEF AgreeInv, BundleInv, Processes, Trainer
<1>2. \A n \in 0..Len(mdVersion) : VersionOf(n)' = VersionOf(n) BY <1>1, VersionsStay
<1>3. mdAt \in [Processes -> Places] /\ mdEngine \in [Processes -> KeptVersions] BY <1>1 DEF BundleShape
<1>4. Loading \cap Writes = {} BY DEF Loading, Writes
\* a step of another process, or of this one between places where it does not load
<1>5. ASSUME NEW p \in Processes, NEW at, Go(p, at) \/ UNCHANGED mdAt,
             p # s \/ (mdAt[s] \notin Loading /\ at \notin Loading),
             mdEngine'[s] = mdEngine[s], mdTorn => mdTorn', mdBlur[s] => mdBlur'[s],
             \/ UNCHANGED mdActive /\ at \notin Writes
             \/ UnderWay
             \/ BeginWrite
      PROVE  ScorerInv(s)'
  <2>1. mdAt'[s] = mdAt[s] \/ (mdAt[s] \notin Loading /\ mdAt'[s] \notin Loading) BY <1>1, <1>3, <1>5 DEF Go
  <2>2. ASSUME mdAt[s] \in Loading, ~mdBlur'[s], ~UnderWay PROVE UNCHANGED mdActive /\ ~UnderWay'
    <3>1. ~BeginWrite BY <2>2 DEF BeginWrite, Loading
    <3>2. UNCHANGED mdActive /\ at \notin Writes BY <1>5, <2>2, <3>1
    <3> QED BY <1>1, <1>5, <2>2, <3>2, NoWriteBegins
  <2> QED BY <1>1, <1>2, <1>5, <2>1, <2>2, OtherScorer
<1>6. ASSUME NEW p \in Processes, mdAt[p] \in Writes PROVE UnderWay /\ (p = s => mdAt[s] \notin Loading)
  BY <1>4, <1>6 DEF UnderWay
<1>7. CASE BeginTraining
  <2>1. Go(Trainer, "training") /\ UNCHANGED <<mdActive, mdEngine, mdTorn, mdBlur>> BY <1>7 DEF BeginTraining, mdFiles
  <2> QED BY <1>1, <1>5, <2>1, WritesArePlaces
<1>8. CASE EndTraining
  <2>1. UNCHANGED mdActive /\ mdEngine'[s] = mdEngine[s] BY <1>1, <1>3, <1>8 DEF EndTraining, mdFiles
  <2>2. CASE Go(Trainer, "idle") /\ UNCHANGED <<mdTorn, mdBlur>> BY <1>1, <1>5, <2>1, <2>2, WritesArePlaces
  <2>3. CASE Go(Trainer, "keep_model") /\ BeginWrite
    <3>1. (mdTorn => mdTorn') /\ (mdBlur[s] => mdBlur'[s]) BY <2>3 DEF BeginWrite
    <3> QED BY <1>1, <1>5, <2>1, <2>3, <3>1
  <2> QED BY <1>8, <2>2, <2>3 DEF EndTraining
<1>9. CASE PromoteModel \/ AnnotatePromotion
  <2>1. /\ \E at : Go(Trainer, at)
        /\ mdAt[Trainer] \in Writes /\ UNCHANGED <<mdTorn, mdBlur>> /\ mdEngine'[s] = mdEngine[s]
    BY <1>1, <1>3, <1>9 DEF PromoteModel, Keep, Store, AnnotatePromotion, Annotate, Writes
  <2> QED BY <1>1, <1>5, <1>6, <2>1
<1>10. ASSUME NEW r \in Scorers, Refresh(r) PROVE ScorerInv(s)'
  <2>1. CASE r = s BY <1>10, <2>1, RefreshAgrees
  <2>2. CASE r # s
    <3>1. /\ Go(r, "load_model") \/ UNCHANGED mdAt
          /\ UNCHANGED <<mdActive, mdTorn>> /\ mdEngine'[s] = mdEngine[s] /\ mdBlur'[s] = mdBlur[s]
      BY <1>1, <1>3, <1>10, <2>2 DEF Refresh, mdFiles
    <3> QED BY <1>1, <1>4, <1>5, <2>2, <3>1 DEF Loading
  <2> QED BY <2>1, <2>2
<1>11. ASSUME NEW r \in Scorers, LoadBundle(r) PROVE ScorerInv(s)'
  <2>1. CASE r = s BY <1>11, <2>1, LoadAgrees
  <2>2. CASE r # s
    <3>1. PICK at \in {"load_scaler", "idle"} : Go(r, at) BY <1>11 DEF LoadBundle, Load
    <3>2. UNCHANGED <<mdActive, mdTorn>> /\ mdEngine'[s] = mdEngine[s] /\ mdBlur'[s] = mdBlur[s]
      BY <1>1, <1>3, <1>11, <2>2 DEF LoadBundle, Load, mdFiles
    <3>3. at \notin Writes BY <3>1 DEF Writes
    <3> QED BY <1>1, <1>5, <2>2, <3>1, <3>2, <3>3
  <2> QED BY <2>1, <2>2
<1>12. ASSUME NEW r \in Scorers, NEW at \in {"admin_model", "live_model"}, BeginRollback(r, at) PROVE ScorerInv(s)'
  <2>1. Go(r, at) /\ BeginWrite /\ mdAt[r] = "idle" /\ UNCHANGED mdEngine BY <1>12 DEF BeginRollback
  <2>2. (mdTorn => mdTorn') /\ (mdBlur[s] => mdBlur'[s]) BY <2>1 DEF BeginWrite
  <2>3. "idle" \notin Loading /\ at \notin Loading BY DEF Loading
  <2> QED BY <1>1, <1>5, <2>1, <2>2, <2>3
<1>13. ASSUME NEW r \in Scorers, RollBack(r) PROVE ScorerInv(s)'
  <2>1. mdAt[r] \in Writes /\ UNCHANGED <<mdTorn, mdBlur>> BY <1>13 DEF RollBack, Back, BackMeta, Writes
  <2>2. PICK at \in {"admin_scaler", "admin_meta", "live_scaler", "live_meta", "idle"} : Go(r, at)
    BY <1>13 DEF RollBack, Back, BackMeta
  <2>3. at \notin Loading BY <2>2 DEF Loading
  <2>4. CASE mdEngine'[s] = mdEngine[s] BY <1>1, <1>5, <1>6, <2>1, <2>2, <2>3, <2>4
  <2>5. CASE mdEngine'[s] # mdEngine[s]
    <3>1. r = s /\ mdEngine'[s] = [NoBundle EXCEPT !.meta = mdFallback.meta]
      BY <1>1, <1>3, <1>13, <2>5 DEF RollBack, Back, BackMeta
    <3>2. mdAt'[s] \notin Loading BY <1>1, <1>3, <2>2, <2>3, <3>1 DEF Go
    <3> QED BY <3>1, <3>2, ForgetfulScorer DEF NoBundle
  <2> QED BY <2>4, <2>5
<1>14. ASSUME NEW p \in Processes, RestartOf(p) PROVE ScorerInv(s)'
  <2>1. /\ Go(p, "idle") /\ UNCHANGED <<mdActive, mdBlur>> /\ (mdTorn => mdTorn')
        /\ mdEngine' = [mdEngine EXCEPT ![p] = NoBundle]
    BY <1>14 DEF RestartOf, mdFiles
  <2>2. CASE p = s
    <3>1. mdEngine'[s] = NoBundle /\ mdAt'[s] \notin Loading BY <1>1, <1>3, <2>1, <2>2 DEF Go, Loading
    <3> QED BY <3>1, ForgetfulScorer DEF NoBundle
  <2>3. CASE p # s
    <3>1. mdEngine'[s] = mdEngine[s] BY <1>1, <1>3, <2>1, <2>3
    <3> QED BY <1>1, <1>5, <2>1, <2>3, <3>1, WritesArePlaces
  <2> QED BY <2>2, <2>3
<1>15. CASE (\E on \in BOOLEAN : SetFreeze(on)) \/ FreezeExpires \/ CoolingEnds \/ UNCHANGED mdVars
  <2>1. UNCHANGED <<mdActive, mdEngine, mdAt, mdTorn, mdBlur>>
    BY <1>15 DEF SetFreeze, FreezeExpires, CoolingEnds, mdVars, mdFiles
  <2> QED BY <1>1, <1>5, <2>1, WritesArePlaces
<1>16. CASE BeginCopy
  <2>1. UNCHANGED <<mdEngine, mdAt, mdTorn, mdBlur>> BY <1>16 DEF BeginCopy, BeginKeep, BeginBack
  <2>2. UnderWay BY <1>1, <1>16, CopiedFiles DEF BeginCopy, BeginKeep, BeginBack, UnderWay
  <2> QED BY <1>1, <1>5, <2>1, <2>2
<1>17. ASSUME NEW p \in Processes, ReadFails(p) PROVE ScorerInv(s)'
  <2>1. UNCHANGED <<mdActive, mdVersion, mdEngine, mdTorn, mdBlur>> /\ Go(p, "idle") BY <1>17 DEF ReadFails, mdFiles
  <2>2. CASE p # s \/ mdAt[s] \notin Loading BY <1>1, <1>5, <2>1, <2>2, WritesArePlaces DEF Loading
  <2>3. CASE p = s /\ mdAt[s] \in Loading
    <3>1. mdAt'[s] = "idle" BY <1>3, <2>1, <2>3, <1>1 DEF Go
    <3>2. ~mdTorn /\ ~UnderWay => mdCut = {} BY OnlyCut DEF AgreeInv
    <3>3. \/ mdAt[s] = "load_model" /\ mdEngine[s].model = Absent
          \/ mdAt[s] = "load_scaler" /\ mdCut # {}
      BY <1>17, <2>3, ReadingPlaces DEF Loading
    <3>4. Holds(mdEngine[s], mdAt[s])' BY <1>1, <2>1, <2>3, <3>1 DEF ScorerInv, Holds, Loading
    <3>5. ASSUME ~mdTorn', ~mdBlur'[s] PROVE mdEngine'[s].model = Absent
      <4>1. ~mdTorn /\ ~mdBlur[s] /\ ~UnderWay BY <1>1, <2>1, <2>3, <3>5 DEF ScorerInv
      <4> QED BY <2>1, <3>2, <3>3, <4>1
    <3> QED BY <3>1, <3>4, <3>5 DEF ScorerInv, LoadsOne, Loading
  <2> QED BY <2>2, <2>3
<1> QED BY <1>7, <1>8, <1>9, <1>10, <1>11, <1>12, <1>13, <1>14, <1>15, <1>16, <1>17 DEF MdNext

(* Every step keeps the agreement. *)
LEMMA AgreeNext == AgreeInv /\ [MdNext]_mdVars => AgreeInv'
<1> SUFFICES ASSUME AgreeInv, [MdNext]_mdVars PROVE AgreeInv'
  OBVIOUS
<1>1. BundleInv /\ CutInv /\ BundleShape /\ FilesInv /\ mdBlur \in [Scorers -> BOOLEAN] BY DEF AgreeInv, BundleInv
<1>2. BundleInv' /\ CutInv' BY <1>1, BundleNext, CutNext
<1>3. FilesInv' BY <1>1, FilesNext
<1>4. mdBlur' \in [Scorers -> BOOLEAN]
  <2>1. BeginWrite => mdBlur' \in [Scorers -> BOOLEAN] BY <1>1 DEF BeginWrite
  <2>2. UNCHANGED mdBlur \/ BeginWrite \/ \E s \in Scorers : Refresh(s) \/ LoadBundle(s)
    BY DEF MdNext, mdVars, BeginTraining, EndTraining, PromoteModel, Keep, Store, AnnotatePromotion, RollBack, Back, BackMeta,
      BeginRollback, SetFreeze, FreezeExpires, CoolingEnds, RestartOf, BeginCopy, BeginKeep, BeginBack, ReadFails
  <2>3. ASSUME NEW s \in Scorers, Refresh(s) PROVE mdBlur' \in [Scorers -> BOOLEAN]
    <3>1. UNCHANGED mdBlur \/ \E kept : mdBlur' = [mdBlur EXCEPT ![s] = UnderWay \/ (@ /\ Loaded(kept))] BY <2>3 DEF Refresh
    <3>2. \A kept : (UnderWay \/ (mdBlur[s] /\ Loaded(kept))) \in BOOLEAN BY <1>1 DEF UnderWay, Loaded
    <3> QED BY <1>1, <3>1, <3>2
  <2>4. ASSUME NEW s \in Scorers, LoadBundle(s) PROVE mdBlur' \in [Scorers -> BOOLEAN]
    <3>1. mdBlur' = [mdBlur EXCEPT ![s] = @ \/ UnderWay] BY <2>4 DEF LoadBundle, Load
    <3> QED BY <1>1, <3>1
  <2> QED BY <1>1, <2>1, <2>2, <2>3, <2>4
<1>5. \A s \in Scorers : ScorerInv(s)' BY ScorerNext
<1> QED BY <1>2, <1>3, <1>4, <1>5 DEF AgreeInv

(* A scorer that has loaded its bundle while no file was written, and whose *)
(* version is the active one, scores with the active model and its scaler   *)
(* (TradeProbabilityEngine, _refresh_active_model goes by the version only), *)
(* unless that version was given to two models.                              *)
THEOREM ScorersUseTheActiveModel == MdSpec => []ScorersAgree
<1>1. MdInit => AgreeInv BY AgreeInit
<1>2. AgreeInv /\ [MdNext]_mdVars => AgreeInv' BY AgreeNext
<1>3. AgreeInv => ScorersAgree
  <2> SUFFICES ASSUME AgreeInv, ~UnderWay, ~mdTorn, NEW s \in Scorers,
                      mdAt[s] = "idle", ~mdBlur[s], mdEngine[s].model # Absent, mdEngine[s].scaler # Absent,
                      VersionOf(mdEngine[s].meta) = VersionOf(mdActive.meta), VersionOf(mdActive.meta) \notin Reused
               PROVE  mdEngine[s] = mdActive
    BY DEF ScorersAgree
  <2>1. /\ OfOneModel(mdActive) /\ ScorerInv(s) /\ FilesInv /\ BundleShape /\ Covers(mdActive, mdEngine[s])
        /\ mdActive \in KeptVersions /\ mdEngine[s] \in KeptVersions
    BY DEF AgreeInv, BundleInv, BundleShape, FilesInv, Processes
  <2>2. Len(mdVersion) \in Nat /\ Len(mdVersion) <= MaxModels /\ MaxModels \in Nat /\ DOMAIN mdVersion = 1..Len(mdVersion)
    BY <2>1, ModelsAssumption DEF BundleShape
  <2>3. mdEngine[s].scaler = mdEngine[s].model /\ VersionOf(mdEngine[s].meta) = VersionOf(mdEngine[s].model)
    BY <2>1 DEF ScorerInv, LoadsOne, Loading
  <2>4. /\ mdEngine[s].model \in 1..Len(mdVersion) /\ mdEngine[s].meta \in 0..Len(mdVersion)
        /\ mdActive.meta \in 1..Len(mdVersion)
    BY <2>1, <2>2 DEF KeptVersions, Covers, OfOneModel, Absent
  <2> DEFINE v == mdVersion[mdActive.meta]
  <2>5. v = VersionOf(mdActive.meta) /\ v \in 1..Len(mdVersion)
    BY <2>1, <2>2, <2>4 DEF VersionOf, Absent, FilesInv
  <2>6. mdVersion[mdEngine[s].model] = v BY <2>3, <2>4, <2>5 DEF VersionOf, Absent
  <2>7. mdEngine[s].meta # Absent /\ mdVersion[mdEngine[s].meta] = v BY <2>5 DEF VersionOf
  <2>8. \A n, m \in 1..Len(mdVersion) : mdVersion[n] = v /\ mdVersion[m] = v => n = m
    BY <2>2, <2>5 DEF Reused
  <2>9. mdEngine[s].model = mdActive.meta /\ mdEngine[s].meta = mdActive.meta
    BY <2>4, <2>6, <2>7, <2>8 DEF Absent
  <2> QED BY <2>1, <2>3, <2>9 DEF KeptVersions, OfOneModel
<1> QED BY <1>1, <1>2, <1>3, PTL DEF MdSpec

-----------------------------------------------------------------------------
(* Probability: trainings on the same samples come to an end.               *)

(* How accurate a table of answers is on the newest samples. *)
Recent(answers) == Accuracy(answers, Latest(RecentRows))

(* Each model that was replaced is less accurate on the newest samples than  *)
(* the one in use.  That it differs from it follows, and would not carry     *)
(* itself over a training, which compares a candidate with the last one only. *)
Improving ==
    /\ pbSamples \in Seq(Closings)
    /\ pbWorn # {} => pbActive # NoModel /\ Len(pbSamples) >= RecentRows
    /\ \A w \in pbWorn : Recent(w) < Recent(pbActive.own)

(* A share in percent is an integer. *)
LEMMA PercentIsInt ==
    ASSUME NEW share \in Nat, NEW whole \in Nat
    PROVE  Percent(share, whole) \in Int
<1>1. CASE whole = 0 BY <1>1 DEF Percent
<1>2. CASE whole # 0 BY <1>2 DEF Percent
<1> QED BY <1>1, <1>2

(* The accuracy of any answers on the newest samples is an integer. *)
LEMMA RecentIsInt ==
    ASSUME NEW answers, pbSamples \in Seq(Closings), Len(pbSamples) >= RecentRows
    PROVE  Recent(answers) \in Int
<1> DEFINE rows == Latest(RecentRows)
           right == {i \in DOMAIN rows : Likely(answers, rows[i]) = Won(rows[i])}
<1>1. RecentRows \in Nat BY ProbabilityAssumption
<1>2. rows \in Seq(Closings) /\ Len(rows) = RecentRows
  BY <1>1 DEF Latest
<1>3. DOMAIN rows = 1..RecentRows BY <1>1, <1>2
<1>4. IsFiniteSet(1..RecentRows) BY <1>1, FS_Interval
<1>5. IsFiniteSet(right) BY <1>3, <1>4, FS_Subset
<1>6. Cardinality(right) \in Nat BY <1>5, FS_CardinalityType
<1>7. Recent(answers) = Percent(Cardinality(right), RecentRows)
  BY <1>2 DEF Recent, Accuracy, Where
<1> QED BY <1>1, <1>6, <1>7, PercentIsInt

(* It is a matter of the samples alone. *)
LEMMA RecentStays ==
    ASSUME UNCHANGED pbSamples
    PROVE  \A a : Recent(a)' = Recent(a)
<1> SUFFICES ASSUME NEW a PROVE Recent(a)' = Recent(a)
  OBVIOUS
<1> QED BY DEF Recent, Accuracy, Latest, Where, Likely, Won, Percent

(* Nothing is worn out. *)
LEMMA NothingWorn ==
    ASSUME pbSamples' \in Seq(Closings), pbWorn' = {}
    PROVE  Improving'
<1>1. \A w \in pbWorn' : FALSE OBVIOUS
<1> QED BY <1>1 DEF Improving

(* The invariant holds before the first training. *)
LEMMA ImprovingInit == PbInit => Improving
<1> SUFFICES ASSUME PbInit PROVE Improving
  OBVIOUS
<1>1. pbSamples \in Seq(Closings) BY DEF PbInit
<1>2. \A w \in pbWorn : FALSE BY DEF PbInit
<1> QED BY <1>1, <1>2 DEF Improving

(* A promotion: the new model beats the last one, which beat the others.    *)
LEMMA ImprovingTrain ==
    ASSUME Improving, NEW common \in Answers, Train(common)
    PROVE  Improving'
<1>1. UNCHANGED pbSamples BY DEF Train
<1>2. pbSamples \in Seq(Closings) BY DEF Improving
<1>3. Len(pbSamples) >= RecentRows
  <2>1. Len(pbSamples) >= MinTraining BY DEF Train, Trainable
  <2> QED BY <1>2, <2>1, ProbabilityAssumption
<1> DEFINE NewModel(own) == [common |-> common, own |-> own, metrics |-> Metrics(common), record |-> Record,
                             rate |-> Percent(Where(ValRows, Won), Len(ValRows))]
<1>4. PICK own : RecentGate(own) /\ pbActive' = NewModel(own)
  BY DEF Train
<1>. HIDE DEF NewModel
<1>10. pbActive'.own = own /\ pbActive' # NoModel
  <2>1. pbActive'.own = own BY <1>4 DEF NewModel
  <2>2. DOMAIN pbActive' # DOMAIN NoModel BY <1>4 DEF NewModel, NoModel
  <2> QED BY <2>1, <2>2
<1>5. \A a : Recent(a)' = Recent(a) BY <1>1, RecentStays
<1>6. \A a : Recent(a) \in Int BY <1>2, <1>3, RecentIsInt
<1>7. ASSUME NEW w \in pbWorn' PROVE Recent(w) < Recent(own)
  <2>1. pbActive # NoModel BY <1>7 DEF Train, Improving
  <2>2. Recent(own) >= Recent(pbActive.own) + 5
    BY <1>3, <1>4, <2>1 DEF RecentGate, Recent
  <2>3. w = pbActive.own \/ w \in pbWorn BY <1>7, <2>1 DEF Train
  <2>4. Recent(w) <= Recent(pbActive.own) BY <1>6, <2>3 DEF Improving
  <2> QED BY <1>6, <2>2, <2>4
<1> QED
  <2>1. Recent(pbActive.own)' = Recent(own) BY <1>10, <1>5
  <2>2. \A w \in pbWorn' : Recent(w)' < Recent(pbActive.own)' BY <1>5, <1>7, <2>1
  <2> QED BY <1>1, <1>2, <1>3, <1>10, <2>2 DEF Improving

(* The other steps leave the samples and the models alone, or let nothing be *)
(* worn out.                                                                 *)
LEMMA ImprovingNext == Improving /\ [PbNext]_pbVars => Improving'
<1> SUFFICES ASSUME Improving, [PbNext]_pbVars PROVE Improving'
  OBVIOUS
<1>1. CASE \E c \in Closings : CloseTrade(c)
  <2>1. pbSamples' \in Seq(Closings) BY <1>1 DEF CloseTrade, Improving
  <2>2. pbWorn' = {} BY <1>1 DEF CloseTrade
  <2> QED BY <2>1, <2>2, NothingWorn
<1>2. CASE LeaveWindow
  <2>1. pbSamples' \in Seq(Closings) BY <1>2 DEF LeaveWindow, Improving
  <2>2. pbWorn' = {} BY <1>2 DEF LeaveWindow
  <2> QED BY <2>1, <2>2, NothingWorn
<1>3. CASE MarkExpires
  <2>1. UNCHANGED <<pbSamples, pbActive, pbWorn>> BY <1>3 DEF MarkExpires
  <2> QED BY <2>1, RecentStays DEF Improving
<1>4. CASE \E common \in Answers : Train(common)
  BY <1>4, ImprovingTrain
<1>5. CASE UNCHANGED pbVars
  <2>1. UNCHANGED <<pbSamples, pbActive, pbWorn>> BY <1>5 DEF pbVars
  <2> QED BY <2>1, RecentStays DEF Improving
<1> QED BY <1>1, <1>2, <1>3, <1>4, <1>5 DEF PbNext

(* The number of a table's right answers is compared, so that no table is   *)
(* less accurate than itself.                                                *)
LEMMA ImprovingDiffers == Improving => NothingComesBack
<1> SUFFICES ASSUME Improving, pbActive.own \in pbWorn PROVE FALSE
  BY DEF NothingComesBack
<1>1. Recent(pbActive.own) < Recent(pbActive.own) BY DEF Improving
<1>2. Recent(pbActive.own) \in Int BY RecentIsInt DEF Improving
<1> QED BY <1>1, <1>2

(* Whatever trades close, in whatever order trainings are triggered and     *)
(* whatever a fit gives, no model comes back in place of the one that        *)
(* replaced it before a trade closes or leaves the window: the gate of       *)
(* TradeProbabilityEngine._recent_window_gate asks for more than a tie.      *)
THEOREM ModelsDoNotComeBack == PbSpec => []NothingComesBack
<1>1. PbInit => Improving BY ImprovingInit
<1>2. Improving /\ [PbNext]_pbVars => Improving' BY ImprovingNext
<1>3. Improving => NothingComesBack BY ImprovingDiffers
<1> QED BY <1>1, <1>2, <1>3, PTL DEF PbSpec

-----------------------------------------------------------------------------
(* Evaluation: what the memory of outcomes says is what was told it, and    *)
(* what it has blocked stays blocked.                                       *)

Memories == [Entries -> [wins : Nat, losses : Nat]]
WorkAt == {"rest", "heal", "learn", "cache", "file"}
DealShapes == [state : {"unopened", "open", "closed"}, pattern : Patterns \cup {NoPattern}, side : Sides \cup {"HOLD"}]

MemoryShape ==
    /\ evCache \in Memories \cup {Lost} /\ evFile \in [Dirs -> Memories] /\ evTold \in Memories
    /\ evWork \in [Recorders -> [at : WorkAt, deal : DealShapes, won : BOOLEAN, memory : Memories]]
    /\ evDeal \in [Deals -> DealShapes]
    /\ evSignal.pattern \in Patterns \cup {NoPattern} /\ evSignal.action \in Sides \cup {"HOLD"}
    /\ evClean \in BOOLEAN

(* No more is remembered than was told. *)
NoMoreThan(memory, told) == \A k \in Entries : memory[k].wins <= told[k].wins /\ memory[k].losses <= told[k].losses

MemoryInv ==
    /\ MemoryShape
    /\ \A p \in Recorders : NoMoreThan(evWork[p].memory, evTold)
    /\ \A dir \in Dirs : NoMoreThan(evFile[dir], evTold)
    /\ evCache # Lost => NoMoreThan(evCache, evTold)
    (* as long as nothing went wrong, one process records at a time *)
    /\ evClean =>
         /\ evCache # Lost
         /\ Recording = {} => evCache = evTold
         /\ \A p, q \in Recording : p = q
         /\ \A p \in Recorders : evWork[p].at = "cache" => evWork[p].memory = evTold
         /\ \A p \in Recorders : evWork[p].at = "file" => evCache = evTold

(* A memory is never taken for a lost one, and counting keeps its shape. *)
LEMMA MemoriesAreNotLost == Lost \notin Memories
<1>1. Entries # {}
  <2>1. PICK b \in Buckets : TRUE BY EvaluationAssumption
  <2>2. <<"BUY", b>> \in Entries BY <2>1 DEF Entries, Patterns, Sides
  <2> QED BY <2>2
<1>2. DOMAIN Lost = {}
  <2>1. Lost \in Seq(Int) /\ Len(Lost) = 0 BY DEF Lost
  <2> QED BY <2>1
<1> QED BY <1>1, <1>2 DEF Memories

(* A pattern is no side's entry.                                            *)
LEMMA PatternsAreNoSides ==
    ASSUME NEW k \in Patterns
    PROVE  k \in Entries /\ \A side, bucket : OfSide(side, bucket) # k
<1>1. PICK action \in Sides, b \in Buckets : k = <<action, b>> BY DEF Patterns
<1>2. ASSUME NEW side, NEW bucket PROVE OfSide(side, bucket) # k
  <2>1. OfSide(side, bucket)[1] = "side" /\ k[1] = action BY <1>1 DEF OfSide
  <2> QED BY <2>1 DEF Sides
<1> QED BY <1>2 DEF Entries

(* Counting an outcome leaves the other entries alone and forgets nothing. *)
LEMMA CountedOnce ==
    ASSUME NEW m \in Memories, NEW ks, NEW won \in BOOLEAN
    PROVE  /\ Counted(m, ks, won) \in Memories
           /\ \A k \in Entries : k \notin ks => Counted(m, ks, won)[k] = m[k]
           /\ NoMoreThan(m, Counted(m, ks, won))
<1> DEFINE entry(k) == CASE k \notin ks -> m[k]
                         [] k \in ks /\ won  -> [m[k] EXCEPT !.wins = @ + 1]
                         [] k \in ks /\ ~won -> [m[k] EXCEPT !.losses = @ + 1]
<1>1. Counted(m, ks, won) = [k \in Entries |-> entry(k)] BY DEF Counted
<1>2. ASSUME NEW k \in Entries
      PROVE  /\ entry(k) \in [wins : Nat, losses : Nat] /\ (k \notin ks => entry(k) = m[k])
             /\ m[k].wins <= entry(k).wins /\ m[k].losses <= entry(k).losses
  <2>1. m[k] \in [wins : Nat, losses : Nat] BY DEF Memories
  <2>2. CASE k \notin ks BY <2>1, <2>2
  <2>3. CASE k \in ks /\ won BY <2>1, <2>3
  <2>4. CASE k \in ks /\ ~won BY <2>1, <2>4
  <2> QED BY <2>2, <2>3, <2>4
<1> HIDE DEF entry
<1> QED BY <1>1, <1>2 DEF Memories, NoMoreThan

(* What is within the one memory stays within the other when both count the *)
(* same outcome. *)
LEMMA CountedBoth ==
    ASSUME NEW m \in Memories, NEW told \in Memories, NEW ks, NEW won \in BOOLEAN, NoMoreThan(m, told)
    PROVE  NoMoreThan(Counted(m, ks, won), Counted(told, ks, won))
<1>1. ASSUME NEW k \in Entries
      PROVE  /\ Counted(m, ks, won)[k].wins <= Counted(told, ks, won)[k].wins
             /\ Counted(m, ks, won)[k].losses <= Counted(told, ks, won)[k].losses
  <2>1. /\ m[k] \in [wins : Nat, losses : Nat] /\ told[k] \in [wins : Nat, losses : Nat]
        /\ m[k].wins <= told[k].wins /\ m[k].losses <= told[k].losses
    BY DEF Memories, NoMoreThan
  <2>2. CASE k \notin ks BY <2>1, <2>2 DEF Counted
  <2>3. CASE k \in ks /\ won BY <2>1, <2>3 DEF Counted
  <2>4. CASE k \in ks /\ ~won BY <2>1, <2>4 DEF Counted
  <2> QED BY <2>2, <2>3, <2>4
<1> QED BY <1>1 DEF NoMoreThan

(* To be within is transitive. *)
LEMMA WithinMore ==
    ASSUME NEW m \in Memories, NEW n \in Memories, NEW l \in Memories, NoMoreThan(m, n), NoMoreThan(n, l)
    PROVE  NoMoreThan(m, l)
<1>1. \A j \in Entries : /\ m[j] \in [wins : Nat, losses : Nat] /\ n[j] \in [wins : Nat, losses : Nat]
                         /\ l[j] \in [wins : Nat, losses : Nat]
  BY DEF Memories
<1> QED BY <1>1 DEF NoMoreThan

(* A trade that is not open has no pattern, and no side.                     *)
LEMMA NoDealIsOne == NoDeal \in DealShapes /\ [NoDeal EXCEPT !.state = "closed"] \in DealShapes
BY DEF NoDeal, DealShapes

(* At first all memories are the one that was brought along. *)
LEMMA MemoryInit == EvInit => MemoryInv
<1> SUFFICES ASSUME EvInit PROVE MemoryInv
  OBVIOUS
<1>1. Past \in Memories BY EvaluationAssumption DEF Memories
<1>2. NoOutcomes \in Memories /\ NoMoreThan(NoOutcomes, Past) /\ NoMoreThan(Past, Past)
  <2>1. NoOutcomes \in Memories BY DEF NoOutcomes, Memories
  <2>2. \A k \in Entries : NoOutcomes[k].wins = 0 /\ NoOutcomes[k].losses = 0 BY DEF NoOutcomes
  <2>3. \A k \in Entries : Past[k] \in [wins : Nat, losses : Nat] BY <1>1 DEF Memories
  <2> QED BY <2>1, <2>2, <2>3 DEF NoMoreThan
<1>3. AtRest \in [at : WorkAt, deal : DealShapes, won : BOOLEAN, memory : Memories] /\ AtRest.at = "rest" /\ AtRest.memory = NoOutcomes
  BY <1>2, NoDealIsOne DEF AtRest, WorkAt
<1>4. \A p \in Recorders : evWork[p] = AtRest BY DEF EvInit
<1>5. MemoryShape
  <2>1. evWork \in [Recorders -> [at : WorkAt, deal : DealShapes, won : BOOLEAN, memory : Memories]] BY <1>3 DEF EvInit
  <2>2. evDeal \in [Deals -> DealShapes] BY NoDealIsOne DEF EvInit
  <2>3. evSignal.pattern = NoPattern /\ evSignal.action = "HOLD" BY DEF EvInit, NoSignalYet
  <2> QED BY <1>1, <1>3, <1>4, <2>1, <2>2, <2>3 DEF MemoryShape, EvInit
<1>6. Recording = {} BY <1>3, <1>4 DEF Recording
<1>7. evCache = Past /\ evTold = Past /\ \A dir \in Dirs : evFile[dir] = Past BY DEF EvInit
<1> QED BY <1>1, <1>2, <1>3, <1>4, <1>5, <1>6, <1>7, MemoriesAreNotLost DEF MemoryInv

(* What a process would read is a memory within what was told. *)
LEMMA ReadMemory ==
    ASSUME MemoryInv, NEW p \in Recorders
    PROVE  /\ MemoryOf(p) \in Memories /\ NoMoreThan(MemoryOf(p), evTold)
           /\ evClean => MemoryOf(p) = evCache
<1>1. DirOf[p] \in Dirs BY DEF Dirs
<1>2. CASE evCache = Lost BY <1>1, <1>2 DEF MemoryOf, MemoryInv, MemoryShape
<1>3. CASE evCache # Lost BY <1>3 DEF MemoryOf, MemoryInv, MemoryShape
<1> QED BY <1>2, <1>3

(* The pattern of an opinion is a pattern. *)
LEMMA OpinionOnPattern ==
    ASSUME NEW r \in Readings
    PROVE  Opinion(r).pattern \in Patterns
<1> DEFINE dir == IF Inference(r).dir \in Sides THEN Inference(r).dir ELSE Direction(r, Inference(r))
<1>1. Opinion(r).pattern = <<dir, r.bucket>> BY DEF Opinion
<1>2. dir \in Sides BY EvaluationAssumption DEF Direction, Sides
<1>3. r.bucket \in Buckets BY EvaluationAssumption
<1> HIDE DEF dir
<1> QED BY <1>1, <1>2, <1>3 DEF Patterns

(* What is traded has a side. *)
LEMMA DirectionIsSide ==
    ASSUME NEW r \in Readings, NEW o
    PROVE  Direction(r, o) \in Sides
BY EvaluationAssumption DEF Direction, Sides

(* Signals, and the opening and closing of trades, are none of the memory's. *)
LEMMA SignalsKeepMemory ==
    ASSUME MemoryInv, (\E r \in Readings : EvaluateSymbol(r)) \/ AiRetried \/ ExecuteSignal
    PROVE  MemoryInv'
<1>1. UNCHANGED <<evCache, evFile, evWork, evTold, evClean>> BY DEF EvaluateSymbol, AiRetried, ExecuteSignal
<1>2. Recording' = Recording BY <1>1 DEF Recording
<1>3. evSignal'.pattern \in Patterns \cup {NoPattern} /\ evSignal'.action \in Sides \cup {"HOLD"}
  <2>1. CASE \E r \in Readings : EvaluateSymbol(r)
    <3>1. PICK r \in Readings : EvaluateSymbol(r) BY <2>1
    <3>2. evSignal' \in {NoSignalYet, [action |-> Direction(r, Opinion(r)), pattern |-> Opinion(r).pattern]}
      BY <3>1 DEF EvaluateSymbol
    <3> QED BY <3>2, OpinionOnPattern, DirectionIsSide DEF NoSignalYet
  <2>2. CASE AiRetried BY <2>2 DEF AiRetried, MemoryInv, MemoryShape
  <2>3. CASE ExecuteSignal BY <2>3 DEF ExecuteSignal, NoSignalYet
  <2> QED BY <2>1, <2>2, <2>3
<1>4. evDeal' \in [Deals -> DealShapes]
  <2>1. CASE UNCHANGED evDeal BY <2>1 DEF MemoryInv, MemoryShape
  <2>2. CASE ExecuteSignal
    <3>1. [state |-> "open", pattern |-> evSignal.pattern, side |-> evSignal.action] \in DealShapes
      BY DEF MemoryInv, MemoryShape, DealShapes
    <3> QED BY <2>2, <3>1 DEF ExecuteSignal, MemoryInv, MemoryShape
  <2> QED BY <2>1, <2>2 DEF EvaluateSymbol, AiRetried
<1> QED BY <1>1, <1>2, <1>3, <1>4 DEF MemoryInv, MemoryShape

(* A step of one process that leaves the memories alone. *)
LEMMA WorkKeepsMemory ==
    ASSUME MemoryInv, NEW p \in Recorders, NEW work \in [at : WorkAt, deal : DealShapes, won : BOOLEAN, memory : Memories],
           evWork' = [evWork EXCEPT ![p] = work],
           UNCHANGED <<evCache, evFile, evSignal, evTold, evClean>>,
           evDeal' \in [Deals -> DealShapes],
           work.at \in {"rest", "heal", "learn"}, evWork[p].at \notin {"cache", "file"},
           NoMoreThan(work.memory, evTold)
    PROVE  MemoryInv'
<1>1. evWork \in [Recorders -> [at : WorkAt, deal : DealShapes, won : BOOLEAN, memory : Memories]] BY DEF MemoryInv, MemoryShape
<1>2. \A q \in Recorders : evWork'[q] = IF q = p THEN work ELSE evWork[q] BY <1>1
<1>3. Recording' = Recording BY <1>2 DEF Recording
<1>4. MemoryShape' BY <1>1, <1>2 DEF MemoryInv, MemoryShape
<1>5. \A q \in Recorders : NoMoreThan(evWork'[q].memory, evTold') BY <1>2 DEF MemoryInv
<1>6. \A q \in Recorders : evWork'[q].at \in {"cache", "file"} => evWork'[q] = evWork[q] BY <1>2
<1> QED BY <1>3, <1>4, <1>5, <1>6 DEF MemoryInv

(* The reward profile is written; nothing is remembered yet.                 *)
LEMMA ProfileKeepsMemory ==
    ASSUME MemoryInv, NEW p \in Recorders, SaveProfile(p)
    PROVE  MemoryInv'
<1>1. evWork[p] \in [at : WorkAt, deal : DealShapes, won : BOOLEAN, memory : Memories]
      /\ evDeal \in [Deals -> DealShapes]
  BY DEF MemoryInv, MemoryShape
<1> DEFINE work == [evWork[p] EXCEPT !.at = "learn"]
<1>2. work \in [at : WorkAt, deal : DealShapes, won : BOOLEAN, memory : Memories] /\ work.at = "learn"
      /\ work.memory = evWork[p].memory
  BY <1>1 DEF WorkAt
<1>3. evWork' = [evWork EXCEPT ![p] = work] BY DEF SaveProfile
<1>4. NoMoreThan(work.memory, evTold) BY <1>2 DEF MemoryInv
<1> HIDE DEF work
<1>5. evWork[p].at = "heal" /\ UNCHANGED <<evCache, evFile, evSignal, evTold, evClean, evDeal>> BY DEF SaveProfile
<1> QED BY <1>1, <1>2, <1>3, <1>4, <1>5, WorkKeepsMemory

(* Closing a trade begins a recording; nothing is remembered yet. *)
LEMMA CloseKeepsMemory ==
    ASSUME MemoryInv, NEW p \in Recorders, NEW d \in Deals, NEW won \in BOOLEAN, CloseDeal(p, d, won)
    PROVE  MemoryInv'
<1>1. evWork[p] \in [at : WorkAt, deal : DealShapes, won : BOOLEAN, memory : Memories]
      /\ evDeal \in [Deals -> DealShapes]
  BY DEF MemoryInv, MemoryShape
<1>2. NoOutcomes \in Memories /\ NoMoreThan(NoOutcomes, evTold)
  <2>1. NoOutcomes \in Memories BY DEF NoOutcomes, Memories
  <2>2. \A k \in Entries : NoOutcomes[k].wins = 0 /\ NoOutcomes[k].losses = 0 BY DEF NoOutcomes
  <2>3. \A k \in Entries : evTold[k] \in [wins : Nat, losses : Nat] BY DEF MemoryInv, MemoryShape, Memories
  <2> QED BY <2>1, <2>2, <2>3 DEF NoMoreThan
<1>3. evWork[p].at = "rest" /\ UNCHANGED <<evCache, evFile, evSignal, evTold, evClean>> BY DEF CloseDeal
<1>4. evDeal' \in [Deals -> DealShapes] BY <1>1, NoDealIsOne DEF CloseDeal
<1>5. CASE UNCHANGED evWork
  <2>1. Recording' = Recording BY <1>5 DEF Recording
  <2> QED BY <1>3, <1>4, <1>5, <2>1 DEF MemoryInv, MemoryShape
<1>6. CASE evWork' = [evWork EXCEPT ![p] = [AtRest EXCEPT !.at = IF won THEN "learn" ELSE "heal", !.deal = evDeal[d], !.won = won]]
  <2> DEFINE work == [AtRest EXCEPT !.at = IF won THEN "learn" ELSE "heal", !.deal = evDeal[d], !.won = won]
  <2>1. work \in [at : WorkAt, deal : DealShapes, won : BOOLEAN, memory : Memories] /\ work.at \in {"learn", "heal"}
        /\ work.memory = NoOutcomes
    BY <1>1, <1>2 DEF AtRest, WorkAt
  <2>2. evWork' = [evWork EXCEPT ![p] = work] BY <1>6
  <2> HIDE DEF work
  <2> QED BY <1>2, <1>3, <1>4, <2>1, <2>2, WorkKeepsMemory
<1> QED BY <1>5, <1>6 DEF CloseDeal

(* An outcome is counted in what one process holds, and in what was told. *)
LEMMA LearnKeepsMemory ==
    ASSUME MemoryInv, NEW p \in Recorders, Learn(p)
    PROVE  MemoryInv'
<1> DEFINE ks == EntriesOf(evWork[p].deal)
           won == evWork[p].won
           mine == Counted(MemoryOf(p), ks, won)
           work == [evWork[p] EXCEPT !.at = "cache", !.memory = mine]
<1>1. /\ evWork[p].at = "learn" /\ evWork' = [evWork EXCEPT ![p].at = "cache", ![p].memory = mine]
      /\ evTold' = Counted(evTold, ks, won) /\ evClean' = (evClean /\ Recording = {})
      /\ UNCHANGED <<evCache, evFile, evSignal, evDeal>>
  BY DEF Learn
<1>2. /\ evWork \in [Recorders -> [at : WorkAt, deal : DealShapes, won : BOOLEAN, memory : Memories]] /\ won \in BOOLEAN
      /\ evTold \in Memories /\ evFile \in [Dirs -> Memories] /\ evCache \in Memories \cup {Lost}
  BY DEF MemoryInv, MemoryShape
<1>3. MemoryOf(p) \in Memories /\ NoMoreThan(MemoryOf(p), evTold) /\ (evClean => MemoryOf(p) = evCache) BY ReadMemory
<1> HIDE DEF ks, won
<1>4. mine \in Memories /\ evTold' \in Memories /\ NoMoreThan(evTold, evTold') /\ NoMoreThan(mine, evTold')
  BY <1>1, <1>2, <1>3, CountedOnce, CountedBoth
<1>5. \A m \in Memories : NoMoreThan(m, evTold) => NoMoreThan(m, evTold') BY <1>2, <1>4, WithinMore
<1> HIDE DEF mine
<1>6. work \in [at : WorkAt, deal : DealShapes, won : BOOLEAN, memory : Memories] /\ work.at = "cache" /\ work.memory = mine
      /\ work.deal = evWork[p].deal
  BY <1>2, <1>4 DEF WorkAt
<1>7. \A q \in Recorders : evWork'[q] = IF q = p THEN work ELSE evWork[q] BY <1>1, <1>2
<1> HIDE DEF work
<1>8. MemoryShape'
  <2>1. evWork' \in [Recorders -> [at : WorkAt, deal : DealShapes, won : BOOLEAN, memory : Memories]]
    BY <1>1, <1>2, <1>6, <1>7
  <2>2. evClean' \in BOOLEAN BY <1>1 DEF MemoryInv, MemoryShape
  <2> QED BY <1>1, <1>4, <1>6, <1>7, <2>1, <2>2 DEF MemoryInv, MemoryShape
<1>9. \A q \in Recorders : NoMoreThan(evWork'[q].memory, evTold') BY <1>2, <1>4, <1>5, <1>6, <1>7 DEF MemoryInv
<1>10. (\A dir \in Dirs : NoMoreThan(evFile'[dir], evTold')) /\ (evCache' # Lost => NoMoreThan(evCache', evTold'))
  BY <1>1, <1>2, <1>5 DEF MemoryInv
<1>11. ASSUME evClean'
       PROVE  /\ evCache' # Lost
              /\ Recording' = {} => evCache' = evTold'
              /\ \A q, r \in Recording' : q = r
              /\ \A q \in Recorders : evWork'[q].at = "cache" => evWork'[q].memory = evTold'
              /\ \A q \in Recorders : evWork'[q].at = "file" => evCache' = evTold'
  <2>1. evClean /\ Recording = {} /\ evCache = evTold /\ evCache # Lost BY <1>1, <1>11 DEF MemoryInv
  <2>2. mine = evTold' BY <1>1, <1>3, <2>1 DEF mine
  <2>3. \A q \in Recorders : evWork[q].at \notin {"cache", "file"} BY <2>1 DEF Recording
  <2>4. p \in Recording' /\ \A q \in Recording' : q = p BY <1>6, <1>7, <2>3 DEF Recording
  <2>5. \A q \in Recorders : evWork'[q].at \in {"cache", "file"} => q = p BY <1>7, <2>3
  <2> QED BY <1>1, <1>6, <1>7, <2>1, <2>2, <2>4, <2>5
<1> QED BY <1>8, <1>9, <1>10, <1>11 DEF MemoryInv

(* The memory is written: to the cache, then to the file. *)
LEMMA SaveKeepsMemory ==
    ASSUME MemoryInv, NEW p \in Recorders, SaveToCache(p) \/ SaveToFile(p) \/ RecorderDies(p)
    PROVE  MemoryInv'
<1> DEFINE work == evWork'[p]
<1>1. /\ evWork \in [Recorders -> [at : WorkAt, deal : DealShapes, won : BOOLEAN, memory : Memories]]
      /\ evWork[p] \in [at : WorkAt, deal : DealShapes, won : BOOLEAN, memory : Memories]
      /\ evTold \in Memories /\ evFile \in [Dirs -> Memories] /\ DirOf[p] \in Dirs
  BY DEF MemoryInv, MemoryShape, Dirs
<1>2. UNCHANGED <<evSignal, evDeal, evTold>> BY DEF SaveToCache, SaveToFile, RecorderDies
<1>3. NoOutcomes \in Memories /\ NoMoreThan(NoOutcomes, evTold)
  <2>1. NoOutcomes \in Memories BY DEF NoOutcomes, Memories
  <2>2. \A k \in Entries : NoOutcomes[k].wins = 0 /\ NoOutcomes[k].losses = 0 BY DEF NoOutcomes
  <2>3. \A k \in Entries : evTold[k] \in [wins : Nat, losses : Nat] BY <1>1 DEF Memories
  <2> QED BY <2>1, <2>2, <2>3 DEF NoMoreThan
<1>4. AtRest \in [at : WorkAt, deal : DealShapes, won : BOOLEAN, memory : Memories] /\ AtRest.at = "rest" /\ AtRest.memory = NoOutcomes
  BY <1>3, NoDealIsOne DEF AtRest, WorkAt
<1>5. \E now \in [at : WorkAt, deal : DealShapes, won : BOOLEAN, memory : Memories] :
         /\ evWork' = [evWork EXCEPT ![p] = now]
         /\ now = AtRest \/ (SaveToCache(p) /\ now.at = "file" /\ now.memory = evWork[p].memory /\ now.deal = evWork[p].deal)
  <2>1. CASE SaveToCache(p)
    <3> DEFINE now == [evWork[p] EXCEPT !.at = "file"]
    <3>1. now \in [at : WorkAt, deal : DealShapes, won : BOOLEAN, memory : Memories] /\ now.at = "file"
          /\ now.memory = evWork[p].memory /\ now.deal = evWork[p].deal
      BY <1>1 DEF WorkAt
    <3>2. evWork' = [evWork EXCEPT ![p] = now] BY <2>1 DEF SaveToCache
    <3> QED BY <2>1, <3>1, <3>2
  <2>2. CASE SaveToFile(p) \/ RecorderDies(p)
    BY <1>4, <2>2 DEF SaveToFile, RecorderDies
  <2> QED BY <2>1, <2>2
<1>6. /\ evWork' \in [Recorders -> [at : WorkAt, deal : DealShapes, won : BOOLEAN, memory : Memories]]
      /\ \A q \in Recorders : q # p => evWork'[q] = evWork[q]
      /\ work = AtRest \/ (SaveToCache(p) /\ work.at = "file" /\ work.memory = evWork[p].memory /\ work.deal = evWork[p].deal)
  BY <1>1, <1>5
<1> HIDE DEF work
<1>7. evCache' \in Memories \cup {Lost} /\ evFile' \in [Dirs -> Memories] /\ evClean' \in BOOLEAN
  <2>1. evCache \in Memories \cup {Lost} /\ evClean \in BOOLEAN /\ evWork[p].memory \in Memories
    BY <1>1 DEF MemoryInv, MemoryShape
  <2>2. evCache' \in {evCache, evWork[p].memory} /\ evClean' \in {evClean, FALSE}
    BY DEF SaveToCache, SaveToFile, RecorderDies, Mishap
  <2>3. evFile' \in {evFile, [evFile EXCEPT ![DirOf[p]] = evWork[p].memory], [evFile EXCEPT ![DirOf[p]] = NoOutcomes]}
    BY DEF SaveToCache, SaveToFile, RecorderDies
  <2>4. evFile' \in [Dirs -> Memories] BY <1>1, <1>3, <2>1, <2>3
  <2> QED BY <2>1, <2>2, <2>4
<1>8. MemoryShape' BY <1>2, <1>6, <1>7 DEF MemoryInv, MemoryShape
<1>9. \A q \in Recorders : NoMoreThan(evWork'[q].memory, evTold')
  <2>1. NoMoreThan(work.memory, evTold) BY <1>3, <1>4, <1>6 DEF MemoryInv
  <2> QED BY <1>2, <1>6, <2>1 DEF MemoryInv, work
<1>10. \A dir \in Dirs : NoMoreThan(evFile'[dir], evTold')
  <2>1. \A dir \in Dirs : evFile'[dir] \in {evFile[dir], evWork[p].memory, NoOutcomes}
    BY <1>1 DEF SaveToCache, SaveToFile, RecorderDies
  <2> QED BY <1>2, <1>3, <2>1 DEF MemoryInv
<1>11. evCache' # Lost => NoMoreThan(evCache', evTold')
  <2>1. evCache' \in {evCache, evWork[p].memory} BY DEF SaveToCache, SaveToFile, RecorderDies
  <2> QED BY <1>2, <2>1 DEF MemoryInv
<1>12. ASSUME evClean'
       PROVE  /\ evCache' # Lost
              /\ Recording' = {} => evCache' = evTold'
              /\ \A q, r \in Recording' : q = r
              /\ \A q \in Recorders : evWork'[q].at = "cache" => evWork'[q].memory = evTold'
              /\ \A q \in Recorders : evWork'[q].at = "file" => evCache' = evTold'
  <2>1. evClean /\ evCache # Lost /\ ~RecorderDies(p)
    BY <1>12 DEF SaveToCache, SaveToFile, RecorderDies, Mishap, MemoryInv
  <2>2. \A q, r \in Recording : q = r BY <2>1 DEF MemoryInv
  <2>3. p \in Recording BY <2>1 DEF SaveToCache, SaveToFile, Recording
  <2>4. \A q \in Recorders : q # p => evWork'[q].at \notin {"cache", "file"}
    BY <1>6, <2>2, <2>3 DEF Recording
  <2>5. CASE SaveToCache(p)
    <3>1. evWork[p].at = "cache" /\ evCache' = evWork[p].memory BY <1>12, <2>5 DEF SaveToCache, Mishap
    <3>2. evCache' = evTold' BY <1>2, <2>1, <3>1 DEF MemoryInv
    <3>3. evCache' # Lost BY <1>1, <3>1, MemoriesAreNotLost
    <3>4. work.at \in {"file", "rest"} BY <1>4, <1>6
    <3> QED BY <2>4, <3>2, <3>3, <3>4 DEF Recording, work
  <2>6. CASE SaveToFile(p)
    <3>1. evWork[p].at = "file" /\ UNCHANGED evCache BY <2>6 DEF SaveToFile
    <3>2. evCache' = evTold' BY <1>2, <2>1, <3>1 DEF MemoryInv
    <3>3. work.at = "rest" BY <1>1, <1>4, <2>6 DEF SaveToFile, work
    <3> QED BY <2>1, <2>4, <3>1, <3>2, <3>3 DEF Recording, work
  <2> QED BY <2>1, <2>5, <2>6
<1> QED BY <1>8, <1>9, <1>10, <1>11, <1>12 DEF MemoryInv

(* Every step keeps it. *)
LEMMA MemoryNext == MemoryInv /\ [EvNext]_evVars => MemoryInv'
<1> SUFFICES ASSUME MemoryInv, [EvNext]_evVars PROVE MemoryInv'
  OBVIOUS
<1>1. CASE (\E r \in Readings : EvaluateSymbol(r)) \/ AiRetried \/ ExecuteSignal BY <1>1, SignalsKeepMemory
<1>2. CASE MemoryExpires
  <2>1. evCache' = Lost /\ ~evClean' /\ evClean' \in BOOLEAN /\ UNCHANGED <<evFile, evSignal, evDeal, evWork, evTold>>
    BY <1>2 DEF MemoryExpires, Mishap
  <2> QED BY <2>1 DEF MemoryInv, MemoryShape
<1>3. ASSUME NEW p \in Recorders, NEW d \in Deals, NEW won \in BOOLEAN, CloseDeal(p, d, won) PROVE MemoryInv'
  BY <1>3, CloseKeepsMemory
<1>4. ASSUME NEW p \in Recorders, SaveProfile(p) PROVE MemoryInv' BY <1>4, ProfileKeepsMemory
<1>5. ASSUME NEW p \in Recorders, Learn(p) PROVE MemoryInv' BY <1>5, LearnKeepsMemory
<1>6. ASSUME NEW p \in Recorders, SaveToCache(p) \/ SaveToFile(p) \/ RecorderDies(p) PROVE MemoryInv'
  BY <1>6, SaveKeepsMemory
<1>7. CASE UNCHANGED evVars
  BY <1>7 DEF evVars, MemoryInv, MemoryShape, Recording
<1> QED BY <1>1, <1>2, <1>3, <1>4, <1>5, <1>6, <1>7 DEF EvNext

(* AdaptiveLearningService.record_trade_outcome: whichever processes close   *)
(* trades at once, die or lose the cache, no copy of the memory holds an     *)
(* outcome that did not happen; and as long as no process died, no write     *)
(* failed and no two closes overlapped, the memory holds every outcome.      *)
THEOREM MemoryIsTrue == EvSpec => [](NothingInvented /\ NothingForgotten)
<1>1. EvInit => MemoryInv BY MemoryInit
<1>2. MemoryInv /\ [EvNext]_evVars => MemoryInv' BY MemoryNext
<1>3. MemoryInv => NothingInvented /\ NothingForgotten
  BY DEF MemoryInv, NothingInvented, NothingForgotten, NoMoreThan
<1> QED BY <1>1, <1>2, <1>3, PTL DEF EvSpec

(* In live mode no gate but the strict ones lets a signal through, and they *)
(* ask for a pattern that is not blocked.                                    *)
LEMMA NoSignalOfBlocked ==
    ASSUME NEW k \in Patterns, evMode = "live", evCache # Lost, Blacklisted(evCache[k]), NEW r \in Readings,
           EvaluateSymbol(r)
    PROVE  evSignal'.pattern # k
<1> SUFFICES ASSUME evSignal'.pattern = k PROVE FALSE
  OBVIOUS
<1> DEFINE o == Opinion(r)
           dir == Inference(r).dir
<1>1. k # NoPattern
  <2>1. PICK side \in Sides, b \in Buckets : k = <<side, b>> BY DEF Patterns
  <2> QED BY <2>1 DEF NoPattern
<1>2. Strategy(r, o) # "LOW_CONFIDENCE_WATCHLIST" /\ o.pattern = k
  BY <1>1 DEF EvaluateSymbol, NoSignalYet
<1>3. ~Relaxed BY DEF Relaxed
<1>4. Gates(r, o) BY <1>2, <1>3 DEF Strategy, Forced, PaperGate
<1>5. ~o.block /\ o.dir \in Sides BY <1>4 DEF Gates
<1>6. o.dir = dir /\ o.pattern = <<IF dir \in Sides THEN dir ELSE Direction(r, Inference(r)), r.bucket>> BY DEF Opinion
<1>7. k = <<dir, r.bucket>> BY <1>2, <1>5, <1>6
<1>8. o.block = Feedback(MemoryOf(Reader), k).block BY <1>5, <1>6, <1>7 DEF Opinion
<1>9. MemoryOf(Reader) = evCache BY DEF MemoryOf
<1>10. o.block = Blacklisted(evCache[k]) BY <1>8, <1>9 DEF Feedback
<1> QED BY <1>5, <1>10

(* What traps a pattern: it is blocked, and no trade of it is on its way.    *)
LEMMA TrappedStays ==
    ASSUME MemoryInv, EvNext, NEW k \in Patterns, Trapped(k), evCache' # Lost
    PROVE  Trapped(k)'
<1>1. /\ evWork \in [Recorders -> [at : WorkAt, deal : DealShapes, won : BOOLEAN, memory : Memories]]
      /\ evDeal \in [Deals -> DealShapes]
  BY DEF MemoryInv, MemoryShape
<1>2. /\ evMode = "live" /\ evCache # Lost /\ Blacklisted(evCache[k]) /\ evSignal.pattern # k
      /\ \A d \in Deals : evDeal[d].pattern # k
      /\ \A p \in Recorders : evWork[p].at # "rest" =>
            /\ evWork[p].deal.pattern # k
            /\ evWork[p].at = "cache" => evWork[p].memory[k] = evCache[k]
  BY DEF Trapped
<1>3. NoPattern # k
  <2>1. PICK side \in Sides, b \in Buckets : k = <<side, b>> BY DEF Patterns
  <2> QED BY <2>1 DEF NoPattern
<1>4. CASE (\E r \in Readings : EvaluateSymbol(r)) \/ AiRetried
  <2>1. UNCHANGED <<evMode, evCache, evDeal, evWork>> BY <1>4 DEF EvaluateSymbol, AiRetried
  <2>2. evSignal'.pattern # k BY <1>2, <1>4, NoSignalOfBlocked DEF AiRetried
  <2> QED BY <1>2, <2>1, <2>2 DEF Trapped, Blacklisted
<1>5. CASE ExecuteSignal
  <2>1. UNCHANGED <<evMode, evCache, evWork>> /\ evSignal' = NoSignalYet BY <1>5 DEF ExecuteSignal
  <2>2. \A d \in Deals : evDeal'[d] = evDeal[d] \/ evDeal'[d].pattern = evSignal.pattern
    BY <1>1, <1>5 DEF ExecuteSignal
  <2>3. \A d \in Deals : evDeal'[d].pattern # k BY <1>2, <2>2
  <2>4. evSignal'.pattern # k BY <1>3, <2>1 DEF NoSignalYet
  <2> QED BY <1>2, <2>1, <2>3, <2>4 DEF Trapped, Blacklisted
<1>6. ASSUME NEW p \in Recorders, NEW d \in Deals, NEW won \in BOOLEAN, CloseDeal(p, d, won) PROVE Trapped(k)'
  <2>1. UNCHANGED <<evMode, evCache, evSignal>> BY <1>6 DEF CloseDeal
  <2>2. \A e \in Deals : evDeal'[e] = evDeal[e] \/ evDeal'[e].pattern = NoPattern BY <1>1, <1>6 DEF CloseDeal, NoDeal
  <2>3. \A q \in Recorders : evWork'[q] = evWork[q] \/ (evWork'[q].at \in {"learn", "heal"} /\ evWork'[q].deal = evDeal[d])
    <3>1. CASE UNCHANGED evWork BY <3>1
    <3>2. CASE evWork' = [evWork EXCEPT ![p] = [AtRest EXCEPT !.at = IF won THEN "learn" ELSE "heal", !.deal = evDeal[d], !.won = won]]
      <4> DEFINE work == [AtRest EXCEPT !.at = IF won THEN "learn" ELSE "heal", !.deal = evDeal[d], !.won = won]
      <4>1. work.at \in {"learn", "heal"} /\ work.deal = evDeal[d] BY DEF AtRest
      <4>2. evWork' = [evWork EXCEPT ![p] = work] BY <3>2
      <4> HIDE DEF work
      <4> QED BY <1>1, <4>1, <4>2
    <3> QED BY <1>6, <3>1, <3>2 DEF CloseDeal
  <2>4. \A q \in Recorders : evWork'[q].at # "rest" => /\ evWork'[q].deal.pattern # k
                                                       /\ evWork'[q].at = "cache" => evWork'[q].memory[k] = evCache[k]
    BY <1>2, <2>3
  <2>5. \A e \in Deals : evDeal'[e].pattern # k BY <1>2, <1>3, <2>2
  <2> QED BY <1>2, <2>1, <2>4, <2>5 DEF Trapped, Blacklisted
<1>7. ASSUME NEW p \in Recorders, SaveProfile(p) PROVE Trapped(k)'
  <2>1. UNCHANGED <<evMode, evCache, evSignal, evDeal>> /\ evWork[p].at = "heal" /\ evWork' = [evWork EXCEPT ![p].at = "learn"]
    BY <1>7 DEF SaveProfile
  <2>2. \A q \in Recorders : evWork'[q] = evWork[q] \/ (q = p /\ evWork'[q].at = "learn" /\ evWork'[q].deal = evWork[q].deal)
    BY <1>1, <2>1
  <2>3. \A q \in Recorders : evWork'[q].at # "rest" => /\ evWork'[q].deal.pattern # k
                                                       /\ evWork'[q].at = "cache" => evWork'[q].memory[k] = evCache[k]
    BY <1>2, <2>1, <2>2
  <2> QED BY <1>2, <2>1, <2>3 DEF Trapped, Blacklisted
<1>8. ASSUME NEW p \in Recorders, Learn(p) PROVE Trapped(k)'
  <2> DEFINE others == EntriesOf(evWork[p].deal)
             mine == Counted(MemoryOf(p), others, evWork[p].won)
  <2>1. /\ UNCHANGED <<evMode, evCache, evSignal, evDeal>> /\ evWork[p].at = "learn"
        /\ evWork' = [evWork EXCEPT ![p].at = "cache", ![p].memory = mine]
    BY <1>8 DEF Learn
  <2>2. k \notin others /\ k \in Entries BY <1>2, <2>1, PatternsAreNoSides DEF EntriesOf
  <2>3. MemoryOf(p) = evCache /\ MemoryOf(p) \in Memories BY <1>2, ReadMemory DEF MemoryOf
  <2>4. evWork[p].won \in BOOLEAN BY <1>1
  <2> HIDE DEF others
  <2>5. mine[k] = evCache[k] BY <2>2, <2>3, <2>4, CountedOnce
  <2> HIDE DEF mine
  <2>6. \A q \in Recorders : \/ evWork'[q] = evWork[q]
                             \/ q = p /\ evWork'[q].memory = mine /\ evWork'[q].deal = evWork[q].deal
    BY <1>1, <2>1
  <2>7. \A q \in Recorders : evWork'[q].at # "rest" => /\ evWork'[q].deal.pattern # k
                                                       /\ evWork'[q].at = "cache" => evWork'[q].memory[k] = evCache[k]
    BY <1>2, <2>1, <2>5, <2>6
  <2> QED BY <1>2, <2>1, <2>7 DEF Trapped, Blacklisted
<1>9. ASSUME NEW p \in Recorders, SaveToCache(p) \/ SaveToFile(p) \/ RecorderDies(p) PROVE Trapped(k)'
  <2>1. UNCHANGED <<evMode, evSignal, evDeal>> BY <1>9 DEF SaveToCache, SaveToFile, RecorderDies
  <2>2. evCache'[k] = evCache[k]
    <3>1. CASE SaveToCache(p) /\ evCache' = evWork[p].memory BY <1>2, <3>1 DEF SaveToCache
    <3>2. CASE UNCHANGED evCache BY <3>2
    <3> QED BY <1>9, <3>1, <3>2 DEF SaveToCache, SaveToFile, RecorderDies
  <2>3. \A q \in Recorders : \/ evWork'[q] = evWork[q] \/ evWork'[q].at = "rest"
                             \/ evWork[q].at # "rest" /\ evWork'[q].at = "file" /\ evWork'[q].deal = evWork[q].deal
    <3>1. CASE SaveToCache(p) BY <1>1, <3>1 DEF SaveToCache
    <3>2. CASE SaveToFile(p) \/ RecorderDies(p) BY <1>1, <3>2 DEF SaveToFile, RecorderDies, AtRest
    <3> QED BY <1>9, <3>1, <3>2
  <2>4. \A q \in Recorders : evWork'[q].at # "rest" => /\ evWork'[q].deal.pattern # k
                                                       /\ evWork'[q].at = "cache" => evWork'[q].memory[k] = evCache'[k]
    BY <1>2, <2>2, <2>3
  <2> QED BY <1>2, <2>1, <2>2, <2>4 DEF Trapped, Blacklisted
<1>10. ~MemoryExpires BY DEF MemoryExpires
<1> QED BY <1>4, <1>5, <1>6, <1>7, <1>8, <1>9, <1>10 DEF EvNext

(* In live mode a pattern that is blocked, with no trade on its way to the  *)
(* memory, stays so, whatever the market says and other patterns do: only   *)
(* the loss of the cached memory lets a signal of it through.                *)
THEOREM BlockedForGood == EvSpec => BlockedStayBlocked
<1>1. EvInit => MemoryInv BY MemoryInit
<1>2. MemoryInv /\ [EvNext]_evVars => MemoryInv' BY MemoryNext
<1>3. MemoryInv /\ [EvNext]_evVars => [\A k \in Patterns : Trapped(k) => Trapped(k)' \/ evCache' = Lost]_evVars
  BY TrappedStays
<1> QED BY <1>1, <1>2, <1>3, PTL DEF EvSpec, BlockedStayBlocked

-----------------------------------------------------------------------------
(* Governance: the limits of the hour, the cooling and the stage of a       *)
(* rollout.                                                                 *)

Place  == {"new", "gated", "bought", "rejected", "open", "stray", "closing", "measuring", "measured", "closed"}
Counts == [trades : Nat, wins : Nat]
Traded == [at : Place, left : Int, won : BOOLEAN, deep : BOOLEAN, read : Counts, seen : 0..3]

GovernanceShape ==
    /\ gvTrade \in [Trades -> Traded] /\ gvStage \in Stages \cup {Unset} /\ gvMetrics \in Counts
    /\ gvHour \in Nat /\ gvLate \in [hour : Int, cooling : Int]
    /\ gvDay \in [trades : Nat, losses : Int, cooling : BOOLEAN]

(* The trades that were gated, and those that were measured or are closed. *)
GatedOnes == {d \in Trades : gvTrade[d].at = "gated"}
DoneOnes  == {d \in Trades : gvTrade[d].at \in {"measuring", "measured", "closed"}}

(* A full hour, and a cooldown, leave room for those that are gated now; and *)
(* no reading of the metrics counts more trades than have been measured.     *)
GovernanceInv ==
    /\ GovernanceShape
    /\ gvHour >= HourLimit => gvLate.hour >= Gated
    /\ Micro /\ gvDay.cooling => gvLate.cooling >= Gated
    /\ gvMetrics.trades <= Cardinality(DoneOnes)
    /\ \A d \in Trades : gvTrade[d].at = "closing" => gvTrade[d].read.trades <= Cardinality(DoneOnes)

(* What is counted over the trades is a number. *)
LEMMA CountsOfTrades ==
    /\ IsFiniteSet(GatedOnes) /\ Gated \in Nat /\ Gated = Cardinality(GatedOnes)
    /\ IsFiniteSet(DoneOnes) /\ Cardinality(DoneOnes) \in Nat
<1>1. IsFiniteSet(Trades) BY GovernanceAssumption
<1>2. IsFiniteSet(GatedOnes) /\ IsFiniteSet(DoneOnes) BY <1>1, FS_Subset DEF GatedOnes, DoneOnes
<1>3. Gated = Cardinality(GatedOnes) BY DEF Gated, GatedOnes
<1> QED BY <1>2, <1>3, FS_CardinalityType

(* A count changes only by the trades whose state does. *)
LEMMA SoManyLater ==
    /\ IsFiniteSet(GatedOnes') /\ Gated' \in Nat /\ Gated' = Cardinality(GatedOnes')
    /\ IsFiniteSet(DoneOnes') /\ Cardinality(DoneOnes') \in Nat
<1>1. IsFiniteSet(Trades) BY GovernanceAssumption
<1>2. IsFiniteSet(GatedOnes') /\ IsFiniteSet(DoneOnes') BY <1>1, FS_Subset DEF GatedOnes, DoneOnes
<1>3. Gated' = Cardinality(GatedOnes') BY DEF Gated, GatedOnes
<1> QED BY <1>2, <1>3, FS_CardinalityType

(* A trade moves: how the counts follow.                                     *)
LEMMA OneTradeMoves ==
    ASSUME GovernanceShape, NEW d \in Trades, NEW now \in Traded, gvTrade' = [gvTrade EXCEPT ![d] = now]
    PROVE  /\ gvTrade[d].at = "gated" /\ now.at # "gated" => Gated' = Gated - 1
           /\ gvTrade[d].at # "gated" /\ now.at # "gated" => Gated' = Gated
           /\ now.at \in {"measuring", "measured", "closed"} /\ gvTrade[d].at \notin {"measuring", "measured", "closed"}
                => Cardinality(DoneOnes') = Cardinality(DoneOnes) + 1
           /\ (now.at \in {"measuring", "measured", "closed"} <=> gvTrade[d].at \in {"measuring", "measured", "closed"})
                => Cardinality(DoneOnes') = Cardinality(DoneOnes)
<1>1. gvTrade \in [Trades -> Traded] BY DEF GovernanceShape
<1>2. \A e \in Trades : gvTrade'[e] = IF e = d THEN now ELSE gvTrade[e] BY <1>1
<1>3. ASSUME gvTrade[d].at = "gated", now.at # "gated" PROVE Gated' = Gated - 1
  <2>1. GatedOnes' = GatedOnes \ {d} BY <1>2, <1>3 DEF GatedOnes
  <2>2. d \in GatedOnes BY <1>3 DEF GatedOnes
  <2> QED BY <2>1, <2>2, CountsOfTrades, SoManyLater, FS_RemoveElement
<1>4. ASSUME gvTrade[d].at # "gated", now.at # "gated" PROVE Gated' = Gated
  <2>1. GatedOnes' = GatedOnes BY <1>2, <1>4 DEF GatedOnes
  <2> QED BY <2>1, CountsOfTrades, SoManyLater
<1>5. ASSUME now.at \in {"measuring", "measured", "closed"}, gvTrade[d].at \notin {"measuring", "measured", "closed"}
      PROVE  Cardinality(DoneOnes') = Cardinality(DoneOnes) + 1
  <2>1. DoneOnes' = DoneOnes \cup {d} BY <1>2, <1>5 DEF DoneOnes
  <2>2. d \notin DoneOnes BY <1>5 DEF DoneOnes
  <2> QED BY <2>1, <2>2, CountsOfTrades, FS_AddElement
<1>6. ASSUME now.at \in {"measuring", "measured", "closed"} <=> gvTrade[d].at \in {"measuring", "measured", "closed"}
      PROVE  Cardinality(DoneOnes') = Cardinality(DoneOnes)
  <2>1. DoneOnes' = DoneOnes BY <1>2, <1>6 DEF DoneOnes
  <2> QED BY <2>1
<1> QED BY <1>3, <1>4, <1>5, <1>6

(* The invariant holds when no trade was taken. *)
LEMMA GovernanceInit == GvInit => GovernanceInv
<1> SUFFICES ASSUME GvInit PROVE GovernanceInv
  OBVIOUS
<1>1. HourLimit \in Nat \ {0} BY GovernanceAssumption
<1>2. Requested \in Traded /\ Requested.at = "new" BY DEF Requested, Traded, Place, NoMetrics, Counts
<1>3. gvTrade \in [Trades -> Traded] BY <1>2 DEF GvInit
<1>4. GovernanceShape
  <2>1. gvDay \in [trades : Nat, losses : Int, cooling : BOOLEAN]
    <3>1. NoDay \in [trades : Nat, losses : Int, cooling : BOOLEAN] BY DEF NoDay
    <3> QED BY <3>1 DEF GvInit
  <2>2. gvMetrics \in Counts /\ gvStage \in Stages \cup {Unset} BY DEF GvInit, Counts, NoMetrics
  <2>3. gvHour \in Nat /\ gvLate \in [hour : Int, cooling : Int] BY DEF GvInit
  <2> QED BY <1>3, <2>1, <2>2, <2>3 DEF GovernanceShape
<1>5. gvHour = 0 /\ gvDay.cooling = FALSE /\ gvMetrics.trades = 0 BY DEF GvInit, NoDay, NoMetrics
<1>6. \A d \in Trades : gvTrade[d].at = "new" BY <1>2 DEF GvInit
<1> QED BY <1>1, <1>4, <1>5, <1>6, CountsOfTrades DEF GovernanceInv

(* A trade that moves from one place to another is a trade. *)
LEMMA TakenIsTraded ==
    ASSUME GovernanceShape, NEW d \in Trades, NEW at \in Place, Take(d, at)
    PROVE  \E now \in Traded : now.at = at /\ now.read = gvTrade[d].read /\ gvTrade' = [gvTrade EXCEPT ![d] = now]
<1> DEFINE now == [gvTrade[d] EXCEPT !.at = at]
<1>1. gvTrade[d] \in Traded BY DEF GovernanceShape
<1>2. now \in Traded /\ now.at = at /\ now.read = gvTrade[d].read BY <1>1 DEF Traded
<1>3. gvTrade' = [gvTrade EXCEPT ![d] = now] BY DEF Take
<1> QED BY <1>2, <1>3

(* The shape, and the counts of closes, after a step that moves one trade   *)
(* and leaves the metrics alone.                                             *)
LEMMA MoveKeepsCounts ==
    ASSUME GovernanceInv, NEW d \in Trades, NEW now \in Traded, gvTrade' = [gvTrade EXCEPT ![d] = now],
           gvTrade[d].at \in {"measuring", "measured", "closed"} => now.at \in {"measuring", "measured", "closed"},
           now.at = "closing" => now.read.trades <= Cardinality(DoneOnes), UNCHANGED gvMetrics
    PROVE  /\ gvTrade' \in [Trades -> Traded]
           /\ gvMetrics'.trades <= Cardinality(DoneOnes')
           /\ \A e \in Trades : gvTrade'[e].at = "closing" => gvTrade'[e].read.trades <= Cardinality(DoneOnes')
<1>1. GovernanceShape /\ gvTrade \in [Trades -> Traded] BY DEF GovernanceInv, GovernanceShape
<1>2. gvTrade' \in [Trades -> Traded] BY <1>1
<1>3. \A e \in Trades : gvTrade'[e] = IF e = d THEN now ELSE gvTrade[e] BY <1>1
<1>4. Cardinality(DoneOnes') >= Cardinality(DoneOnes)
  <2>1. CASE now.at \in {"measuring", "measured", "closed"} /\ gvTrade[d].at \notin {"measuring", "measured", "closed"}
    <3>1. Cardinality(DoneOnes') = Cardinality(DoneOnes) + 1 BY <1>1, <2>1, OneTradeMoves
    <3> QED BY <3>1, CountsOfTrades
  <2>2. CASE now.at \in {"measuring", "measured", "closed"} <=> gvTrade[d].at \in {"measuring", "measured", "closed"}
    <3>1. Cardinality(DoneOnes') = Cardinality(DoneOnes) BY <1>1, <2>2, OneTradeMoves
    <3> QED BY <3>1, CountsOfTrades
  <2> QED BY <2>1, <2>2
<1>5. gvMetrics.trades \in Nat /\ \A e \in Trades : gvTrade[e].read.trades \in Nat /\ now.read.trades \in Nat
  BY <1>1 DEF GovernanceShape, Traded, Counts
<1>6. \A e \in Trades : gvTrade[e].at = "closing" => gvTrade[e].read.trades <= Cardinality(DoneOnes) BY DEF GovernanceInv
<1>7. gvMetrics.trades <= Cardinality(DoneOnes) BY DEF GovernanceInv
<1>8. gvMetrics'.trades <= Cardinality(DoneOnes') BY <1>4, <1>5, <1>7, CountsOfTrades, SoManyLater
<1>9. ASSUME NEW e \in Trades, gvTrade'[e].at = "closing" PROVE gvTrade'[e].read.trades <= Cardinality(DoneOnes')
  <2>1. gvTrade'[e].read.trades <= Cardinality(DoneOnes) /\ gvTrade'[e].read.trades \in Nat
    BY <1>3, <1>5, <1>6, <1>9
  <2> QED BY <1>4, <2>1, CountsOfTrades, SoManyLater
<1> QED BY <1>2, <1>8, <1>9

(* The gate opens for a trade while the hour is not full and the account    *)
(* does not cool down.                                                       *)
LEMMA GateKeeps ==
    ASSUME GovernanceInv, NEW d \in Trades, Gate(d)
    PROVE  GovernanceInv'
<1>1. GovernanceShape /\ gvTrade[d].at = "new" BY DEF GovernanceInv, Gate
<1>2. gvStage' \in Stages \cup {Unset} BY DEF GovernanceInv, GovernanceShape, Gate, Stage, Stages
<1>3. UNCHANGED <<gvMetrics, gvHour, gvDay, gvLate>> BY DEF Gate, gvCounters, gvHistory
<1>4. ASSUME NEW at \in {"gated", "rejected"}, Take(d, at)
      PROVE  /\ GovernanceShape'
             /\ gvMetrics'.trades <= Cardinality(DoneOnes')
             /\ \A e \in Trades : gvTrade'[e].at = "closing" => gvTrade'[e].read.trades <= Cardinality(DoneOnes')
             /\ at = "rejected" => Gated' = Gated
  <2>1. PICK now \in Traded : now.at = at /\ gvTrade' = [gvTrade EXCEPT ![d] = now]
    BY <1>1, <1>4, TakenIsTraded DEF Place
  <2>2. at = "rejected" => Gated' = Gated BY <1>1, <2>1, OneTradeMoves
  <2>3. /\ gvTrade' \in [Trades -> Traded]
        /\ gvMetrics'.trades <= Cardinality(DoneOnes')
        /\ \A e \in Trades : gvTrade'[e].at = "closing" => gvTrade'[e].read.trades <= Cardinality(DoneOnes')
    BY <1>1, <1>3, <2>1, MoveKeepsCounts
  <2> QED BY <1>1, <1>2, <1>3, <2>2, <2>3 DEF GovernanceShape
<1>5. CASE Take(d, "gated") /\ GlobalLimits /\ MicroLimits
  <2>1. gvHour < HourLimit /\ (Micro => ~gvDay.cooling) BY <1>5 DEF GlobalLimits, MicroLimits
  <2>2. HourLimit \in Nat /\ gvHour \in Nat BY <1>1, GovernanceAssumption DEF GovernanceShape
  <2> QED BY <1>3, <1>4, <1>5, <2>1, <2>2 DEF GovernanceInv
<1>6. CASE Take(d, "rejected")
  BY <1>3, <1>4, <1>6 DEF GovernanceInv
<1> QED BY <1>5, <1>6 DEF Gate

(* An order uses up one of the places that were left. *)
LEMMA OrderKeeps ==
    ASSUME GovernanceInv, NEW d \in Trades, PlaceOrderOf(d)
    PROVE  GovernanceInv'
<1>1. GovernanceShape /\ gvTrade[d].at = "gated" BY DEF GovernanceInv, PlaceOrderOf
<1>2. UNCHANGED <<gvStage, gvMetrics, gvHour>> BY DEF PlaceOrderOf
<1>3. ASSUME NEW at \in {"bought", "rejected"}, Take(d, at)
      PROVE  /\ gvTrade' \in [Trades -> Traded]
             /\ gvMetrics'.trades <= Cardinality(DoneOnes')
             /\ \A e \in Trades : gvTrade'[e].at = "closing" => gvTrade'[e].read.trades <= Cardinality(DoneOnes')
             /\ Gated' = Gated - 1
  <2>1. PICK now \in Traded : now.at = at /\ gvTrade' = [gvTrade EXCEPT ![d] = now]
    BY <1>1, <1>3, TakenIsTraded DEF Place
  <2>2. Gated' = Gated - 1 BY <1>1, <2>1, OneTradeMoves
  <2> QED BY <1>1, <1>2, <2>1, <2>2, MoveKeepsCounts
<1>4. HourLimit \in Nat /\ gvHour \in Nat /\ Gated \in Nat /\ gvLate \in [hour : Int, cooling : Int]
      /\ gvDay \in [trades : Nat, losses : Int, cooling : BOOLEAN]
  BY <1>1, GovernanceAssumption, CountsOfTrades DEF GovernanceShape
<1>5. CASE /\ Take(d, "bought")
           /\ gvDay' = [gvDay EXCEPT !.trades = @ + 1]
           /\ gvLate' = [hour    |-> IF gvHour >= HourLimit THEN gvLate.hour - 1 ELSE gvLate.hour,
                         cooling |-> IF gvDay.cooling THEN gvLate.cooling - 1 ELSE gvLate.cooling]
  <2>1. /\ gvDay' \in [trades : Nat, losses : Int, cooling : BOOLEAN] /\ gvDay'.cooling = gvDay.cooling
        /\ gvLate' \in [hour : Int, cooling : Int]
    BY <1>4, <1>5
  <2>2. GovernanceShape' BY <1>1, <1>2, <1>3, <1>5, <2>1 DEF GovernanceShape
  <2>3. gvHour' >= HourLimit => gvLate'.hour >= Gated' BY <1>2, <1>3, <1>4, <1>5 DEF GovernanceInv
  <2>4. Micro /\ gvDay'.cooling => gvLate'.cooling >= Gated' BY <1>3, <1>4, <1>5, <2>1 DEF GovernanceInv
  <2> QED BY <1>3, <1>5, <2>2, <2>3, <2>4 DEF GovernanceInv
<1>6. CASE Take(d, "rejected") /\ UNCHANGED <<gvDay, gvLate>>
  BY <1>1, <1>2, <1>3, <1>4, <1>6 DEF GovernanceInv, GovernanceShape
<1> QED BY <1>5, <1>6 DEF PlaceOrderOf

(* A booking fills the hour, and then those that are gated now have a place. *)
LEMMA BookingKeeps ==
    ASSUME GovernanceInv, NEW d \in Trades, NEW units \in Nat, BookTrade(d, units)
    PROVE  GovernanceInv'
<1>1. GovernanceShape /\ gvTrade[d].at = "bought" /\ gvTrade[d] \in Traded
  BY DEF GovernanceInv, BookTrade, GovernanceShape
<1>2. UNCHANGED <<gvStage, gvMetrics, gvDay>> BY DEF BookTrade
<1>3. HourLimit \in Nat /\ gvHour \in Nat /\ Gated \in Nat /\ gvLate \in [hour : Int, cooling : Int]
  BY <1>1, GovernanceAssumption, CountsOfTrades DEF GovernanceShape
<1>4. ASSUME NEW now \in Traded, now.at \in {"open", "stray"}, gvTrade' = [gvTrade EXCEPT ![d] = now]
      PROVE  /\ gvTrade' \in [Trades -> Traded]
             /\ gvMetrics'.trades <= Cardinality(DoneOnes')
             /\ \A e \in Trades : gvTrade'[e].at = "closing" => gvTrade'[e].read.trades <= Cardinality(DoneOnes')
             /\ Gated' = Gated
  <2>1. Gated' = Gated BY <1>1, <1>4, OneTradeMoves
  <2> QED BY <1>1, <1>2, <1>4, <2>1, MoveKeepsCounts
<1>5. CASE /\ gvTrade' = [gvTrade EXCEPT ![d] = [@ EXCEPT !.at = "open", !.left = units]]
           /\ gvHour' = gvHour + 1
           /\ gvLate' = [gvLate EXCEPT !.hour = IF gvHour + 1 = HourLimit THEN Gated ELSE @]
  <2> DEFINE now == [gvTrade[d] EXCEPT !.at = "open", !.left = units]
  <2>1. now \in Traded /\ now.at = "open"
    <3>1. units \in Int OBVIOUS
    <3> QED BY <1>1, <3>1 DEF Traded, Place
  <2>2. gvTrade' = [gvTrade EXCEPT ![d] = now] BY <1>5
  <2>3. gvLate' \in [hour : Int, cooling : Int] /\ gvLate'.cooling = gvLate.cooling
        /\ gvLate'.hour = IF gvHour + 1 = HourLimit THEN Gated ELSE gvLate.hour
    BY <1>3, <1>5
  <2> HIDE DEF now
  <2>4. /\ gvTrade' \in [Trades -> Traded]
        /\ gvMetrics'.trades <= Cardinality(DoneOnes')
        /\ \A e \in Trades : gvTrade'[e].at = "closing" => gvTrade'[e].read.trades <= Cardinality(DoneOnes')
        /\ Gated' = Gated
    BY <1>4, <2>1, <2>2
  <2>5. GovernanceShape' BY <1>1, <1>2, <1>3, <1>5, <2>3, <2>4 DEF GovernanceShape
  <2>6. gvHour' >= HourLimit => gvLate'.hour >= Gated'
    <3>1. CASE gvHour + 1 = HourLimit BY <1>3, <2>3, <2>4, <3>1
    <3>2. CASE gvHour + 1 # HourLimit
      <4>1. gvHour' >= HourLimit => gvHour >= HourLimit BY <1>3, <1>5, <3>2
      <4> QED BY <2>3, <2>4, <3>2, <4>1 DEF GovernanceInv
    <3> QED BY <3>1, <3>2
  <2> QED BY <1>2, <2>3, <2>4, <2>5, <2>6 DEF GovernanceInv
<1>6. CASE Take(d, "stray") /\ UNCHANGED <<gvHour, gvLate>>
  <2>1. PICK now \in Traded : now.at = "stray" /\ gvTrade' = [gvTrade EXCEPT ![d] = now]
    BY <1>1, <1>6, TakenIsTraded DEF Place
  <2> QED BY <1>1, <1>2, <1>3, <1>4, <1>6, <2>1 DEF GovernanceInv, GovernanceShape
<1> QED BY <1>5, <1>6 DEF BookTrade

(* The first two steps of a close: the metrics are read as they are. *)
LEMMA CloseKeeps ==
    ASSUME GovernanceInv, NEW d \in Trades, NEW deep \in BOOLEAN, ClosePart(d, deep) \/ CloseRest(d, deep)
    PROVE  GovernanceInv'
<1>1. GovernanceShape /\ gvTrade[d].at = "open" /\ gvTrade[d] \in Traded
  BY DEF GovernanceInv, ClosePart, CloseRest, GovernanceShape
<1>2. UNCHANGED <<gvStage, gvMetrics, gvHour, gvDay, gvLate>>
  BY DEF ClosePart, CloseRest, gvCounters, gvHistory
<1>3. gvMetrics.trades <= Cardinality(DoneOnes) BY DEF GovernanceInv
<1>4. ASSUME NEW now \in Traded, gvTrade' = [gvTrade EXCEPT ![d] = now], now.at \in {"open", "closing"},
             now.at = "closing" => now.read = gvMetrics
      PROVE  GovernanceInv'
  <2>1. /\ gvTrade' \in [Trades -> Traded]
        /\ gvMetrics'.trades <= Cardinality(DoneOnes')
        /\ \A e \in Trades : gvTrade'[e].at = "closing" => gvTrade'[e].read.trades <= Cardinality(DoneOnes')
    BY <1>1, <1>2, <1>3, <1>4, MoveKeepsCounts
  <2>2. Gated' = Gated BY <1>1, <1>4, OneTradeMoves
  <2> QED BY <1>1, <1>2, <2>1, <2>2 DEF GovernanceInv, GovernanceShape
<1>5. CASE ClosePart(d, deep)
  <2> DEFINE now == [gvTrade[d] EXCEPT !.left = @ - 1]
  <2>1. now \in Traded /\ now.at = "open" BY <1>1 DEF Traded
  <2>2. gvTrade' = [gvTrade EXCEPT ![d] = now] BY <1>5 DEF ClosePart
  <2> HIDE DEF now
  <2> QED BY <1>4, <2>1, <2>2
<1>6. CASE CloseRest(d, deep)
  <2> DEFINE now == [gvTrade[d] EXCEPT !.at = "closing", !.deep = deep, !.read = gvMetrics]
  <2>1. gvMetrics \in Counts BY <1>1 DEF GovernanceShape
  <2>2. now \in Traded /\ now.at = "closing" /\ now.read = gvMetrics BY <1>1, <2>1 DEF Traded, Place
  <2>3. gvTrade' = [gvTrade EXCEPT ![d] = now] BY <1>6 DEF CloseRest
  <2> HIDE DEF now
  <2> QED BY <1>4, <2>2, <2>3
<1> QED BY <1>5, <1>6

(* The stage of the rollout is one of four, set or not. *)
LEMMA StageIsOneOfFour ==
    ASSUME GovernanceInv
    PROVE  Stage \in 0..3
<1>1. gvStage \in 0..3 \cup {-1} BY DEF GovernanceInv, GovernanceShape, Stages, Unset
<1> QED BY <1>1 DEF Stage, Unset

(* A close adds the trade to the metrics that it read before,               *)
(* when the trade itself is counted as measured.                             *)
LEMMA MeasureKeeps ==
    ASSUME GovernanceInv, NEW d \in Trades, NEW won \in BOOLEAN, Measure(d, won)
    PROVE  GovernanceInv'
<1>1. GovernanceShape /\ gvTrade[d].at = "closing" /\ gvTrade[d] \in Traded
  BY DEF GovernanceInv, Measure, GovernanceShape
<1>2. UNCHANGED <<gvHour, gvDay, gvLate>> BY DEF Measure, gvCounters, gvHistory
<1> DEFINE m == [trades |-> gvTrade[d].read.trades + 1, wins |-> gvTrade[d].read.wins + (IF won THEN 1 ELSE 0)]
           now == [gvTrade[d] EXCEPT !.at = "measuring", !.won = won, !.read = m, !.seen = Stage]
<1>3. now \in Traded /\ now.at = "measuring"
  <2>1. m \in Counts BY <1>1 DEF Traded, Counts
  <2>2. Stage \in 0..3 BY StageIsOneOfFour
  <2> HIDE DEF m
  <2> QED BY <1>1, <2>1, <2>2 DEF Traded, Place
<1>4. gvTrade' = [gvTrade EXCEPT ![d] = now] /\ gvMetrics' = m BY DEF Measure
<1>5. m \in Counts /\ m.trades = gvTrade[d].read.trades + 1 BY <1>1 DEF Traded, Counts
<1>6. gvStage' \in Stages \cup {Unset} BY StageIsOneOfFour DEF Measure, Stages
<1> HIDE DEF now, m
<1>7. Cardinality(DoneOnes') = Cardinality(DoneOnes) + 1 /\ Gated' = Gated
  BY <1>1, <1>3, <1>4, OneTradeMoves
<1>8. gvTrade[d].read.trades <= Cardinality(DoneOnes) /\ gvTrade[d].read.trades \in Nat
  BY <1>1 DEF GovernanceInv, Traded, Counts
<1>9. gvMetrics'.trades <= Cardinality(DoneOnes') BY <1>4, <1>5, <1>7, <1>8, CountsOfTrades
<1>10. gvTrade \in [Trades -> Traded] /\ gvTrade' \in [Trades -> Traded] BY <1>1, <1>3, <1>4 DEF GovernanceShape
<1>11. ASSUME NEW e \in Trades, gvTrade'[e].at = "closing" PROVE gvTrade'[e].read.trades <= Cardinality(DoneOnes')
  <2>1. gvTrade'[e] = gvTrade[e] BY <1>3, <1>4, <1>10, <1>11
  <2>2. gvTrade[e].read.trades <= Cardinality(DoneOnes) BY <1>11, <2>1 DEF GovernanceInv
  <2>3. gvTrade[e].read.trades \in Nat BY <1>10 DEF Traded, Counts
  <2> QED BY <1>7, <2>1, <2>2, <2>3, CountsOfTrades
<1>12. GovernanceShape' BY <1>1, <1>2, <1>4, <1>5, <1>6, <1>10 DEF GovernanceShape
<1> QED BY <1>2, <1>7, <1>9, <1>11, <1>12 DEF GovernanceInv

(* record_performance writes a stage, whatever it was when it was read. *)
LEMMA WritingKeeps ==
    ASSUME GovernanceInv, NEW d \in Trades, WriteStage(d)
    PROVE  GovernanceInv'
<1>1. GovernanceShape /\ gvTrade[d].at = "measuring" /\ gvTrade[d] \in Traded
  BY DEF GovernanceInv, WriteStage, GovernanceShape
<1>2. UNCHANGED <<gvMetrics, gvHour, gvDay, gvLate>> BY DEF WriteStage, gvCounters, gvHistory
<1> DEFINE now == [gvTrade[d] EXCEPT !.at = "measured", !.deep = FALSE, !.read = NoMetrics, !.seen = 0]
<1>3. now \in Traded /\ now.at = "measured"
  <2>1. NoMetrics \in Counts BY DEF NoMetrics, Counts
  <2>2. "measured" \in Place /\ 0 \in 0..3 BY DEF Place
  <2> HIDE DEF now
  <2> QED BY <1>1, <2>1, <2>2 DEF Traded, now
<1>4. gvTrade' = [gvTrade EXCEPT ![d] = now] BY DEF WriteStage
<1> HIDE DEF now
<1>5. gvStage' \in Stages \cup {Unset}
  <2>1. gvTrade[d].seen \in 0..3 BY <1>1 DEF Traded
  <2>2. gvStage' = NextStage(gvTrade[d].seen, gvTrade[d].read, gvTrade[d].deep) BY DEF WriteStage
  <2> QED BY <2>1, <2>2 DEF NextStage, Stages
<1>6. Gated' = Gated BY <1>1, <1>3, <1>4, OneTradeMoves
<1>7. /\ gvTrade' \in [Trades -> Traded]
      /\ gvMetrics'.trades <= Cardinality(DoneOnes')
      /\ \A e \in Trades : gvTrade'[e].at = "closing" => gvTrade'[e].read.trades <= Cardinality(DoneOnes')
  BY <1>2, <1>3, <1>4, MoveKeepsCounts
<1>8. GovernanceShape' BY <1>1, <1>2, <1>5, <1>7 DEF GovernanceShape
<1> QED BY <1>2, <1>6, <1>7, <1>8 DEF GovernanceInv

(* The end of a close, or its breaking off. *)
LEMMA OutcomeKeeps ==
    ASSUME GovernanceInv, NEW d \in Trades, RecordOutcome(d) \/ OutcomeLost(d)
    PROVE  GovernanceInv'
<1>1. GovernanceShape /\ gvTrade[d].at \in {"closing", "measuring", "measured"}
  BY DEF GovernanceInv, RecordOutcome, OutcomeLost
<1>2. UNCHANGED <<gvStage, gvMetrics, gvHour>> BY DEF RecordOutcome, OutcomeLost, gvCounters
<1> DEFINE now == [Requested EXCEPT !.at = "closed"]
<1>3. now \in Traded /\ now.at = "closed"
  <2>1. Requested \in Traded BY DEF Requested, Traded, Place, NoMetrics, Counts
  <2> QED BY <2>1 DEF Traded, Place
<1>4. gvTrade' = [gvTrade EXCEPT ![d] = now] BY DEF RecordOutcome, OutcomeLost
<1> HIDE DEF now
<1>5. Gated' = Gated BY <1>1, <1>3, <1>4, OneTradeMoves
<1>6. /\ gvTrade' \in [Trades -> Traded]
      /\ gvMetrics'.trades <= Cardinality(DoneOnes')
      /\ \A e \in Trades : gvTrade'[e].at = "closing" => gvTrade'[e].read.trades <= Cardinality(DoneOnes')
  BY <1>2, <1>3, <1>4, MoveKeepsCounts
<1>7. gvDay \in [trades : Nat, losses : Int, cooling : BOOLEAN] /\ gvLate \in [hour : Int, cooling : Int] /\ Gated \in Nat
  BY <1>1, CountsOfTrades DEF GovernanceShape
<1>8. CASE OutcomeLost(d)
  BY <1>1, <1>2, <1>5, <1>6, <1>8 DEF OutcomeLost, gvCounters, GovernanceInv, GovernanceShape
<1>9. CASE RecordOutcome(d)
  <2> DEFINE losses == IF gvTrade[d].won THEN 0 ELSE Cap(gvDay.losses + 1, 2)
             cools == gvDay.cooling \/ losses >= 2
  <2>1. losses \in Int BY <1>7 DEF Cap
  <2>2. /\ gvDay' = [gvDay EXCEPT !.losses = losses, !.cooling = cools]
        /\ gvLate' = [gvLate EXCEPT !.cooling = IF cools /\ ~gvDay.cooling THEN Gated ELSE @]
    BY <1>9 DEF RecordOutcome
  <2>3. cools \in BOOLEAN BY <1>7
  <2> HIDE DEF losses
  <2>4. gvDay' \in [trades : Nat, losses : Int, cooling : BOOLEAN] /\ gvDay'.cooling = cools
    BY <1>7, <2>1, <2>2, <2>3
  <2>5. /\ gvLate' \in [hour : Int, cooling : Int] /\ gvLate'.hour = gvLate.hour
        /\ gvLate'.cooling = IF cools /\ ~gvDay.cooling THEN Gated ELSE gvLate.cooling
    BY <1>7, <2>2
  <2> HIDE DEF cools
  <2>6. GovernanceShape' BY <1>1, <1>2, <1>6, <2>4, <2>5 DEF GovernanceShape
  <2>7. Micro /\ gvDay'.cooling => gvLate'.cooling >= Gated'
    <3>1. CASE cools /\ ~gvDay.cooling BY <1>5, <1>7, <2>5, <3>1
    <3>2. CASE ~(cools /\ ~gvDay.cooling) BY <1>5, <2>4, <2>5, <3>2 DEF GovernanceInv
    <3> QED BY <3>1, <3>2
  <2> QED BY <1>2, <1>5, <1>6, <2>5, <2>6, <2>7 DEF GovernanceInv
<1> QED BY <1>8, <1>9

(* Every step keeps it. *)
LEMMA GovernanceNext == GovernanceInv /\ [GvNext]_gvVars => GovernanceInv'
<1> SUFFICES ASSUME GovernanceInv, [GvNext]_gvVars PROVE GovernanceInv'
  OBVIOUS
<1>1. HourLimit \in Nat \ {0} BY GovernanceAssumption
<1>2. GovernanceShape BY DEF GovernanceInv
<1>3. ASSUME UNCHANGED gvTrade PROVE Gated' = Gated /\ DoneOnes' = DoneOnes
  BY <1>3 DEF Gated, DoneOnes
<1>4. ASSUME NEW d \in Trades, Gate(d) PROVE GovernanceInv' BY <1>4, GateKeeps
<1>5. ASSUME NEW d \in Trades, PlaceOrderOf(d) PROVE GovernanceInv' BY <1>5, OrderKeeps
<1>6. ASSUME NEW d \in Trades, NEW units \in Executions[d], BookTrade(d, units) PROVE GovernanceInv'
  BY <1>6, GovernanceAssumption, BookingKeeps
<1>7. ASSUME NEW d \in Trades, NEW deep \in BOOLEAN, ClosePart(d, deep) \/ CloseRest(d, deep) PROVE GovernanceInv'
  BY <1>7, CloseKeeps
<1>8. ASSUME NEW d \in Trades, NEW won \in BOOLEAN, Measure(d, won) PROVE GovernanceInv' BY <1>8, MeasureKeeps
<1>9. ASSUME NEW d \in Trades, RecordOutcome(d) \/ OutcomeLost(d) PROVE GovernanceInv' BY <1>9, OutcomeKeeps
<1>15. ASSUME NEW d \in Trades, WriteStage(d) PROVE GovernanceInv' BY <1>15, WritingKeeps
<1>10. CASE NextHour
  <2>1. gvHour' = 0 /\ gvLate' = [gvLate EXCEPT !.hour = 0] /\ UNCHANGED <<gvStage, gvMetrics, gvDay, gvTrade>>
    BY <1>10 DEF NextHour
  <2>2. gvLate' \in [hour : Int, cooling : Int] /\ gvLate'.cooling = gvLate.cooling BY <1>2, <2>1 DEF GovernanceShape
  <2> QED BY <1>1, <1>2, <1>3, <2>1, <2>2 DEF GovernanceInv, GovernanceShape
<1>11. CASE NextDay
  <2>1. gvDay' = [gvDay EXCEPT !.trades = 0] /\ UNCHANGED <<gvStage, gvMetrics, gvHour, gvLate, gvTrade>>
    BY <1>11 DEF NextDay
  <2>2. gvDay' \in [trades : Nat, losses : Int, cooling : BOOLEAN] /\ gvDay'.cooling = gvDay.cooling
    BY <1>2, <2>1 DEF GovernanceShape
  <2> QED BY <1>2, <1>3, <2>1, <2>2 DEF GovernanceInv, GovernanceShape
<1>12. CASE StatusExpires \/ ExposureExpires \/ SetProfile
  <2>1. UNCHANGED <<gvMetrics, gvHour, gvDay, gvLate, gvTrade>> /\ gvStage' \in {gvStage, Unset, 2}
    BY <1>12 DEF StatusExpires, ExposureExpires, SetProfile, gvCounters
  <2>2. gvStage' \in Stages \cup {Unset} BY <1>2, <2>1 DEF GovernanceShape, Stages
  <2> QED BY <1>2, <1>3, <2>1, <2>2 DEF GovernanceInv, GovernanceShape
<1>13. CASE CooldownPasses
  <2>1. /\ gvDay' = [gvDay EXCEPT !.cooling = FALSE] /\ gvLate' = [gvLate EXCEPT !.cooling = 0]
        /\ UNCHANGED <<gvStage, gvMetrics, gvHour, gvTrade>>
    BY <1>13 DEF CooldownPasses
  <2>2. gvDay' \in [trades : Nat, losses : Int, cooling : BOOLEAN] /\ ~gvDay'.cooling
    BY <1>2, <2>1 DEF GovernanceShape
  <2>3. gvLate' \in [hour : Int, cooling : Int] /\ gvLate'.hour = gvLate.hour
    BY <1>2, <2>1 DEF GovernanceShape
  <2> QED BY <1>2, <1>3, <2>1, <2>2, <2>3 DEF GovernanceInv, GovernanceShape
<1>14. CASE UNCHANGED gvVars
  BY <1>2, <1>3, <1>14 DEF gvVars, GovernanceInv, GovernanceShape
<1> QED BY <1>4, <1>5, <1>6, <1>7, <1>8, <1>9, <1>10, <1>11, <1>12, <1>13, <1>14, <1>15 DEF GvNext

(* "global risk limits": with any limits, trades and orders of their steps,  *)
(* while the hour is full no trade is opened but those gated before it was,  *)
(* and while a micro account cools down none but those gated before that.   *)
(* Closes that overlap may be missed in the metrics of the rollout, but none *)
(* is counted twice.                                                         *)
THEOREM LimitsOfTheHourAreKept == GvSpec => [](HourKept /\ CoolingKept /\ MeasuredOnce)
<1>1. GvInit => GovernanceInv BY GovernanceInit
<1>2. GovernanceInv /\ [GvNext]_gvVars => GovernanceInv' BY GovernanceNext
<1>3. GovernanceInv => HourKept /\ CoolingKept /\ MeasuredOnce
  <2> SUFFICES ASSUME GovernanceInv PROVE HourKept /\ CoolingKept /\ MeasuredOnce
    OBVIOUS
  <2>1. HourLimit \in Nat /\ Gated \in Nat /\ gvLate \in [hour : Int, cooling : Int]
    BY GovernanceAssumption, CountsOfTrades DEF GovernanceInv, GovernanceShape
  <2>2. HourKept BY <2>1 DEF HourKept, GovernanceInv
  <2>3. CoolingKept BY <2>1 DEF CoolingKept, GovernanceInv
  <2>4. MeasuredOnce BY DEF MeasuredOnce, GovernanceInv, DoneOnes
  <2> QED BY <2>2, <2>3, <2>4
<1> QED BY <1>1, <1>2, <1>3, PTL DEF GvSpec

(* A trade becomes measured in one way. *)
LEMMA MeasuredByWriting ==
    ASSUME GovernanceInv, GvNext, NEW d \in Trades, gvTrade[d].at = "measuring", gvTrade'[d].at = "measured"
    PROVE  WriteStage(d)
<1>1. gvTrade \in [Trades -> Traded] BY DEF GovernanceInv, GovernanceShape
<1>2. \A e \in Trades, at \in Place : Take(e, at) =>
        gvTrade'[d].at = IF d = e THEN at ELSE gvTrade[d].at
  BY <1>1 DEF Take, Traded
<1>3. ASSUME NEW e \in Trades, Gate(e) PROVE FALSE
  <2>1. PICK at \in {"gated", "rejected"} : Take(e, at) BY <1>3 DEF Gate
  <2> QED BY <1>2, <1>3, <2>1 DEF Place
<1>4. ASSUME NEW e \in Trades, PlaceOrderOf(e) PROVE FALSE
  <2>1. PICK at \in {"bought", "rejected"} : Take(e, at) BY <1>4 DEF PlaceOrderOf
  <2> QED BY <1>2, <2>1 DEF Place
<1>5. ASSUME NEW e \in Trades, NEW units \in Executions[e], BookTrade(e, units) PROVE FALSE
  <2>1. gvTrade[e].at = "bought" BY <1>5 DEF BookTrade
  <2>2. CASE gvTrade' = [gvTrade EXCEPT ![e] = [@ EXCEPT !.at = "open", !.left = units]] BY <1>1, <2>1, <2>2
  <2>3. CASE Take(e, "stray") BY <1>2, <2>3 DEF Place
  <2> QED BY <1>5, <2>2, <2>3 DEF BookTrade
<1>6. ASSUME NEW e \in Trades, NEW deep \in BOOLEAN, ClosePart(e, deep) \/ CloseRest(e, deep) PROVE FALSE
  <2>1. gvTrade[e].at = "open" BY <1>6 DEF ClosePart, CloseRest
  <2> QED BY <1>1, <1>6, <2>1 DEF ClosePart, CloseRest
<1>7. ASSUME NEW e \in Trades, RecordOutcome(e) \/ OutcomeLost(e) PROVE FALSE
  <2>1. gvTrade' = [gvTrade EXCEPT ![e] = [Requested EXCEPT !.at = "closed"]]
    BY <1>7 DEF RecordOutcome, OutcomeLost
  <2>2. [Requested EXCEPT !.at = "closed"].at = "closed" BY DEF Requested
  <2> QED BY <1>1, <2>1, <2>2
<1>8. ASSUME NEW e \in Trades, NEW won \in BOOLEAN, Measure(e, won) PROVE FALSE
  BY <1>1, <1>8 DEF Measure
<1>10. ASSUME NEW e \in Trades, WriteStage(e) PROVE d = e
  BY <1>1, <1>10 DEF WriteStage
<1>9. ~(NextHour \/ NextDay \/ StatusExpires \/ ExposureExpires \/ CooldownPasses \/ SetProfile)
  BY DEF NextHour, NextDay, StatusExpires, ExposureExpires, CooldownPasses, SetProfile
<1> QED BY <1>3, <1>4, <1>5, <1>6, <1>7, <1>8, <1>9, <1>10 DEF GvNext

(* RolloutManager.record_performance: a close in deep drawdown raises the   *)
(* stage from the lowest alone, a good record doing no more than make up for *)
(* the step down, or else it had read a higher stage than the one it writes  *)
(* over: then the step down of another close is lost.                        *)
THEOREM DeepDrawdownRaisesNothing == GvSpec => StageKept
<1>1. GvInit => GovernanceInv BY GovernanceInit
<1>2. GovernanceInv /\ [GvNext]_gvVars => GovernanceInv' BY GovernanceNext
<1>3. GovernanceInv /\ [GvNext]_gvVars
        => [\A d \in Trades : gvTrade[d].at = "measuring" /\ gvTrade'[d].at = "measured" /\ gvTrade[d].deep /\ Stage' > Stage
             => Stage = 0 \/ gvTrade[d].seen > Stage]_gvVars
  <2> SUFFICES ASSUME GovernanceInv, GvNext, NEW d \in Trades, gvTrade[d].at = "measuring", gvTrade'[d].at = "measured",
                      gvTrade[d].deep, Stage' > Stage, Stage # 0
               PROVE  gvTrade[d].seen > Stage
    OBVIOUS
  <2>1. WriteStage(d) BY MeasuredByWriting
  <2>2. Stage \in 0..3 BY StageIsOneOfFour
  <2>3. gvTrade[d].seen \in 0..3 BY DEF GovernanceInv, GovernanceShape, Traded
  <2>4. PICK m : gvStage' = NextStage(gvTrade[d].seen, m, TRUE) BY <2>1 DEF WriteStage
  <2>5. gvStage' \in 0..3 /\ (gvStage' <= gvTrade[d].seen \/ (gvTrade[d].seen = 0 /\ gvStage' <= 1))
    <3>1. PICK n \in 0..3 : n = gvTrade[d].seen BY <2>3
    <3>2. gvStage' = NextStage(n, m, TRUE) BY <2>4, <3>1
    <3>3. CASE n = 0
      <4>1. gvStage' = 0 + 1 \/ gvStage' = 0 BY <3>2, <3>3 DEF NextStage
      <4>2. gvTrade[d].seen = 0 BY <3>1, <3>3
      <4> QED BY <4>1, <4>2
    <3>4. CASE n > 0
      <4>1. gvStage' = n - 1 + 1 \/ gvStage' = n - 1 BY <3>2, <3>4 DEF NextStage
      <4> QED BY <3>1, <3>4, <4>1
    <3> QED BY <3>3, <3>4
  <2>6. Stage' = gvStage' BY <2>5 DEF Stage, Unset
  <2> QED BY <2>2, <2>3, <2>5, <2>6
<1> QED BY <1>1, <1>2, <1>3, PTL DEF GvSpec, StageKept

-----------------------------------------------------------------------------
(* The types of the parts: the jobs of BacktestJobs.                        *)

(* Counts of a job: a restart adds at most the replays of one run. *)
CountedBefore == bjCrashes * NumProfiles
CountsTo(content, most) == content.found <= most /\ content.profiles <= NumProfiles

(* The types of one job and its task, and what it has counted.              *)
BoundsOf(j) ==
    /\ CountsTo(bjFile[j], CountedBefore + NumProfiles)
    /\ bjProcess.at # "up" \/ bjTask[j].at = "created" => CountsTo(bjFile[j], CountedBefore)
    /\ CountsTo(bjTask[j].payload, CountedBefore + bjTask[j].nth)
    /\ bjTask[j].nth <= NumProfiles /\ bjTask[j].chunk <= NumChunks + 1
    /\ bjTask[j].at \in {"chunks", "fetching"} => bjTask[j].chunk >= 1
    /\ bjTask[j].at = "fetching" => bjTask[j].chunk <= NumChunks

JobBounds ==
    /\ bjLoop \in Jobs \cup {NoOne} /\ bjChunks \subseteq 1..NumChunks /\ bjCrashes \in 0..MaxCrashes
    /\ \A j \in Jobs : BoundsOf(j)

(* A count is a number, and a crash adds a run's worth to what it may be. *)
LEMMA CountedUp ==
    ASSUME bjCrashes \in Nat
    PROVE  CountedBefore \in Nat /\ NumProfiles \in Nat \ {0} /\ (bjCrashes + 1) * NumProfiles = CountedBefore + NumProfiles
<1>1. NumProfiles \in Nat \ {0} BY BacktestAssumption
<1> DEFINE c == bjCrashes
           n == NumProfiles
<1>2. c \in Nat /\ n \in Nat BY <1>1
<1> HIDE DEF c, n
<1>3. c * n \in Nat /\ (c + 1) * n = c * n + n BY ONLY <1>2
<1>4. CountedBefore = c * n BY DEF CountedBefore, c, n
<1> QED BY <1>1, <1>3, <1>4 DEF c, n

(* What the bounds and the invariant say of one job. *)
LEMMA JobBoundFacts ==
    ASSUME BacktestInv, JobBounds, NEW j \in Jobs
    PROVE  /\ BoundsOf(j) /\ CountedBefore \in Nat /\ NumProfiles \in Nat \ {0} /\ NumChunks \in Nat /\ bjCrashes \in Nat
           /\ bjFile[j].found \in Nat /\ bjFile[j].profiles \in Nat
           /\ bjTask[j].payload.found \in Nat /\ bjTask[j].payload.profiles \in Nat
           /\ bjTask[j].nth \in Nat /\ bjTask[j].chunk \in Nat
           /\ CountsTo(Missing, CountedBefore) /\ CountsTo(Torn, CountedBefore)
<1>1. bjCrashes \in Nat /\ BoundsOf(j) BY BacktestAssumption DEF JobBounds
<1>2. CountedBefore \in Nat /\ NumProfiles \in Nat \ {0} /\ NumChunks \in Nat BY <1>1, CountedUp, BacktestAssumption
<1>3. Missing.found = 0 /\ Missing.profiles = 0 /\ Torn.found = 0 /\ Torn.profiles = 0 BY DEF Missing, Torn
<1>4. bjFile[j].found \in Nat /\ bjFile[j].profiles \in Nat
  <2>1. bjFile[j] \in Contents \cup {Missing, Torn} BY JobFacts
  <2> QED BY <1>3, <2>1 DEF Contents
<1>5. bjTask[j].nth \in Nat /\ bjTask[j].chunk \in Nat /\ bjTask[j].payload \in Contents \cup {Missing}
  <2>1. bjTask[j] \in Tasks BY JobFacts
  <2> QED BY <2>1 DEF Tasks
<1>6. bjTask[j].payload.found \in Nat /\ bjTask[j].payload.profiles \in Nat BY <1>3, <1>5 DEF Contents
<1>7. CountsTo(Missing, CountedBefore) /\ CountsTo(Torn, CountedBefore)
  <2>1. 0 <= CountedBefore /\ 0 <= NumProfiles BY <1>2
  <2> QED BY <1>3, <2>1 DEF CountsTo
<1> QED BY <1>1, <1>2, <1>4, <1>5, <1>6, <1>7

(* A step of one job leaves the bounds of the others. *)
LEMMA OneBound ==
    ASSUME BacktestInv, JobBounds, NEW j \in Jobs, BoundsOf(j)',
           \A k \in Jobs : k # j => bjFile'[k] \in {bjFile[k], Missing} /\ bjTask'[k] = bjTask[k],
           UNCHANGED bjCrashes, bjProcess'.at = bjProcess.at, bjLoop' \in {bjLoop, j, NoOne}, bjChunks' \subseteq 1..NumChunks
    PROVE  JobBounds'
<1>1. bjLoop' \in Jobs \cup {NoOne} /\ bjCrashes' \in 0..MaxCrashes /\ bjChunks' \subseteq 1..NumChunks BY DEF JobBounds
<1>2. CountedBefore' = CountedBefore BY DEF CountedBefore
<1>3. ASSUME NEW k \in Jobs, k # j PROVE BoundsOf(k)'
  <2>1. BoundsOf(k) /\ CountsTo(Missing, CountedBefore) /\ CountedBefore \in Nat /\ NumProfiles \in Nat BY JobBoundFacts
  <2>2. CountsTo(Missing, CountedBefore + NumProfiles)
    <3>1. Missing.found \in Nat BY DEF Missing
    <3> QED BY <2>1, <3>1 DEF CountsTo
  <2>3. CountsTo(bjFile'[k], CountedBefore + NumProfiles) BY <1>3, <2>1, <2>2 DEF BoundsOf
  <2>4. bjProcess.at # "up" \/ bjTask[k].at = "created" => CountsTo(bjFile'[k], CountedBefore) BY <1>3, <2>1 DEF BoundsOf
  <2>5. bjTask'[k] = bjTask[k] BY <1>3
  <2> QED BY <1>2, <2>1, <2>3, <2>4, <2>5 DEF BoundsOf, CountsTo
<1> QED BY <1>1, <1>3 DEF JobBounds

(* The same for a step that writes the file of the job or no file. *)
LEMMA OneTask ==
    ASSUME BacktestInv, JobBounds, NEW j \in Jobs, NEW content \in Contents, NEW task \in Tasks,
           Persist(j, content) \/ UNCHANGED <<bjFile, bjRecent>>, bjTask' = [bjTask EXCEPT ![j] = task],
           UNCHANGED bjCrashes, bjProcess'.at = bjProcess.at, bjLoop' \in {bjLoop, j, NoOne}, bjChunks' \subseteq 1..NumChunks,
           CountsTo(content, CountedBefore + NumProfiles),
           bjProcess.at # "up" \/ task.at = "created" => CountsTo(IF Persist(j, content) THEN content ELSE bjFile[j], CountedBefore),
           CountsTo(task.payload, CountedBefore + task.nth), task.nth <= NumProfiles, task.chunk <= NumChunks + 1,
           task.at \in {"chunks", "fetching"} => task.chunk >= 1, task.at = "fetching" => task.chunk <= NumChunks
    PROVE  JobBounds'
<1>1. content # Missing /\ ListInv /\ BoundsOf(j) BY JobFacts, JobBoundFacts
<1>2. bjTask'[j] = task /\ \A k \in Jobs : k # j => bjTask'[k] = bjTask[k] BY JobFacts
<1>3. \A k \in Jobs : k # j => bjFile'[k] \in {bjFile[k], Missing} BY <1>1, Persisted
<1>4. bjFile'[j] = IF Persist(j, content) THEN content ELSE bjFile[j] BY <1>1, Persisted
<1>5. CountsTo(bjFile'[j], CountedBefore + NumProfiles) BY <1>1, <1>4 DEF BoundsOf
<1>6. CountedBefore' = CountedBefore BY DEF CountedBefore
<1>7. BoundsOf(j)' BY <1>2, <1>4, <1>5, <1>6 DEF BoundsOf, CountsTo
<1> QED BY <1>2, <1>3, <1>7, OneBound

(* Steps of a task. *)
LEMMA StepBounds ==
    ASSUME BacktestInv, JobBounds, NEW j \in Jobs, StepJob(j)
    PROVE  JobBounds'
<1> DEFINE now == bjTask[j]
           file == bjFile[j]
           most == CountedBefore
<1>1. now \in Tasks /\ bjTask \in [Jobs -> Tasks] /\ TaskAndFile(j) /\ HasTask(j) /\ file \in Contents \cup {Missing, Torn}
  BY JobFacts
<1>2. /\ BoundsOf(j) /\ most \in Nat /\ NumProfiles \in Nat \ {0} /\ NumChunks \in Nat
      /\ file.found \in Nat /\ file.profiles \in Nat /\ now.payload.found \in Nat /\ now.payload.profiles \in Nat
      /\ now.nth \in Nat /\ now.chunk \in Nat /\ CountsTo(Missing, most)
  BY JobBoundFacts
<1>3. /\ now.payload.found <= most + now.nth /\ now.payload.profiles <= NumProfiles /\ now.nth <= NumProfiles
      /\ now.chunk <= NumChunks + 1 /\ file.found <= most + NumProfiles /\ file.profiles <= NumProfiles
      /\ now.at \in {"chunks", "fetching"} => now.chunk >= 1
      /\ now.at = "fetching" => now.chunk <= NumChunks
      /\ bjChunks \subseteq 1..NumChunks
  BY <1>2 DEF BoundsOf, CountsTo, JobBounds
<1>4. bjLoop = j => bjProcess.at = "up" BY JobFacts DEF BacktestInv, BacktestShape
<1>5. now.at \in AtWork => now.payload \in Contents BY <1>1 DEF TaskAndFile
<1>6. Queued \in Contents /\ CountsTo(Queued, most + NumProfiles)
  <2>1. Queued \in Contents /\ Queued.found = 0 /\ Queued.profiles = 0 BY DEF Queued, Contents
  <2> QED BY <1>2, <2>1 DEF CountsTo
<1>7. now.payload.found <= most + NumProfiles BY <1>2, <1>3
<1>8. UNCHANGED <<bjProcess, bjCrashes>>
  BY DEF StepJob, BeginRun, NextChunk, ChunkFetched, RunFails, ReplayProfile, CompleteRun, bjRest
<1> DEFINE Turns(task, content) ==
             /\ bjTask' = [bjTask EXCEPT ![j] = task] /\ (Persist(j, content) \/ UNCHANGED <<bjFile, bjRecent>>)
             /\ bjLoop' \in {bjLoop, j, NoOne} /\ bjChunks' \subseteq 1..NumChunks
<1>9. ASSUME NEW task \in Tasks, NEW content \in Contents, Turns(task, content), task.at # "created", bjProcess.at = "up",
             content.found <= most + NumProfiles, content.profiles <= NumProfiles,
             task.payload.found <= most + task.nth, task.payload.profiles <= NumProfiles,
             task.nth <= NumProfiles, task.chunk <= NumChunks + 1,
             task.at \in {"chunks", "fetching"} => task.chunk >= 1, task.at = "fetching" => task.chunk <= NumChunks
      PROVE  JobBounds'
  <2>1. CountsTo(content, CountedBefore + NumProfiles) /\ CountsTo(task.payload, CountedBefore + task.nth) BY <1>9 DEF CountsTo
  <2>2. bjProcess'.at = bjProcess.at /\ UNCHANGED bjCrashes BY <1>8
  <2>3. ~(bjProcess.at # "up" \/ task.at = "created") BY <1>9
  <2> HIDE DEF now, file, most
  <2> QED BY <1>9, <2>1, <2>2, <2>3, OneTask
<1>10. NoTask \in Tasks /\ NoTask.at = "none" /\ NoTask.payload = Missing /\ NoTask.nth = 0 /\ NoTask.chunk = 0
       /\ NoTask.payload.found = 0 /\ NoTask.payload.profiles = 0
  BY DEF NoTask, Tasks, Missing
<1>11. 0 <= most + 0 /\ 0 <= NumProfiles /\ 0 <= NumChunks + 1 BY <1>2
<1> HIDE DEF most
<1>12. CASE BeginRun(j)
  <2>1. bjProcess.at = "up" /\ bjLoop = NoOne /\ now.at = "created" /\ UNCHANGED bjChunks BY <1>12 DEF BeginRun, Free
  <2>2. CASE file = Missing
    <3> DEFINE task == [now EXCEPT !.at = "ended"]
    <3>1. task \in Tasks /\ task.at = "ended" /\ task.nth = now.nth /\ task.chunk = now.chunk /\ task.payload = now.payload
      BY <1>1 DEF Tasks
    <3>2. Turns(task, Queued) BY <1>3, <1>12, <2>1, <2>2 DEF BeginRun
    <3> HIDE DEF task, Turns
    <3> QED BY <1>3, <1>6, <1>9, <2>1, <3>1, <3>2 DEF CountsTo
  <2>3. CASE file # Missing
    <3> DEFINE running == [file EXCEPT !.status = "RUNNING"]
               task == [at |-> "chunks", chunk |-> 1, nth |-> 0, payload |-> running]
    <3>1. file \in Contents BY <1>1, <2>1, <2>3 DEF TaskAndFile, Torn
    <3>2. running \in Contents /\ running.found = file.found /\ running.profiles = file.profiles BY <3>1 DEF Contents
    <3>3. Turns(task, running) BY <1>3, <1>12, <2>1, <2>3 DEF BeginRun
    <3> HIDE DEF running
    <3>4. task \in Tasks /\ task.at = "chunks" /\ task.nth = 0 /\ task.chunk = 1 /\ task.payload = running
      BY <3>2 DEF Tasks, AtWork
    <3> HIDE DEF task, Turns
    <3>5. file.found <= most BY <1>2, <2>1 DEF BoundsOf, CountsTo, most
    <3>6. running.found <= most + 0 /\ running.found <= most + NumProfiles /\ 1 <= NumChunks + 1 /\ 1 >= 1
      BY <1>2, <1>3, <3>2, <3>5
    <3> QED BY <1>3, <1>9, <1>11, <2>1, <3>2, <3>3, <3>4, <3>6
  <2> QED BY <2>2, <2>3
<1>13. CASE NextChunk(j)
  <2>1. bjLoop = j /\ now.at = "chunks" /\ now.at \in AtWork /\ UNCHANGED bjChunks BY <1>13 DEF NextChunk, AtWork
  <2>2. ASSUME NEW task, task \in {[now EXCEPT !.at = "replay"], [now EXCEPT !.chunk = @ + 1], [now EXCEPT !.at = "fetching"]},
               Turns(task, now.payload), task.chunk <= NumChunks + 1, task.at = "fetching" => task.chunk <= NumChunks
        PROVE  JobBounds'
    <3>1. now.chunk + 1 \in Nat /\ now.chunk + 1 >= 1 /\ now.chunk >= 1 BY <1>2, <1>3, <2>1
    <3>2. task \in Tasks /\ task.at \in AtWork /\ task.nth = now.nth /\ task.payload = now.payload /\ task.chunk \in {now.chunk, now.chunk + 1}
      BY <1>1, <2>1, <2>2, <3>1 DEF Tasks, AtWork
    <3>3. task.at # "created" /\ task.chunk >= 1 BY <3>1, <3>2 DEF AtWork
    <3> HIDE DEF Turns
    <3> QED BY <1>3, <1>4, <1>5, <1>7, <1>9, <2>1, <2>2, <3>2, <3>3
  <2>3. CASE now.chunk > NumChunks
    <3> DEFINE task == [now EXCEPT !.at = "replay"]
    <3>1. Turns(task, now.payload) BY <1>3, <1>13, <2>1, <2>3 DEF NextChunk
    <3>2. task.at = "replay" /\ task.chunk = now.chunk BY <1>1 DEF Tasks
    <3> QED BY <1>3, <2>2, <3>1, <3>2
  <2>4. CASE ~(now.chunk > NumChunks) /\ now.chunk \in bjChunks
    <3> DEFINE task == [now EXCEPT !.chunk = @ + 1]
    <3>1. Turns(task, now.payload) BY <1>3, <1>13, <2>1, <2>4 DEF NextChunk
    <3>2. task.at = "chunks" /\ task.chunk = now.chunk + 1 BY <1>1, <2>1 DEF Tasks
    <3>3. task.chunk <= NumChunks + 1 BY <1>2, <2>4, <3>2
    <3> QED BY <2>2, <3>1, <3>2, <3>3
  <2>5. CASE ~(now.chunk > NumChunks) /\ now.chunk \notin bjChunks
    <3> DEFINE task == [now EXCEPT !.at = "fetching"]
    <3>1. Turns(task, now.payload) BY <1>3, <1>13, <2>1, <2>5 DEF NextChunk
    <3>2. task.chunk = now.chunk BY <1>1 DEF Tasks
    <3>3. now.chunk <= NumChunks BY <1>2, <2>5
    <3> QED BY <1>3, <2>2, <3>1, <3>2, <3>3
  <2> QED BY <2>3, <2>4, <2>5
<1>14. CASE ChunkFetched(j)
  <2> DEFINE task == [now EXCEPT !.at = "chunks", !.chunk = @ + 1]
  <2>1. now.at = "fetching" /\ now.at \in AtWork /\ bjProcess.at = "up" BY <1>14 DEF ChunkFetched, Free, AtWork
  <2>2. now.chunk + 1 \in Nat /\ now.chunk + 1 <= NumChunks + 1 /\ now.chunk + 1 >= 1 /\ now.chunk \in 1..NumChunks BY <1>2, <1>3, <2>1
  <2>3. task \in Tasks /\ task.at = "chunks" /\ task.nth = now.nth /\ task.payload = now.payload /\ task.chunk = now.chunk + 1
    BY <1>1, <2>2 DEF Tasks, AtWork
  <2>4. bjTask' = [bjTask EXCEPT ![j] = task] BY <1>1, <1>14 DEF ChunkFetched, Tasks
  <2>5. Turns(task, now.payload) BY <1>3, <1>14, <2>2, <2>4 DEF ChunkFetched
  <2> HIDE DEF task, Turns
  <2> QED BY <1>3, <1>5, <1>7, <1>9, <2>1, <2>2, <2>3, <2>5
<1>15. CASE RunFails(j)
  <2> DEFINE base == IF file = Missing THEN now.payload ELSE file
             content == [base EXCEPT !.status = "FAILED"]
  <2>1. now.at \in AtWork /\ bjProcess.at = "up" BY <1>1, <1>4, <1>15 DEF RunFails, Free, AtWork, HasTask
  <2>2. base \in Contents BY <1>1, <1>5, <2>1, JobFacts DEF TaskAndFile
  <2>3. base.found <= most + NumProfiles /\ base.profiles <= NumProfiles BY <1>3, <1>7
  <2>4. Turns(NoTask, content) BY <1>3, <1>15 DEF RunFails
  <2> HIDE DEF base
  <2>5. content \in Contents /\ content.found = base.found /\ content.profiles = base.profiles BY <2>2 DEF Contents
  <2> HIDE DEF content, Turns
  <2> QED BY <1>9, <1>10, <1>11, <2>1, <2>3, <2>4, <2>5
<1>16. CASE ReplayProfile(j)
  <2> DEFINE payload == [now.payload EXCEPT !.found = @ + 1, !.profiles = now.nth + 1]
             task == [now EXCEPT !.payload = payload, !.nth = @ + 1]
  <2>1. bjLoop = j /\ now.at = "replay" /\ now.at \in AtWork /\ now.nth < NumProfiles BY <1>16 DEF ReplayProfile, AtWork
  <2>2. now.payload.found + 1 \in Nat /\ now.nth + 1 \in Nat /\ now.nth + 1 <= NumProfiles
        /\ now.payload.found + 1 <= most + (now.nth + 1) /\ now.payload.found + 1 <= most + NumProfiles
    BY <1>2, <1>3, <2>1
  <2>3. payload \in Contents /\ payload.found = now.payload.found + 1 /\ payload.profiles = now.nth + 1
    BY <1>5, <2>1, <2>2 DEF Contents
  <2>4. bjTask' = [bjTask EXCEPT ![j] = task] /\ Persist(j, payload) BY <1>1, <1>16 DEF ReplayProfile, Tasks
  <2>5. Turns(task, payload) BY <1>3, <1>16, <2>4 DEF ReplayProfile
  <2> HIDE DEF payload
  <2>6. task \in Tasks /\ task.at = "replay" /\ task.nth = now.nth + 1 /\ task.chunk = now.chunk /\ task.payload = payload
    BY <1>1, <2>1, <2>2, <2>3 DEF Tasks
  <2> HIDE DEF task, Turns
  <2> QED BY <1>3, <1>4, <1>9, <2>1, <2>2, <2>3, <2>5, <2>6
<1>17. CASE CompleteRun(j)
  <2> DEFINE found == IF j \in Compare THEN now.payload.found ELSE 1
             content == [now.payload EXCEPT !.status = "COMPLETED", !.found = found]
  <2>1. bjLoop = j /\ now.at = "replay" /\ now.at \in AtWork BY <1>17 DEF CompleteRun, AtWork
  <2>2. found \in Nat /\ found <= most + NumProfiles BY <1>2, <1>7
  <2>3. Turns(NoTask, content) BY <1>3, <1>17 DEF CompleteRun
  <2> HIDE DEF found
  <2>4. content \in Contents /\ content.found = found /\ content.profiles = now.payload.profiles BY <1>5, <2>1, <2>2 DEF Contents
  <2> HIDE DEF content, Turns
  <2> QED BY <1>3, <1>4, <1>9, <1>10, <1>11, <2>1, <2>2, <2>3, <2>4
<1> QED BY <1>12, <1>13, <1>14, <1>15, <1>16, <1>17 DEF StepJob

(* The process dies: what was counted may be counted again. *)
LEMMA DeathBounds ==
    ASSUME BacktestInv, BacktestInv', JobBounds, ProcessDies
    PROVE  JobBounds'
<1>1. /\ bjTask' = [j \in Jobs |-> NoTask] /\ bjLoop' = NoOne /\ bjProcess'.at = "down" /\ bjCrashes' = bjCrashes + 1
      /\ bjCrashes < MaxCrashes /\ UNCHANGED bjChunks
      /\ \A j \in Jobs : bjFile'[j] \in {bjFile[j], Torn}
  <2>1. bjFile \in [Jobs -> Contents \cup {Missing, Torn}] BY DEF BacktestInv, BacktestShape
  <2> QED BY <2>1 DEF ProcessDies
<1>2. bjCrashes \in Nat /\ MaxCrashes \in Nat /\ bjCrashes' \in 0..MaxCrashes BY <1>1, BacktestAssumption DEF JobBounds
<1>3. CountedBefore' = CountedBefore + NumProfiles /\ CountedBefore \in Nat /\ NumProfiles \in Nat \ {0} /\ CountedBefore' \in Nat
  BY <1>1, <1>2, CountedUp DEF CountedBefore
<1>4. NumChunks \in Nat /\ NoTask.at = "none" /\ NoTask.payload.found = 0 /\ NoTask.payload.profiles = 0 /\ NoTask.nth = 0 /\ NoTask.chunk = 0
  BY BacktestAssumption DEF NoTask, Missing
<1>5. ASSUME NEW j \in Jobs PROVE BoundsOf(j)'
  <2>1. BoundsOf(j) /\ CountsTo(Torn, CountedBefore) /\ bjFile[j].found \in Nat /\ Torn.found \in Nat
    BY JobBoundFacts DEF Torn
  <2>2. bjFile'[j] \in {bjFile[j], Torn} /\ bjTask'[j] = NoTask BY <1>1
  <2>3. bjFile'[j].found <= CountedBefore' /\ bjFile'[j].profiles <= NumProfiles /\ bjFile'[j].found \in Nat
    BY <1>3, <2>1, <2>2 DEF BoundsOf, CountsTo
  <2>4. bjFile'[j].found <= CountedBefore' + NumProfiles BY <1>3, <2>3
  <2>5. 0 <= CountedBefore' + 0 /\ 0 <= NumProfiles /\ 0 <= NumChunks + 1 BY <1>3, <1>4
  <2> QED BY <1>4, <2>2, <2>3, <2>4, <2>5 DEF BoundsOf, CountsTo
<1> QED BY <1>1, <1>2, <1>5 DEF JobBounds

(* Every step keeps the bounds. *)
LEMMA BoundsNext == BacktestInv /\ BacktestInv' /\ JobBounds /\ [BjNext]_bjVars => JobBounds'
<1> SUFFICES ASSUME BacktestInv, BacktestInv', JobBounds, [BjNext]_bjVars PROVE JobBounds'
  OBVIOUS
<1>1. CASE UNCHANGED bjVars BY <1>1 DEF JobBounds, BoundsOf, CountedBefore, CountsTo, bjVars
<1>2. ASSUME NEW j \in Jobs, EnqueueJob(j) PROVE JobBounds'
  <2> DEFINE task == [NoTask EXCEPT !.at = "created"]
  <2>1. task \in Tasks /\ task.payload.found = 0 /\ task.payload.profiles = 0 /\ task.nth = 0 /\ task.chunk = 0 /\ task.at = "created"
    BY DEF NoTask, Tasks, Missing
  <2>2. Queued \in Contents /\ Queued.found = 0 /\ Queued.profiles = 0 BY DEF Queued, Contents
  <2>3. /\ bjTask' = [bjTask EXCEPT ![j] = task] /\ Persist(j, Queued) /\ UNCHANGED <<bjLoop, bjChunks, bjCrashes>>
        /\ bjProcess'.at = bjProcess.at
    BY <1>2 DEF EnqueueJob
  <2> HIDE DEF task
  <2>4. 0 <= CountedBefore /\ 0 <= CountedBefore + NumProfiles /\ 0 <= CountedBefore + 0 /\ 0 <= NumProfiles /\ 0 <= NumChunks + 1
    BY JobBoundFacts
  <2>5. CountsTo(Queued, CountedBefore) /\ CountsTo(Queued, CountedBefore + NumProfiles) /\ CountsTo(task.payload, CountedBefore + task.nth)
        /\ task.nth <= NumProfiles /\ task.chunk <= NumChunks + 1
    BY <2>1, <2>2, <2>4 DEF CountsTo
  <2>6. bjChunks' \subseteq 1..NumChunks /\ bjLoop' \in {bjLoop, j, NoOne} BY <2>3 DEF JobBounds
  <2> QED BY <2>1, <2>2, <2>3, <2>5, <2>6, OneTask
<1>3. ASSUME NEW j \in Jobs, LookAt(j) PROVE JobBounds'
  <2>1. /\ bjProcess.at = "starting" /\ j \in bjProcess.todo /\ UNCHANGED <<bjLoop, bjChunks, bjCrashes>> BY <1>3 DEF LookAt
  <2>2. bjLoop' \in {bjLoop, j, NoOne} /\ bjChunks' \subseteq 1..NumChunks BY <2>1 DEF JobBounds
  <2>3. CASE bjFile[j] = Torn
    <3>1. bjProcess' = [at |-> "up", todo |-> {}] /\ UNCHANGED <<bjFile, bjTask>> BY <1>3, <2>3 DEF LookAt
    <3>2. ASSUME NEW k \in Jobs PROVE BoundsOf(k)' BY <2>1, <3>1, JobBoundFacts DEF BoundsOf, CountsTo, CountedBefore
    <3> QED BY <2>1, <3>1, <3>2 DEF JobBounds
  <2>4. CASE bjFile[j] # Torn
    <3>1. Resume(j) /\ bjProcess' = [bjProcess EXCEPT !.todo = @ \ {j}] BY <1>3, <2>4 DEF LookAt
    <3>2. bjProcess'.at = bjProcess.at BY <3>1 DEF BacktestInv, BacktestShape
    <3>3. CASE bjFile[j].status \notin Unfinished
      <4>1. UNCHANGED <<bjFile, bjTask>> BY <3>1, <3>3 DEF Resume
      <4>2. ASSUME NEW k \in Jobs PROVE BoundsOf(k)' BY <2>1, <3>2, <4>1, JobBoundFacts DEF BoundsOf, CountsTo, CountedBefore
      <4> QED BY <2>1, <4>1, <4>2 DEF JobBounds
    <3>4. CASE bjFile[j].status \in Unfinished
      <4> DEFINE content == [bjFile[j] EXCEPT !.status = "QUEUED"]
                 task == [bjTask[j] EXCEPT !.at = "created"]
      <4>1. bjFile[j] \in Contents BY <2>4, <3>4, JobFacts DEF Unfinished
      <4>2. content \in Contents /\ content.found = bjFile[j].found /\ content.profiles = bjFile[j].profiles BY <4>1 DEF Contents
      <4>3. task \in Tasks /\ task.at = "created" /\ task.payload = bjTask[j].payload /\ task.nth = bjTask[j].nth
            /\ task.chunk = bjTask[j].chunk
        BY JobFacts DEF Tasks
      <4>4. Persist(j, content) /\ bjTask' = [bjTask EXCEPT ![j] = task] BY <3>1, <3>4 DEF Resume
      <4>5. CountsTo(content, CountedBefore) /\ CountsTo(content, CountedBefore + NumProfiles)
        <5> HIDE DEF content
        <5> QED BY <2>1, <4>2, JobBoundFacts DEF BoundsOf, CountsTo
      <4> HIDE DEF content, task
      <4>6. CountsTo(task.payload, CountedBefore + task.nth) /\ task.nth <= NumProfiles /\ task.chunk <= NumChunks + 1
        BY <4>3, JobBoundFacts DEF BoundsOf
      <4> QED BY <2>1, <2>2, <3>2, <4>2, <4>3, <4>4, <4>5, <4>6, OneTask
    <3> QED BY <3>3, <3>4
  <2> QED BY <2>3, <2>4
<1>4. CASE StartProcess
  <2>1. /\ UNCHANGED <<bjTask, bjLoop, bjChunks, bjCrashes>> /\ bjProcess.at = "down" /\ bjProcess'.at = "starting"
        /\ \A j \in Jobs : bjFile'[j] \in {bjFile[j], Missing}
    BY <1>4 DEF StartProcess, bjRest
  <2>2. ASSUME NEW j \in Jobs PROVE BoundsOf(j)'
    <3>1. BoundsOf(j) /\ CountsTo(Missing, CountedBefore) /\ CountedBefore \in Nat /\ NumProfiles \in Nat /\ bjFile[j].found \in Nat
          /\ Missing.found \in Nat
      BY JobBoundFacts DEF Missing
    <3>2. bjFile'[j].found <= CountedBefore /\ bjFile'[j].profiles <= NumProfiles /\ bjFile'[j].found \in Nat
      BY <2>1, <3>1 DEF BoundsOf, CountsTo
    <3>3. bjFile'[j].found <= CountedBefore + NumProfiles BY <3>1, <3>2
    <3>4. CountedBefore' = CountedBefore BY <2>1 DEF CountedBefore
    <3> QED BY <2>1, <3>1, <3>2, <3>3, <3>4 DEF BoundsOf, CountsTo
  <2> QED BY <2>1, <2>2 DEF JobBounds
<1>5. CASE Started
  <2>1. UNCHANGED <<bjFile, bjTask, bjLoop, bjChunks, bjCrashes>> /\ bjProcess.at = "starting" BY <1>5 DEF Started, bjRest
  <2>2. ASSUME NEW j \in Jobs PROVE BoundsOf(j)' BY <2>1, JobBoundFacts DEF BoundsOf, CountsTo, CountedBefore
  <2> QED BY <2>1, <2>2 DEF JobBounds
<1> QED BY <1>1, <1>2, <1>3, <1>4, <1>5, StepBounds, DeathBounds DEF BjNext

(* The bounds hold before any job. *)
LEMMA BoundsInit == BjInit => JobBounds
<1> SUFFICES ASSUME BjInit PROVE JobBounds
  OBVIOUS
<1>1. /\ bjCrashes = 0 /\ bjLoop = NoOne /\ bjChunks = {}
      /\ \A j \in Jobs : bjFile[j] = Missing /\ bjTask[j] = NoTask
  BY DEF BjInit
<1>2. bjCrashes \in 0..MaxCrashes /\ NumChunks \in Nat BY <1>1, BacktestAssumption
<1>3. CountedBefore \in Nat /\ NumProfiles \in Nat BY <1>1, CountedUp
<1>4. Missing.found = 0 /\ Missing.profiles = 0 /\ NoTask.at = "none" /\ NoTask.payload.found = 0 /\ NoTask.payload.profiles = 0
      /\ NoTask.nth = 0 /\ NoTask.chunk = 0
  BY DEF Missing, NoTask
<1>5. 0 <= CountedBefore /\ 0 <= CountedBefore + NumProfiles /\ 0 <= CountedBefore + 0 /\ 0 <= NumProfiles /\ 0 <= NumChunks + 1
  BY <1>2, <1>3
<1>6. ASSUME NEW j \in Jobs PROVE BoundsOf(j) BY <1>1, <1>4, <1>5 DEF BoundsOf, CountsTo
<1> QED BY <1>1, <1>2, <1>6 DEF JobBounds

(* The bounds and the invariant are the types. *)
LEMMA JobsTyped == BacktestInv /\ JobBounds => BjTypeOK
<1> SUFFICES ASSUME BacktestInv, JobBounds PROVE BjTypeOK
  OBVIOUS
<1>1. ASSUME NEW j \in Jobs
      PROVE  /\ bjFile[j] \in Content \cup {Missing, Torn}
             /\ bjTask[j].payload \in Content \cup {Missing}
             /\ bjTask[j].chunk \in 0..(NumChunks + 1) /\ bjTask[j].nth \in 0..NumProfiles
             /\ bjTask[j].at \in {"none", "created", "chunks", "fetching", "replay", "ended"}
  <2> DEFINE most == (MaxCrashes + 1) * NumProfiles
  <2>1. CountedBefore + NumProfiles <= most /\ most \in Nat
    <3>1. bjCrashes \in Nat /\ MaxCrashes \in Nat /\ bjCrashes <= MaxCrashes /\ NumProfiles \in Nat
      BY BacktestAssumption DEF JobBounds
    <3>2. \A a, b, n \in Nat : a <= b => a * n + n <= (b + 1) * n /\ (b + 1) * n \in Nat
      <4>1. ASSUME NEW a \in Nat, NEW b \in Nat, NEW n \in Nat, a <= b PROVE a * n + n <= (b + 1) * n /\ (b + 1) * n \in Nat
        <5>1. PICK d \in Nat : b = a + d
          <6>1. b - a \in Nat /\ b = a + (b - a) BY <4>1
          <6> QED BY <6>1
        <5>2. (b + 1) * n = a * n + n + d * n /\ d * n \in Nat /\ a * n \in Nat BY ONLY <5>1, a \in Nat, n \in Nat
        <5> QED BY <5>2
      <4> QED BY <4>1
    <3> QED BY <3>1, <3>2 DEF CountedBefore
  <2> HIDE DEF most
  <2>2. /\ BoundsOf(j) /\ CountedBefore \in Nat /\ NumProfiles \in Nat /\ NumChunks \in Nat
        /\ bjFile[j].found \in Nat /\ bjFile[j].profiles \in Nat
        /\ bjTask[j].payload.found \in Nat /\ bjTask[j].payload.profiles \in Nat
        /\ bjTask[j].nth \in Nat /\ bjTask[j].chunk \in Nat
    BY JobBoundFacts
  <2>3. /\ bjFile[j].found \in 0..most /\ bjFile[j].profiles \in 0..NumProfiles
        /\ bjTask[j].payload.found \in 0..most /\ bjTask[j].payload.profiles \in 0..NumProfiles
        /\ bjTask[j].nth \in 0..NumProfiles /\ bjTask[j].chunk \in 0..(NumChunks + 1)
    BY <2>1, <2>2 DEF BoundsOf, CountsTo
  <2>4. \A c \in Contents : c.found \in 0..most /\ c.profiles \in 0..NumProfiles => c \in Content BY DEF Contents, Content, most
  <2>5. bjFile[j] \in Contents \cup {Missing, Torn} BY JobFacts
  <2>6. bjTask[j].payload \in Contents \cup {Missing} /\ bjTask[j].at \in {"none", "created", "chunks", "fetching", "replay", "ended"}
    <3>1. bjTask[j] \in Tasks BY JobFacts
    <3> QED BY <3>1 DEF Tasks, AtWork
  <2> QED BY <2>3, <2>4, <2>5, <2>6
<1>2. BacktestShape BY DEF BacktestInv
<1>3. bjFile \in [Jobs -> Content \cup {Missing, Torn}] BY <1>1, <1>2 DEF BacktestShape
<1>4. \A j \in Jobs : j \in ToSet(bjRecent) <=> bjFile[j] # Missing BY <1>2 DEF BacktestShape, ListInv
<1>5. bjProcess.at \in {"up", "down", "starting"} /\ bjProcess.todo \subseteq Jobs /\ bjAsked \subseteq Jobs /\ bjFailing \in BOOLEAN
      /\ bjRedone \in [Jobs -> BOOLEAN]
  BY <1>2 DEF BacktestShape
<1> QED BY <1>1, <1>3, <1>4, <1>5 DEF BjTypeOK, JobBounds

-----------------------------------------------------------------------------
(* The types of Releases.                                                   *)

(* A job under way has an image, and one that deploys a canary what it found. *)
Equipped(job) ==
    /\ job.at \notin Ended \cup {"new"} => job.target \in Digests
    /\ job.at = "canary" => job.current \in Digests

(* What is in the cluster, and every job, has images that exist.            *)
ReleaseTypes ==
    /\ \A i \in 1..Len(rlRevs) : rlRevs[i] \in Release
    /\ rlLive \in Release \cup {Nothing} /\ rlJudged \cup rlExcused \subseteq Digests
    /\ \A j \in Deploys : Equipped(rlJob[j])

(* A job goes on, which is not to deploy a canary. *)
LEMMA MovedIsEquipped ==
    ASSUME ReleaseShape, ReleaseTypes, NEW j \in Deploys, Active(j), NEW at \in At \ {"canary"}
    PROVE  Equipped(Moved(j, at))
<1>1. Moved(j, at).at = at /\ (at \notin Ended => Moved(j, at).target = rlJob[j].target) BY MovedIsAJob
<1>2. rlJob[j].target \in Digests BY DEF ReleaseTypes, Equipped, Active
<1> QED BY <1>1, <1>2 DEF Equipped

(* An operation with an image for everyone. *)
LEMMA HelmTypes ==
    ASSUME ReleaseShape, ReleaseTypes, NEW j \in Deploys, NEW content \in Release, NEW well, NEW failing,
           Equipped(well), Equipped(failing), Helm(j, content, well, failing), rlJudged' \cup rlExcused' \subseteq Digests
    PROVE  ReleaseTypes'
<1>1. rlJob \in [Deploys -> Job] /\ rlRevs \in Seq(Deployed) BY DEF ReleaseShape
<1>2. ASSUME rlRevs' = Append(rlRevs, content) PROVE \A i \in 1..Len(rlRevs') : rlRevs'[i] \in Release
  <2>1. Len(rlRevs') = Len(rlRevs) + 1 /\ Len(rlRevs) \in Nat BY <1>1, <1>2
  <2>2. \A i \in 1..Len(rlRevs) : rlRevs'[i] = rlRevs[i] BY <1>1, <1>2
  <2>3. rlRevs'[Len(rlRevs) + 1] = content BY <1>1, <1>2
  <2>4. \A i \in 1..(Len(rlRevs) + 1) : i \in 1..Len(rlRevs) \/ i = Len(rlRevs) + 1 BY <2>1
  <2> QED BY <2>1, <2>2, <2>3, <2>4 DEF ReleaseTypes
<1>3. ASSUME NEW job, Equipped(job), rlJob' = WithJob(j, job) \/ rlJob' = [rlJob EXCEPT ![j] = job]
      PROVE  \A k \in Deploys : Equipped(rlJob'[k])
  <2> SUFFICES ASSUME NEW k \in Deploys PROVE Equipped(rlJob'[k])
    OBVIOUS
  <2>1. Equipped(rlJob[k]) /\ rlJob[k] \in Job BY <1>1 DEF ReleaseTypes
  <2>2. Equipped([rlJob[k] EXCEPT !.disturbed = TRUE]) BY <2>1 DEF Equipped, Job
  <2>3. rlJob'[k] \in {job, rlJob[k], [rlJob[k] EXCEPT !.disturbed = TRUE]} BY <1>1, <1>3 DEF WithJob
  <2> QED BY <1>3, <2>1, <2>2, <2>3
<1>4. \A k \in Deploys : Equipped(rlJob'[k]) BY <1>3 DEF Helm
<1>5. rlLive' \in Release \cup {Nothing} BY DEF Helm, ReleaseTypes
<1>6. rlRevs' = Append(rlRevs, content) \/ rlRevs' = rlRevs BY DEF Helm
<1>7. \A i \in 1..Len(rlRevs') : rlRevs'[i] \in Release BY <1>2, <1>6 DEF ReleaseTypes
<1> QED BY <1>4, <1>5, <1>7 DEF ReleaseTypes

(* A step of one job that leaves the release alone. *)
LEMMA MoveTypes ==
    ASSUME ReleaseShape, ReleaseTypes, NEW j \in Deploys, NEW job, Equipped(job), rlJob' = [rlJob EXCEPT ![j] = job],
           UNCHANGED <<rlRevs, rlLive>>, rlJudged' \cup rlExcused' \subseteq Digests
    PROVE  ReleaseTypes'
<1>1. rlJob \in [Deploys -> Job] BY DEF ReleaseShape
<1>2. \A k \in Deploys : Equipped(rlJob'[k]) BY <1>1 DEF ReleaseTypes
<1> QED BY <1>2 DEF ReleaseTypes

(* Every step keeps the types. *)
LEMMA ReleaseTypesNext == ReleaseInv /\ ReleaseTypes /\ [RlNext]_rlVars => ReleaseTypes'
<1> SUFFICES ASSUME ReleaseInv, ReleaseTypes, [RlNext]_rlVars PROVE ReleaseTypes'
  OBVIOUS
<1>1. CASE UNCHANGED rlVars BY <1>1 DEF rlVars, ReleaseTypes
<1>2. ReleaseShape /\ rlJob \in [Deploys -> Job] /\ rlLive \in Release \cup {Nothing} /\ rlJudged \cup rlExcused \subseteq Digests
  BY DEF ReleaseInv, ReleaseShape, ReleaseTypes
<1>3. ASSUME NEW j \in Deploys, NEW at \in At \ {"canary"}, Active(j), Move(j, at), rlJudged' \subseteq Digests PROVE ReleaseTypes'
  <2>1. Equipped(Moved(j, at)) BY <1>2, <1>3, MovedIsEquipped
  <2> QED BY <1>2, <1>3, <2>1, MoveTypes DEF Move
<1>4. ASSUME NEW j \in Deploys, StepDeploy(j) PROVE Active(j)
  BY <1>4 DEF StepDeploy, Survey, FindImage, Bootstrap, RemoveCanary, DeployCanary, WatchCanary, Promote, GoBack, Smoke, MonitorRelease,
              Active, Ended
<1>5. \A at \in {"smoke", "watch", "undo", "undone", "failed", "promote", "monitor", "done", "killed"} : at \in At \ {"canary"}
  BY DEF At, Ended
<1>6. ASSUME NEW j \in Deploys, Bootstrap(j) \/ RemoveCanary(j) \/ DeployCanary(j) \/ Promote(j) PROVE ReleaseTypes'
  <2>1. Active(j) /\ rlJob[j].target \in Digests BY <1>4, <1>6 DEF StepDeploy, ReleaseTypes, Equipped, Active
  <2>2. Equipped(Moved(j, "smoke")) /\ Equipped(Moved(j, "watch")) /\ Equipped(Moved(j, "undo"))
    BY <1>2, <1>5, <2>1, MovedIsEquipped
  <2>3. [stable |-> rlJob[j].target, canary |-> NoImage] \in Release BY <2>1 DEF Release
  <2>4. rlJudged' \cup rlExcused' \subseteq Digests BY <1>2, <1>6, <2>1 DEF Bootstrap, RemoveCanary, DeployCanary, Promote
  <2>5. CASE DeployCanary(j)
    <3>1. rlJob[j].current \in Digests BY <2>5 DEF DeployCanary, ReleaseTypes, Equipped
    <3>2. [stable |-> rlJob[j].current, canary |-> rlJob[j].target] \in Release BY <2>1, <3>1 DEF Release
    <3> QED BY <1>2, <2>2, <2>4, <2>5, <3>2, HelmTypes DEF DeployCanary
  <2>6. CASE Bootstrap(j) BY <1>2, <2>2, <2>3, <2>4, <2>6, HelmTypes DEF Bootstrap
  <2>7. CASE RemoveCanary(j) BY <1>2, <2>2, <2>3, <2>4, <2>7, HelmTypes DEF RemoveCanary
  <2>8. CASE Promote(j) BY <1>2, <2>2, <2>3, <2>4, <2>8, HelmTypes DEF Promote
  <2> QED BY <1>6, <2>5, <2>6, <2>7, <2>8
<1>7. ASSUME NEW j \in Deploys, StartJob(j) PROVE ReleaseTypes'
  <2>1. UNCHANGED <<rlRevs, rlLive, rlJudged, rlExcused>> BY <1>7 DEF StartJob
  <2>2. PICK d \in Digests : \/ rlJob' = [rlJob EXCEPT ![j] = [Fresh EXCEPT !.at = "ready", !.target = d]]
                             \/ rlJob' = [rlJob EXCEPT ![j].at = "failed"]
    BY <1>7, Zenon DEF StartJob
  <2>3. Equipped([Fresh EXCEPT !.at = "ready", !.target = d]) BY DEF Equipped, Fresh
  <2>4. Equipped([rlJob[j] EXCEPT !.at = "failed"])
    <3>1. rlJob[j] \in Job BY <1>2
    <3> QED BY <3>1 DEF Equipped, Ended, Job
  <2>5. rlJob' = [rlJob EXCEPT ![j] = [Fresh EXCEPT !.at = "ready", !.target = d]]
        \/ rlJob' = [rlJob EXCEPT ![j] = [rlJob[j] EXCEPT !.at = "failed"]]
    BY <2>2
  <2> QED BY <1>2, <2>1, <2>3, <2>4, <2>5, MoveTypes
<1>8. ASSUME NEW j \in Deploys, FindImage(j) PROVE ReleaseTypes'
  <2>1. PICK current \in {NoImage, rlLive.stable} :
          rlJob' = [rlJob EXCEPT ![j] =
              [@ EXCEPT !.current = current, !.at = IF current = NoImage THEN "bootstrap"
                                                    ELSE IF current = rlJob[j].target THEN "match" ELSE "canary"]]
    BY <1>8 DEF FindImage
  <2> DEFINE at == IF current = NoImage THEN "bootstrap" ELSE IF current = rlJob[j].target THEN "match" ELSE "canary"
             job == [rlJob[j] EXCEPT !.current = current, !.at = at]
  <2>2. rlJob[j] \in Job /\ rlJob[j].target \in Digests BY <1>2, <1>4, <1>8 DEF StepDeploy, ReleaseTypes, Equipped, Active
  <2>3. job.at = at /\ job.target = rlJob[j].target /\ job.current = current BY <2>2 DEF Job
  <2>4. at = "canary" => current \in Digests
    <3>1. current = NoImage \/ rlLive # Nothing BY DEF Nothing
    <3>2. at = "canary" => current # NoImage OBVIOUS
    <3> QED BY <1>2, <3>1, <3>2 DEF Release
  <2>5. Equipped(job) BY <2>2, <2>3, <2>4 DEF Equipped
  <2>6. rlJob' = [rlJob EXCEPT ![j] = job] BY <1>2, <2>1
  <2>7. UNCHANGED <<rlRevs, rlLive, rlJudged, rlExcused>> BY <1>8 DEF FindImage
  <2> HIDE DEF job
  <2> QED BY <1>2, <2>5, <2>6, <2>7, MoveTypes
<1>9. ASSUME NEW j \in Deploys, WatchCanary(j) PROVE ReleaseTypes'
  <2>1. CASE UNCHANGED rlJudged /\ Move(j, "undo") BY <1>2, <1>3, <1>4, <1>5, <1>9, <2>1 DEF StepDeploy
  <2>2. CASE rlLive.canary # NoImage /\ rlJudged' = rlJudged \cup {rlLive.canary} /\ Move(j, "promote")
    <3>1. rlLive.canary \in Digests BY <1>2, <2>2 DEF Release, Nothing
    <3>2. rlJudged' \subseteq Digests BY <1>2, <2>2, <3>1
    <3> QED BY <1>3, <1>4, <1>5, <1>9, <2>2, <3>2 DEF StepDeploy
  <2> QED BY <1>9, <2>1, <2>2 DEF WatchCanary
<1>10. ASSUME NEW j \in Deploys, GoBack(j) PROVE ReleaseTypes'
  <2>1. Active(j) /\ UNCHANGED rlJudged BY <1>4, <1>10 DEF StepDeploy, GoBack
  <2>2. CASE rlJob[j].before = 0 BY <1>2, <1>3, <1>5, <1>10, <2>1, <2>2 DEF GoBack
  <2>3. CASE rlJob[j].before # 0
    <3>1. rlJob[j].before \in 1..Len(rlRevs)
      <4>1. rlJob[j].before \in Nat /\ rlJob[j].before <= Len(rlRevs) /\ Len(rlRevs) \in Nat BY <1>2 DEF ReleaseShape, Job
      <4> QED BY <2>3, <4>1
    <3>2. rlRevs[rlJob[j].before] \in Release BY <3>1 DEF ReleaseTypes
    <3>3. Equipped(Moved(j, "undone")) /\ Equipped(Moved(j, "failed")) BY <1>2, <1>5, <2>1, MovedIsEquipped
    <3>4. Helm(j, rlRevs[rlJob[j].before], Moved(j, "undone"), Moved(j, "failed")) /\ UNCHANGED rlExcused BY <1>10, <2>3 DEF GoBack
    <3> QED BY <1>2, <2>1, <3>2, <3>3, <3>4, HelmTypes
  <2> QED BY <2>2, <2>3
<1>11. ASSUME NEW j \in Deploys, Smoke(j) \/ MonitorRelease(j) \/ RunnerDies(j) PROVE ReleaseTypes'
  <2>1. Active(j) BY <1>4, <1>11 DEF StepDeploy, RunnerDies
  <2>2. UNCHANGED rlJudged /\ \E at \in {"monitor", "failed", "done", "undo", "killed"} : Move(j, at)
    BY <1>11 DEF Smoke, MonitorRelease, RunnerDies
  <2> QED BY <1>2, <1>3, <1>5, <2>1, <2>2
<1>13. ASSUME NEW j \in Deploys, Survey(j) PROVE ReleaseTypes'
  <2>1. PICK before \in {0, Len(rlRevs)} :
          rlJob' = [rlJob EXCEPT ![j] = [@ EXCEPT !.before = before, !.was = rlLive, !.at = "surveyed"]]
    BY <1>13 DEF Survey
  <2> DEFINE job == [rlJob[j] EXCEPT !.before = before, !.was = rlLive, !.at = "surveyed"]
  <2>2. rlJob[j] \in Job /\ rlJob[j].target \in Digests BY <1>2, <1>4, <1>13 DEF StepDeploy, ReleaseTypes, Equipped, Active
  <2>3. Equipped(job) BY <2>2 DEF Equipped, Job
  <2>4. rlJob' = [rlJob EXCEPT ![j] = job] BY <1>2, <2>1
  <2>5. UNCHANGED <<rlRevs, rlLive, rlJudged, rlExcused>> BY <1>13 DEF Survey
  <2> HIDE DEF job
  <2> QED BY <1>2, <2>3, <2>4, <2>5, MoveTypes
<1>12. ASSUME NEW j \in Deploys, StepDeploy(j) PROVE ReleaseTypes'
  BY <1>6, <1>8, <1>9, <1>10, <1>11, <1>12, <1>13 DEF StepDeploy
<1> QED BY <1>1, <1>7, <1>11, <1>12 DEF RlNext

(* The types hold before any job. *)
LEMMA ReleaseTypesInit == RlInit => ReleaseTypes
<1> SUFFICES ASSUME RlInit PROVE ReleaseTypes
  OBVIOUS
<1>1. FirstDigest \in Digests BY ReleasesAssumption
<1>2. rlLive \in Release \cup {Nothing} /\ (rlLive # Nothing => rlLive \in Release) BY <1>1 DEF RlInit, Release
<1>3. \A i \in 1..Len(rlRevs) : rlRevs[i] \in Release
  <2>1. CASE rlLive = Nothing BY <2>1 DEF RlInit
  <2>2. CASE rlLive # Nothing BY <1>2, <2>2 DEF RlInit
  <2> QED BY <2>1, <2>2
<1>4. rlJudged \cup rlExcused \subseteq Digests BY <1>1 DEF RlInit, Nothing
<1>5. \A j \in Deploys : Equipped(rlJob[j]) BY DEF RlInit, Fresh, Equipped
<1> QED BY <1>2, <1>3, <1>4, <1>5 DEF ReleaseTypes

(* With the invariant these are the types.                                  *)
LEMMA ReleasesTyped == ReleaseInv /\ ReleaseTypes => RlTypeOK
<1> SUFFICES ASSUME ReleaseInv, ReleaseTypes PROVE RlTypeOK
  OBVIOUS
<1>1. rlRevs \in Seq(Deployed) /\ rlJob \in [Deploys -> Job] /\ \A j \in Deploys : rlJob[j].before <= Len(rlRevs)
  BY DEF ReleaseInv, ReleaseShape
<1>2. \A i \in DOMAIN rlRevs : rlRevs[i] \in Release BY <1>1 DEF ReleaseTypes
<1>3. ASSUME NEW j \in Deploys
      PROVE  /\ rlJob[j].at \in Ended \cup {"new", "ready", "surveyed", "bootstrap", "match", "canary", "watch", "promote", "smoke", "monitor", "undo"}
             /\ {rlJob[j].target, rlJob[j].current} \subseteq Digests \cup {NoImage}
             /\ rlJob[j].before \in 0..Len(rlRevs)
  <2>1. rlJob[j] \in Job /\ Len(rlRevs) \in Nat /\ rlJob[j].before <= Len(rlRevs) BY <1>1
  <2>2. rlJob[j].before \in Nat /\ rlJob[j].at \in At /\ {rlJob[j].target, rlJob[j].current} \subseteq Image BY <2>1 DEF Job
  <2> QED BY <2>1, <2>2 DEF At, Image
<1> QED BY <1>2, <1>3 DEF RlTypeOK, ReleaseTypes

-----------------------------------------------------------------------------
(* The types of Models.                                                     *)

(* Each promotion under a guard is one of a trained model, and what happens  *)
(* seldom is counted.                                                        *)
ModelCounts ==
    /\ mdSince <= Len(mdVersion)
    /\ mdCount \in [rollbacks : 0..MaxRollbacks, restarts : 0..MaxRestarts]

(* Before the first training.                                               *)
LEMMA ModelCountsInit == MdInit => ModelCounts
<1> SUFFICES ASSUME MdInit PROVE ModelCounts
  OBVIOUS
<1>1. MaxRollbacks \in Nat /\ MaxRestarts \in Nat BY ModelsAssumption
<1>2. mdSince = 0 /\ Len(mdVersion) = 0 /\ mdCount = [rollbacks |-> 0, restarts |-> 0] BY DEF MdInit
<1> QED BY <1>1, <1>2 DEF ModelCounts

(* Every step keeps the counts.                                             *)
LEMMA ModelCountsNext == AgreeInv /\ GuardInv /\ ModelCounts /\ [MdNext]_mdVars => ModelCounts'
<1> SUFFICES ASSUME AgreeInv, GuardInv, ModelCounts, [MdNext]_mdVars PROVE ModelCounts'
  OBVIOUS
<1>1. mdVersion \in Seq(Int) /\ Len(mdVersion) \in Nat /\ mdSince \in Nat /\ mdSince <= Len(mdVersion)
  BY DEF AgreeInv, BundleInv, BundleShape, GuardInv, ModelCounts
<1>2. mdCount \in [rollbacks : 0..MaxRollbacks, restarts : 0..MaxRestarts] /\ MaxRollbacks \in Nat /\ MaxRestarts \in Nat
  BY ModelsAssumption DEF ModelCounts
<1>3. CASE EndTraining
  <2>1. UNCHANGED mdCount BY <1>3 DEF EndTraining
  <2>2. CASE UNCHANGED <<mdVersion, mdSince>> BY <1>1, <1>2, <2>1, <2>2 DEF ModelCounts
  <2>3. ASSUME NEW v, mdVersion' = Append(mdVersion, v), mdSince' = IF Guarded THEN mdSince + 1 ELSE mdSince PROVE ModelCounts'
    <3>1. Len(mdVersion') = Len(mdVersion) + 1 BY <1>1, <2>3
    <3> QED BY <1>1, <1>2, <2>1, <2>3, <3>1 DEF ModelCounts
  <2> QED BY <1>3, <2>2, <2>3 DEF EndTraining
<1>4. ASSUME NEW s \in Scorers, NEW at, BeginRollback(s, at) PROVE ModelCounts'
  <2>1. mdCount' = [mdCount EXCEPT !.rollbacks = @ + 1] /\ mdCount.rollbacks < MaxRollbacks /\ UNCHANGED <<mdVersion, mdGuards>>
    BY <1>4 DEF BeginRollback
  <2>2. mdCount.rollbacks + 1 \in 0..MaxRollbacks BY <1>2, <2>1
  <2>3. mdCount' \in [rollbacks : 0..MaxRollbacks, restarts : 0..MaxRestarts] BY <1>2, <2>1, <2>2
  <2> QED BY <2>1, <2>3 DEF ModelCounts, mdGuards
<1>5. ASSUME NEW p \in Processes, RestartOf(p) PROVE ModelCounts'
  <2>1. mdCount' = [mdCount EXCEPT !.restarts = @ + 1] /\ mdCount.restarts < MaxRestarts /\ UNCHANGED <<mdVersion, mdGuards>>
    BY <1>5 DEF RestartOf
  <2>2. mdCount.restarts + 1 \in 0..MaxRestarts BY <1>2, <2>1
  <2>3. mdCount' \in [rollbacks : 0..MaxRollbacks, restarts : 0..MaxRestarts] BY <1>2, <2>1, <2>2
  <2> QED BY <2>1, <2>3 DEF ModelCounts, mdGuards
<1>6. CASE UNCHANGED <<mdVersion, mdCount>> /\ mdSince' \in {0, mdSince} BY <1>1, <1>6 DEF ModelCounts
<1>7. ASSUME NEW s \in Scorers, Refresh(s) \/ LoadBundle(s) \/ RollBack(s) PROVE ModelCounts'
  BY <1>6, <1>7 DEF Refresh, LoadBundle, Load, RollBack, Back, BackMeta, mdGuards
<1>8. CASE \/ BeginTraining \/ PromoteModel \/ AnnotatePromotion
           \/ BeginCopy \/ \E p \in Processes : ReadFails(p)
  BY <1>6, <1>8 DEF BeginTraining, PromoteModel, Keep, Store, AnnotatePromotion, BeginCopy, BeginKeep, BeginBack, ReadFails, mdGuards
<1>9. CASE (\E on \in BOOLEAN : SetFreeze(on)) \/ FreezeExpires \/ CoolingEnds
  BY <1>6, <1>9 DEF SetFreeze, FreezeExpires, CoolingEnds
<1>10. CASE UNCHANGED mdVars BY <1>10 DEF mdVars, ModelCounts
<1> QED BY <1>3, <1>4, <1>5, <1>7, <1>8, <1>9, <1>10 DEF MdNext

(* With the invariants these are the types.                                 *)
LEMMA ModelsTyped == AgreeInv /\ GuardInv /\ ModelCounts => MdTypeOK
<1> SUFFICES ASSUME AgreeInv, GuardInv, ModelCounts PROVE MdTypeOK
  OBVIOUS
<1>1. BundleShape /\ FilesInv BY DEF AgreeInv, BundleInv
<1>2. mdVersion \in Seq(Int) /\ Len(mdVersion) <= MaxModels /\ Len(mdVersion) \in Nat /\ MaxModels \in Nat
  BY <1>1, ModelsAssumption DEF BundleShape
<1>3. KeptVersions \subseteq Bundles /\ 0..Len(mdVersion) \subseteq 0..MaxModels BY <1>2 DEF KeptVersions, Bundles
<1>4. mdVersion \in Seq(1..MaxModels)
  <2>1. \A n \in 1..Len(mdVersion) : mdVersion[n] \in 1..MaxModels BY <1>1, <1>2 DEF FilesInv
  <2>2. DOMAIN mdVersion = 1..Len(mdVersion) /\ mdVersion = [n \in 1..Len(mdVersion) |-> mdVersion[n]] BY <1>2
  <2> QED BY <1>2, <2>1, <2>2
<1>5. /\ {mdActive, mdFallback} \subseteq Bundles /\ mdEngine \in [Processes -> Bundles]
      /\ mdCut \subseteq {"active", "fallback"} \X Fields
  BY <1>1, <1>3 DEF BundleShape, AgreeInv, CutInv
<1>6. mdAt \in [Processes -> Writes \cup {"idle", "training", "load_model", "load_scaler"}] BY <1>1 DEF BundleShape, Places
<1>7. mdNote \in 0..MaxModels BY <1>1, <1>3 DEF BundleShape
<1>8. mdSince \in 0..MaxModels BY <1>2 DEF GuardInv, ModelCounts
<1>9. {mdFrozen, mdCooling, mdTorn} \subseteq BOOLEAN /\ mdBlur \in [Scorers -> BOOLEAN]
  BY <1>1 DEF GuardInv, BundleShape, AgreeInv
<1> QED BY <1>2, <1>4, <1>5, <1>6, <1>7, <1>8, <1>9 DEF MdTypeOK, ModelCounts

-----------------------------------------------------------------------------
(* The types of Probability.                                                *)

(* The record that a training leaves. *)
Promoted(common, own) ==
    [common |-> common, own |-> own, metrics |-> Metrics(common), record |-> Record,
     rate |-> Percent(Where(ValRows, Won), Len(ValRows))]

(* Before the first trade: no sample, no model.                             *)
LEMMA LearningInit == PbInit => PbTypeOK
<1> SUFFICES ASSUME PbInit PROVE PbTypeOK
  OBVIOUS
<1>1. MaxClosings \in Nat BY ProbabilityAssumption
<1>2. pbSamples \in Seq(Closings) /\ Len(pbSamples) = 0 BY DEF PbInit
<1> QED BY <1>1, <1>2 DEF PbInit, PbTypeOK

(* A training that promotes leaves a model of the answers it was given.     *)
LEMMA LearningTypes ==
    ASSUME PbTypeOK, NEW common \in Answers, Train(common)
    PROVE  PbTypeOK'
<1>1. /\ pbProcessed' = Len(pbSamples) /\ UNCHANGED <<pbSamples, pbClosed, pbWon>>
      /\ pbWorn' = IF pbActive = NoModel THEN pbWorn ELSE pbWorn \cup {pbActive.own}
  BY DEF Train
<1>2. PICK own \in Answers : pbActive' = Promoted(common, own)
  BY DEF Train, Promoted
<1>3. pbActive'.common = common /\ pbActive'.own = own BY <1>2 DEF Promoted
<1>4. pbWorn' \subseteq Answers BY <1>1 DEF PbTypeOK
<1>5. Len(pbSamples) \in Nat /\ Len(pbSamples) <= pbClosed BY DEF PbTypeOK
<1> QED BY <1>1, <1>2, <1>3, <1>4, <1>5 DEF PbTypeOK

(* Every step keeps the types.                                              *)
LEMMA LearningNext == PbTypeOK /\ [PbNext]_pbVars => PbTypeOK'
<1> SUFFICES ASSUME PbTypeOK, [PbNext]_pbVars PROVE PbTypeOK'
  OBVIOUS
<1>1. MaxClosings \in Nat /\ pbSamples \in Seq(Closings) /\ Len(pbSamples) \in Nat /\ Ranging \in Regimes
  BY ProbabilityAssumption DEF PbTypeOK
<1>2. ASSUME NEW c \in Closings, CloseTrade(c) PROVE PbTypeOK'
  <2>1. pbSamples' = Append(pbSamples, c) /\ pbClosed' = pbClosed + 1 /\ pbClosed < MaxClosings BY <1>2 DEF CloseTrade
  <2>2. pbSamples' \in Seq(Closings) /\ Len(pbSamples') = Len(pbSamples) + 1 BY <1>1, <2>1
  <2>3. pbWon' \subseteq Regimes /\ pbWorn' \subseteq Answers BY <1>1, <1>2 DEF CloseTrade, RegimeOf, PbTypeOK
  <2>4. UNCHANGED <<pbProcessed, pbActive>> BY <1>2 DEF CloseTrade
  <2> QED BY <1>1, <2>1, <2>2, <2>3, <2>4 DEF PbTypeOK
<1>3. CASE LeaveWindow
  <2>1. pbSamples # <<>> /\ pbSamples' = Tail(pbSamples) BY <1>3 DEF LeaveWindow
  <2>2. pbSamples' \in Seq(Closings) /\ Len(pbSamples') = Len(pbSamples) - 1 /\ Len(pbSamples) > 0 BY <1>1, <2>1
  <2>3. pbProcessed' = IF pbProcessed = 0 THEN 0 ELSE pbProcessed - 1 BY <1>3 DEF LeaveWindow
  <2>4. pbProcessed' \in 0..Len(pbSamples') BY <1>1, <2>2, <2>3 DEF PbTypeOK
  <2>5. UNCHANGED <<pbActive, pbClosed, pbWon>> /\ pbWorn' \subseteq Answers BY <1>3 DEF LeaveWindow
  <2> QED BY <1>1, <2>2, <2>4, <2>5 DEF PbTypeOK
<1>4. CASE MarkExpires BY <1>1, <1>4 DEF MarkExpires, PbTypeOK
<1>5. CASE \E common \in Answers : Train(common) BY <1>5, LearningTypes
<1>6. CASE UNCHANGED pbVars BY <1>6 DEF pbVars, PbTypeOK
<1> QED BY <1>2, <1>3, <1>4, <1>5, <1>6 DEF PbNext

-----------------------------------------------------------------------------
(* Probability: what may trade has evidence.                                *)

(* Every regime that could pass the filter of the strategies has a trade     *)
(* that won: the samples' own, and those of the record of the model in use.  *)
EvidenceInv ==
    /\ \A i \in 1..Len(pbSamples) : Won(pbSamples[i]) => RegimeOf(pbSamples[i]) \in pbWon
    /\ pbActive # NoModel => \A g \in DOMAIN pbActive.record : pbActive.record[g].wins >= 48 => g \in pbWon

(* What a count is of: of none, a share is nothing. *)
LEMMA SharesHaveWins ==
    ASSUME NEW n \in Nat, NEW whole \in Nat, Percent(n, whole) >= 48
    PROVE  n # 0
<1>1. ASSUME n = 0 PROVE Percent(n, whole) = 0
  <2>1. CASE whole = 0 BY <2>1 DEF Percent
  <2>2. CASE whole # 0
    <3>1. 100 * n = 0 BY <1>1
    <3>2. 0 \div whole = 0 BY <2>2
    <3> QED BY <2>2, <3>1, <3>2 DEF Percent
  <2> QED BY <2>1, <2>2
<1> QED BY <1>1

(* A regime on record with enough wins is one in which a sample won. *)
LEMMA RecordIsOfWins ==
    ASSUME PbTypeOK, EvidenceInv, NEW g \in DOMAIN Record, Record[g].wins >= 48
    PROVE  g \in pbWon
<1> DEFINE wins == {i \in DOMAIN pbSamples : RegimeOf(pbSamples[i]) = g /\ Won(pbSamples[i])}
           rows == {i \in DOMAIN pbSamples : RegimeOf(pbSamples[i]) = g}
<1>1. Record[g].wins = Percent(Cardinality(wins), Cardinality(rows)) BY DEF Record, Where
<1>2. DOMAIN pbSamples = 1..Len(pbSamples) /\ IsFiniteSet(1..Len(pbSamples))
  <2>1. pbSamples \in Seq(Closings) /\ Len(pbSamples) \in Nat BY DEF PbTypeOK
  <2>2. DOMAIN pbSamples = 1..Len(pbSamples) BY <2>1
  <2>3. IsFiniteSet(1..Len(pbSamples)) BY <2>1, FS_Interval
  <2> QED BY <2>2, <2>3
<1>3. IsFiniteSet(wins) /\ IsFiniteSet(rows) BY <1>2, FS_Subset
<1>4. Cardinality(wins) \in Nat /\ Cardinality(rows) \in Nat BY <1>3, FS_CardinalityType
<1> HIDE DEF wins, rows
<1>5. Cardinality(wins) # 0 BY <1>1, <1>4, SharesHaveWins
<1>6. wins # {} BY <1>5, FS_EmptySet
<1>7. PICK i \in wins : TRUE BY <1>6
<1> QED BY <1>2, <1>7 DEF wins, EvidenceInv

(* Before the first trade there is nothing to pass it with. *)
LEMMA EvidenceInit == PbInit => EvidenceInv
<1> SUFFICES ASSUME PbInit PROVE EvidenceInv
  OBVIOUS
<1>1. Len(pbSamples) = 0 BY DEF PbInit
<1>2. 1..Len(pbSamples) = {} BY <1>1
<1> QED BY <1>2 DEF EvidenceInv, PbInit

(* Wins are never taken back, so that leaving samples and models stay good. *)
LEMMA EvidenceNext == PbTypeOK /\ EvidenceInv /\ [PbNext]_pbVars => EvidenceInv'
<1> SUFFICES ASSUME PbTypeOK, EvidenceInv, [PbNext]_pbVars PROVE EvidenceInv'
  OBVIOUS
<1>1. pbSamples \in Seq(Closings) /\ Len(pbSamples) \in Nat BY DEF PbTypeOK
<1>2. ASSUME NEW c \in Closings, CloseTrade(c) PROVE EvidenceInv'
  <2>1. pbSamples' = Append(pbSamples, c) /\ UNCHANGED pbActive BY <1>2 DEF CloseTrade
  <2>2. pbWon \subseteq pbWon' /\ (Won(c) => RegimeOf(c) \in pbWon') BY <1>2 DEF CloseTrade, Won
  <2>3. Len(pbSamples') = Len(pbSamples) + 1 BY <1>1, <2>1
  <2>4. ASSUME NEW i \in 1..Len(pbSamples') PROVE Won(pbSamples'[i]) => RegimeOf(pbSamples'[i]) \in pbWon'
    <3>1. CASE i = Len(pbSamples) + 1
      <4>1. pbSamples'[i] = c BY <1>1, <2>1, <3>1
      <4> QED BY <2>2, <4>1
    <3>2. CASE i # Len(pbSamples) + 1
      <4>1. i \in 1..Len(pbSamples) BY <1>1, <2>3, <3>2
      <4>2. pbSamples'[i] = pbSamples[i] BY <1>1, <2>1, <4>1
      <4> QED BY <2>2, <4>1, <4>2 DEF EvidenceInv
    <3> QED BY <3>1, <3>2
  <2>5. \A i \in 1..Len(pbSamples') : Won(pbSamples[i])' => RegimeOf(pbSamples[i])' \in pbWon'
    BY <2>4 DEF Won, RegimeOf
  <2> QED BY <2>1, <2>2, <2>5 DEF EvidenceInv
<1>3. CASE LeaveWindow
  <2>1. pbSamples # <<>> /\ pbSamples' = Tail(pbSamples) /\ UNCHANGED <<pbActive, pbWon>> BY <1>3 DEF LeaveWindow
  <2>2. Len(pbSamples') = Len(pbSamples) - 1 /\ Len(pbSamples) > 0 BY <1>1, <2>1
  <2>3. ASSUME NEW i \in 1..Len(pbSamples') PROVE Won(pbSamples'[i]) => RegimeOf(pbSamples'[i]) \in pbWon'
    <3>1. i + 1 \in 1..Len(pbSamples) BY <1>1, <2>2
    <3>2. pbSamples'[i] = pbSamples[i + 1] BY <1>1, <2>1, <2>2
    <3> QED BY <2>1, <3>1, <3>2 DEF EvidenceInv
  <2>4. \A i \in 1..Len(pbSamples') : Won(pbSamples[i])' => RegimeOf(pbSamples[i])' \in pbWon'
    BY <2>3 DEF Won, RegimeOf
  <2> QED BY <2>1, <2>4 DEF EvidenceInv
<1>4. CASE MarkExpires
  BY <1>4 DEF MarkExpires, EvidenceInv, Won, RegimeOf
<1>5. ASSUME NEW common \in Answers, Train(common) PROVE EvidenceInv'
  <2>1. UNCHANGED <<pbSamples, pbWon>> BY <1>5 DEF Train
  <2>2. PICK own : pbActive' = Promoted(common, own) BY <1>5 DEF Train, Promoted
  <2>3. pbActive'.record = Record BY <2>2 DEF Promoted
  <2>4. \A g \in DOMAIN pbActive'.record : pbActive'.record[g].wins >= 48 => g \in pbWon'
    BY <2>1, <2>3, RecordIsOfWins
  <2>5. \A i \in 1..Len(pbSamples') : Won(pbSamples[i])' => RegimeOf(pbSamples[i])' \in pbWon'
    BY <2>1 DEF EvidenceInv, Won, RegimeOf
  <2> QED BY <2>4, <2>5 DEF EvidenceInv
<1>6. CASE UNCHANGED pbVars
  BY <1>6 DEF pbVars, EvidenceInv, Won, RegimeOf
<1> QED BY <1>2, <1>3, <1>4, <1>5, <1>6 DEF PbNext

(* A sleeve adds at most its boost. *)
LEMMA OverlayBounded ==
    ASSUME NEW s, s.delta \in Int
    PROVE  Overlay(s) \in 92..Boost
<1> DEFINE up   == 100 + (2 * s.delta) \div 5
           down == 100 + s.delta \div 2
           steady == s.target > 0 /\ s.trades >= 3 /\ s.turnover < 20 /\ s.gap < 4
           earned == steady /\ s.delta > 5 /\ s.win >= 55 /\ s.pnl > 0
           lost   == steady /\ s.delta < -5 /\ (s.win < 45 \/ s.pnl < 0)
<1>1. s.delta > 5 => up \in 102..(100 + s.delta) BY SMTT(60)
<1>2. s.delta < -5 => down \in Int /\ down <= 100 BY SMTT(60)
<1>3. Overlay(s) = CASE earned -> IF up > Boost THEN Boost ELSE up
                     [] lost -> IF down < 92 THEN 92 ELSE down
                     [] OTHER -> 100
  BY DEF Overlay
<1>4. earned => s.delta > 5 OBVIOUS
<1>5. lost => s.delta < -5 OBVIOUS
<1> HIDE DEF up, down, earned, lost
<1>6. CASE earned
  <2>1. ~lost BY <1>4, <1>5, <1>6
  <2>2. Overlay(s) = IF up > Boost THEN Boost ELSE up BY ONLY <1>3, <1>6, <2>1
  <2> QED BY <1>1, <1>4, <1>6, <2>2 DEF Boost
<1>7. CASE lost
  <2>1. ~earned BY <1>4, <1>5, <1>7
  <2>2. Overlay(s) = IF down < 92 THEN 92 ELSE down BY ONLY <1>3, <1>7, <2>1
  <2> QED BY <1>2, <1>5, <1>7, <2>2 DEF Boost
<1>8. CASE ~earned /\ ~lost
  <2>1. Overlay(s) = 100 BY ONLY <1>3, <1>8
  <2> QED BY <2>1 DEF Boost
<1> QED BY <1>6, <1>7, <1>8

(* What may trade is in a regime with a record of wins, and sleeves add to   *)
(* its own probability no more than their boost.                             *)
LEMMA ActionableHasEvidence ==
    ASSUME PbTypeOK, EvidenceInv, NEW d \in Proposals, Actionable(d)
    PROVE  d.regime \in pbWon /\ Probability(d) * Boost >= 100 * Threshold
<1>1. pbActive # NoModel /\ d.regime \in DOMAIN pbActive.record /\ pbActive.record[d.regime].wins >= 48
  <2> DEFINE known == pbActive # NoModel /\ d.regime \in DOMAIN pbActive.record
             rate  == IF pbActive = NoModel THEN 50 ELSE pbActive.rate
             stats == IF known THEN pbActive.record[d.regime] ELSE [wins |-> rate, r |-> 0]
  <2>1. stats.wins >= 48 /\ stats.r > 0 BY DEF Actionable, MetaFilter
  <2>2. ~known => stats.r = 0 OBVIOUS
  <2>3. known BY <2>1, <2>2
  <2> QED BY <2>1, <2>3
<1>2. d.regime \in pbWon BY <1>1 DEF EvidenceInv
<1>3. Probability(d) \in 0..100
  <2>1. pbActive.own \in Answers /\ pbActive.common \in Answers BY <1>1 DEF PbTypeOK
  <2>2. d.shape \in Shapes /\ Shares \subseteq 0..100 BY ProbabilityAssumption
  <2>3. pbActive.own[d.shape] \in Shares /\ pbActive.common[d.shape] \in Shares BY <2>1, <2>2 DEF Answers
  <2> QED BY <1>1, <2>2, <2>3 DEF Probability
<1>4. Overlay(d.sleeve) \in 92..Boost BY ProbabilityAssumption, OverlayBounded
<1> DEFINE p == Probability(d)
           o == Overlay(d.sleeve)
<1>5. Adjusted(d) = (IF p * o > 10000 THEN 10000 ELSE p * o) \div 100 BY DEF Adjusted
<1>6. Adjusted(d) >= 55 BY DEF Actionable, Threshold
<1> HIDE DEF p, o
<1>7. p \in 0..100 /\ o \in 92..106 BY <1>3, <1>4 DEF p, o, Boost
<1> DEFINE q == p * o
<1>8. q \in Nat /\ q <= p * 106 BY <1>7
<1>9. Adjusted(d) = (IF q > 10000 THEN 10000 ELSE q) \div 100 BY <1>5
<1> HIDE DEF q
<1>10. q >= 5500 BY <1>6, <1>8, <1>9
<1>11. p * 106 >= 5500 BY <1>7, <1>8, <1>10
<1> QED BY <1>2, <1>11 DEF p, Boost, Threshold

(* So whatever was recorded, trained and promoted, what the strategies let   *)
(* through at or above the threshold has evidence: a counted win in its       *)
(* regime, and a probability of its own that is at most a sleeve's boost      *)
(* short of the threshold (TradeProbabilityEngine._meta_filter_decision).     *)
THEOREM DecisionsHaveEvidence == PbSpec => []EvidenceFirst
<1>1. PbInit => PbTypeOK /\ EvidenceInv BY LearningInit, EvidenceInit
<1>2. PbTypeOK /\ EvidenceInv /\ [PbNext]_pbVars => PbTypeOK' /\ EvidenceInv' BY LearningNext, EvidenceNext
<1>3. PbTypeOK /\ EvidenceInv => EvidenceFirst
  <2> SUFFICES ASSUME PbTypeOK, EvidenceInv, NEW d \in Proposals, NEW e \in Proposals,
                      NEW a \in Analyses({d, e}), a.confidence >= Threshold
               PROVE  a.regime \in pbWon /\ a.raw * Boost >= 100 * Threshold
    BY DEF EvidenceFirst
  <2>1. a # WatchOnly BY DEF WatchOnly, Threshold
  <2>2. PICK x \in {d, e} : Actionable(x) /\ a = [signal |-> x.signal, confidence |-> Adjusted(x), regime |-> x.regime, raw |-> Probability(x)]
    BY <2>1 DEF Analyses
  <2>3. a.regime = x.regime /\ a.raw = Probability(x) BY <2>2
  <2> QED BY <2>2, <2>3, ActionableHasEvidence
<1> QED BY <1>1, <1>2, <1>3, PTL DEF PbSpec

-----------------------------------------------------------------------------
(* The types of Evaluation.                                                 *)

(* What is published has a side, or is none. *)
SignalTypes ==
    /\ evMode \in {"paper", "live"} /\ evAi \in BOOLEAN /\ evTorn \subseteq Dirs
    /\ evSignal.action \in Sides \cup {"HOLD"}

(* Before the first signal.                                                 *)
LEMMA SignalTypesInit == EvInit => SignalTypes
<1> SUFFICES ASSUME EvInit PROVE SignalTypes
  OBVIOUS
<1>1. evSignal.action = "HOLD" BY DEF EvInit, NoSignalYet
<1> QED BY <1>1 DEF EvInit, SignalTypes

(* Every step keeps it: a signal that is published has a direction.         *)
LEMMA SignalTypesNext == SignalTypes /\ [EvNext]_evVars => SignalTypes'
<1> SUFFICES ASSUME SignalTypes, [EvNext]_evVars PROVE SignalTypes'
  OBVIOUS
<1>1. ASSUME UNCHANGED <<evMode, evAi, evTorn, evSignal>> PROVE SignalTypes'
  BY <1>1 DEF SignalTypes
<1>2. ASSUME NEW r \in Readings, EvaluateSymbol(r) PROVE SignalTypes'
  <2> DEFINE o == Opinion(r)
  <2>1. Direction(r, o) \in Sides BY EvaluationAssumption DEF Direction, Sides
  <2>2. UNCHANGED <<evMode, evTorn>> BY <1>2 DEF EvaluateSymbol
  <2>3. evAi' = (evAi /\ ~AiFails(r)) BY <1>2 DEF EvaluateSymbol
  <2>4. evAi' \in BOOLEAN BY <2>3
  <2>5. evSignal' = NoSignalYet \/ evSignal' = [action |-> Direction(r, o), pattern |-> o.pattern]
    BY <1>2 DEF EvaluateSymbol
  <2> HIDE DEF o
  <2>6. evSignal'.action \in Sides \cup {"HOLD"} BY <2>1, <2>5 DEF NoSignalYet
  <2> QED BY <2>2, <2>4, <2>6 DEF SignalTypes
<1>3. CASE AiRetried BY <1>3 DEF AiRetried, SignalTypes
<1>4. CASE ExecuteSignal
  <2>1. evSignal' = NoSignalYet /\ UNCHANGED <<evMode, evAi, evTorn>> BY <1>4 DEF ExecuteSignal
  <2> QED BY <2>1 DEF NoSignalYet, SignalTypes
<1>5. CASE MemoryExpires BY <1>1, <1>5 DEF MemoryExpires
<1>6. ASSUME NEW p \in Recorders, NEW d \in Deals, NEW won \in BOOLEAN, CloseDeal(p, d, won) PROVE SignalTypes'
  <2>1. UNCHANGED <<evMode, evAi, evSignal>> BY <1>6 DEF CloseDeal
  <2>2. evTorn' \subseteq evTorn \cup {DirOf[p]} BY <1>6 DEF CloseDeal
  <2>3. DirOf[p] \in Dirs BY DEF Dirs
  <2> QED BY <2>1, <2>2, <2>3 DEF SignalTypes
<1>7. ASSUME NEW p \in Recorders, SaveProfile(p) PROVE SignalTypes'
  BY <1>7 DEF SaveProfile, SignalTypes
<1>8. ASSUME NEW p \in Recorders, Learn(p) \/ SaveToCache(p) \/ SaveToFile(p) \/ RecorderDies(p) PROVE SignalTypes'
  BY <1>1, <1>8 DEF Learn, SaveToCache, SaveToFile, RecorderDies
<1>9. CASE UNCHANGED evVars BY <1>1, <1>9 DEF evVars
<1> QED BY <1>2, <1>3, <1>4, <1>5, <1>6, <1>7, <1>8, <1>9 DEF EvNext

(* With the memory's invariant these are the types.                         *)
LEMMA EvaluationIsTyped == MemoryInv /\ SignalTypes => EvTypeOK
<1> SUFFICES ASSUME MemoryInv, SignalTypes PROVE EvTypeOK
  OBVIOUS
<1>1. MemoryShape BY DEF MemoryInv
<1>2. \A p \in Recorders : evWork[p].at \in WorkAt BY <1>1 DEF MemoryShape
<1>3. \A d \in Deals : evDeal[d].state \in {"unopened", "open", "closed"} BY <1>1 DEF MemoryShape, DealShapes
<1> QED BY <1>1, <1>2, <1>3 DEF EvTypeOK, SignalTypes, MemoryShape, Memories, WorkAt

-----------------------------------------------------------------------------
(* The types of Governance.                                                 *)

(* The exposure is never negative, and no trade holds less than nothing.    *)
GovernedUnits ==
    /\ gvMode \in {"paper", "live"} /\ gvDeep \in BOOLEAN /\ gvBlurred \in BOOLEAN
    /\ gvExposure \in Nat /\ gvParts \in Nat /\ gvSlip \in Nat /\ gvDay.losses \in Nat /\ gvEvents \in 0..MaxEvents
    /\ \A d \in Trades : gvTrade[d].left \in Nat

(* Before the first request.                                                *)
LEMMA UnitsInit == GvInit => GovernedUnits
<1> SUFFICES ASSUME GvInit PROVE GovernedUnits
  OBVIOUS
<1>1. MaxEvents \in Nat /\ SizeOf \in [Trades -> Nat \ {0}] BY GovernanceAssumption
<1>2. \A d \in Trades : gvTrade[d].left = 0 BY DEF GvInit, Requested
<1>3. gvDay.losses \in Nat BY DEF GvInit, NoDay
<1>4. gvDeep \in BOOLEAN /\ gvBlurred \in BOOLEAN BY DEF GvInit
<1>5. gvMode \in {"paper", "live"} BY DEF GvInit
<1>6. gvExposure = 0 /\ gvParts = 0 /\ gvSlip = 0 /\ gvEvents = 0 BY DEF GvInit
<1>7. \A d \in Trades : gvTrade[d].left \in Nat BY <1>1, <1>2
<1> QED BY <1>1, <1>3, <1>4, <1>5, <1>6, <1>7 DEF GovernedUnits

(* The units of a trade, after a step that moves it alone. *)
LEMMA UnitsOfOne ==
    ASSUME GovernanceShape, GovernedUnits, NEW d \in Trades, NEW now, gvTrade' = [gvTrade EXCEPT ![d] = now], now.left \in Nat
    PROVE  \A e \in Trades : gvTrade'[e].left \in Nat
<1>1. gvTrade \in [Trades -> Traded] BY DEF GovernanceShape
<1>2. \A e \in Trades : gvTrade'[e] = IF e = d THEN now ELSE gvTrade[e] BY <1>1
<1> QED BY <1>2 DEF GovernedUnits

(* A trade that changes its place keeps its units.                          *)
LEMMA TakeKeepsUnits ==
    ASSUME GovernanceShape, GovernedUnits, NEW d \in Trades, NEW at, Take(d, at)
    PROVE  \A e \in Trades : gvTrade'[e].left \in Nat
<1> DEFINE now == [gvTrade[d] EXCEPT !.at = at]
<1>1. gvTrade[d] \in Traded BY DEF GovernanceShape
<1>2. gvTrade' = [gvTrade EXCEPT ![d] = now] BY DEF Take
<1>3. now.left = gvTrade[d].left BY <1>1 DEF Traded
<1>4. now.left \in Nat BY <1>3 DEF GovernedUnits
<1> HIDE DEF now
<1> QED BY <1>2, <1>4, UnitsOfOne

(* Every step keeps the units.                                              *)
LEMMA UnitsNext == GovernanceInv /\ GovernedUnits /\ [GvNext]_gvVars => GovernedUnits'
<1> SUFFICES ASSUME GovernanceInv, GovernedUnits, [GvNext]_gvVars PROVE GovernedUnits'
  OBVIOUS
<1> USE DEF gvSetting, gvCounters, gvHistory
<1>1. MaxEvents \in Nat /\ SizeOf \in [Trades -> Nat \ {0}] BY GovernanceAssumption
<1>2. GovernanceShape BY DEF GovernanceInv
<1>3. /\ gvTrade \in [Trades -> Traded] /\ gvDay \in [trades : Nat, losses : Int, cooling : BOOLEAN]
  BY <1>2 DEF GovernanceShape
<1>4. \A d \in Trades : gvTrade[d] \in Traded BY <1>3
<1>5. ASSUME NEW d \in Trades, Gate(d) PROVE GovernedUnits'
  <2>1. \E at \in Place : Take(d, at) BY <1>5 DEF Gate, Place
  <2>2. \A e \in Trades : gvTrade'[e].left \in Nat BY <1>2, <2>1, TakeKeepsUnits
  <2>3. UNCHANGED <<gvMode, gvDeep, gvBlurred, gvExposure, gvParts, gvSlip, gvDay, gvEvents>> BY <1>5 DEF Gate
  <2> QED BY <2>2, <2>3 DEF GovernedUnits
<1>6. ASSUME NEW d \in Trades, PlaceOrderOf(d) PROVE GovernedUnits'
  <2>1. \E at \in Place : Take(d, at) BY <1>6 DEF PlaceOrderOf, Place
  <2>2. \A e \in Trades : gvTrade'[e].left \in Nat BY <1>2, <2>1, TakeKeepsUnits
  <2>3. UNCHANGED <<gvMode, gvDeep, gvBlurred, gvExposure, gvParts, gvSlip, gvEvents>> BY <1>6 DEF PlaceOrderOf
  <2>4. gvDay' = [gvDay EXCEPT !.trades = @ + 1] \/ gvDay' = gvDay BY <1>6 DEF PlaceOrderOf
  <2>5. gvDay'.losses = gvDay.losses BY <1>3, <2>4
  <2> QED BY <2>2, <2>3, <2>5 DEF GovernedUnits
<1>7. ASSUME NEW d \in Trades, NEW units \in Executions[d], BookTrade(d, units) PROVE GovernedUnits'
  <2> DEFINE now == [gvTrade[d] EXCEPT !.at = "open", !.left = units]
  <2>1. SizeOf[d] \in Nat /\ units \in Nat BY GovernanceAssumption
  <2>2. now.left = units BY <1>4 DEF Traded
  <2>3. gvTrade' = [gvTrade EXCEPT ![d] = now] \/ Take(d, "stray") BY <1>7 DEF BookTrade
  <2>4. now.left \in Nat BY <2>1, <2>2
  <2> HIDE DEF now
  <2>5. \A e \in Trades : gvTrade'[e].left \in Nat BY <1>2, <2>3, <2>4, UnitsOfOne, TakeKeepsUnits
  <2>6. UNCHANGED <<gvMode, gvDeep, gvDay, gvParts, gvEvents>> BY <1>7 DEF BookTrade
  <2>7. gvExposure' \in Nat /\ gvSlip' \in Nat /\ gvBlurred' \in BOOLEAN
    <3>1. gvExposure' = gvExposure + SizeOf[d] \/ gvExposure' = gvExposure BY <1>7 DEF BookTrade
    <3>2. gvBlurred' = gvBlurred \/ gvBlurred' = TRUE BY <1>7 DEF BookTrade, Overwritten
    <3>3. gvSlip' = gvSlip + Floor(SizeOf[d] - units, units - SizeOf[d]) \/ gvSlip' = gvSlip BY <1>7 DEF BookTrade
    <3>4. gvExposure' \in Nat BY <2>1, <3>1 DEF GovernedUnits
    <3>5. gvBlurred' \in BOOLEAN BY <3>2 DEF GovernedUnits
    <3>6. Floor(SizeOf[d] - units, units - SizeOf[d]) \in Nat BY <2>1 DEF Floor
    <3>7. gvSlip' \in Nat BY <3>3, <3>6 DEF GovernedUnits
    <3> QED BY <3>4, <3>5, <3>7
  <2> QED BY <2>5, <2>6, <2>7 DEF GovernedUnits
<1>8. ASSUME NEW d \in Trades, NEW deep \in BOOLEAN, ClosePart(d, deep) PROVE GovernedUnits'
  <2> DEFINE now == [gvTrade[d] EXCEPT !.left = gvTrade[d].left - 1]
  <2>1. now.left = gvTrade[d].left - 1 BY <1>4 DEF Traded
  <2>2. gvTrade' = [gvTrade EXCEPT ![d] = now] /\ gvTrade[d].left > 1 BY <1>8 DEF ClosePart
  <2>3. now.left \in Nat BY <1>1, <2>1, <2>2 DEF GovernedUnits
  <2> HIDE DEF now
  <2>4. \A e \in Trades : gvTrade'[e].left \in Nat BY <1>2, <2>2, <2>3, UnitsOfOne
  <2>5. UNCHANGED <<gvMode, gvBlurred, gvExposure, gvSlip, gvDay, gvEvents>> /\ gvDeep' = deep /\ gvParts' = gvParts + 1
    BY <1>8 DEF ClosePart
  <2> QED BY <2>4, <2>5 DEF GovernedUnits
<1>9. ASSUME NEW d \in Trades, NEW deep \in BOOLEAN, CloseRest(d, deep) PROVE GovernedUnits'
  <2> DEFINE now == [gvTrade[d] EXCEPT !.at = "closing", !.deep = deep, !.read = gvMetrics]
  <2>1. now.left = gvTrade[d].left BY <1>4 DEF Traded
  <2>2. gvTrade' = [gvTrade EXCEPT ![d] = now] BY <1>9 DEF CloseRest
  <2>3. now.left \in Nat BY <2>1 DEF GovernedUnits
  <2> HIDE DEF now
  <2>4. \A e \in Trades : gvTrade'[e].left \in Nat BY <1>2, <2>2, <2>3, UnitsOfOne
  <2>5. UNCHANGED <<gvMode, gvBlurred, gvExposure, gvDay, gvParts, gvSlip, gvEvents>> /\ gvDeep' = deep BY <1>9 DEF CloseRest
  <2> QED BY <2>4, <2>5 DEF GovernedUnits
<1>10. ASSUME NEW d \in Trades, NEW won \in BOOLEAN, Measure(d, won) PROVE GovernedUnits'
  <2> DEFINE m == [trades |-> gvTrade[d].read.trades + 1, wins |-> gvTrade[d].read.wins + (IF won THEN 1 ELSE 0)]
             now == [gvTrade[d] EXCEPT !.at = "measuring", !.won = won, !.read = m, !.seen = Stage]
  <2>1. now.left = gvTrade[d].left BY <1>4 DEF Traded
  <2>2. gvTrade' = [gvTrade EXCEPT ![d] = now] BY <1>10 DEF Measure
  <2>3. now.left \in Nat BY <2>1 DEF GovernedUnits
  <2> HIDE DEF now
  <2>4. \A e \in Trades : gvTrade'[e].left \in Nat BY <1>2, <2>2, <2>3, UnitsOfOne
  <2>5. UNCHANGED <<gvMode, gvDeep, gvBlurred, gvExposure, gvDay, gvParts, gvSlip, gvEvents>> BY <1>10 DEF Measure
  <2> QED BY <2>4, <2>5 DEF GovernedUnits
<1>18. ASSUME NEW d \in Trades, WriteStage(d) PROVE GovernedUnits'
  <2> DEFINE now == [gvTrade[d] EXCEPT !.at = "measured", !.deep = FALSE, !.read = NoMetrics, !.seen = 0]
  <2>1. now.left = gvTrade[d].left BY <1>4 DEF Traded
  <2>2. gvTrade' = [gvTrade EXCEPT ![d] = now] BY <1>18 DEF WriteStage
  <2>3. now.left \in Nat BY <2>1 DEF GovernedUnits
  <2> HIDE DEF now
  <2>4. \A e \in Trades : gvTrade'[e].left \in Nat BY <1>2, <2>2, <2>3, UnitsOfOne
  <2>5. UNCHANGED <<gvMode, gvDeep, gvBlurred, gvExposure, gvDay, gvParts, gvSlip, gvEvents>> BY <1>18 DEF WriteStage
  <2> QED BY <2>4, <2>5 DEF GovernedUnits
<1>11. ASSUME NEW d \in Trades, RecordOutcome(d) \/ OutcomeLost(d) PROVE GovernedUnits'
  <2> DEFINE now == [Requested EXCEPT !.at = "closed"]
  <2>1. now.left = 0 BY DEF Requested
  <2>2. gvTrade' = [gvTrade EXCEPT ![d] = now] BY <1>11 DEF RecordOutcome, OutcomeLost
  <2>3. now.left \in Nat BY <1>1, <2>1
  <2> HIDE DEF now
  <2>4. \A e \in Trades : gvTrade'[e].left \in Nat BY <1>2, <2>2, <2>3, UnitsOfOne
  <2>5. UNCHANGED <<gvMode, gvDeep, gvParts, gvSlip, gvEvents>> BY <1>11 DEF RecordOutcome, OutcomeLost
  <2>6. gvBlurred' \in BOOLEAN
    <3>1. gvBlurred' = gvBlurred \/ gvBlurred' = TRUE BY <1>11 DEF RecordOutcome, OutcomeLost, Overwritten
    <3> QED BY <3>1 DEF GovernedUnits
  <2>7. gvExposure' \in Nat
    <3>1. gvExposure' = Floor(gvExposure - gvTrade[d].left, 0) \/ gvExposure' = gvExposure
      BY <1>11 DEF RecordOutcome, OutcomeLost
    <3>2. gvTrade[d].left \in Int BY <1>4 DEF Traded
    <3> QED BY <3>1, <3>2 DEF Floor, GovernedUnits
  <2>8. gvDay'.losses \in Nat
    <3>1. CASE OutcomeLost(d)
      <4>1. gvDay' = gvDay BY <3>1 DEF OutcomeLost
      <4> QED BY <4>1 DEF GovernedUnits
    <3>2. CASE RecordOutcome(d)
      <4> DEFINE losses == IF gvTrade[d].won THEN 0 ELSE Cap(gvDay.losses + 1, 2)
                 cools == gvDay.cooling \/ losses >= 2
      <4>1. losses \in Nat BY DEF Cap, GovernedUnits
      <4>2. gvDay' = [gvDay EXCEPT !.losses = losses, !.cooling = cools] BY <3>2 DEF RecordOutcome
      <4> HIDE DEF losses, cools
      <4>3. gvDay'.losses = losses BY <1>3, <4>2
      <4> QED BY <4>1, <4>3
    <3> QED BY <1>11, <3>1, <3>2
  <2> QED BY <2>4, <2>5, <2>6, <2>7, <2>8 DEF GovernedUnits
<1>12. ASSUME gvEvents' = gvEvents \/ Event, UNCHANGED <<gvMode, gvDeep, gvTrade, gvParts, gvSlip>>,
              gvExposure' \in {gvExposure, 0}, gvBlurred' \in {gvBlurred, TRUE}, gvDay'.losses = gvDay.losses
       PROVE GovernedUnits'
  <2>1. gvEvents' \in 0..MaxEvents BY <1>1, <1>12 DEF Event, GovernedUnits
  <2>2. gvExposure' \in Nat BY <1>12 DEF GovernedUnits
  <2>3. gvBlurred' \in BOOLEAN BY <1>12 DEF GovernedUnits
  <2> QED BY <1>12, <2>1, <2>2, <2>3 DEF GovernedUnits
<1>13. CASE NextHour BY <1>12, <1>13 DEF NextHour
<1>14. CASE NextDay
  <2>1. gvDay'.losses = gvDay.losses BY <1>3, <1>14 DEF NextDay
  <2> QED BY <1>12, <1>14, <2>1 DEF NextDay
<1>15. CASE StatusExpires \/ ExposureExpires \/ SetProfile
  BY <1>12, <1>15 DEF StatusExpires, ExposureExpires, SetProfile
<1>16. CASE CooldownPasses
  <2>1. gvDay'.losses = gvDay.losses BY <1>3, <1>16 DEF CooldownPasses
  <2> QED BY <1>12, <1>16, <2>1 DEF CooldownPasses
<1>17. CASE UNCHANGED gvVars BY <1>12, <1>17 DEF gvVars
<1> QED BY <1>5, <1>6, <1>7, <1>8, <1>9, <1>10, <1>11, <1>13, <1>14, <1>15, <1>16, <1>17, <1>18 DEF GvNext

(* With the invariant these are the types.                                  *)
LEMMA UnitsAreTyped == GovernanceInv /\ GovernedUnits => GvTypeOK
<1> SUFFICES ASSUME GovernanceInv, GovernedUnits PROVE GvTypeOK
  OBVIOUS
<1>1. GovernanceShape BY DEF GovernanceInv
<1>2. gvMetrics.trades \in Nat /\ gvMetrics.wins \in Nat BY <1>1 DEF GovernanceShape, Counts
<1>3. gvHour \in Nat /\ gvDay.trades \in Nat /\ gvStage \in Stages \cup {Unset} BY <1>1 DEF GovernanceShape
<1> QED BY <1>2, <1>3 DEF GvTypeOK, GovernedUnits

-----------------------------------------------------------------------------
(* Governance: the recorded exposure.                                       *)

(* What is left of trades is a sum over them. *)
LEMMA LeftAsSum ==
    ASSUME NEW t, NEW S, IsFiniteSet(S), \A d \in S : t[d].left \in Int, NEW iter,
           iter = CHOOSE g : g = [s \in SUBSET S |-> IF s = {} THEN 0 ELSE t[One(s)].left + g[s \ {One(s)}]]
    PROVE  iter[S] = SumOf([d \in S |-> t[d].left])
<1> DEFINE f == [d \in S |-> t[d].left]
<1>1. \A s \in SUBSET S : s # {} => f[One(s)] = t[One(s)].left
  <2>1. \A s \in SUBSET S : s # {} => One(s) \in s  BY DEF One
  <2> QED  BY <2>1
<1>2. DOMAIN f = S /\ \A x \in S : f[x] \in Int  OBVIOUS
<1> DEFINE Body(g) == [s \in SUBSET S |-> IF s = {} THEN 0 ELSE t[One(s)].left + g[s \ {One(s)}]]
<1>3. ASSUME NEW g PROVE FoldOf(g, f) <=> g = Body(g)
  BY <1>1, <1>2 DEF FoldOf
<1>4. \E g : g = Body(g)
  <2>1. \E g : FoldOf(g, f)  BY <1>2, FoldExists
  <2> QED  BY <1>3, <2>1
<1>5. iter = Body(iter)  BY <1>4, Zenon
<1> HIDE DEF Body, f
<1>6. FoldOf(iter, f)
  <2>1. FoldOf(iter, f) <=> iter = Body(iter)  BY ONLY <1>3, Zenon
  <2> QED  BY ONLY <2>1, <1>5
<1>7. SumsOf(iter, f)  BY <1>2, <1>6, FoldIsSum
<1>8. SumOf(f) = iter[S]  BY <1>2, <1>7, SumIs
<1> QED  BY <1>8 DEF f

(* The units of each trade that count for the exposure. *)
Holding == {"open", "closing", "measuring", "measured"}
UnitsIn(t) == IF t.at \in Holding THEN t.left ELSE 0
HeldUnits == [d \in Trades |-> UnitsIn(gvTrade[d])]

LEMMA ExposureAsSum ==
    GovernanceShape => /\ Left(Bought) = SumOf(HeldUnits)
                       /\ \A d \in Trades : UnitsIn(gvTrade[d]) \in Int
<1> SUFFICES ASSUME GovernanceShape
             PROVE  /\ Left(Bought) = SumOf(HeldUnits)
                    /\ \A d \in Trades : UnitsIn(gvTrade[d]) \in Int
  OBVIOUS
<1> DEFINE S == Bought
           iter == CHOOSE g : g = [s \in SUBSET S |-> IF s = {} THEN 0 ELSE gvTrade[One(s)].left + g[s \ {One(s)}]]
           e == [d \in S |-> gvTrade[d].left]
           f == HeldUnits
<1>1. \A d \in Trades : gvTrade[d].left \in Int BY DEF GovernanceShape, Traded
<1>2. S \subseteq Trades /\ IsFiniteSet(S) /\ IsFiniteSet(Trades) BY GovernanceAssumption, FS_Subset DEF Bought
<1>3. Left(S) = iter[S] BY DEF Left, MapThenSumSet, MapThenFoldSet, One
<1> HIDE DEF S
<1>4. iter[S] = SumOf(e)
  <2>1. \A d \in S : gvTrade[d].left \in Int BY <1>1, <1>2
  <2> QED BY <1>2, <2>1, LeftAsSum
<1>5. \A d \in Trades : f[d] \in Int /\ (IF d \in S THEN e[d] = f[d] ELSE f[d] = 0)
  BY <1>1, <1>2 DEF UnitsIn, Holding, S, Bought, HeldUnits
<1>6. SumOf(e) = SumOf(f)
  <2>1. DOMAIN e = S /\ DOMAIN f = Trades BY DEF HeldUnits
  <2> HIDE DEF e, f
  <2> QED BY <1>2, <1>5, <2>1, SumOfSome
<1> QED BY <1>3, <1>4, <1>5, <1>6 DEF S, HeldUnits

(* Unless it is blurred, the exposure is what the trades hold, trade by      *)
(* trade, and what was closed in parts, up to what orders and requests       *)
(* differed by.                                                              *)
ExposureAddsUp ==
    ~gvBlurred => /\ gvExposure <= SumOf(HeldUnits) + gvParts + gvSlip
                  /\ SumOf(HeldUnits) + gvParts <= gvExposure + gvSlip

(* What is held is a number, and not negative. *)
LEMMA HeldIsNumber == GovernanceShape /\ GovernedUnits => SumOf(HeldUnits) \in Nat /\ \A d \in Trades : UnitsIn(gvTrade[d]) <= SumOf(HeldUnits)
<1> SUFFICES ASSUME GovernanceShape, GovernedUnits
             PROVE  SumOf(HeldUnits) \in Nat /\ \A d \in Trades : UnitsIn(gvTrade[d]) <= SumOf(HeldUnits)
  OBVIOUS
<1>1. IsFiniteSet(Trades) BY GovernanceAssumption
<1>2. \A d \in Trades : UnitsIn(gvTrade[d]) \in Nat BY DEF GovernedUnits, UnitsIn
<1>3. DOMAIN HeldUnits = Trades /\ \A d \in Trades : HeldUnits[d] = UnitsIn(gvTrade[d]) BY DEF HeldUnits
<1>4. SumOf(HeldUnits) \in Nat BY <1>1, <1>2, <1>3, SumType
<1>5. ASSUME NEW d \in Trades PROVE UnitsIn(gvTrade[d]) <= SumOf(HeldUnits)
  <2> DEFINE rest == [x \in Trades |-> IF x = d THEN 0 ELSE HeldUnits[x]]
  <2>1. DOMAIN rest = Trades /\ rest[d] = 0 /\ \A x \in Trades : rest[x] \in Nat /\ (x # d => rest[x] = HeldUnits[x])
    BY <1>2, <1>3
  <2> HIDE DEF rest
  <2>2. SumOf(rest) = SumOf(HeldUnits) + (rest[d] - HeldUnits[d]) BY <1>1, <1>2, <1>3, <2>1, SumOfAllButOne
  <2>3. SumOf(rest) \in Nat BY <1>1, <2>1, SumType
  <2>4. rest[d] = 0 /\ HeldUnits[d] = UnitsIn(gvTrade[d]) /\ UnitsIn(gvTrade[d]) \in Nat BY <1>2, <1>3, <2>1
  <2> QED BY ONLY <1>4, <2>2, <2>3, <2>4
<1> QED BY <1>4, <1>5

(* A trade moves: so does what is held. *)
LEMMA HeldMoves ==
    ASSUME GovernanceShape, NEW d \in Trades, NEW now, now.left \in Int, gvTrade' = [gvTrade EXCEPT ![d] = now]
    PROVE  SumOf(HeldUnits)' = SumOf(HeldUnits) + (UnitsIn(now) - UnitsIn(gvTrade[d]))
<1> DEFINE f == HeldUnits
           h == HeldUnits'
<1>1. gvTrade \in [Trades -> Traded] /\ IsFiniteSet(Trades) BY GovernanceAssumption DEF GovernanceShape
<1>2. \A x \in Trades : gvTrade'[x] = IF x = d THEN now ELSE gvTrade[x] BY <1>1
<1>3. \A x \in Trades : gvTrade[x].left \in Int BY <1>1 DEF Traded
<1>4. h = [x \in Trades |-> UnitsIn(gvTrade'[x])] BY DEF HeldUnits, UnitsIn
<1>5. \A x \in Trades : f[x] = UnitsIn(gvTrade[x]) /\ UnitsIn(gvTrade[x]) \in Int BY <1>3 DEF HeldUnits, UnitsIn
<1>6. \A x \in Trades : h[x] = IF x = d THEN UnitsIn(now) ELSE UnitsIn(gvTrade[x]) BY <1>2, <1>4
<1>7. UnitsIn(now) \in Int BY DEF UnitsIn
<1>8. DOMAIN f = Trades /\ DOMAIN h = Trades BY <1>4 DEF HeldUnits
<1> HIDE DEF f, h
<1>9. SumOf(h) = SumOf(f) + (h[d] - f[d]) BY <1>1, <1>5, <1>6, <1>7, <1>8, SumOfAllButOne
<1>10. SumOf(HeldUnits)' = SumOf(h) BY DEF h
<1> QED BY <1>5, <1>6, <1>9, <1>10 DEF f

(* Before the first request nothing is held. *)
LEMMA ExposureInit == GvInit => ExposureAddsUp
<1> SUFFICES ASSUME GvInit PROVE ExposureAddsUp
  OBVIOUS
<1> DEFINE f == HeldUnits
           h == [x \in Trades |-> 0 * HeldUnits[x]]
<1>1. IsFiniteSet(Trades) BY GovernanceAssumption
<1>2. DOMAIN f = Trades /\ \A d \in Trades : f[d] = 0 BY DEF GvInit, Requested, HeldUnits, UnitsIn
<1>3. DOMAIN h = Trades /\ \A d \in Trades : h[d] = 0 * f[d] OBVIOUS
<1>4. f = h
  <2>1. f = [d \in Trades |-> f[d]] BY DEF HeldUnits
  <2> HIDE DEF f
  <2> QED BY <1>2, <2>1 DEF f
<1> HIDE DEF f, h
<1>5. SumOf(h) = 0 * SumOf(f) BY <1>1, <1>2, <1>3, SumOfMultiples
<1>6. SumOf(f) \in Int BY <1>1, <1>2, SumType
<1>7. SumOf(f) = 0 BY <1>4, <1>5, <1>6
<1>8. gvExposure = 0 /\ gvParts = 0 /\ gvSlip = 0 BY DEF GvInit
<1> QED BY <1>7, <1>8 DEF f, ExposureAddsUp

(* A trade that changes its place, and holds what it held. *)
LEMMA HeldStays ==
    ASSUME GovernanceShape, ExposureAddsUp, NEW d \in Trades, NEW now, now.left \in Int, gvTrade' = [gvTrade EXCEPT ![d] = now],
           UnitsIn(now) = UnitsIn(gvTrade[d]), UNCHANGED <<gvExposure, gvParts, gvSlip, gvBlurred>>
    PROVE  ExposureAddsUp'
<1>1. SumOf(HeldUnits)' = SumOf(HeldUnits) + (UnitsIn(now) - UnitsIn(gvTrade[d])) BY HeldMoves
<1>2. UnitsIn(now) \in Int BY DEF UnitsIn
<1>3. SumOf(HeldUnits) \in Int
  <2>1. IsFiniteSet(Trades) BY GovernanceAssumption
  <2>2. \A x \in Trades : UnitsIn(gvTrade[x]) \in Int BY DEF GovernanceShape, Traded, UnitsIn
  <2>3. DOMAIN HeldUnits = Trades /\ \A x \in Trades : HeldUnits[x] \in Int BY <2>2 DEF HeldUnits
  <2> QED BY <2>1, <2>3, SumType
<1>4. SumOf(HeldUnits)' = SumOf(HeldUnits) BY <1>1, <1>2, <1>3
<1> QED BY <1>4 DEF ExposureAddsUp

(* The same for a trade that was taken, but not yet booked. *)
LEMMA TakenHoldsNothing ==
    ASSUME GovernanceShape, ExposureAddsUp, NEW d \in Trades, NEW at, Take(d, at), at \notin Holding,
           gvTrade[d].at \notin Holding, UNCHANGED <<gvExposure, gvParts, gvSlip, gvBlurred>>
    PROVE  ExposureAddsUp'
<1> DEFINE now == [gvTrade[d] EXCEPT !.at = at]
<1>1. gvTrade[d] \in Traded BY DEF GovernanceShape
<1>2. now.left = gvTrade[d].left /\ now.at = at BY <1>1 DEF Traded
<1>3. now.left \in Int BY <1>1, <1>2 DEF Traded
<1>4. gvTrade' = [gvTrade EXCEPT ![d] = now] BY DEF Take
<1> HIDE DEF now
<1>5. UnitsIn(now) = UnitsIn(gvTrade[d]) BY <1>2 DEF UnitsIn
<1> QED BY <1>3, <1>4, <1>5, HeldStays

(* Every step keeps the sum. *)
LEMMA ExposureNext == GovernanceInv /\ GovernedUnits /\ ExposureAddsUp /\ [GvNext]_gvVars => ExposureAddsUp'
<1> SUFFICES ASSUME GovernanceInv, GovernedUnits, ExposureAddsUp, [GvNext]_gvVars PROVE ExposureAddsUp'
  OBVIOUS
<1> USE DEF gvSetting, gvCounters, gvHistory
<1>1. IsFiniteSet(Trades) /\ SizeOf \in [Trades -> Nat \ {0}] BY GovernanceAssumption
<1>2. GovernanceShape BY DEF GovernanceInv
<1>3. \A d \in Trades : gvTrade[d] \in Traded /\ gvTrade[d].left \in Nat /\ gvTrade[d].at \in Place
  <2>1. \A d \in Trades : gvTrade[d] \in Traded BY <1>2 DEF GovernanceShape
  <2>2. \A d \in Trades : gvTrade[d].left \in Nat BY <1>1 DEF GovernedUnits
  <2> QED BY <2>1, <2>2 DEF Traded
<1>4. SumOf(HeldUnits) \in Nat /\ \A d \in Trades : UnitsIn(gvTrade[d]) <= SumOf(HeldUnits) BY <1>2, HeldIsNumber
<1>5. gvExposure \in Nat /\ gvParts \in Nat /\ gvSlip \in Nat BY DEF GovernedUnits
<1>6. ASSUME gvBlurred' = TRUE PROVE ExposureAddsUp' BY <1>6 DEF ExposureAddsUp
<1>7. ASSUME UNCHANGED <<gvTrade, gvExposure, gvParts, gvSlip, gvBlurred>> PROVE ExposureAddsUp'
  <2>1. HeldUnits' = HeldUnits BY <1>7 DEF HeldUnits, UnitsIn
  <2>2. SumOf(HeldUnits)' = SumOf(HeldUnits) BY <2>1
  <2> QED BY <1>7, <2>2 DEF ExposureAddsUp
<1>8. ASSUME NEW d \in Trades, Gate(d) PROVE ExposureAddsUp'
  <2>1. \E at \in {"gated", "rejected"} : Take(d, at) BY <1>8 DEF Gate
  <2>2. gvTrade[d].at \notin Holding /\ UNCHANGED <<gvExposure, gvParts, gvSlip, gvBlurred>> BY <1>8 DEF Gate, Holding
  <2>3. \A at \in {"gated", "rejected"} : at \notin Holding BY DEF Holding
  <2> QED BY <1>2, <2>1, <2>2, <2>3, TakenHoldsNothing
<1>9. ASSUME NEW d \in Trades, PlaceOrderOf(d) PROVE ExposureAddsUp'
  <2>1. \E at \in {"bought", "rejected"} : Take(d, at) BY <1>9 DEF PlaceOrderOf
  <2>2. gvTrade[d].at \notin Holding /\ UNCHANGED <<gvExposure, gvParts, gvSlip, gvBlurred>> BY <1>9 DEF PlaceOrderOf, Holding
  <2>3. \A at \in {"bought", "rejected"} : at \notin Holding BY DEF Holding
  <2> QED BY <1>2, <2>1, <2>2, <2>3, TakenHoldsNothing
<1>10. ASSUME NEW d \in Trades, NEW units \in Executions[d], BookTrade(d, units) PROVE ExposureAddsUp'
  <2>1. gvTrade[d].at = "bought" /\ gvTrade[d].at \notin Holding /\ UNCHANGED gvParts BY <1>10 DEF BookTrade, Holding
  <2>2. CASE Take(d, "stray") /\ UNCHANGED <<gvHour, gvExposure, gvLate, gvSlip, gvBlurred>>
    <3>1. "stray" \notin Holding BY DEF Holding
    <3> QED BY <1>2, <2>1, <2>2, <3>1, TakenHoldsNothing
  <2>3. CASE /\ gvTrade' = [gvTrade EXCEPT ![d] = [@ EXCEPT !.at = "open", !.left = units]]
             /\ gvSlip' = gvSlip + Floor(SizeOf[d] - units, units - SizeOf[d])
             /\ gvExposure' = gvExposure + SizeOf[d] /\ UNCHANGED gvBlurred
    <3> DEFINE now == [gvTrade[d] EXCEPT !.at = "open", !.left = units]
    <3>1. now.at = "open" /\ now.left = units BY <1>3 DEF Traded
    <3>2. gvTrade' = [gvTrade EXCEPT ![d] = now] /\ SizeOf[d] \in Nat /\ units \in Nat BY <2>3, GovernanceAssumption
    <3>0. now.left \in Int BY <3>1, <3>2
    <3> HIDE DEF now
    <3>3. SumOf(HeldUnits)' = SumOf(HeldUnits) + (UnitsIn(now) - UnitsIn(gvTrade[d])) BY <1>2, <3>0, <3>2, HeldMoves
    <3>4. UnitsIn(now) = units /\ UnitsIn(gvTrade[d]) = 0 BY <2>1, <3>1 DEF UnitsIn, Holding
    <3>5. SumOf(HeldUnits)' = SumOf(HeldUnits) + units BY <1>4, <3>2, <3>3, <3>4
    <3>6. PICK off \in Int : off = Floor(SizeOf[d] - units, units - SizeOf[d]) /\ off >= SizeOf[d] - units /\ off >= units - SizeOf[d]
      BY <3>2 DEF Floor
    <3>7. gvSlip' = gvSlip + off /\ gvExposure' = gvExposure + SizeOf[d] /\ gvParts' = gvParts BY <2>1, <2>3, <3>6
    <3>8. ASSUME ~gvBlurred PROVE gvExposure <= SumOf(HeldUnits) + gvParts + gvSlip /\ SumOf(HeldUnits) + gvParts <= gvExposure + gvSlip
      BY <3>8 DEF ExposureAddsUp
    <3>9. ASSUME ~gvBlurred
          PROVE  /\ gvExposure' <= SumOf(HeldUnits)' + gvParts' + gvSlip'
                 /\ SumOf(HeldUnits)' + gvParts' <= gvExposure' + gvSlip'
      <4>1. SumOf(HeldUnits) \in Nat BY <1>4
      <4> QED BY ONLY <4>1, <1>5, <3>2, <3>5, <3>6, <3>7, <3>8, <3>9
    <3> QED BY <2>3, <3>9 DEF ExposureAddsUp
  <2>4. CASE gvBlurred' = TRUE BY <1>6, <2>4
  <2> QED BY <1>10, <2>2, <2>3, <2>4 DEF BookTrade, Overwritten
<1>11. ASSUME NEW d \in Trades, NEW deep \in BOOLEAN, ClosePart(d, deep) PROVE ExposureAddsUp'
  <2> DEFINE now == [gvTrade[d] EXCEPT !.left = gvTrade[d].left - 1]
  <2>1. now.at = gvTrade[d].at /\ now.left = gvTrade[d].left - 1 BY <1>3 DEF Traded
  <2>2. gvTrade' = [gvTrade EXCEPT ![d] = now] /\ gvTrade[d].left \in Nat /\ gvTrade[d].at = "open"
    BY <1>3, <1>11 DEF ClosePart
  <2>0. now.left \in Int BY <2>1, <2>2
  <2> HIDE DEF now
  <2>3. SumOf(HeldUnits)' = SumOf(HeldUnits) + (UnitsIn(now) - UnitsIn(gvTrade[d])) BY <1>2, <2>0, <2>2, HeldMoves
  <2>4. UnitsIn(now) = gvTrade[d].left - 1 /\ UnitsIn(gvTrade[d]) = gvTrade[d].left BY <2>1, <2>2 DEF UnitsIn, Holding
  <2>5. SumOf(HeldUnits)' = SumOf(HeldUnits) - 1 BY <1>4, <2>2, <2>3, <2>4
  <2>6. gvParts' = gvParts + 1 /\ UNCHANGED <<gvExposure, gvSlip, gvBlurred>> BY <1>11 DEF ClosePart
  <2> QED BY <1>4, <1>5, <2>5, <2>6 DEF ExposureAddsUp
<1>12. ASSUME NEW d \in Trades, NEW deep \in BOOLEAN, CloseRest(d, deep) PROVE ExposureAddsUp'
  <2> DEFINE now == [gvTrade[d] EXCEPT !.at = "closing", !.deep = deep, !.read = gvMetrics]
  <2>1. now.at = "closing" /\ now.left = gvTrade[d].left /\ gvTrade[d].left \in Int BY <1>3 DEF Traded
  <2>2. gvTrade' = [gvTrade EXCEPT ![d] = now] /\ gvTrade[d].at = "open" BY <1>12 DEF CloseRest
  <2> HIDE DEF now
  <2>3. UnitsIn(now) = UnitsIn(gvTrade[d]) BY <2>1, <2>2 DEF UnitsIn, Holding
  <2>4. UNCHANGED <<gvExposure, gvParts, gvSlip, gvBlurred>> BY <1>12 DEF CloseRest
  <2> QED BY <1>2, <2>1, <2>2, <2>3, <2>4, HeldStays
<1>13. ASSUME NEW d \in Trades, NEW won \in BOOLEAN, Measure(d, won) PROVE ExposureAddsUp'
  <2> DEFINE m == [trades |-> gvTrade[d].read.trades + 1, wins |-> gvTrade[d].read.wins + (IF won THEN 1 ELSE 0)]
             now == [gvTrade[d] EXCEPT !.at = "measuring", !.won = won, !.read = m, !.seen = Stage]
  <2>1. now.at = "measuring" /\ now.left = gvTrade[d].left /\ gvTrade[d].left \in Int BY <1>3 DEF Traded
  <2>2. gvTrade' = [gvTrade EXCEPT ![d] = now] /\ gvTrade[d].at = "closing" BY <1>13 DEF Measure
  <2> HIDE DEF now
  <2>3. UnitsIn(now) = UnitsIn(gvTrade[d]) BY <2>1, <2>2 DEF UnitsIn, Holding
  <2>4. UNCHANGED <<gvExposure, gvParts, gvSlip, gvBlurred>> BY <1>13 DEF Measure
  <2> QED BY <1>2, <2>1, <2>2, <2>3, <2>4, HeldStays
<1>19. ASSUME NEW d \in Trades, WriteStage(d) PROVE ExposureAddsUp'
  <2> DEFINE now == [gvTrade[d] EXCEPT !.at = "measured", !.deep = FALSE, !.read = NoMetrics, !.seen = 0]
  <2>1. now.at = "measured" /\ now.left = gvTrade[d].left /\ gvTrade[d].left \in Int BY <1>3 DEF Traded
  <2>2. gvTrade' = [gvTrade EXCEPT ![d] = now] /\ gvTrade[d].at = "measuring" BY <1>19 DEF WriteStage
  <2> HIDE DEF now
  <2>3. UnitsIn(now) = UnitsIn(gvTrade[d]) BY <2>1, <2>2 DEF UnitsIn, Holding
  <2>4. UNCHANGED <<gvExposure, gvParts, gvSlip, gvBlurred>> BY <1>19 DEF WriteStage
  <2> QED BY <1>2, <2>1, <2>2, <2>3, <2>4, HeldStays
<1>14. ASSUME NEW d \in Trades, RecordOutcome(d) PROVE ExposureAddsUp'
  <2>1. CASE gvBlurred' = TRUE BY <1>6, <2>1
  <2>2. CASE gvExposure' = Floor(gvExposure - gvTrade[d].left, 0) /\ UNCHANGED gvBlurred
    <3> DEFINE now == [Requested EXCEPT !.at = "closed"]
    <3>1. now.at = "closed" /\ now.left = 0 BY DEF Requested
    <3>2. gvTrade' = [gvTrade EXCEPT ![d] = now] /\ gvTrade[d].at = "measured" /\ UNCHANGED <<gvParts, gvSlip>> BY <1>14 DEF RecordOutcome
    <3>0. now.left \in Int BY <3>1, <3>2
    <3> HIDE DEF now
    <3>3. SumOf(HeldUnits)' = SumOf(HeldUnits) + (UnitsIn(now) - UnitsIn(gvTrade[d])) BY <1>2, <3>0, <3>2, HeldMoves
    <3>4. UnitsIn(now) = 0 /\ UnitsIn(gvTrade[d]) = gvTrade[d].left BY <3>1, <3>2 DEF UnitsIn, Holding
    <3>5. gvTrade[d].left \in Nat /\ gvTrade[d].left <= SumOf(HeldUnits) BY <1>3, <1>4, <3>4
    <3>6. SumOf(HeldUnits)' = SumOf(HeldUnits) - gvTrade[d].left BY <1>4, <3>3, <3>4, <3>5
    <3>7. PICK u \in Nat : u = gvTrade[d].left /\ u <= SumOf(HeldUnits) BY <3>5
    <3>8. gvExposure' \in Nat /\ gvExposure' >= gvExposure - u /\ (gvExposure' = 0 \/ gvExposure' = gvExposure - u)
      BY <1>5, <2>2, <3>7 DEF Floor
    <3>9. ASSUME ~gvBlurred PROVE gvExposure <= SumOf(HeldUnits) + gvParts + gvSlip /\ SumOf(HeldUnits) + gvParts <= gvExposure + gvSlip
      BY <3>9 DEF ExposureAddsUp
    <3>10. ASSUME ~gvBlurred
           PROVE  /\ gvExposure' <= SumOf(HeldUnits)' + gvParts' + gvSlip'
                  /\ SumOf(HeldUnits)' + gvParts' <= gvExposure' + gvSlip'
      <4>1. SumOf(HeldUnits) \in Nat /\ SumOf(HeldUnits)' = SumOf(HeldUnits) - u /\ gvParts' = gvParts /\ gvSlip' = gvSlip
        BY <1>4, <3>2, <3>6, <3>7
      <4> QED BY ONLY <4>1, <1>5, <3>7, <3>8, <3>9, <3>10
    <3> QED BY <2>2, <3>10 DEF ExposureAddsUp
  <2> QED BY <1>14, <2>1, <2>2 DEF RecordOutcome, Overwritten
<1>15. ASSUME NEW d \in Trades, OutcomeLost(d) PROVE ExposureAddsUp' BY <1>6, <1>15 DEF OutcomeLost
<1>16. CASE NextHour \/ NextDay \/ StatusExpires \/ CooldownPasses \/ SetProfile
  BY <1>7, <1>16 DEF NextHour, NextDay, StatusExpires, CooldownPasses, SetProfile
<1>17. CASE ExposureExpires BY <1>6, <1>17 DEF ExposureExpires
<1>18. CASE UNCHANGED gvVars BY <1>7, <1>18 DEF gvVars
<1> QED BY <1>8, <1>9, <1>10, <1>11, <1>12, <1>13, <1>14, <1>15, <1>16, <1>17, <1>18, <1>19 DEF GvNext

(* Whatever is gated, booked and closed in whatever parts, and unless two    *)
(* processes wrote it at once, a close broke off or it expired, the recorded *)
(* exposure is what the trades hold and what was closed in parts, which no   *)
(* close takes off again (MetaController.record_trade_outcome), up to what    *)
(* orders executed less, or more, than the requests that were added asked.   *)
THEOREM ExposureIsKept == GvSpec => []ExposureKept
<1>1. GvInit => GovernanceInv /\ GovernedUnits /\ ExposureAddsUp BY GovernanceInit, UnitsInit, ExposureInit
<1>2. GovernanceInv /\ GovernedUnits /\ ExposureAddsUp /\ [GvNext]_gvVars
        => GovernanceInv' /\ GovernedUnits' /\ ExposureAddsUp'
  BY GovernanceNext, UnitsNext, ExposureNext
<1>3. GovernanceInv /\ ExposureAddsUp => ExposureKept
  BY ExposureAsSum DEF GovernanceInv, ExposureAddsUp, ExposureKept
<1> QED BY <1>1, <1>2, <1>3, PTL DEF GvSpec

-----------------------------------------------------------------------------
(* The parts side by side.                                                  *)

(* What each part keeps whenever it moves. *)
PartsInv ==
    /\ RowsInv /\ TypesInv
    /\ BacktestInv /\ JobBounds
    /\ ReleaseInv /\ ReleaseTypes
    /\ AgreeInv /\ GuardInv /\ ModelCounts
    /\ PbTypeOK
    /\ MemoryInv /\ SignalTypes
    /\ GovernanceInv /\ GovernedUnits

(* They start in their initial states.                                      *)
LEMMA PartsInit == Init => PartsInv
<1>1. Init => SaInit /\ BjInit /\ RlInit /\ MdInit /\ PbInit /\ EvInit /\ GvInit BY DEF Init
<1> QED BY <1>1, RowsInit, TypesInit, BacktestInit, BoundsInit, ReleaseInvInit, ReleaseTypesInit, AgreeInit, GuardInit,
           ModelCountsInit, LearningInit, MemoryInit, SignalTypesInit, GovernanceInit, UnitsInit DEF PartsInv

(* One part moves by a step of its own, and the others by none. *)
LEMMA PartsMove ==
    [Next]_vars => /\ [SaNext]_saVars /\ [BjNext]_bjVars /\ [RlNext]_rlVars /\ [MdNext]_mdVars
                   /\ [PbNext]_pbVars /\ [EvNext]_evVars /\ [GvNext]_gvVars
<1>1. ASSUME NEW d \in Trades, Gate(d) PROVE GvNext BY <1>1 DEF GvNext
<1>2. Next => /\ [SaNext]_saVars /\ [BjNext]_bjVars /\ [RlNext]_rlVars /\ [MdNext]_mdVars
              /\ [PbNext]_pbVars /\ [EvNext]_evVars /\ [GvNext]_gvVars
  BY <1>1 DEF Next, Only
<1>3. UNCHANGED vars => UNCHANGED <<saVars, bjVars, rlVars, mdVars, pbVars, evVars, gvVars>>
  BY DEF vars
<1> QED BY <1>2, <1>3

(* The invariants of the parts hold together.                               *)
LEMMA PartsNext == PartsInv /\ [Next]_vars => PartsInv'
<1> SUFFICES ASSUME PartsInv, [Next]_vars PROVE PartsInv'
  OBVIOUS
<1>1. /\ [SaNext]_saVars /\ [BjNext]_bjVars /\ [RlNext]_rlVars /\ [MdNext]_mdVars
      /\ [PbNext]_pbVars /\ [EvNext]_evVars /\ [GvNext]_gvVars
  BY PartsMove
<1>2. RowsInv' /\ TypesInv' BY <1>1, RowsStep, TypesStep DEF PartsInv
<1>3. BacktestInv' BY <1>1, BacktestNext DEF PartsInv
<1>4. JobBounds' BY <1>1, <1>3, BoundsNext DEF PartsInv
<1>5. ReleaseInv' /\ ReleaseTypes' BY <1>1, ReleaseInvNext, ReleaseTypesNext DEF PartsInv
<1>6. AgreeInv' /\ GuardInv' /\ ModelCounts' BY <1>1, AgreeNext, GuardNext, ModelCountsNext DEF PartsInv
<1>7. PbTypeOK' BY <1>1, LearningNext DEF PartsInv
<1>8. MemoryInv' /\ SignalTypes' BY <1>1, MemoryNext, SignalTypesNext DEF PartsInv
<1>9. GovernanceInv' /\ GovernedUnits' BY <1>1, GovernanceNext, UnitsNext DEF PartsInv
<1> QED BY <1>2, <1>3, <1>4, <1>5, <1>6, <1>7, <1>8, <1>9 DEF PartsInv

(* The parts side by side keep their types, for any constants that their     *)
(* assumptions allow.                                                        *)
THEOREM PlatformIsTyped == Spec => []TypesOK
<1>1. Init => PartsInv BY PartsInit
<1>2. PartsInv /\ [Next]_vars => PartsInv' BY PartsNext
<1>3. PartsInv => TypesOK
  BY TypesAre, JobsTyped, ReleasesTyped, ModelsTyped, EvaluationIsTyped, UnitsAreTyped DEF PartsInv, TypesOK
<1> QED BY <1>1, <1>2, <1>3, PTL DEF Spec
=============================================================================
