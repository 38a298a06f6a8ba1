----------------------------- MODULE SiftProofs -----------------------------
(***************************************************************************)
(* What holds of judgements and reviews for any number of batches, cases   *)
(* and connections.                                                        *)
(***************************************************************************)
EXTENDS Sift, TLAPS

(* The tables keep their types. *)
LEMMA KeepRows ==
  ASSUME TypeOK, [Next]_vars PROVE RowsOK'
<1> USE ActorAssumption, VerdictAssumption, SizeAssumption
<1>1. ASSUME NEW b \in Batch, Begin(b)
      PROVE  RowsOK'
  BY <1>1 DEF Begin, Move, Served, TypeOK, RowsOK, BatchesOK, Request, rows
<1>2. ASSUME NEW b \in Batch, Read(b)
      PROVE  RowsOK'
  BY <1>2 DEF Read, Move, Rejected, TypeOK, RowsOK, BatchesOK, Request, rows
<1>3. ASSUME NEW b \in Batch, Update(b)
      PROVE  RowsOK'
  BY <1>3 DEF Update, Move, Locked, TypeOK, RowsOK, BatchesOK, Request, rows
<1>4. ASSUME NEW b \in Batch, IdleTimeout(b)
      PROVE  RowsOK'
  BY <1>4 DEF IdleTimeout, Move, TypeOK, RowsOK, BatchesOK, Request, rows
<1>5. ASSUME NEW b \in Batch, Record(b)
      PROVE  RowsOK'
  BY <1>5 DEF Record, Move, Served, TypeOK, RowsOK, BatchesOK, Request, rows
<1>6. ASSUME NEW b \in Batch, Commit(b)
      PROVE  RowsOK'
  <2>1. call[b] \in Request /\ targets[b] \subseteq Case
    BY <1>6 DEF Commit, VerdictOf, TypeOK, BatchesOK
  <2>2. status' \in [Case -> Verdict \cup {"unjudged"}]
    BY <1>6, <2>1 DEF Commit, VerdictOf, Request, TypeOK, RowsOK
  <2>3. judgedBy' \in [Case -> Batch \cup {Nobody, Earlier}]
    BY <1>6, <2>1 DEF Commit, VerdictOf, Stamp, TypeOK, RowsOK
  <2>4. reviewedBy' \in [Case -> Batch \cup {Nobody, Earlier}]
    BY <1>6, <2>1 DEF Commit, VerdictOf, Stamp, TypeOK, RowsOK
  <2>5. ordered' \cup unlogged' \cup overlapped' \subseteq Case /\ faults' \in 0 .. MaxFaults
    BY <1>6, <2>1 DEF Commit, VerdictOf, TypeOK, RowsOK
  <2> QED
    BY <2>2, <2>3, <2>4, <2>5 DEF RowsOK
<1>7. ASSUME NEW b \in Batch, Fail(b)
      PROVE  RowsOK'
  BY <1>7 DEF Fail, Move, TypeOK, RowsOK, BatchesOK, Request, rows
<1>8. ASSUME NEW b \in Batch, NEW mode \in {"JUDGE", "REVIEW"},
             NEW ids \in SUBSET Case \ {{}}, NEW to \in Verdict, Ask(b, mode, ids, to)
      PROVE  RowsOK'
  BY <1>8 DEF Ask, Move, IsNext, TypeOK, RowsOK, BatchesOK, Request, rows
<1>9. ASSUME NEW c \in Case, Order(c)
      PROVE  RowsOK'
  BY <1>9 DEF Order, Move, Locked, ReadBefore, TypeOK, RowsOK, BatchesOK, Request, rows
<1>10. ASSUME NEW c \in Case, NEW asAdmin \in BOOLEAN,
             NEW to \in Verdict \cup {"unjudged"}, SetStatus(c, asAdmin, to)
      PROVE  RowsOK'
  <2>1. status' \in [Case -> Verdict \cup {"unjudged"}]
    BY <1>10 DEF SetStatus, TypeOK, RowsOK
  <2>2. judgedBy' \in [Case -> Batch \cup {Nobody, Earlier}]
    BY <1>10 DEF SetStatus, TypeOK, RowsOK
  <2>3. reviewedBy' \in [Case -> Batch \cup {Nobody, Earlier}]
    BY <1>10 DEF SetStatus, TypeOK, RowsOK
  <2>4. ordered' \cup unlogged' \cup overlapped' \subseteq Case /\ faults' \in 0 .. MaxFaults
    BY <1>10 DEF SetStatus, TypeOK, RowsOK
  <2> QED
    BY <2>1, <2>2, <2>3, <2>4 DEF RowsOK
<1>11. CASE UNCHANGED vars
  BY <1>11 DEF vars, rows, TypeOK, RowsOK, BatchesOK, Request
<1> QED
  BY <1>1, <1>2, <1>3, <1>4, <1>5, <1>6, <1>7, <1>8, <1>9, <1>10, <1>11 DEF Next, Step

(* The progress of the batches keeps its type. *)
LEMMA KeepBatches ==
  ASSUME TypeOK, [Next]_vars PROVE BatchesOK'
<1> USE ActorAssumption, VerdictAssumption, SizeAssumption
<1>1. ASSUME NEW b \in Batch, Begin(b)
      PROVE  BatchesOK'
  BY <1>1 DEF Begin, Move, Served, TypeOK, BatchesOK, Request, rows
<1>2. ASSUME NEW b \in Batch, Read(b)
      PROVE  BatchesOK'
  BY <1>2 DEF Read, Move, Rejected, TypeOK, BatchesOK, Request, rows
<1>3. ASSUME NEW b \in Batch, Update(b)
      PROVE  BatchesOK'
  BY <1>3 DEF Update, Move, Locked, TypeOK, BatchesOK, Request, rows
<1>4. ASSUME NEW b \in Batch, IdleTimeout(b)
      PROVE  BatchesOK'
  BY <1>4 DEF IdleTimeout, Move, TypeOK, BatchesOK, Request, rows
<1>5. ASSUME NEW b \in Batch, Record(b)
      PROVE  BatchesOK'
  BY <1>5 DEF Record, Move, Served, TypeOK, BatchesOK, Request, rows
<1>6. ASSUME NEW b \in Batch, Commit(b)
      PROVE  BatchesOK'
  BY <1>6 DEF Commit, Move, VerdictOf, Stamp, ReadBefore, TypeOK, BatchesOK, Request, rows
<1>7. ASSUME NEW b \in Batch, Fail(b)
      PROVE  BatchesOK'
  BY <1>7 DEF Fail, Move, TypeOK, BatchesOK, Request, rows
<1>8. ASSUME NEW b \in Batch, NEW mode \in {"JUDGE", "REVIEW"},
             NEW ids \in SUBSET Case \ {{}}, NEW to \in Verdict, Ask(b, mode, ids, to)
      PROVE  BatchesOK'
  BY <1>8 DEF Ask, Move, IsNext, TypeOK, BatchesOK, Request, rows
<1>9. ASSUME NEW c \in Case, Order(c)
      PROVE  BatchesOK'
  BY <1>9 DEF Order, Move, Locked, ReadBefore, TypeOK, BatchesOK, Request, rows
<1>10. ASSUME NEW c \in Case, NEW asAdmin \in BOOLEAN,
             NEW to \in Verdict \cup {"unjudged"}, SetStatus(c, asAdmin, to)
      PROVE  BatchesOK'
  BY <1>10 DEF SetStatus, Move, Locked, TypeOK, BatchesOK, Request, rows
<1>11. CASE UNCHANGED vars
  BY <1>11 DEF vars, rows, TypeOK, BatchesOK, Request
<1> QED
  BY <1>1, <1>2, <1>3, <1>4, <1>5, <1>6, <1>7, <1>8, <1>9, <1>10, <1>11 DEF Next, Step

(* The histories are sequences of lines. *)
HistoriesOK == history \in [Case -> Seq(Line)]

(* The histories keep their type. *)
LEMMA KeepHistories ==
  ASSUME TypeOK, [Next]_vars PROVE HistoriesOK'
<1> USE ActorAssumption, VerdictAssumption, SizeAssumption
<1>1. ASSUME NEW b \in Batch, Begin(b)
      PROVE  HistoriesOK'
  BY <1>1 DEF Begin, Move, Served, TypeOK, HistoriesOK, rows
<1>2. ASSUME NEW b \in Batch, Read(b)
      PROVE  HistoriesOK'
  BY <1>2 DEF Read, Move, Rejected, TypeOK, HistoriesOK, rows
<1>3. ASSUME NEW b \in Batch, Update(b)
      PROVE  HistoriesOK'
  BY <1>3 DEF Update, Move, Locked, TypeOK, HistoriesOK, rows
<1>4. ASSUME NEW b \in Batch, IdleTimeout(b)
      PROVE  HistoriesOK'
  BY <1>4 DEF IdleTimeout, Move, TypeOK, HistoriesOK, rows
<1>5. ASSUME NEW b \in Batch, Record(b)
      PROVE  HistoriesOK'
  <2>1. CASE history' = history
    BY <2>1 DEF TypeOK, HistoriesOK
  <2>2. CASE history' # history
    <3>1. pc[b] \in {"updated", "killed"} /\ call[b] \in Request
      BY <1>5 DEF Record, TypeOK, BatchesOK
    <3>2. PICK e \in Line : e = [by |-> b, to |-> call[b].to]
      BY <3>1 DEF Line, Request
    <3>3. history' = [c \in Case |-> IF c \in targets[b] THEN Append(history[c], e) ELSE history[c]]
      BY <1>5, <2>2, <3>2 DEF Record
    <3>4. \A s \in Seq(Line) : Append(s, e) \in Seq(Line)
      OBVIOUS
    <3>5. history \in [Case -> Seq(Line)]
      BY DEF TypeOK
    <3> QED
      BY <3>3, <3>4, <3>5 DEF HistoriesOK
  <2> QED
    BY <2>1, <2>2
<1>6. ASSUME NEW b \in Batch, Commit(b)
      PROVE  HistoriesOK'
  BY <1>6 DEF Commit, Move, VerdictOf, Stamp, ReadBefore, TypeOK, HistoriesOK, rows
<1>7. ASSUME NEW b \in Batch, Fail(b)
      PROVE  HistoriesOK'
  BY <1>7 DEF Fail, Move, TypeOK, HistoriesOK, rows
<1>8. ASSUME NEW b \in Batch, NEW mode \in {"JUDGE", "REVIEW"},
             NEW ids \in SUBSET Case \ {{}}, NEW to \in Verdict, Ask(b, mode, ids, to)
      PROVE  HistoriesOK'
  BY <1>8 DEF Ask, Move, IsNext, TypeOK, HistoriesOK, rows
<1>9. ASSUME NEW c \in Case, Order(c)
      PROVE  HistoriesOK'
  BY <1>9 DEF Order, Move, Locked, ReadBefore, TypeOK, HistoriesOK, rows
<1>10. ASSUME NEW c \in Case, NEW asAdmin \in BOOLEAN,
             NEW to \in Verdict \cup {"unjudged"}, SetStatus(c, asAdmin, to)
      PROVE  HistoriesOK'
  BY <1>10 DEF SetStatus, Move, Locked, TypeOK, HistoriesOK, rows
<1>11. CASE UNCHANGED vars
  BY <1>11 DEF vars, rows, TypeOK, HistoriesOK
<1> QED
  BY <1>1, <1>2, <1>3, <1>4, <1>5, <1>6, <1>7, <1>8, <1>9, <1>10, <1>11 DEF Next, Step

(* Every variable has its type, in every reachable state. *)
THEOREM SiftTypes == Spec => []TypeOK
<1>1. Init => TypeOK
  BY ActorAssumption, VerdictAssumption, SizeAssumption
     DEF Init, TypeOK, RowsOK, BatchesOK, Line
<1>2. TypeOK /\ [Next]_vars => TypeOK'
  BY KeepRows, KeepBatches, KeepHistories DEF TypeOK, HistoriesOK
<1> QED
  BY <1>1, <1>2, PTL DEF Spec

(* No two batches hold the lock of a row. *)
LocksApart ==
    \A b, d \in Batch : b # d /\ pc[b] \in {"updated", "recorded"} /\ pc[d] \in {"updated", "recorded"}
                        => targets[b] \cap targets[d] = {}

(* A row that a batch has read is as it was read, unless it is marked. *)
ReadStands ==
    \A b \in Batch : pc[b] \in {"read", "updated", "recorded"} =>
        \A c \in targets[b] \ overlapped : ~Rejected(c, call[b].mode)

SettledInv == LocksApart /\ ReadStands

(* Locks and reads stand from step to step. *)
LEMMA KeepSettled ==
  ASSUME TypeOK, SettledInv, [Next]_vars PROVE SettledInv'
<1> USE ActorAssumption, VerdictAssumption
<1>1. ASSUME NEW b \in Batch, Begin(b)
      PROVE  SettledInv'
  BY <1>1 DEF Begin, Move, Served, TypeOK, RowsOK, BatchesOK, Request, SettledInv, LocksApart, ReadStands, Rejected, rows
<1>2. ASSUME NEW b \in Batch, Read(b)
      PROVE  SettledInv'
  BY <1>2 DEF Read, Move, Rejected, TypeOK, RowsOK, BatchesOK, Request, SettledInv, LocksApart, ReadStands, Rejected, rows
<1>3. ASSUME NEW b \in Batch, Update(b)
      PROVE  SettledInv'
  BY <1>3 DEF Update, Move, Locked, TypeOK, RowsOK, BatchesOK, Request, SettledInv, LocksApart, ReadStands, Rejected, rows
<1>4. ASSUME NEW b \in Batch, IdleTimeout(b)
      PROVE  SettledInv'
  BY <1>4 DEF IdleTimeout, Move, TypeOK, RowsOK, BatchesOK, Request, SettledInv, LocksApart, ReadStands, Rejected, rows
<1>5. ASSUME NEW b \in Batch, Record(b)
      PROVE  SettledInv'
  BY <1>5 DEF Record, Move, Served, TypeOK, RowsOK, BatchesOK, Request, SettledInv, LocksApart, ReadStands, Rejected, rows
<1>6. ASSUME NEW b \in Batch, Commit(b)
      PROVE  SettledInv'
  BY <1>6 DEF Commit, Move, VerdictOf, Stamp, ReadBefore, TypeOK, RowsOK, BatchesOK, Request, SettledInv, LocksApart, ReadStands, Rejected, rows
<1>7. ASSUME NEW b \in Batch, Fail(b)
      PROVE  SettledInv'
  BY <1>7 DEF Fail, Move, TypeOK, RowsOK, BatchesOK, Request, SettledInv, LocksApart, ReadStands, Rejected, rows
<1>8. ASSUME NEW b \in Batch, NEW mode \in {"JUDGE", "REVIEW"},
             NEW ids \in SUBSET Case \ {{}}, NEW to \in Verdict, Ask(b, mode, ids, to)
      PROVE  SettledInv'
  BY <1>8 DEF Ask, Move, IsNext, TypeOK, RowsOK, BatchesOK, Request, SettledInv, LocksApart, ReadStands, Rejected, rows
<1>9. ASSUME NEW c \in Case, Order(c)
      PROVE  SettledInv'
  BY <1>9 DEF Order, Move, Locked, ReadBefore, TypeOK, RowsOK, BatchesOK, Request, SettledInv, LocksApart, ReadStands, Rejected, rows
<1>10. ASSUME NEW c \in Case, NEW asAdmin \in BOOLEAN,
             NEW to \in Verdict \cup {"unjudged"}, SetStatus(c, asAdmin, to)
      PROVE  SettledInv'
  BY <1>10 DEF SetStatus, Move, Locked, TypeOK, RowsOK, BatchesOK, Request, SettledInv, LocksApart, ReadStands, Rejected, rows
<1>11. CASE UNCHANGED vars
  BY <1>11 DEF vars, rows, TypeOK, RowsOK, BatchesOK, Request, SettledInv, LocksApart, ReadStands, Rejected
<1> QED
  BY <1>1, <1>2, <1>3, <1>4, <1>5, <1>6, <1>7, <1>8, <1>9, <1>10, <1>11 DEF Next, Step

(* A settled case only changes through the gap between a batch's read and  *)
(* its update.                                                             *)
THEOREM SettledCasesStay == Spec => SettledStays
<1>1. Init => SettledInv
  BY DEF Init, SettledInv, LocksApart, ReadStands
<1>2. TypeOK /\ SettledInv /\ [Next]_vars => SettledInv'
  BY KeepSettled
<1>3. TypeOK /\ SettledInv /\ [Next]_vars =>
        [pc' # pc =>
           \A c \in Case \ overlapped :
              /\ reviewedBy[c] # Nobody => judgedBy'[c] = judgedBy[c]
              /\ c \in ordered => status'[c] = status[c]]_vars
  <2> SUFFICES ASSUME TypeOK, SettledInv, [Next]_vars, pc' # pc, NEW c \in Case \ overlapped
               PROVE  /\ reviewedBy[c] # Nobody => judgedBy'[c] = judgedBy[c]
                      /\ c \in ordered => status'[c] = status[c]
    OBVIOUS
  <2>1. CASE UNCHANGED <<status, judgedBy>>
    BY <2>1
  <2>2. CASE \E b \in Batch : Commit(b)
    <3>1. PICK b \in Batch : Commit(b)
      BY <2>2
    <3>2. CASE c \notin targets[b]
      BY <3>1, <3>2 DEF Commit, VerdictOf, Stamp, TypeOK, RowsOK
    <3>3. CASE c \in targets[b]
      <4>1. ~Rejected(c, call[b].mode) /\ call[b].mode \in {"JUDGE", "REVIEW"}
        BY <3>1, <3>3 DEF Commit, VerdictOf, SettledInv, ReadStands, TypeOK, BatchesOK, Request
      <4>2. c \notin ordered
        BY <4>1 DEF Rejected
      <4>3. reviewedBy[c] # Nobody => call[b].mode # "JUDGE"
        BY <4>1 DEF Rejected
      <4> QED
        BY <3>1, <4>2, <4>3 DEF Commit, VerdictOf
    <3> QED
      BY <3>2, <3>3
  <2>3. UNCHANGED <<status, judgedBy>> \/ \E b \in Batch : Commit(b)
    BY DEF Next, Step, vars, rows, Ask, Begin, Read, Update, Fail, IdleTimeout, Record, Order,
           SetStatus
  <2> QED
    BY <2>1, <2>2, <2>3
<1> QED
  BY <1>1, <1>2, <1>3, SiftTypes, PTL DEF Spec, SettledStays

(* The line of a batch that has recorded is the last one of its cases; any *)
(* other case's last line tells its status.                                *)
Recorded(c) == {b \in Batch : pc[b] = "recorded" /\ c \in targets[b]}

LinesTell ==
    \A c \in Case \ unlogged :
       /\ \A b \in Recorded(c) : /\ history[c] # <<>>
                                 /\ history[c][Len(history[c])].to = call[b].to
       /\ Recorded(c) = {} /\ history[c] # <<>> => history[c][Len(history[c])].to = status[c]

(* Lines and statuses agree from step to step. *)
LEMMA KeepLines ==
  ASSUME TypeOK, SettledInv, LinesTell, [Next]_vars PROVE LinesTell'
<1> USE ActorAssumption, VerdictAssumption
<1>1. ASSUME NEW b \in Batch, Begin(b)
      PROVE  LinesTell'
  BY <1>1 DEF Begin, Move, Served, TypeOK, RowsOK, BatchesOK, LinesTell, Recorded, rows
<1>2. ASSUME NEW b \in Batch, Read(b)
      PROVE  LinesTell'
  BY <1>2 DEF Read, Move, Rejected, TypeOK, RowsOK, BatchesOK, LinesTell, Recorded, rows
<1>3. ASSUME NEW b \in Batch, Update(b)
      PROVE  LinesTell'
  BY <1>3 DEF Update, Move, Locked, TypeOK, RowsOK, BatchesOK, LinesTell, Recorded, rows
<1>4. ASSUME NEW b \in Batch, IdleTimeout(b)
      PROVE  LinesTell'
  BY <1>4 DEF IdleTimeout, Move, TypeOK, RowsOK, BatchesOK, LinesTell, Recorded, rows
<1>5. ASSUME NEW b \in Batch, Record(b)
      PROVE  LinesTell'
  <2> SUFFICES ASSUME NEW c \in Case \ unlogged'
               PROVE  /\ \A d \in Recorded(c)' : /\ history'[c] # <<>>
                                                 /\ history'[c][Len(history'[c])].to = call'[d].to
                      /\ Recorded(c)' = {} /\ history'[c] # <<>>
                         => history'[c][Len(history'[c])].to = status'[c]
    BY DEF LinesTell
  <2>1. c \notin unlogged /\ call' = call /\ status' = status /\ targets' = targets
    BY <1>5 DEF Record, rows
  <2>2. \A d \in Batch : d # b => pc'[d] = pc[d]
    BY <1>5 DEF Record, Move, TypeOK, BatchesOK
  <2>3. CASE c \notin targets[b]
    <3>1. history'[c] = history[c] /\ Recorded(c)' = Recorded(c)
      BY <1>5, <2>1, <2>2, <2>3 DEF Record, Recorded
    <3> QED
      BY <2>1, <3>1 DEF LinesTell
  <2>4. CASE c \in targets[b]
    <3>1. pc[b] = "updated" /\ pc'[b] = "recorded"
      BY <1>5, <2>4 DEF Record, Move, TypeOK, BatchesOK
    <3>2. PICK e \in Line : e = [by |-> b, to |-> call[b].to]
      BY <3>1 DEF Line, Request, TypeOK, BatchesOK
    <3>3. history'[c] = Append(history[c], e)
      BY <1>5, <2>4, <3>2 DEF Record
    <3>4. history[c] \in Seq(Line)
      BY DEF TypeOK
    <3>5. history'[c] # <<>> /\ history'[c][Len(history'[c])] = e
      <4>1. \A s \in Seq(Line) : /\ Append(s, e) # <<>>
                                 /\ Append(s, e)[Len(Append(s, e))] = e
        BY <3>2
      <4> QED
        BY <3>3, <3>4, <4>1
    <3>6. Recorded(c)' = {b}
      BY <2>1, <2>2, <2>4, <3>1 DEF Recorded, SettledInv, LocksApart
    <3> QED
      BY <2>1, <3>2, <3>5, <3>6
  <2> QED
    BY <2>3, <2>4
<1>6. ASSUME NEW b \in Batch, Commit(b)
      PROVE  LinesTell'
  <2> SUFFICES ASSUME NEW c \in Case \ unlogged'
               PROVE  /\ \A d \in Recorded(c)' : /\ history'[c] # <<>>
                                                 /\ history'[c][Len(history'[c])].to = call'[d].to
                      /\ Recorded(c)' = {} /\ history'[c] # <<>>
                         => history'[c][Len(history'[c])].to = status'[c]
    BY DEF LinesTell
  <2>1. c \notin unlogged /\ call' = call /\ history' = history /\ targets' = targets
    BY <1>6 DEF Commit, VerdictOf
  <2>2. pc[b] = "recorded" /\ pc' = [pc EXCEPT ![b] = "done"]
    BY <1>6 DEF Commit, VerdictOf, Move
  <2>3. Recorded(c)' = Recorded(c) \ {b}
    BY <2>1, <2>2 DEF Recorded, TypeOK, BatchesOK
  <2>4. CASE c \in targets[b]
    <3>1. b \in Recorded(c) /\ status'[c] = call[b].to
      BY <1>6, <2>2, <2>4 DEF Commit, VerdictOf, Recorded
    <3>2. Recorded(c) = {b}
      BY <3>1 DEF Recorded, SettledInv, LocksApart
    <3> QED
      BY <2>1, <2>3, <3>1, <3>2 DEF LinesTell
  <2>5. CASE c \notin targets[b]
    <3>1. b \notin Recorded(c) /\ status'[c] = status[c]
      BY <1>6, <2>5 DEF Commit, VerdictOf, Recorded, TypeOK, RowsOK
    <3> QED
      BY <2>1, <2>3, <3>1 DEF LinesTell
  <2> QED
    BY <2>4, <2>5
<1>7. ASSUME NEW b \in Batch, Fail(b)
      PROVE  LinesTell'
  BY <1>7 DEF Fail, Move, TypeOK, RowsOK, BatchesOK, LinesTell, Recorded, rows
<1>8. ASSUME NEW b \in Batch, NEW mode \in {"JUDGE", "REVIEW"},
             NEW ids \in SUBSET Case \ {{}}, NEW to \in Verdict, Ask(b, mode, ids, to)
      PROVE  LinesTell'
  BY <1>8 DEF Ask, Move, IsNext, TypeOK, RowsOK, BatchesOK, LinesTell, Recorded, rows
<1>9. ASSUME NEW c \in Case, Order(c)
      PROVE  LinesTell'
  BY <1>9 DEF Order, Move, Locked, ReadBefore, TypeOK, RowsOK, BatchesOK, LinesTell, Recorded, rows
<1>10. ASSUME NEW c \in Case, NEW asAdmin \in BOOLEAN,
             NEW to \in Verdict \cup {"unjudged"}, SetStatus(c, asAdmin, to)
      PROVE  LinesTell'
  BY <1>10 DEF SetStatus, Move, Locked, TypeOK, RowsOK, BatchesOK, LinesTell, Recorded, rows
<1>11. CASE UNCHANGED vars
  BY <1>11 DEF vars, rows, TypeOK, RowsOK, BatchesOK, LinesTell, Recorded
<1> QED
  BY <1>1, <1>2, <1>3, <1>4, <1>5, <1>6, <1>7, <1>8, <1>9, <1>10, <1>11 DEF Next, Step

(* Outside a batch, the last line of a case tells its status. *)
THEOREM HistoryTellsStatus == Spec => []LastLineTells
<1>1. Init => SettledInv /\ LinesTell
  BY DEF Init, SettledInv, LocksApart, ReadStands, LinesTell, Recorded
<1>2. TypeOK /\ SettledInv /\ LinesTell /\ [Next]_vars => SettledInv' /\ LinesTell'
  BY KeepSettled, KeepLines
<1>3. LinesTell => LastLineTells
  BY DEF LinesTell, LastLineTells, Recorded, Locked
<1> QED
  BY <1>1, <1>2, <1>3, SiftTypes, PTL DEF Spec
=============================================================================
