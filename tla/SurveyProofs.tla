---------------------------- MODULE SurveyProofs ----------------------------
(***************************************************************************)
(* What holds of surveys for any number of orders, cases and calls.        *)
(***************************************************************************)
EXTENDS Survey, TLAPS

(* The tables keep their types. *)
LEMMA KeepRowsOK ==
  ASSUME TypeOK, [Next]_vars PROVE RowsOK'
<1> USE OrderAssumption, CaseAssumption, BoundAssumption
<1>1. ASSUME NEW p \in Phone, NEW c \in App, NEW o \in Order,
                NEW t \in DetailsOf(o) \cup {NoDetail}, LookUp(p, c, o, t)
      PROVE  RowsOK'
  BY <1>1 DEF LookUp, DetailsOf, TypeOK, RowsOK, PhonesOK, Request, DesksOK, Call, BatchCall, Transfer, cases, numbers, lines, marks, Case, Idle
<1>2. ASSUME NEW p \in Phone, Insert(p)
      PROVE  RowsOK'
  BY <1>2 DEF Insert, TypeOK, RowsOK, PhonesOK, Request, DesksOK, Call, BatchCall, Transfer, cases, numbers, lines, marks, Case, Idle
<1>3. ASSUME NEW p \in Phone, Record(p)
      PROVE  RowsOK'
  BY <1>3 DEF Record, Faulty, TypeOK, RowsOK, PhonesOK, Request, DesksOK, Call, BatchCall, Transfer, cases, numbers, lines, marks, Case, Idle
<1>4. ASSUME NEW p \in Phone, Answer(p)
      PROVE  RowsOK'
  BY <1>4 DEF Answer, TypeOK, RowsOK, PhonesOK, Request, DesksOK, Call, BatchCall, Transfer, cases, numbers, lines, marks, Case, Idle
<1>5. ASSUME NEW p \in Phone, PhoneFails(p)
      PROVE  RowsOK'
  BY <1>5 DEF PhoneFails, Faulty, TypeOK, RowsOK, PhonesOK, Request, DesksOK, Call, BatchCall, Transfer, cases, numbers, lines, marks, Case, Idle
<1>6. ASSUME NEW o \in Order, NEW to \in {"DRAFT", "CLOSED"}, SaveOrder(o, to)
      PROVE  RowsOK'
  BY <1>6 DEF SaveOrder, Reading, TypeOK, RowsOK, PhonesOK, Request, DesksOK, Call, BatchCall, Transfer, cases, numbers, lines, marks, Case, Idle
<1>7. ASSUME NEW c \in Case, NEW o \in Order, SaveCase(c, o)
      PROVE  RowsOK'
  BY <1>7 DEF SaveCase, Reading, TypeOK, RowsOK, PhonesOK, Request, DesksOK, Call, BatchCall, Transfer, cases, numbers, lines, marks, Case, Idle
<1>8. ASSUME NEW d \in Desk, NEW ids \in SUBSET Case, NEW to \in {"DONE", "DELETED"},
                ReadBatch(d, ids, to)
      PROVE  RowsOK'
  BY <1>8 DEF ReadBatch, TypeOK, RowsOK, PhonesOK, Request, DesksOK, Call, BatchCall, Transfer, cases, numbers, lines, marks, Case, Idle
<1>9. ASSUME NEW d \in Desk, NEW ids \in SUBSET Case, NEW o \in Order,
                NEW t \in DetailsOf(o) \cup {NoDetail}, CheckTarget(d, ids, o, t)
      PROVE  RowsOK'
  BY <1>9 DEF CheckTarget, DetailsOf, TypeOK, RowsOK, PhonesOK, Request, DesksOK, Call, BatchCall, Transfer, cases, numbers, lines, marks, Case, Idle
<1>10. ASSUME NEW d \in Desk, ReadRows(d)
      PROVE  RowsOK'
  BY <1>10 DEF ReadRows, TypeOK, RowsOK, PhonesOK, Request, DesksOK, Call, BatchCall, Transfer, cases, numbers, lines, marks, Case, Idle
<1>11. ASSUME NEW d \in Desk, NEW k \in Outcome, WriteBatch(d, k)
      PROVE  RowsOK'
  BY <1>11 DEF WriteBatch, Written, Faulty, Outcome, Unmatched, TypeOK, RowsOK, PhonesOK, Request, DesksOK, Call, BatchCall, Transfer, cases, numbers, lines, marks, Case, Idle
<1>12. ASSUME NEW d \in Desk, NEW k \in Outcome, WriteTransfer(d, k)
      PROVE  RowsOK'
  BY <1>12 DEF WriteTransfer, Written, Faulty, Outcome, Unmatched, MoveLine, Reading, TypeOK, RowsOK, PhonesOK, Request, DesksOK, Call, BatchCall, Transfer, cases, numbers, lines, marks, Case, Idle
<1>13. CASE UNCHANGED vars
  BY <1>13 DEF vars, TypeOK, RowsOK, PhonesOK, Request, DesksOK, Call, BatchCall, Transfer, cases, numbers, lines, marks
<1> QED
  BY <1>1, <1>2, <1>3, <1>4, <1>5, <1>6, <1>7, <1>8, <1>9, <1>10, <1>11, <1>12, <1>13 DEF Next, PhoneStep, DeskStep, Send

(* The histories keep their types. *)
LEMMA KeepLinesOK ==
  ASSUME TypeOK, [Next]_vars PROVE LinesOK'
<1> USE OrderAssumption, CaseAssumption, BoundAssumption
<1>1. ASSUME NEW p \in Phone, NEW c \in App, NEW o \in Order,
                NEW t \in DetailsOf(o) \cup {NoDetail}, LookUp(p, c, o, t)
      PROVE  LinesOK'
  BY <1>1 DEF LookUp, DetailsOf, TypeOK, LinesOK, RowsOK, PhonesOK, Request, DesksOK, Call, BatchCall, Transfer, Line, cases, numbers, lines, marks, Case, Idle
<1>2. ASSUME NEW p \in Phone, Insert(p)
      PROVE  LinesOK'
  BY <1>2 DEF Insert, TypeOK, LinesOK, RowsOK, PhonesOK, Request, DesksOK, Call, BatchCall, Transfer, Line, cases, numbers, lines, marks, Case, Idle
<1>3. ASSUME NEW p \in Phone, Record(p)
      PROVE  LinesOK'
  <2>1. phone[p] \in [at : {"new", "saved"}, case : App, order : Order, detail : Detail \cup {NoDetail}]
    BY <1>3 DEF Record, TypeOK, PhonesOK, Request, Idle
  <2>2. [from |-> phone[p].order, to |-> phone[p].order] \in Line
    BY <2>1 DEF Line
  <2>3. moves \in [Case -> Seq(Line)] /\ status' = status
    BY <1>3 DEF Record, TypeOK, LinesOK
  <2>4. \A m \in Seq(Line), e \in Line : Append(m, e) \in Seq(Line)
    OBVIOUS
  <2>5. moves' \in [Case -> Seq(Line)]
    <3>1. PICK e \in Line : e = [from |-> phone[p].order, to |-> phone[p].order]
      BY <2>2
    <3>2. PICK c \in Case : c = phone[p].case
      BY <2>1 DEF Case
    <3>3. moves' = moves \/ moves' = [moves EXCEPT ![c] = Append(@, e)]
      BY <1>3, <3>1, <3>2 DEF Record
    <3>4. Append(moves[c], e) \in Seq(Line)
      BY <2>3, <2>4
    <3> QED
      BY <2>3, <3>3, <3>4
  <2> QED
    BY <2>3, <2>5 DEF TypeOK, LinesOK
<1>4. ASSUME NEW p \in Phone, Answer(p)
      PROVE  LinesOK'
  BY <1>4 DEF Answer, TypeOK, LinesOK, RowsOK, PhonesOK, Request, DesksOK, Call, BatchCall, Transfer, Line, cases, numbers, lines, marks, Case, Idle
<1>5. ASSUME NEW p \in Phone, PhoneFails(p)
      PROVE  LinesOK'
  BY <1>5 DEF PhoneFails, Faulty, TypeOK, LinesOK, RowsOK, PhonesOK, Request, DesksOK, Call, BatchCall, Transfer, Line, cases, numbers, lines, marks, Case, Idle
<1>6. ASSUME NEW o \in Order, NEW to \in {"DRAFT", "CLOSED"}, SaveOrder(o, to)
      PROVE  LinesOK'
  BY <1>6 DEF SaveOrder, Reading, TypeOK, LinesOK, RowsOK, PhonesOK, Request, DesksOK, Call, BatchCall, Transfer, Line, cases, numbers, lines, marks, Case, Idle
<1>7. ASSUME NEW c \in Case, NEW o \in Order, SaveCase(c, o)
      PROVE  LinesOK'
  BY <1>7 DEF SaveCase, Reading, TypeOK, LinesOK, RowsOK, PhonesOK, Request, DesksOK, Call, BatchCall, Transfer, Line, cases, numbers, lines, marks, Case, Idle
<1>8. ASSUME NEW d \in Desk, NEW ids \in SUBSET Case, NEW to \in {"DONE", "DELETED"},
                ReadBatch(d, ids, to)
      PROVE  LinesOK'
  BY <1>8 DEF ReadBatch, TypeOK, LinesOK, RowsOK, PhonesOK, Request, DesksOK, Call, BatchCall, Transfer, Line, cases, numbers, lines, marks, Case, Idle
<1>9. ASSUME NEW d \in Desk, NEW ids \in SUBSET Case, NEW o \in Order,
                NEW t \in DetailsOf(o) \cup {NoDetail}, CheckTarget(d, ids, o, t)
      PROVE  LinesOK'
  BY <1>9 DEF CheckTarget, DetailsOf, TypeOK, LinesOK, RowsOK, PhonesOK, Request, DesksOK, Call, BatchCall, Transfer, Line, cases, numbers, lines, marks, Case, Idle
<1>10. ASSUME NEW d \in Desk, ReadRows(d)
      PROVE  LinesOK'
  BY <1>10 DEF ReadRows, TypeOK, LinesOK, RowsOK, PhonesOK, Request, DesksOK, Call, BatchCall, Transfer, Line, cases, numbers, lines, marks, Case, Idle
<1>11. ASSUME NEW d \in Desk, NEW k \in Outcome, WriteBatch(d, k)
      PROVE  LinesOK'
  BY <1>11 DEF WriteBatch, Written, Faulty, Outcome, Unmatched, TypeOK, LinesOK, RowsOK, PhonesOK, Request, DesksOK, Call, BatchCall, Transfer, Line, cases, numbers, lines, marks, Case, Idle
<1>12. ASSUME NEW d \in Desk, NEW k \in Outcome, WriteTransfer(d, k)
      PROVE  LinesOK'
  <2>1. desk[d] \in [at : {"ready"}, kind : {"transfer"}, ids : SUBSET Case, order : Order,
                    detail : Detail \cup {NoDetail}, from : [Case -> Order]]
    BY <1>12 DEF WriteTransfer, TypeOK, DesksOK, Call, BatchCall, Transfer
  <2>2. \A c \in Case : MoveLine(d, c) \in Line
    BY <2>1 DEF Line, MoveLine
  <2>3. moves \in [Case -> Seq(Line)] /\ status' = status
    BY <1>12 DEF WriteTransfer, TypeOK, LinesOK
  <2>4. \A m \in Seq(Line), e \in Line : Append(m, e) \in Seq(Line)
    OBVIOUS
  <2>5. moves' \in [Case -> Seq(Line)]
    BY <1>12, <2>2, <2>3, <2>4 DEF WriteTransfer
  <2> QED
    BY <2>3, <2>5 DEF TypeOK, LinesOK
<1>13. CASE UNCHANGED vars
  BY <1>13 DEF vars, TypeOK, LinesOK, RowsOK, PhonesOK, Request, DesksOK, Call, BatchCall, Transfer, Line, cases, numbers, lines, marks
<1> QED
  BY <1>1, <1>2, <1>3, <1>4, <1>5, <1>6, <1>7, <1>8, <1>9, <1>10, <1>11, <1>12, <1>13 DEF Next, PhoneStep, DeskStep, Send

(* The marks keep their types. *)
LEMMA KeepMarksOK ==
  ASSUME TypeOK, [Next]_vars PROVE MarksOK'
<1> USE OrderAssumption, CaseAssumption, BoundAssumption
<1>1. ASSUME NEW p \in Phone, NEW c \in App, NEW o \in Order,
                NEW t \in DetailsOf(o) \cup {NoDetail}, LookUp(p, c, o, t)
      PROVE  MarksOK'
  BY <1>1 DEF LookUp, DetailsOf, TypeOK, MarksOK, RowsOK, PhonesOK, Request, DesksOK, Call, BatchCall, Transfer, cases, numbers, lines, marks, Case, Idle
<1>2. ASSUME NEW p \in Phone, Insert(p)
      PROVE  MarksOK'
  BY <1>2 DEF Insert, TypeOK, MarksOK, RowsOK, PhonesOK, Request, DesksOK, Call, BatchCall, Transfer, cases, numbers, lines, marks, Case, Idle
<1>3. ASSUME NEW p \in Phone, Record(p)
      PROVE  MarksOK'
  BY <1>3 DEF Record, Faulty, TypeOK, MarksOK, RowsOK, PhonesOK, Request, DesksOK, Call, BatchCall, Transfer, cases, numbers, lines, marks, Case, Idle
<1>4. ASSUME NEW p \in Phone, Answer(p)
      PROVE  MarksOK'
  BY <1>4 DEF Answer, TypeOK, MarksOK, RowsOK, PhonesOK, Request, DesksOK, Call, BatchCall, Transfer, cases, numbers, lines, marks, Case, Idle
<1>5. ASSUME NEW p \in Phone, PhoneFails(p)
      PROVE  MarksOK'
  BY <1>5 DEF PhoneFails, Faulty, TypeOK, MarksOK, RowsOK, PhonesOK, Request, DesksOK, Call, BatchCall, Transfer, cases, numbers, lines, marks, Case, Idle
<1>6. ASSUME NEW o \in Order, NEW to \in {"DRAFT", "CLOSED"}, SaveOrder(o, to)
      PROVE  MarksOK'
  BY <1>6 DEF SaveOrder, Reading, TypeOK, MarksOK, RowsOK, PhonesOK, Request, DesksOK, Call, BatchCall, Transfer, cases, numbers, lines, marks, Case, Idle
<1>7. ASSUME NEW c \in Case, NEW o \in Order, SaveCase(c, o)
      PROVE  MarksOK'
  BY <1>7 DEF SaveCase, Reading, TypeOK, MarksOK, RowsOK, PhonesOK, Request, DesksOK, Call, BatchCall, Transfer, cases, numbers, lines, marks, Case, Idle
<1>8. ASSUME NEW d \in Desk, NEW ids \in SUBSET Case, NEW to \in {"DONE", "DELETED"},
                ReadBatch(d, ids, to)
      PROVE  MarksOK'
  BY <1>8 DEF ReadBatch, TypeOK, MarksOK, RowsOK, PhonesOK, Request, DesksOK, Call, BatchCall, Transfer, cases, numbers, lines, marks, Case, Idle
<1>9. ASSUME NEW d \in Desk, NEW ids \in SUBSET Case, NEW o \in Order,
                NEW t \in DetailsOf(o) \cup {NoDetail}, CheckTarget(d, ids, o, t)
      PROVE  MarksOK'
  BY <1>9 DEF CheckTarget, DetailsOf, TypeOK, MarksOK, RowsOK, PhonesOK, Request, DesksOK, Call, BatchCall, Transfer, cases, numbers, lines, marks, Case, Idle
<1>10. ASSUME NEW d \in Desk, ReadRows(d)
      PROVE  MarksOK'
  BY <1>10 DEF ReadRows, TypeOK, MarksOK, RowsOK, PhonesOK, Request, DesksOK, Call, BatchCall, Transfer, cases, numbers, lines, marks, Case, Idle
<1>11. ASSUME NEW d \in Desk, NEW k \in Outcome, WriteBatch(d, k)
      PROVE  MarksOK'
  BY <1>11 DEF WriteBatch, Written, Faulty, Outcome, Unmatched, TypeOK, MarksOK, RowsOK, PhonesOK, Request, DesksOK, Call, BatchCall, Transfer, cases, numbers, lines, marks, Case, Idle
<1>12. ASSUME NEW d \in Desk, NEW k \in Outcome, WriteTransfer(d, k)
      PROVE  MarksOK'
  BY <1>12 DEF WriteTransfer, Written, Faulty, Outcome, Unmatched, MoveLine, Reading, TypeOK, MarksOK, RowsOK, PhonesOK, Request, DesksOK, Call, BatchCall, Transfer, cases, numbers, lines, marks, Case, Idle
<1>13. CASE UNCHANGED vars
  BY <1>13 DEF vars, TypeOK, MarksOK, RowsOK, PhonesOK, Request, DesksOK, Call, BatchCall, Transfer, cases, numbers, lines, marks
<1> QED
  BY <1>1, <1>2, <1>3, <1>4, <1>5, <1>6, <1>7, <1>8, <1>9, <1>10, <1>11, <1>12, <1>13 DEF Next, PhoneStep, DeskStep, Send

(* Every request of a phone is one of its kinds. *)
LEMMA KeepPhonesOK ==
  ASSUME TypeOK, [Next]_vars PROVE PhonesOK'
<1> USE OrderAssumption, CaseAssumption, BoundAssumption
<1>1. ASSUME NEW p \in Phone, NEW c \in App, NEW o \in Order,
                NEW t \in DetailsOf(o) \cup {NoDetail}, LookUp(p, c, o, t)
      PROVE  PhonesOK'
  BY <1>1 DEF LookUp, DetailsOf, TypeOK, PhonesOK, Request, RowsOK, cases, numbers, lines, marks, Case, Idle
<1>2. ASSUME NEW p \in Phone, Insert(p)
      PROVE  PhonesOK'
  <2>1. phone[p] \in [at : {"new", "saved"}, case : App, order : Order, detail : Detail \cup {NoDetail}]
    BY <1>2 DEF Insert, TypeOK, PhonesOK, Request, Idle
  <2>2. stored \subseteq stored' /\ phone \in [Phone -> Request]
    BY <1>2 DEF Insert, cases, TypeOK, PhonesOK
  <2>3. CASE phone[p].case \in stored
    BY <1>2, <2>1, <2>2, <2>3 DEF Insert, TypeOK, PhonesOK, Request, Idle
  <2>4. CASE phone[p].case \notin stored
    <3>1. phone' = [phone EXCEPT ![p] = [phone[p] EXCEPT !.at = "saved"]]
      BY <1>2, <2>4, <2>2 DEF Insert
    <3>2. PICK r : r = [phone[p] EXCEPT !.at = "saved"]
      OBVIOUS
    <3>3. r \in [at : {"new", "saved"}, case : App, order : Order, detail : Detail \cup {NoDetail}]
      BY <3>2, <2>1
    <3>4. r.case = phone[p].case /\ r.case \in stored'
      BY <1>2, <3>2, <2>1, <2>4 DEF Insert
    <3>5. phone' = [phone EXCEPT ![p] = r] /\ r \in Request
      BY <3>1, <3>2, <3>3 DEF Request
    <3>6. phone' \in [Phone -> Request]
      BY <3>5, <2>2
    <3>7. \A q \in Phone : phone'[q] = IF q = p THEN r ELSE phone[q]
      BY <3>5, <2>2
    <3> QED
      BY <3>4, <3>6, <3>7, <2>2 DEF TypeOK, PhonesOK
  <2> QED
    BY <2>3, <2>4
<1>3. ASSUME NEW p \in Phone, Record(p)
      PROVE  PhonesOK'
  BY <1>3 DEF Record, Faulty, TypeOK, PhonesOK, Request, RowsOK, cases, numbers, lines, marks, Case, Idle
<1>4. ASSUME NEW p \in Phone, Answer(p)
      PROVE  PhonesOK'
  BY <1>4 DEF Answer, TypeOK, PhonesOK, Request, RowsOK, cases, numbers, lines, marks, Case, Idle
<1>5. ASSUME NEW p \in Phone, PhoneFails(p)
      PROVE  PhonesOK'
  BY <1>5 DEF PhoneFails, Faulty, TypeOK, PhonesOK, Request, RowsOK, cases, numbers, lines, marks, Case, Idle
<1>6. ASSUME NEW o \in Order, NEW to \in {"DRAFT", "CLOSED"}, SaveOrder(o, to)
      PROVE  PhonesOK'
  BY <1>6 DEF SaveOrder, Reading, TypeOK, PhonesOK, Request, RowsOK, cases, numbers, lines, marks, Case, Idle
<1>7. ASSUME NEW c \in Case, NEW o \in Order, SaveCase(c, o)
      PROVE  PhonesOK'
  BY <1>7 DEF SaveCase, Reading, TypeOK, PhonesOK, Request, RowsOK, cases, numbers, lines, marks, Case, Idle
<1>8. ASSUME NEW d \in Desk, NEW ids \in SUBSET Case, NEW to \in {"DONE", "DELETED"},
                ReadBatch(d, ids, to)
      PROVE  PhonesOK'
  BY <1>8 DEF ReadBatch, TypeOK, PhonesOK, Request, RowsOK, cases, numbers, lines, marks, Case, Idle
<1>9. ASSUME NEW d \in Desk, NEW ids \in SUBSET Case, NEW o \in Order,
                NEW t \in DetailsOf(o) \cup {NoDetail}, CheckTarget(d, ids, o, t)
      PROVE  PhonesOK'
  BY <1>9 DEF CheckTarget, DetailsOf, TypeOK, PhonesOK, Request, RowsOK, cases, numbers, lines, marks, Case, Idle
<1>10. ASSUME NEW d \in Desk, ReadRows(d)
      PROVE  PhonesOK'
  BY <1>10 DEF ReadRows, TypeOK, PhonesOK, Request, RowsOK, cases, numbers, lines, marks, Case, Idle
<1>11. ASSUME NEW d \in Desk, NEW k \in Outcome, WriteBatch(d, k)
      PROVE  PhonesOK'
  BY <1>11 DEF WriteBatch, Written, Faulty, Outcome, Unmatched, TypeOK, PhonesOK, Request, RowsOK, cases, numbers, lines, marks, Case, Idle
<1>12. ASSUME NEW d \in Desk, NEW k \in Outcome, WriteTransfer(d, k)
      PROVE  PhonesOK'
  BY <1>12 DEF WriteTransfer, Written, Faulty, Outcome, Unmatched, MoveLine, Reading, TypeOK, PhonesOK, Request, RowsOK, cases, numbers, lines, marks, Case, Idle
<1>13. CASE UNCHANGED vars
  BY <1>13 DEF vars, TypeOK, PhonesOK, Request, RowsOK, cases, numbers, lines, marks
<1> QED
  BY <1>1, <1>2, <1>3, <1>4, <1>5, <1>6, <1>7, <1>8, <1>9, <1>10, <1>11, <1>12, <1>13 DEF Next, PhoneStep, DeskStep, Send

(* Every call of the desk is one of its kinds. *)
LEMMA KeepDesksOK ==
  ASSUME TypeOK, [Next]_vars PROVE DesksOK'
<1> USE OrderAssumption, CaseAssumption, BoundAssumption
<1>1. ASSUME NEW p \in Phone, NEW c \in App, NEW o \in Order,
                NEW t \in DetailsOf(o) \cup {NoDetail}, LookUp(p, c, o, t)
      PROVE  DesksOK'
  BY <1>1 DEF LookUp, DetailsOf, TypeOK, DesksOK, Call, BatchCall, Transfer, RowsOK, cases, numbers, lines, marks, Case, Idle
<1>2. ASSUME NEW p \in Phone, Insert(p)
      PROVE  DesksOK'
  BY <1>2 DEF Insert, TypeOK, DesksOK, Call, BatchCall, Transfer, RowsOK, cases, numbers, lines, marks, Case, Idle
<1>3. ASSUME NEW p \in Phone, Record(p)
      PROVE  DesksOK'
  BY <1>3 DEF Record, Faulty, TypeOK, DesksOK, Call, BatchCall, Transfer, RowsOK, cases, numbers, lines, marks, Case, Idle
<1>4. ASSUME NEW p \in Phone, Answer(p)
      PROVE  DesksOK'
  BY <1>4 DEF Answer, TypeOK, DesksOK, Call, BatchCall, Transfer, RowsOK, cases, numbers, lines, marks, Case, Idle
<1>5. ASSUME NEW p \in Phone, PhoneFails(p)
      PROVE  DesksOK'
  BY <1>5 DEF PhoneFails, Faulty, TypeOK, DesksOK, Call, BatchCall, Transfer, RowsOK, cases, numbers, lines, marks, Case, Idle
<1>6. ASSUME NEW o \in Order, NEW to \in {"DRAFT", "CLOSED"}, SaveOrder(o, to)
      PROVE  DesksOK'
  BY <1>6 DEF SaveOrder, Reading, TypeOK, DesksOK, Call, BatchCall, Transfer, RowsOK, cases, numbers, lines, marks, Case, Idle
<1>7. ASSUME NEW c \in Case, NEW o \in Order, SaveCase(c, o)
      PROVE  DesksOK'
  BY <1>7 DEF SaveCase, Reading, TypeOK, DesksOK, Call, BatchCall, Transfer, RowsOK, cases, numbers, lines, marks, Case, Idle
<1>8. ASSUME NEW d \in Desk, NEW ids \in SUBSET Case, NEW to \in {"DONE", "DELETED"},
                ReadBatch(d, ids, to)
      PROVE  DesksOK'
  BY <1>8 DEF ReadBatch, TypeOK, DesksOK, Call, BatchCall, Transfer, RowsOK, cases, numbers, lines, marks, Case, Idle
<1>9. ASSUME NEW d \in Desk, NEW ids \in SUBSET Case, NEW o \in Order,
                NEW t \in DetailsOf(o) \cup {NoDetail}, CheckTarget(d, ids, o, t)
      PROVE  DesksOK'
  BY <1>9 DEF CheckTarget, DetailsOf, TypeOK, DesksOK, Call, BatchCall, Transfer, RowsOK, cases, numbers, lines, marks, Case, Idle
<1>10. ASSUME NEW d \in Desk, ReadRows(d)
      PROVE  DesksOK'
  BY <1>10 DEF ReadRows, TypeOK, DesksOK, Call, BatchCall, Transfer, RowsOK, cases, numbers, lines, marks, Case, Idle
<1>11. ASSUME NEW d \in Desk, NEW k \in Outcome, WriteBatch(d, k)
      PROVE  DesksOK'
  BY <1>11 DEF WriteBatch, Written, Faulty, Outcome, Unmatched, TypeOK, DesksOK, Call, BatchCall, Transfer, RowsOK, cases, numbers, lines, marks, Case, Idle
<1>12. ASSUME NEW d \in Desk, NEW k \in Outcome, WriteTransfer(d, k)
      PROVE  DesksOK'
  BY <1>12 DEF WriteTransfer, Written, Faulty, Outcome, Unmatched, MoveLine, Reading, TypeOK, DesksOK, Call, BatchCall, Transfer, RowsOK, cases, numbers, lines, marks, Case, Idle
<1>13. CASE UNCHANGED vars
  BY <1>13 DEF vars, TypeOK, DesksOK, Call, BatchCall, Transfer, RowsOK, cases, numbers, lines, marks
<1> QED
  BY <1>1, <1>2, <1>3, <1>4, <1>5, <1>6, <1>7, <1>8, <1>9, <1>10, <1>11, <1>12, <1>13 DEF Next, PhoneStep, DeskStep, Send

(* Every variable has its type, in every reachable state. *)
THEOREM SurveyTypes == Spec => []TypeOK
<1>1. Init => TypeOK
  <2> SUFFICES ASSUME Init PROVE TypeOK
    OBVIOUS
  <2> USE OrderAssumption, BoundAssumption DEF Init
  <2>1. RowsOK
    BY DEF RowsOK, Case
  <2>2. LinesOK
    BY DEF LinesOK, Line
  <2>3. MarksOK
    BY DEF MarksOK
  <2>4. PhonesOK
    BY DEF PhonesOK, Request, Idle
  <2>5. DesksOK
    BY DEF DesksOK, Call, BatchCall, Transfer, Idle
  <2> QED
    BY <2>1, <2>2, <2>3, <2>4, <2>5 DEF TypeOK
<1>2. TypeOK /\ [Next]_vars => TypeOK'
  BY KeepRowsOK, KeepLinesOK, KeepMarksOK, KeepPhonesOK, KeepDesksOK DEF TypeOK
<1> QED
  BY <1>1, <1>2, PTL DEF Spec

(* A detail that a call has checked is one of its order. *)
StretchInv ==
    /\ DetailFits
    /\ \A c \in Case \ stored : detail[c] = NoDetail
    /\ \A p \in Phone : phone[p].at = "new" /\ phone[p].detail # NoDetail
                        => OrderOf[phone[p].detail] = phone[p].order
    /\ \A d \in Desk :
          /\ \/ desk[d].at = "target"
             \/ desk[d].at = "ready" /\ desk[d].kind = "transfer"
          /\ desk[d].detail # NoDetail
          => OrderOf[desk[d].detail] = desk[d].order

(* Checks made before a transaction hold in it: a detail never changes order. *)
THEOREM StretchOfItsOrder == Spec => []DetailFits
<1>1. Init => StretchInv
  BY OrderAssumption, CaseAssumption DEF Init, Idle, StretchInv, DetailFits
<1>2. TypeOK /\ TypeOK' /\ StretchInv /\ [Next]_vars => StretchInv'
  <2> SUFFICES ASSUME TypeOK, TypeOK', StretchInv, [Next]_vars PROVE StretchInv'
    OBVIOUS
  <2> USE OrderAssumption, CaseAssumption
  <2>1. ASSUME NEW p \in Phone, NEW c \in App, NEW o \in Order,
                NEW t \in DetailsOf(o) \cup {NoDetail}, LookUp(p, c, o, t)
        PROVE  StretchInv'
    BY <2>1 DEF LookUp, DetailsOf, TypeOK, RowsOK, PhonesOK, DesksOK, Request, Call, BatchCall, Transfer, StretchInv, DetailFits, cases, numbers, lines, marks, Case, Idle
  <2>2. ASSUME NEW p \in Phone, Insert(p)
        PROVE  StretchInv'
    BY <2>2 DEF Insert, TypeOK, RowsOK, PhonesOK, DesksOK, Request, Call, BatchCall, Transfer, StretchInv, DetailFits, cases, numbers, lines, marks, Case, Idle
  <2>3. ASSUME NEW p \in Phone, Record(p)
        PROVE  StretchInv'
    BY <2>3 DEF Record, Faulty, TypeOK, RowsOK, PhonesOK, DesksOK, Request, Call, BatchCall, Transfer, StretchInv, DetailFits, cases, numbers, lines, marks, Case, Idle
  <2>4. ASSUME NEW p \in Phone, Answer(p)
        PROVE  StretchInv'
    BY <2>4 DEF Answer, TypeOK, RowsOK, PhonesOK, DesksOK, Request, Call, BatchCall, Transfer, StretchInv, DetailFits, cases, numbers, lines, marks, Case, Idle
  <2>5. ASSUME NEW p \in Phone, PhoneFails(p)
        PROVE  StretchInv'
    BY <2>5 DEF PhoneFails, Faulty, TypeOK, RowsOK, PhonesOK, DesksOK, Request, Call, BatchCall, Transfer, StretchInv, DetailFits, cases, numbers, lines, marks, Case, Idle
  <2>6. ASSUME NEW o \in Order, NEW to \in {"DRAFT", "CLOSED"}, SaveOrder(o, to)
        PROVE  StretchInv'
    BY <2>6 DEF SaveOrder, Reading, TypeOK, RowsOK, PhonesOK, DesksOK, Request, Call, BatchCall, Transfer, StretchInv, DetailFits, cases, numbers, lines, marks, Case, Idle
  <2>7. ASSUME NEW c \in Case, NEW o \in Order, SaveCase(c, o)
        PROVE  StretchInv'
    BY <2>7 DEF SaveCase, Reading, TypeOK, RowsOK, PhonesOK, DesksOK, Request, Call, BatchCall, Transfer, StretchInv, DetailFits, cases, numbers, lines, marks, Case, Idle
  <2>8. ASSUME NEW d \in Desk, NEW ids \in SUBSET Case, NEW to \in {"DONE", "DELETED"},
                ReadBatch(d, ids, to)
        PROVE  StretchInv'
    BY <2>8 DEF ReadBatch, TypeOK, RowsOK, PhonesOK, DesksOK, Request, Call, BatchCall, Transfer, StretchInv, DetailFits, cases, numbers, lines, marks, Case, Idle
  <2>9. ASSUME NEW d \in Desk, NEW ids \in SUBSET Case, NEW o \in Order,
                NEW t \in DetailsOf(o) \cup {NoDetail}, CheckTarget(d, ids, o, t)
        PROVE  StretchInv'
    BY <2>9 DEF CheckTarget, DetailsOf, TypeOK, RowsOK, PhonesOK, DesksOK, Request, Call, BatchCall, Transfer, StretchInv, DetailFits, cases, numbers, lines, marks, Case, Idle
  <2>10. ASSUME NEW d \in Desk, ReadRows(d)
        PROVE  StretchInv'
    BY <2>10 DEF ReadRows, TypeOK, RowsOK, PhonesOK, DesksOK, Request, Call, BatchCall, Transfer, StretchInv, DetailFits, cases, numbers, lines, marks, Case, Idle
  <2>11. ASSUME NEW d \in Desk, NEW k \in Outcome, WriteBatch(d, k)
        PROVE  StretchInv'
    BY <2>11 DEF WriteBatch, Written, Faulty, Outcome, Unmatched, TypeOK, RowsOK, PhonesOK, DesksOK, Request, Call, BatchCall, Transfer, StretchInv, DetailFits, cases, numbers, lines, marks, Case, Idle
  <2>12. ASSUME NEW d \in Desk, NEW k \in Outcome, WriteTransfer(d, k)
        PROVE  StretchInv'
    BY <2>12 DEF WriteTransfer, Written, Faulty, Outcome, Unmatched, MoveLine, Reading, TypeOK, RowsOK, PhonesOK, DesksOK, Request, Call, BatchCall, Transfer, StretchInv, DetailFits, cases, numbers, lines, marks, Case, Idle
  <2>13. CASE UNCHANGED vars
    BY <2>13 DEF vars, TypeOK, RowsOK, PhonesOK, DesksOK, Request, Call, BatchCall, Transfer, StretchInv, DetailFits, cases, numbers, lines, marks
  <2> QED
    BY <2>1, <2>2, <2>3, <2>4, <2>5, <2>6, <2>7, <2>8, <2>9, <2>10, <2>11, <2>12, <2>13 DEF Next, PhoneStep, DeskStep, Send
<1>3. StretchInv => DetailFits
  BY DEF StretchInv
<1> QED
  BY <1>1, <1>2, <1>3, SurveyTypes, PTL DEF Spec

(* The numbers of the phones' cases have no gap and no double. *)
THEOREM AppNumbers == Spec => []NumbersAreDense
<1>1. Init => NumbersAreDense
  BY OrderAssumption, CaseAssumption DEF Init, Idle, NumbersAreDense
<1>2. TypeOK /\ TypeOK' /\ NumbersAreDense /\ [Next]_vars => NumbersAreDense'
  <2> SUFFICES ASSUME TypeOK, TypeOK', NumbersAreDense, [Next]_vars PROVE NumbersAreDense'
    OBVIOUS
  <2> USE OrderAssumption, CaseAssumption
  <2>1. ASSUME NEW p \in Phone, NEW c \in App, NEW o \in Order,
                NEW t \in DetailsOf(o) \cup {NoDetail}, LookUp(p, c, o, t)
        PROVE  NumbersAreDense'
    BY <2>1 DEF LookUp, DetailsOf, TypeOK, RowsOK, PhonesOK, DesksOK, Request, Call, BatchCall, Transfer, NumbersAreDense, cases, numbers, lines, marks, Case, Idle
  <2>2. ASSUME NEW p \in Phone, Insert(p)
        PROVE  NumbersAreDense'
    <3>1. PICK c \in App : c = phone[p].case
      BY <2>2 DEF Insert, TypeOK, PhonesOK, Request, Idle
    <3>2. CASE c \in stored
      BY <2>2, <3>1, <3>2 DEF Insert, cases, numbers, NumbersAreDense
    <3>3. CASE c \notin stored
      <4> DEFINE S == stored \cap App
      <4>1. /\ stored' \cap App = S \cup {c} /\ c \notin S
            /\ counter' = counter + 1 /\ number' = [number EXCEPT ![c] = counter + 1]
        BY <2>2, <3>1, <3>3 DEF Insert
      <4>2. counter \in Nat /\ number \in [Case -> Nat] /\ S \subseteq Case /\ c \in Case
        BY DEF TypeOK, RowsOK, Case
      <4>3. number'[c] = counter + 1 /\ \A e \in S : number'[e] = number[e]
        BY <4>1, <4>2
      <4>4. {number[e] : e \in S} = 1 .. counter /\ \A e, f \in S : number[e] = number[f] => e = f
        BY DEF NumbersAreDense
      <4>5. \A e \in S : number[e] \in 1 .. counter
        BY <4>4
      <4>6. {number'[e] : e \in stored' \cap App} = {number[e] : e \in S} \cup {counter + 1}
        BY <4>1, <4>3
      <4>7. 1 .. counter' = (1 .. counter) \cup {counter + 1}
        BY <4>1, <4>2
      <4>8. \A e, f \in stored' \cap App : number'[e] = number'[f] => e = f
        BY <4>1, <4>2, <4>3, <4>4, <4>5
      <4> QED
        BY <4>4, <4>6, <4>7, <4>8 DEF NumbersAreDense
    <3> QED
      BY <3>2, <3>3
  <2>3. ASSUME NEW p \in Phone, Record(p)
        PROVE  NumbersAreDense'
    BY <2>3 DEF Record, Faulty, TypeOK, RowsOK, PhonesOK, DesksOK, Request, Call, BatchCall, Transfer, NumbersAreDense, cases, numbers, lines, marks, Case, Idle
  <2>4. ASSUME NEW p \in Phone, Answer(p)
        PROVE  NumbersAreDense'
    BY <2>4 DEF Answer, TypeOK, RowsOK, PhonesOK, DesksOK, Request, Call, BatchCall, Transfer, NumbersAreDense, cases, numbers, lines, marks, Case, Idle
  <2>5. ASSUME NEW p \in Phone, PhoneFails(p)
        PROVE  NumbersAreDense'
    BY <2>5 DEF PhoneFails, Faulty, TypeOK, RowsOK, PhonesOK, DesksOK, Request, Call, BatchCall, Transfer, NumbersAreDense, cases, numbers, lines, marks, Case, Idle
  <2>6. ASSUME NEW o \in Order, NEW to \in {"DRAFT", "CLOSED"}, SaveOrder(o, to)
        PROVE  NumbersAreDense'
    BY <2>6 DEF SaveOrder, Reading, TypeOK, RowsOK, PhonesOK, DesksOK, Request, Call, BatchCall, Transfer, NumbersAreDense, cases, numbers, lines, marks, Case, Idle
  <2>7. ASSUME NEW c \in Case, NEW o \in Order, SaveCase(c, o)
        PROVE  NumbersAreDense'
    BY <2>7 DEF SaveCase, Reading, TypeOK, RowsOK, PhonesOK, DesksOK, Request, Call, BatchCall, Transfer, NumbersAreDense, cases, numbers, lines, marks, Case, Idle
  <2>8. ASSUME NEW d \in Desk, NEW ids \in SUBSET Case, NEW to \in {"DONE", "DELETED"},
                ReadBatch(d, ids, to)
        PROVE  NumbersAreDense'
    BY <2>8 DEF ReadBatch, TypeOK, RowsOK, PhonesOK, DesksOK, Request, Call, BatchCall, Transfer, NumbersAreDense, cases, numbers, lines, marks, Case, Idle
  <2>9. ASSUME NEW d \in Desk, NEW ids \in SUBSET Case, NEW o \in Order,
                NEW t \in DetailsOf(o) \cup {NoDetail}, CheckTarget(d, ids, o, t)
        PROVE  NumbersAreDense'
    BY <2>9 DEF CheckTarget, DetailsOf, TypeOK, RowsOK, PhonesOK, DesksOK, Request, Call, BatchCall, Transfer, NumbersAreDense, cases, numbers, lines, marks, Case, Idle
  <2>10. ASSUME NEW d \in Desk, ReadRows(d)
        PROVE  NumbersAreDense'
    BY <2>10 DEF ReadRows, TypeOK, RowsOK, PhonesOK, DesksOK, Request, Call, BatchCall, Transfer, NumbersAreDense, cases, numbers, lines, marks, Case, Idle
  <2>11. ASSUME NEW d \in Desk, NEW k \in Outcome, WriteBatch(d, k)
        PROVE  NumbersAreDense'
    BY <2>11 DEF WriteBatch, Written, Faulty, Outcome, Unmatched, TypeOK, RowsOK, PhonesOK, DesksOK, Request, Call, BatchCall, Transfer, NumbersAreDense, cases, numbers, lines, marks, Case, Idle
  <2>12. ASSUME NEW d \in Desk, NEW k \in Outcome, WriteTransfer(d, k)
        PROVE  NumbersAreDense'
    BY <2>12 DEF WriteTransfer, Written, Faulty, Outcome, Unmatched, MoveLine, Reading, TypeOK, RowsOK, PhonesOK, DesksOK, Request, Call, BatchCall, Transfer, NumbersAreDense, cases, numbers, lines, marks, Case, Idle
  <2>13. CASE UNCHANGED vars
    BY <2>13 DEF vars, TypeOK, RowsOK, PhonesOK, DesksOK, Request, Call, BatchCall, Transfer, NumbersAreDense, cases, numbers, lines, marks
  <2> QED
    BY <2>1, <2>2, <2>3, <2>4, <2>5, <2>6, <2>7, <2>8, <2>9, <2>10, <2>11, <2>12, <2>13 DEF Next, PhoneStep, DeskStep, Send
<1>3. NumbersAreDense => NumbersAreDense
  BY DEF NumbersAreDense
<1> QED
  BY <1>1, <1>2, <1>3, SurveyTypes, PTL DEF Spec

(* A case that is not stored has no line. *)
DeletedInv ==
    /\ DeletedTells
    /\ \A c \in Case \ stored : status[c] = "none"

(* Batches about a case may overlap: flag and line are written together. *)
THEOREM DeletedHasItsLine == Spec => []DeletedTells
<1>1. Init => DeletedInv
  BY OrderAssumption, CaseAssumption DEF Init, Idle, DeletedInv, DeletedTells
<1>2. TypeOK /\ TypeOK' /\ DeletedInv /\ [Next]_vars => DeletedInv'
  <2> SUFFICES ASSUME TypeOK, TypeOK', DeletedInv, [Next]_vars PROVE DeletedInv'
    OBVIOUS
  <2> USE OrderAssumption, CaseAssumption
  <2>1. ASSUME NEW p \in Phone, NEW c \in App, NEW o \in Order,
                NEW t \in DetailsOf(o) \cup {NoDetail}, LookUp(p, c, o, t)
        PROVE  DeletedInv'
    BY <2>1 DEF LookUp, DetailsOf, TypeOK, RowsOK, PhonesOK, DesksOK, Request, Call, BatchCall, Transfer, LinesOK, DeletedInv, DeletedTells, cases, numbers, lines, marks, Case, Idle
  <2>2. ASSUME NEW p \in Phone, Insert(p)
        PROVE  DeletedInv'
    BY <2>2 DEF Insert, TypeOK, RowsOK, PhonesOK, DesksOK, Request, Call, BatchCall, Transfer, LinesOK, DeletedInv, DeletedTells, cases, numbers, lines, marks, Case, Idle
  <2>3. ASSUME NEW p \in Phone, Record(p)
        PROVE  DeletedInv'
    BY <2>3 DEF Record, Faulty, TypeOK, RowsOK, PhonesOK, DesksOK, Request, Call, BatchCall, Transfer, LinesOK, DeletedInv, DeletedTells, cases, numbers, lines, marks, Case, Idle
  <2>4. ASSUME NEW p \in Phone, Answer(p)
        PROVE  DeletedInv'
    BY <2>4 DEF Answer, TypeOK, RowsOK, PhonesOK, DesksOK, Request, Call, BatchCall, Transfer, LinesOK, DeletedInv, DeletedTells, cases, numbers, lines, marks, Case, Idle
  <2>5. ASSUME NEW p \in Phone, PhoneFails(p)
        PROVE  DeletedInv'
    BY <2>5 DEF PhoneFails, Faulty, TypeOK, RowsOK, PhonesOK, DesksOK, Request, Call, BatchCall, Transfer, LinesOK, DeletedInv, DeletedTells, cases, numbers, lines, marks, Case, Idle
  <2>6. ASSUME NEW o \in Order, NEW to \in {"DRAFT", "CLOSED"}, SaveOrder(o, to)
        PROVE  DeletedInv'
    BY <2>6 DEF SaveOrder, Reading, TypeOK, RowsOK, PhonesOK, DesksOK, Request, Call, BatchCall, Transfer, LinesOK, DeletedInv, DeletedTells, cases, numbers, lines, marks, Case, Idle
  <2>7. ASSUME NEW c \in Case, NEW o \in Order, SaveCase(c, o)
        PROVE  DeletedInv'
    BY <2>7 DEF SaveCase, Reading, TypeOK, RowsOK, PhonesOK, DesksOK, Request, Call, BatchCall, Transfer, LinesOK, DeletedInv, DeletedTells, cases, numbers, lines, marks, Case, Idle
  <2>8. ASSUME NEW d \in Desk, NEW ids \in SUBSET Case, NEW to \in {"DONE", "DELETED"},
                ReadBatch(d, ids, to)
        PROVE  DeletedInv'
    BY <2>8 DEF ReadBatch, TypeOK, RowsOK, PhonesOK, DesksOK, Request, Call, BatchCall, Transfer, LinesOK, DeletedInv, DeletedTells, cases, numbers, lines, marks, Case, Idle
  <2>9. ASSUME NEW d \in Desk, NEW ids \in SUBSET Case, NEW o \in Order,
                NEW t \in DetailsOf(o) \cup {NoDetail}, CheckTarget(d, ids, o, t)
        PROVE  DeletedInv'
    BY <2>9 DEF CheckTarget, DetailsOf, TypeOK, RowsOK, PhonesOK, DesksOK, Request, Call, BatchCall, Transfer, LinesOK, DeletedInv, DeletedTells, cases, numbers, lines, marks, Case, Idle
  <2>10. ASSUME NEW d \in Desk, ReadRows(d)
        PROVE  DeletedInv'
    BY <2>10 DEF ReadRows, TypeOK, RowsOK, PhonesOK, DesksOK, Request, Call, BatchCall, Transfer, LinesOK, DeletedInv, DeletedTells, cases, numbers, lines, marks, Case, Idle
  <2>11. ASSUME NEW d \in Desk, NEW k \in Outcome, WriteBatch(d, k)
        PROVE  DeletedInv'
    BY <2>11 DEF WriteBatch, Written, Faulty, Outcome, Unmatched, TypeOK, RowsOK, PhonesOK, DesksOK, Request, Call, BatchCall, Transfer, LinesOK, DeletedInv, DeletedTells, cases, numbers, lines, marks, Case, Idle
  <2>12. ASSUME NEW d \in Desk, NEW k \in Outcome, WriteTransfer(d, k)
        PROVE  DeletedInv'
    BY <2>12 DEF WriteTransfer, Written, Faulty, Outcome, Unmatched, MoveLine, Reading, TypeOK, RowsOK, PhonesOK, DesksOK, Request, Call, BatchCall, Transfer, LinesOK, DeletedInv, DeletedTells, cases, numbers, lines, marks, Case, Idle
  <2>13. CASE UNCHANGED vars
    BY <2>13 DEF vars, TypeOK, RowsOK, PhonesOK, DesksOK, Request, Call, BatchCall, Transfer, LinesOK, DeletedInv, DeletedTells, cases, numbers, lines, marks
  <2> QED
    BY <2>1, <2>2, <2>3, <2>4, <2>5, <2>6, <2>7, <2>8, <2>9, <2>10, <2>11, <2>12, <2>13 DEF Next, PhoneStep, DeskStep, Send
<1>3. DeletedInv => DeletedTells
  BY DEF DeletedInv
<1> QED
  BY <1>1, <1>2, <1>3, SurveyTypes, PTL DEF Spec

(* What a call has read is still so, unless it is marked as stale. *)
MovesInv ==
    /\ MovesTell
    /\ \A c \in Case \ stored : moves[c] = <<>>
    /\ \A d \in Desk \ stale : desk[d].at = "ready" /\ desk[d].kind = "transfer"
          => \A c \in desk[d].ids : desk[d].from[c] = order[c]
    /\ \A p \in Phone : LET c == phone[p].case IN
          phone[p].at = "saved" /\ c \notin untold /\ moves[c] = <<>>
          => order[c] = phone[p].order

(* The lines about a case's orders form a chain that ends at its order. *)
THEOREM MovesAreTold == Spec => []MovesTell
<1>1. Init => MovesInv
  BY OrderAssumption, CaseAssumption DEF Init, Idle, MovesInv, MovesTell
<1>2. TypeOK /\ TypeOK' /\ MovesInv /\ [Next]_vars => MovesInv'
  <2> SUFFICES ASSUME TypeOK, TypeOK', MovesInv, [Next]_vars PROVE MovesInv'
    OBVIOUS
  <2> USE OrderAssumption, CaseAssumption
  <2>1. ASSUME NEW p \in Phone, NEW c \in App, NEW o \in Order,
                NEW t \in DetailsOf(o) \cup {NoDetail}, LookUp(p, c, o, t)
        PROVE  MovesInv'
    BY <2>1 DEF LookUp, DetailsOf, TypeOK, RowsOK, PhonesOK, DesksOK, Request, Call, BatchCall, Transfer, LinesOK, Line, MovesInv, MovesTell, cases, numbers, lines, marks, Case, Idle
  <2>2. ASSUME NEW p \in Phone, Insert(p)
        PROVE  MovesInv'
    <3>1. PICK c \in App : c = phone[p].case
      BY <2>2 DEF Insert, TypeOK, PhonesOK, Request, Idle
    <3>2. /\ stored \subseteq stored' /\ stored' \subseteq stored \cup {c}
          /\ \A e \in stored : order'[e] = order[e]
          /\ moves' = moves /\ untold' = untold /\ desk' = desk /\ stale' = stale
      BY <2>2, <3>1 DEF Insert, cases, lines, marks, TypeOK, RowsOK
    <3>3. MovesTell'
      <4> SUFFICES ASSUME NEW e \in stored' \ untold'
                   PROVE  /\ \A i \in 1 .. Len(moves[e]) - 1 : moves[e][i].to = moves[e][i + 1].from
                          /\ moves[e] # <<>> => moves[e][Len(moves[e])].to = order'[e]
        BY <3>2 DEF MovesTell
      <4>1. CASE e \in stored
        BY <4>1, <3>2 DEF MovesInv, MovesTell
      <4>2. CASE e \notin stored
        BY <4>2, <3>1, <3>2 DEF MovesInv, Case
      <4> QED
        BY <4>1, <4>2
    <3>4. \A e \in Case \ stored' : moves'[e] = <<>>
      BY <3>2 DEF MovesInv
    <3>5. \A d \in Desk \ stale' : desk'[d].at = "ready" /\ desk'[d].kind = "transfer"
            => \A e \in desk'[d].ids : desk'[d].from[e] = order'[e]
      BY <3>2 DEF MovesInv, TypeOK, DesksOK
    <3>6. ASSUME NEW q \in Phone, phone'[q].at = "saved", phone'[q].case \notin untold',
                 moves'[phone'[q].case] = <<>>
          PROVE  order'[phone'[q].case] = phone'[q].order
      <4>1. CASE q # p
        <5>1. phone'[q] = phone[q]
          BY <2>2, <4>1 DEF Insert, TypeOK, PhonesOK
        <5>2. phone[q].case \in stored
          BY <5>1, <3>6 DEF TypeOK, PhonesOK
        <5> QED
          BY <5>1, <5>2, <3>6, <3>2 DEF MovesInv
      <4>2. CASE q = p
        <5>1. phone[p] \in [at : {"new", "saved"}, case : App, order : Order,
                            detail : Detail \cup {NoDetail}]
          BY <2>2 DEF Insert, TypeOK, PhonesOK, Request, Idle
        <5>2. c \notin stored
          BY <2>2, <3>1, <4>2, <3>6 DEF Insert, Idle, TypeOK, PhonesOK
        <5>3. order' = [order EXCEPT ![c] = phone[p].order]
          BY <2>2, <3>1, <5>2 DEF Insert
        <5>4. order'[c] = phone[p].order
          BY <5>3, <3>1 DEF TypeOK, RowsOK, Case
        <5>5. phone' = [phone EXCEPT ![p] = [phone[p] EXCEPT !.at = "saved"]]
          BY <2>2, <3>1, <5>2 DEF Insert, TypeOK, PhonesOK
        <5>6. phone'[q] = [phone[p] EXCEPT !.at = "saved"]
          BY <5>5, <4>2 DEF TypeOK, PhonesOK
        <5>7. phone'[q].case = c /\ phone'[q].order = phone[p].order
          BY <5>6, <5>1, <3>1
        <5> QED
          BY <5>4, <5>7
      <4> QED
        BY <4>1, <4>2
    <3> QED
      BY <3>3, <3>4, <3>5, <3>6 DEF MovesInv
  <2>3. ASSUME NEW p \in Phone, Record(p)
        PROVE  MovesInv'
    BY <2>3 DEF Record, Faulty, TypeOK, RowsOK, PhonesOK, DesksOK, Request, Call, BatchCall, Transfer, LinesOK, Line, MovesInv, MovesTell, cases, numbers, lines, marks, Case, Idle
  <2>4. ASSUME NEW p \in Phone, Answer(p)
        PROVE  MovesInv'
    BY <2>4 DEF Answer, TypeOK, RowsOK, PhonesOK, DesksOK, Request, Call, BatchCall, Transfer, LinesOK, Line, MovesInv, MovesTell, cases, numbers, lines, marks, Case, Idle
  <2>5. ASSUME NEW p \in Phone, PhoneFails(p)
        PROVE  MovesInv'
    BY <2>5 DEF PhoneFails, Faulty, TypeOK, RowsOK, PhonesOK, DesksOK, Request, Call, BatchCall, Transfer, LinesOK, Line, MovesInv, MovesTell, cases, numbers, lines, marks, Case, Idle
  <2>6. ASSUME NEW o \in Order, NEW to \in {"DRAFT", "CLOSED"}, SaveOrder(o, to)
        PROVE  MovesInv'
    BY <2>6 DEF SaveOrder, Reading, TypeOK, RowsOK, PhonesOK, DesksOK, Request, Call, BatchCall, Transfer, LinesOK, Line, MovesInv, MovesTell, cases, numbers, lines, marks, Case, Idle
  <2>7. ASSUME NEW c \in Case, NEW o \in Order, SaveCase(c, o)
        PROVE  MovesInv'
    BY <2>7 DEF SaveCase, Reading, TypeOK, RowsOK, PhonesOK, DesksOK, Request, Call, BatchCall, Transfer, LinesOK, Line, MovesInv, MovesTell, cases, numbers, lines, marks, Case, Idle
  <2>8. ASSUME NEW d \in Desk, NEW ids \in SUBSET Case, NEW to \in {"DONE", "DELETED"},
                ReadBatch(d, ids, to)
        PROVE  MovesInv'
    BY <2>8 DEF ReadBatch, TypeOK, RowsOK, PhonesOK, DesksOK, Request, Call, BatchCall, Transfer, LinesOK, Line, MovesInv, MovesTell, cases, numbers, lines, marks, Case, Idle
  <2>9. ASSUME NEW d \in Desk, NEW ids \in SUBSET Case, NEW o \in Order,
                NEW t \in DetailsOf(o) \cup {NoDetail}, CheckTarget(d, ids, o, t)
        PROVE  MovesInv'
    BY <2>9 DEF CheckTarget, DetailsOf, TypeOK, RowsOK, PhonesOK, DesksOK, Request, Call, BatchCall, Transfer, LinesOK, Line, MovesInv, MovesTell, cases, numbers, lines, marks, Case, Idle
  <2>10. ASSUME NEW d \in Desk, ReadRows(d)
        PROVE  MovesInv'
    BY <2>10 DEF ReadRows, TypeOK, RowsOK, PhonesOK, DesksOK, Request, Call, BatchCall, Transfer, LinesOK, Line, MovesInv, MovesTell, cases, numbers, lines, marks, Case, Idle
  <2>11. ASSUME NEW d \in Desk, NEW k \in Outcome, WriteBatch(d, k)
        PROVE  MovesInv'
    BY <2>11 DEF WriteBatch, Written, Faulty, Outcome, Unmatched, TypeOK, RowsOK, PhonesOK, DesksOK, Request, Call, BatchCall, Transfer, LinesOK, Line, MovesInv, MovesTell, cases, numbers, lines, marks, Case, Idle
  <2>12. ASSUME NEW d \in Desk, NEW k \in Outcome, WriteTransfer(d, k)
        PROVE  MovesInv'
    <3>1. /\ desk[d].ids \subseteq stored /\ desk[d].ids \subseteq Case
          /\ stored' = stored /\ phone' = phone
      BY <2>12 DEF WriteTransfer, TypeOK, DesksOK, RowsOK
    <3>2. \A c \in Case : c \notin desk[d].ids => order'[c] = order[c] /\ moves'[c] = moves[c]
      BY <2>12 DEF WriteTransfer
    <3>3. untold \subseteq untold' /\ \A e \in Desk \ stale' : e # d /\ desk'[e].at = "ready" => e \notin stale
      BY <2>12 DEF WriteTransfer
    <3>4. \A c \in desk[d].ids : c \notin untold' =>
            /\ d \notin stale /\ k.change = k.line
            /\ k.change  => order'[c] = desk[d].order /\ moves'[c] = Append(moves[c], MoveLine(d, c))
            /\ ~k.change => order'[c] = order[c] /\ moves'[c] = moves[c]
      BY <2>12, <3>1 DEF WriteTransfer, Unmatched, Outcome
    <3>5. MovesTell'
      <4> SUFFICES ASSUME NEW c \in stored \ untold'
                   PROVE  /\ \A i \in 1 .. Len(moves'[c]) - 1 : moves'[c][i].to = moves'[c][i + 1].from
                          /\ moves'[c] # <<>> => moves'[c][Len(moves'[c])].to = order'[c]
        BY <3>1 DEF MovesTell
      <4>1. /\ \A i \in 1 .. Len(moves[c]) - 1 : moves[c][i].to = moves[c][i + 1].from
            /\ moves[c] # <<>> => moves[c][Len(moves[c])].to = order[c]
        BY <3>3 DEF MovesInv, MovesTell
      <4>2. CASE c \notin desk[d].ids \/ ~k.change
        BY <4>1, <4>2, <3>2, <3>4 DEF TypeOK, RowsOK
      <4>3. CASE c \in desk[d].ids /\ k.change
        <5>1. moves[c] \in Seq(Line) /\ c \in Case
          BY DEF TypeOK, RowsOK, LinesOK
        <5>2. PICK l : l = MoveLine(d, c)
          OBVIOUS
        <5>3. l.from = order[c] /\ l.to = desk[d].order
          BY <2>12, <5>2, <4>3, <3>4 DEF MoveLine, MovesInv, WriteTransfer
        <5>4. l \in Line
          BY <2>12, <5>2, <5>1, <4>3 DEF MoveLine, Line, WriteTransfer, TypeOK, DesksOK, Call, BatchCall, Transfer
        <5>5. moves'[c] = Append(moves[c], l) /\ order'[c] = desk[d].order
          BY <5>2, <4>3, <3>4
        <5>6. /\ Len(moves'[c]) = Len(moves[c]) + 1
              /\ \A i \in 1 .. Len(moves[c]) : moves'[c][i] = moves[c][i]
              /\ moves'[c][Len(moves[c]) + 1] = l
          BY <5>1, <5>4, <5>5
        <5>7. Len(moves[c]) \in Nat /\ (moves[c] = <<>> <=> Len(moves[c]) = 0)
          BY <5>1
        <5>8. ASSUME NEW i \in 1 .. Len(moves[c])
              PROVE  moves'[c][i].to = moves'[c][i + 1].from
          <6>1. CASE i = Len(moves[c])
            BY <6>1, <5>3, <5>6, <5>7, <4>1
          <6>2. CASE i # Len(moves[c])
            <7>1. i \in 1 .. Len(moves[c]) - 1 /\ i + 1 \in 1 .. Len(moves[c])
              BY <6>2, <5>7
            <7>2. moves[c][i].to = moves[c][i + 1].from
              BY <7>1, <4>1
            <7>3. moves'[c][i] = moves[c][i] /\ moves'[c][i + 1] = moves[c][i + 1]
              BY <7>1, <5>6
            <7> QED
              BY <7>2, <7>3
          <6> QED
            BY <6>1, <6>2
        <5> QED
          BY <5>3, <5>5, <5>6, <5>7, <5>8
      <4> QED
        BY <4>2, <4>3
    <3>6. \A c \in Case \ stored' : moves'[c] = <<>>
      BY <3>1, <3>2 DEF MovesInv
    <3>7. ASSUME NEW e \in Desk \ stale', desk'[e].at = "ready", desk'[e].kind = "transfer",
                 NEW c \in desk'[e].ids
          PROVE  desk'[e].from[c] = order'[c]
      <4>1. e # d /\ desk'[e] = desk[e]
        BY <2>12, <3>7 DEF WriteTransfer, TypeOK, DesksOK
      <4>2. e \in Reading /\ ~k.change
        BY <2>12, <4>1, <3>7 DEF WriteTransfer, Reading
      <4>3. order' = order
        BY <2>12, <4>2 DEF WriteTransfer, TypeOK, RowsOK
      <4> QED
        BY <4>1, <4>3, <3>3, <3>7 DEF MovesInv
    <3>8. ASSUME NEW q \in Phone, phone[q].at = "saved", phone[q].case \notin untold',
                 moves'[phone[q].case] = <<>>
          PROVE  order'[phone[q].case] = phone[q].order
      <4>1. PICK c \in Case : c = phone[q].case
        BY <3>8 DEF TypeOK, PhonesOK, RowsOK
      <4>2. CASE c \notin desk[d].ids
        BY <3>8, <4>1, <4>2, <3>2, <3>3 DEF MovesInv
      <4>3. CASE c \in desk[d].ids
        <5>1. moves[c] \in Seq(Line)
          BY DEF TypeOK, LinesOK
        <5>2. ~k.change
          <6> SUFFICES ASSUME k.change PROVE FALSE
            OBVIOUS
          <6>1. moves'[c] = Append(moves[c], MoveLine(d, c))
            BY <3>8, <4>1, <4>3, <3>4
          <6> QED
            BY <6>1, <5>1, <3>8, <4>1
        <5> QED
          BY <3>8, <4>1, <4>3, <3>3, <3>4, <5>2 DEF MovesInv
      <4> QED
        BY <4>2, <4>3
    <3> QED
      BY <3>1, <3>5, <3>6, <3>7, <3>8 DEF MovesInv
  <2>13. CASE UNCHANGED vars
    BY <2>13 DEF vars, TypeOK, RowsOK, PhonesOK, DesksOK, Request, Call, BatchCall, Transfer, LinesOK, Line, MovesInv, MovesTell, cases, numbers, lines, marks
  <2> QED
    BY <2>1, <2>2, <2>3, <2>4, <2>5, <2>6, <2>7, <2>8, <2>9, <2>10, <2>11, <2>12, <2>13 DEF Next, PhoneStep, DeskStep, Send
<1>3. MovesInv => MovesTell
  BY DEF MovesInv
<1> QED
  BY <1>1, <1>2, <1>3, SurveyTypes, PTL DEF Spec

(* The orders that a call has seen open are open, unless it is stale. *)
OpenInv ==
    \A d \in Desk \ stale :
       /\ desk[d].at = "target" => desk[d].order \notin closed
       /\ desk[d].at = "ready" /\ desk[d].kind = "transfer" => desk[d].order \notin closed
       /\ desk[d].at = "ready" /\ desk[d].kind = "batch"
          => \A c \in desk[d].ids : order[c] \notin closed

(* Nothing below a closed order is changed, and nothing moved there, but in the
   gap between the reading and the writing of a call. *)
THEOREM FrozenWhenClosed == Spec => ClosedIsFrozen
<1>1. Init => OpenInv
  BY OrderAssumption, CaseAssumption DEF Init, Idle, OpenInv
<1>2. TypeOK /\ TypeOK' /\ OpenInv /\ [Next]_vars => OpenInv'
  <2> SUFFICES ASSUME TypeOK, TypeOK', OpenInv, [Next]_vars PROVE OpenInv'
    OBVIOUS
  <2> USE OrderAssumption, CaseAssumption
  <2>1. ASSUME NEW p \in Phone, NEW c \in App, NEW o \in Order,
                NEW t \in DetailsOf(o) \cup {NoDetail}, LookUp(p, c, o, t)
        PROVE  OpenInv'
    BY <2>1 DEF LookUp, DetailsOf, TypeOK, RowsOK, PhonesOK, DesksOK, Request, Call, BatchCall, Transfer, OpenInv, cases, numbers, lines, marks, Case, Idle
  <2>2. ASSUME NEW p \in Phone, Insert(p)
        PROVE  OpenInv'
    BY <2>2 DEF Insert, TypeOK, RowsOK, PhonesOK, DesksOK, Request, Call, BatchCall, Transfer, OpenInv, cases, numbers, lines, marks, Case, Idle
  <2>3. ASSUME NEW p \in Phone, Record(p)
        PROVE  OpenInv'
    BY <2>3 DEF Record, Faulty, TypeOK, RowsOK, PhonesOK, DesksOK, Request, Call, BatchCall, Transfer, OpenInv, cases, numbers, lines, marks, Case, Idle
  <2>4. ASSUME NEW p \in Phone, Answer(p)
        PROVE  OpenInv'
    BY <2>4 DEF Answer, TypeOK, RowsOK, PhonesOK, DesksOK, Request, Call, BatchCall, Transfer, OpenInv, cases, numbers, lines, marks, Case, Idle
  <2>5. ASSUME NEW p \in Phone, PhoneFails(p)
        PROVE  OpenInv'
    BY <2>5 DEF PhoneFails, Faulty, TypeOK, RowsOK, PhonesOK, DesksOK, Request, Call, BatchCall, Transfer, OpenInv, cases, numbers, lines, marks, Case, Idle
  <2>6. ASSUME NEW o \in Order, NEW to \in {"DRAFT", "CLOSED"}, SaveOrder(o, to)
        PROVE  OpenInv'
    BY <2>6 DEF SaveOrder, Reading, TypeOK, RowsOK, PhonesOK, DesksOK, Request, Call, BatchCall, Transfer, OpenInv, cases, numbers, lines, marks, Case, Idle
  <2>7. ASSUME NEW c \in Case, NEW o \in Order, SaveCase(c, o)
        PROVE  OpenInv'
    BY <2>7 DEF SaveCase, Reading, TypeOK, RowsOK, PhonesOK, DesksOK, Request, Call, BatchCall, Transfer, OpenInv, cases, numbers, lines, marks, Case, Idle
  <2>8. ASSUME NEW d \in Desk, NEW ids \in SUBSET Case, NEW to \in {"DONE", "DELETED"},
                ReadBatch(d, ids, to)
        PROVE  OpenInv'
    BY <2>8 DEF ReadBatch, TypeOK, RowsOK, PhonesOK, DesksOK, Request, Call, BatchCall, Transfer, OpenInv, cases, numbers, lines, marks, Case, Idle
  <2>9. ASSUME NEW d \in Desk, NEW ids \in SUBSET Case, NEW o \in Order,
                NEW t \in DetailsOf(o) \cup {NoDetail}, CheckTarget(d, ids, o, t)
        PROVE  OpenInv'
    BY <2>9 DEF CheckTarget, DetailsOf, TypeOK, RowsOK, PhonesOK, DesksOK, Request, Call, BatchCall, Transfer, OpenInv, cases, numbers, lines, marks, Case, Idle
  <2>10. ASSUME NEW d \in Desk, ReadRows(d)
        PROVE  OpenInv'
    BY <2>10 DEF ReadRows, TypeOK, RowsOK, PhonesOK, DesksOK, Request, Call, BatchCall, Transfer, OpenInv, cases, numbers, lines, marks, Case, Idle
  <2>11. ASSUME NEW d \in Desk, NEW k \in Outcome, WriteBatch(d, k)
        PROVE  OpenInv'
    BY <2>11 DEF WriteBatch, Written, Faulty, Outcome, Unmatched, TypeOK, RowsOK, PhonesOK, DesksOK, Request, Call, BatchCall, Transfer, OpenInv, cases, numbers, lines, marks, Case, Idle
  <2>12. ASSUME NEW d \in Desk, NEW k \in Outcome, WriteTransfer(d, k)
        PROVE  OpenInv'
    BY <2>12 DEF WriteTransfer, Written, Faulty, Outcome, Unmatched, MoveLine, Reading, TypeOK, RowsOK, PhonesOK, DesksOK, Request, Call, BatchCall, Transfer, OpenInv, cases, numbers, lines, marks, Case, Idle
  <2>13. CASE UNCHANGED vars
    BY <2>13 DEF vars, TypeOK, RowsOK, PhonesOK, DesksOK, Request, Call, BatchCall, Transfer, OpenInv, cases, numbers, lines, marks
  <2> QED
    BY <2>1, <2>2, <2>3, <2>4, <2>5, <2>6, <2>7, <2>8, <2>9, <2>10, <2>11, <2>12, <2>13 DEF Next, PhoneStep, DeskStep, Send
<1>3. TypeOK /\ OpenInv /\ [Next]_vars =>
        [\A d \in Desk \ stale :
            desk[d].at = "ready" /\ desk'[d].at = "done" =>
              /\ \A c \in Case : (c \in deleted) # (c \in deleted') => order[c] \notin closed
              /\ \A c \in Case : order'[c] # order[c] => order'[c] \notin closed]_vars
  <2> SUFFICES ASSUME TypeOK, OpenInv, [Next]_vars, NEW d \in Desk \ stale,
                      desk[d].at = "ready", desk'[d].at = "done"
               PROVE  /\ \A c \in Case : (c \in deleted) # (c \in deleted') => order[c] \notin closed
                      /\ \A c \in Case : order'[c] # order[c] => order'[c] \notin closed
    OBVIOUS
  <2>1. PICK k \in Outcome : WriteBatch(d, k) \/ WriteTransfer(d, k)
    <3>1. ASSUME NEW p \in Phone, NEW c \in App, NEW o \in Order,
                NEW t \in DetailsOf(o) \cup {NoDetail}, LookUp(p, c, o, t)
          PROVE  \E k \in Outcome : WriteBatch(d, k) \/ WriteTransfer(d, k)
      BY <3>1 DEF LookUp, TypeOK, DesksOK, Call, BatchCall, Transfer
    <3>2. ASSUME NEW p \in Phone, Insert(p)
          PROVE  \E k \in Outcome : WriteBatch(d, k) \/ WriteTransfer(d, k)
      BY <3>2 DEF Insert, TypeOK, DesksOK, Call, BatchCall, Transfer
    <3>3. ASSUME NEW p \in Phone, Record(p)
          PROVE  \E k \in Outcome : WriteBatch(d, k) \/ WriteTransfer(d, k)
      BY <3>3 DEF Record, TypeOK, DesksOK, Call, BatchCall, Transfer
    <3>4. ASSUME NEW p \in Phone, Answer(p)
          PROVE  \E k \in Outcome : WriteBatch(d, k) \/ WriteTransfer(d, k)
      BY <3>4 DEF Answer, TypeOK, DesksOK, Call, BatchCall, Transfer
    <3>5. ASSUME NEW p \in Phone, PhoneFails(p)
          PROVE  \E k \in Outcome : WriteBatch(d, k) \/ WriteTransfer(d, k)
      BY <3>5 DEF PhoneFails, TypeOK, DesksOK, Call, BatchCall, Transfer
    <3>6. ASSUME NEW o \in Order, NEW to \in {"DRAFT", "CLOSED"}, SaveOrder(o, to)
          PROVE  \E k \in Outcome : WriteBatch(d, k) \/ WriteTransfer(d, k)
      BY <3>6 DEF SaveOrder, TypeOK, DesksOK, Call, BatchCall, Transfer
    <3>7. ASSUME NEW c \in Case, NEW o \in Order, SaveCase(c, o)
          PROVE  \E k \in Outcome : WriteBatch(d, k) \/ WriteTransfer(d, k)
      BY <3>7 DEF SaveCase, TypeOK, DesksOK, Call, BatchCall, Transfer
    <3>8. ASSUME NEW e \in Desk, NEW ids \in SUBSET Case, NEW to \in {"DONE", "DELETED"},
                ReadBatch(e, ids, to)
          PROVE  \E k \in Outcome : WriteBatch(d, k) \/ WriteTransfer(d, k)
      BY <3>8 DEF ReadBatch, TypeOK, DesksOK, Call, BatchCall, Transfer
    <3>9. ASSUME NEW e \in Desk, NEW ids \in SUBSET Case, NEW o \in Order,
                NEW t \in DetailsOf(o) \cup {NoDetail}, CheckTarget(e, ids, o, t)
          PROVE  \E k \in Outcome : WriteBatch(d, k) \/ WriteTransfer(d, k)
      BY <3>9 DEF CheckTarget, TypeOK, DesksOK, Call, BatchCall, Transfer
    <3>10. ASSUME NEW e \in Desk, ReadRows(e)
          PROVE  \E k \in Outcome : WriteBatch(d, k) \/ WriteTransfer(d, k)
      BY <3>10 DEF ReadRows, TypeOK, DesksOK, Call, BatchCall, Transfer
    <3>11. ASSUME NEW e \in Desk, NEW j \in Outcome, WriteBatch(e, j)
          PROVE  \E k \in Outcome : WriteBatch(d, k) \/ WriteTransfer(d, k)
      <4>1. e = d
        BY <3>11 DEF WriteBatch, TypeOK, DesksOK
      <4> QED
        BY <3>11, <4>1
    <3>12. ASSUME NEW e \in Desk, NEW j \in Outcome, WriteTransfer(e, j)
          PROVE  \E k \in Outcome : WriteBatch(d, k) \/ WriteTransfer(d, k)
      <4>1. e = d
        BY <3>12 DEF WriteTransfer, TypeOK, DesksOK
      <4> QED
        BY <3>12, <4>1
    <3>13. CASE UNCHANGED vars
      BY <3>13 DEF vars
    <3> QED
      BY <3>1, <3>2, <3>3, <3>4, <3>5, <3>6, <3>7, <3>8, <3>9, <3>10, <3>11, <3>12, <3>13 DEF Next, PhoneStep, DeskStep, Send
  <2>2. CASE WriteBatch(d, k)
    BY <2>1, <2>2 DEF WriteBatch, OpenInv, TypeOK, RowsOK, DesksOK, Call, BatchCall, Transfer
  <2>3. CASE WriteTransfer(d, k)
    BY <2>1, <2>3 DEF WriteTransfer, OpenInv, TypeOK, RowsOK, DesksOK, Call, BatchCall, Transfer
  <2> QED
    BY <2>1, <2>2, <2>3
<1> QED
  BY <1>1, <1>2, <1>3, SurveyTypes, PTL DEF Spec, ClosedIsFrozen
=============================================================================
