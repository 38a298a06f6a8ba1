------------------------------- MODULE Survey -------------------------------
(***************************************************************************)
(* Pavement surveys: survey/survey.service.ts.                             *)
(*                                                                         *)
(* An order lists stretches of road (details); its cases are points that   *)
(* were measured.  The phones in the field send cases, and send them again *)
(* when no answer comes; at the desk, cases are edited, deleted, restored  *)
(* and moved to another order, and orders are closed.                      *)
(*                                                                         *)
(* A call reads first and writes later.  What a call writes is one step    *)
(* here: its rows are locked from the update to the commit, and the steps  *)
(* in between are those of the module Sift.  Failures of the parts are     *)
(* kept: the history can be lost, or can outlive a commit that failed.     *)
(* The phones and PostgreSQL are external.  The measurements, the write-   *)
(* back to a road segment and the numbers of orders are left out.          *)
(***************************************************************************)
EXTENDS Naturals, Sequences, FiniteSets

CONSTANTS
    Order,       \* orders of one company
    Detail,      \* survey_order_details
    OrderOf,     \* the order of each detail
    NoDetail,
    App,         \* cases of the phones: their external ids
    Web,         \* cases planned at the desk
    Phone,       \* requests in flight from phones
    Desk,        \* batch calls and transfers
    MaxFaults,   \* bound: failures
    MaxEdits     \* bound: orders saved again, and cases saved again

ASSUME OrderAssumption ==
    Order # {} /\ OrderOf \in [Detail -> Order] /\ NoDetail \notin Detail
ASSUME CaseAssumption == App \cap Web = {}
ASSUME BoundAssumption == MaxFaults \in Nat /\ MaxEdits \in Nat

Case == App \cup Web

VARIABLES
    closed,     \* orders in state CLOSED
    stored,     \* survey_cases
    order,      \* their order_id
    detail,     \* their detail_id
    deleted,    \* cases with a deleted_at
    counter,    \* case_sequences of the prefix
    number,     \* case_num, 0 for none
    moves,      \* history of a case: CREATED and the transfers, from and to
    status,     \* history of a case: the last of the status lines
    phone,      \* what each request of a phone is doing
    desk,       \* what each call of the desk is doing
    told,       \* external ids whose phone has been answered
    stale,      \* calls that have read what another has changed since
    edited,     \* cases the form has put under another order
    untold,     \* cases with a line lost, outlived or out of order
    faults, edits

cases == <<stored, order, detail, deleted>>
numbers == <<counter, number>>
lines == <<moves, status>>
marks == <<stale, edited, untold>>
vars == <<closed, cases, numbers, lines, phone, desk, told, marks, faults, edits>>

Idle == [at |-> "idle"]

Init ==
    /\ closed = {} /\ stored = {} /\ deleted = {}
    /\ order = [c \in Case |-> CHOOSE o \in Order : TRUE]   \* of no meaning yet
    /\ detail = [c \in Case |-> NoDetail]
    /\ counter = 0 /\ number = [c \in Case |-> 0]
    /\ moves = [c \in Case |-> <<>>] /\ status = [c \in Case |-> "none"]
    /\ phone = [p \in Phone |-> Idle] /\ desk = [d \in Desk |-> Idle]
    /\ told = {} /\ stale = {} /\ edited = {} /\ untold = {}
    /\ faults = 0 /\ edits = 0

-----------------------------------------------------------------------------
DetailsOf(o) == {t \in Detail : OrderOf[t] = o}

Faulty == faults < MaxFaults /\ faults' = faults + 1

(* Desk calls that have read and not written. *)
Reading == {d \in Desk : desk[d].at \in {"target", "ready"}}

-----------------------------------------------------------------------------
(* The phones. *)

(* Mutant: a case that is known already is sent to the insert again. *)
LookUpNothing(p, c, o, t) ==
    /\ phone[p].at = "idle" /\ c \notin told
    /\ phone' = [phone EXCEPT ![p] = [at |-> "new", case |-> c, order |-> o, detail |-> t]]
    /\ UNCHANGED <<closed, cases, numbers, lines, desk, told, marks, faults, edits>>

(* appIntake() up to its transaction: a known external id is answered at   *)
(* once.  The detail is the one named, or the first with the road's name.  *)
LookUp(p, c, o, t) ==
    /\ phone[p].at = "idle" /\ c \notin told
    /\ phone' = [phone EXCEPT ![p] =
                    IF c \in stored THEN [at |-> "answer", case |-> c]
                    ELSE [at |-> "new", case |-> c, order |-> o, detail |-> t]]
    /\ UNCHANGED <<closed, cases, numbers, lines, desk, told, marks, faults, edits>>

(* The transaction: number and row.  The unique index on the external id   *)
(* refuses the second of two requests, and takes its number back.          *)
Insert(p) ==
    LET c == phone[p].case IN
    /\ phone[p].at = "new"
    /\ IF c \in stored
       THEN /\ phone' = [phone EXCEPT ![p] = Idle]
            /\ UNCHANGED <<cases, numbers>>
       ELSE /\ stored' = stored \cup {c}
            /\ order' = [order EXCEPT ![c] = phone[p].order]
            /\ detail' = [detail EXCEPT ![c] = phone[p].detail]
            /\ counter' = counter + 1
            /\ number' = [number EXCEPT ![c] = counter + 1]
            /\ phone' = [phone EXCEPT ![p].at = "saved"]
            /\ UNCHANGED deleted
    /\ UNCHANGED <<closed, lines, desk, told, marks, faults, edits>>

(* record(): a line CREATED, which may be lost, or come after a transfer. *)
Record(p) ==
    LET c == phone[p].case IN
    /\ phone[p].at = "saved"
    /\ phone' = [phone EXCEPT ![p] = [at |-> "answer", case |-> c]]
    /\ \/ /\ moves' = [moves EXCEPT ![c] =
                          Append(@, [from |-> phone[p].order, to |-> phone[p].order])]
          /\ untold' = untold \cup {k \in {c} : moves[c] # <<>>}
          /\ UNCHANGED faults
       \/ Faulty /\ untold' = untold \cup {c} /\ UNCHANGED moves
    /\ UNCHANGED <<closed, cases, numbers, status, desk, told, stale, edited, edits>>

Answer(p) ==
    /\ phone[p].at = "answer"
    /\ told' = told \cup {phone[p].case}
    /\ phone' = [phone EXCEPT ![p] = Idle]
    /\ UNCHANGED <<closed, cases, numbers, lines, desk, marks, faults, edits>>

(* The request fails or its answer is lost, with the server or without.    *)
PhoneFails(p) ==
    /\ phone[p].at # "idle"
    /\ Faulty
    /\ phone' = [phone EXCEPT ![p] = Idle]
    /\ untold' = untold \cup {c \in App : phone[p].at = "saved" /\ phone[p].case = c}
    /\ UNCHANGED <<closed, cases, numbers, lines, desk, told, stale, edited, edits>>

-----------------------------------------------------------------------------
(* The desk. *)

(* upsertOrder() of an order: without a STATE it is a DRAFT again.  *)
SaveOrder(o, to) ==
    /\ edits < MaxEdits
    /\ edits' = edits + 1
    /\ closed' = IF to = "CLOSED" THEN closed \cup {o} ELSE closed \ {o}
    /\ stale' = IF o \notin closed /\ to = "CLOSED" THEN stale \cup Reading ELSE stale
    /\ UNCHANGED <<cases, numbers, lines, phone, desk, told, edited, untold, faults>>

(* upsertCase(): a point planned at the desk, or any point saved again     *)
(* under whatever order the form names; detail_id and deleted_at stay.     *)
SaveCase(c, o) ==
    /\ c \in stored \cup Web
    /\ IF c \in stored
       THEN /\ edits < MaxEdits /\ edits' = edits + 1
            /\ IF order[c] = o THEN UNCHANGED marks
               ELSE /\ edited' = edited \cup {c}
                    /\ untold' = untold \cup {c}
                    /\ stale' = stale \cup Reading
       ELSE UNCHANGED <<edits, marks>>
    /\ stored' = stored \cup {c}
    /\ order' = [order EXCEPT ![c] = o]
    /\ UNCHANGED <<closed, detail, deleted, numbers, lines, phone, desk, told, faults>>

(* batchStatus(): the rows, with the states of their orders. *)
ReadBatch(d, ids, to) ==
    LET targets == {c \in ids \cap stored :
                       order[c] \notin closed /\ ~(c \in deleted /\ to = "DELETED")} IN
    /\ desk[d].at = "idle"
    /\ desk' = [desk EXCEPT ![d] =
                   IF targets = {} THEN [at |-> "done"]
                   ELSE [at |-> "ready", kind |-> "batch", ids |-> targets, to |-> to]]
    /\ UNCHANGED <<closed, cases, numbers, lines, phone, told, marks, faults, edits>>

(* The outcomes of a write: all of it; the change without its line, since  *)
(* recordMany() only logs that it failed; the line without the change,     *)
(* since it commits first; nothing.                                        *)
Outcome == [change : BOOLEAN, line : BOOLEAN]
Written(k) == IF k.change /\ k.line THEN UNCHANGED faults ELSE Faulty
Unmatched(k, ids) == IF k.change # k.line THEN ids ELSE {}

(* Mutant: a point that is restored keeps its deleted_at. *)
WriteBatchKept(d, k) ==
    LET ids == desk[d].ids IN
    /\ desk[d].at = "ready" /\ desk[d].kind = "batch"
    /\ Written(k)
    /\ deleted' = IF ~k.change \/ desk[d].to # "DELETED" THEN deleted ELSE deleted \cup ids
    /\ status' = [c \in Case |-> IF k.line /\ c \in ids THEN desk[d].to ELSE status[c]]
    /\ untold' = untold \cup Unmatched(k, ids)
    /\ stale' = stale \ {d}
    /\ desk' = [desk EXCEPT ![d] = [at |-> "done"]]
    /\ UNCHANGED <<closed, stored, order, detail, numbers, moves, phone, told,
                   edited, edits>>

WriteBatch(d, k) ==
    LET ids == desk[d].ids IN
    /\ desk[d].at = "ready" /\ desk[d].kind = "batch"
    /\ Written(k)
    /\ deleted' = IF ~k.change THEN deleted
                  ELSE IF desk[d].to = "DELETED" THEN deleted \cup ids ELSE deleted \ ids
    /\ status' = [c \in Case |-> IF k.line /\ c \in ids THEN desk[d].to ELSE status[c]]
    /\ untold' = untold \cup Unmatched(k, ids)
    /\ stale' = stale \ {d}
    /\ desk' = [desk EXCEPT ![d] = [at |-> "done"]]
    /\ UNCHANGED <<closed, stored, order, detail, numbers, moves, phone, told,
                   edited, edits>>

(* Mutant: a closed order takes cases in. *)
CheckNoTarget(d, ids, o, t) ==
    /\ desk[d].at = "idle"
    /\ desk' = [desk EXCEPT ![d] = [at |-> "target", ids |-> ids, order |-> o, detail |-> t]]
    /\ UNCHANGED <<closed, cases, numbers, lines, phone, told, marks, faults, edits>>

(* transfer(): the order it moves the cases to, and the detail. *)
CheckTarget(d, ids, o, t) ==
    /\ desk[d].at = "idle"
    /\ desk' = [desk EXCEPT ![d] =
                   IF o \in closed THEN [at |-> "done"]
                   ELSE [at |-> "target", ids |-> ids, order |-> o, detail |-> t]]
    /\ UNCHANGED <<closed, cases, numbers, lines, phone, told, marks, faults, edits>>

(* The rows that are not there already, with the orders they come from. *)
ReadRows(d) ==
    LET movable == {c \in desk[d].ids \cap stored : order[c] # desk[d].order} IN
    /\ desk[d].at = "target"
    /\ desk' = [desk EXCEPT ![d] =
                   IF movable = {} THEN [at |-> "done"]
                   ELSE [at |-> "ready", kind |-> "transfer", ids |-> movable,
                         order |-> desk[d].order, detail |-> desk[d].detail,
                         from |-> order]]
    /\ UNCHANGED <<closed, cases, numbers, lines, phone, told, marks, faults, edits>>

(* Mutant: the line is made from the row after the move. *)
MoveLineAfter(d, c) == [from |-> desk[d].order, to |-> desk[d].order]

MoveLine(d, c) == [from |-> desk[d].from[c], to |-> desk[d].order]

(* Mutant: a point that is moved keeps its detail. *)
WriteTransferKept(d, k) ==
    LET ids == desk[d].ids IN
    /\ desk[d].at = "ready" /\ desk[d].kind = "transfer"
    /\ Written(k)
    /\ order' = [c \in Case |-> IF k.change /\ c \in ids THEN desk[d].order ELSE order[c]]
    /\ moves' = [c \in Case |-> IF k.line /\ c \in ids
                                 THEN Append(moves[c], MoveLine(d, c)) ELSE moves[c]]
    /\ untold' = untold \cup Unmatched(k, ids) \cup (IF d \in stale THEN ids ELSE {})
    /\ stale' = (stale \cup (IF k.change THEN Reading ELSE {})) \ {d}
    /\ edited' = IF k.change THEN edited \ ids ELSE edited
    /\ desk' = [desk EXCEPT ![d] = [at |-> "done"]]
    /\ UNCHANGED <<closed, stored, detail, deleted, numbers, status, phone, told, edits>>

WriteTransfer(d, k) ==
    LET ids == desk[d].ids IN
    /\ desk[d].at = "ready" /\ desk[d].kind = "transfer"
    /\ Written(k)
    /\ order' = [c \in Case |-> IF k.change /\ c \in ids THEN desk[d].order ELSE order[c]]
    /\ detail' = [c \in Case |-> IF k.change /\ c \in ids THEN desk[d].detail ELSE detail[c]]
    /\ moves' = [c \in Case |-> IF k.line /\ c \in ids
                                 THEN Append(moves[c], MoveLine(d, c)) ELSE moves[c]]
    /\ untold' = untold \cup Unmatched(k, ids) \cup (IF d \in stale THEN ids ELSE {})
    /\ stale' = (stale \cup (IF k.change THEN Reading ELSE {})) \ {d}
    /\ edited' = IF k.change THEN edited \ ids ELSE edited
    /\ desk' = [desk EXCEPT ![d] = [at |-> "done"]]
    /\ UNCHANGED <<closed, stored, deleted, numbers, status, phone, told, edits>>

-----------------------------------------------------------------------------
PhoneStep(p) == Insert(p) \/ Record(p) \/ Answer(p)

DeskStep(d) ==
    \/ \E ids \in SUBSET Case \ {{}} :
          \/ \E to \in {"DONE", "DELETED"} : ReadBatch(d, ids, to)
          \/ \E o \in Order : \E t \in DetailsOf(o) \cup {NoDetail} : CheckTarget(d, ids, o, t)
    \/ ReadRows(d)
    \/ \E k \in Outcome : WriteBatch(d, k) \/ WriteTransfer(d, k)

Send(c) ==
    \E p \in Phone, o \in Order : \E t \in DetailsOf(o) \cup {NoDetail} : LookUp(p, c, o, t)

Next ==
    \/ \E c \in App : Send(c)
    \/ \E p \in Phone : PhoneStep(p) \/ PhoneFails(p)
    \/ \E o \in Order, to \in {"DRAFT", "CLOSED"} : SaveOrder(o, to)
    \/ \E c \in Case, o \in Order : SaveCase(c, o)
    \/ \E d \in Desk : DeskStep(d)

(* A request that has arrived is worked off, and a phone sends a case      *)
(* again until it is answered.  Nobody has to work at the desk.            *)
Spec ==
    /\ Init /\ [][Next]_vars
    /\ \A p \in Phone : WF_vars(PhoneStep(p))
    /\ \A c \in App : WF_vars(Send(c))

-----------------------------------------------------------------------------
Line == [from : Order, to : Order]

Request ==
    {Idle} \cup [at : {"new", "saved"}, case : App, order : Order, detail : Detail \cup {NoDetail}]
           \cup [at : {"answer"}, case : App]

BatchCall == [at : {"ready"}, kind : {"batch"}, ids : SUBSET Case, to : {"DONE", "DELETED"}]

Transfer ==
    [at : {"ready"}, kind : {"transfer"}, ids : SUBSET Case, order : Order,
     detail : Detail \cup {NoDetail}, from : [Case -> Order]]

Call ==
    [at : {"idle", "done"}] \cup BatchCall \cup Transfer
    \cup [at : {"target"}, ids : SUBSET Case, order : Order, detail : Detail \cup {NoDetail}]

RowsOK ==
    /\ closed \subseteq Order
    /\ stored \subseteq Case /\ deleted \subseteq stored
    /\ order \in [Case -> Order] /\ detail \in [Case -> Detail \cup {NoDetail}]
    /\ counter \in Nat /\ number \in [Case -> Nat]
    /\ told \subseteq stored \cap App

LinesOK ==
    /\ moves \in [Case -> Seq(Line)]
    /\ status \in [Case -> {"none", "DONE", "DELETED"}]

MarksOK ==
    /\ stale \subseteq Desk
    /\ edited \cup untold \subseteq Case
    /\ faults \in 0 .. MaxFaults /\ edits \in 0 .. MaxEdits

PhonesOK ==
    /\ phone \in [Phone -> Request]
    /\ \A p \in Phone : phone[p].at \in {"saved", "answer"} => phone[p].case \in stored

DesksOK ==
    /\ desk \in [Desk -> Call]
    /\ \A d \in Desk : desk[d].at = "ready" => desk[d].ids \subseteq stored

TypeOK == RowsOK /\ LinesOK /\ MarksOK /\ PhonesOK /\ DesksOK

(* A case lies on a stretch of its own order (checked by upsertDetail,     *)
(* resolveDetail and transfer), unless the form has moved it, which leaves *)
(* its detail behind; the next transfer puts that right.                   *)
DetailFits ==
    \A c \in stored \ edited : detail[c] # NoDetail => OrderOf[detail[c]] = order[c]

(* The phones' cases are numbered from 1 without a gap, though two requests*)
(* of a case race to the unique index and one gives its number back.       *)
NumbersAreDense ==
    /\ {number[c] : c \in stored \cap App} = 1 .. counter
    /\ \A c, e \in stored \cap App : number[c] = number[e] => c = e

(* A case is hidden if and only if the last line about its status says     *)
(* that it was deleted.                                                    *)
DeletedTells == \A c \in stored \ untold : c \in deleted <=> status[c] = "DELETED"

(* "A transfer always leaves history": the lines of a case lead from order *)
(* to order, and end at the one it is under now.                           *)
MovesTell ==
    \A c \in stored \ untold : LET m == moves[c] IN
        /\ \A i \in 1 .. Len(m) - 1 : m[i].to = m[i + 1].from
        /\ m # <<>> => m[Len(m)].to = order[c]

(* "Nothing below a closed order changes": a batch changes no case there,  *)
(* and a transfer moves none in, except in the gap between reading and     *)
(* writing.                                                                *)
ClosedIsFrozen ==
    [][\A d \in Desk \ stale :
          desk[d].at = "ready" /\ desk'[d].at = "done" =>
              /\ \A c \in Case : (c \in deleted) # (c \in deleted') => order[c] \notin closed
              /\ \A c \in Case : order'[c] # order[c] => order'[c] \notin closed]_vars

(* A case that a phone has sent is answered in the end: repeated requests  *)
(* are recognised, also those that arrive while the first is at work.      *)
EveryCaseLands ==
    \A c \in App : (\E p \in Phone : phone[p].at # "idle" /\ phone[p].case = c) ~> c \in told
=============================================================================
