----------------------------- MODULE Companies -----------------------------
(***************************************************************************)
(* The tree of companies, what each may do, and how many accounts it may   *)
(* have (apps/api/src/auth/company-tree.service.ts, and createAccount() of *)
(* auth.service.ts).                                                       *)
(*                                                                         *)
(* Every request checks first and writes later, with nothing locked in     *)
(* between; a write is one transaction or one statement, and these run one *)
(* after the other.  A company is overtaken when a request about it is     *)
(* between its check and its write while another request writes what was   *)
(* checked.                                                                *)
(***************************************************************************)
EXTENDS Naturals, FiniteSets

CONSTANTS
    Client,     \* requests that may be under way at the same time
    Platform,   \* the company without a parent
    Company,    \* all other companies that may exist
    parentOf,   \* [Company -> Platform or another company]
    Action,     \* ACTION_KEYS
    MaxUsers    \* bound: accounts, and limits of accounts

All == Company \cup {Platform}

Parents(c) == IF c = Platform THEN {} ELSE {parentOf[c]}
(* Three tiers: a parent, and perhaps its parent. *)
Above(c) == Parents(c) \cup UNION {Parents(p) : p \in Parents(c)}
Tier(c) == Cardinality(Above(c)) + 1
Subtree(c) == {d \in All : d = c \/ c \in Above(d)}

ASSUME TreeAssumption ==
    /\ Platform \notin Company
    /\ parentOf \in [Company -> All]
    /\ \A c \in Company : Platform \in Above(c) /\ c \notin Above(c)
ASSUME BoundAssumption == MaxUsers \in Nat

VARIABLES
    known,      \* companies that exist
    granted,    \* active grants of every company
    limit,      \* user_limit
    users,      \* accounts of every company, active or not
    job,        \* what every client's request still has to write
    skipped,    \* grants from above a parent that did not have them itself
    overtaken   \* companies about which requests have overlapped

rows == <<known, granted, limit, users>>
vars == <<rows, job, skipped, overtaken>>

NoJob == [kind |-> "none"]

(* getGrantableActions(): the platform is limited by the code alone. *)
Grantable(c) == IF c = Platform THEN Action ELSE granted[c]

Init ==
    /\ known = {Platform}
    /\ granted = [c \in Company |-> {}]
    /\ limit = [c \in Company |-> 0]
    /\ users = [c \in Company |-> 0]
    /\ job = [q \in Client |-> NoJob]
    /\ skipped = {}
    /\ overtaken = {}

(* The companies of other requests that have checked the grants of by's    *)
(* subtree, or the accounts of c.                                          *)
Others(q) == {p \in Client \ {q} : job[p].kind # "none"}
GrantRaces(q, t) ==
    {job[p].target : p \in {p \in Others(q) :
        job[p].kind \in {"create", "grant"} /\ job[p].by \in Subtree(t)}}
QuotaRaces(q, t) ==
    {job[p].target : p \in {p \in Others(q) :
        job[p].kind \in {"account", "limit"} /\ job[p].target = t}}

Begin(q, request) ==
    /\ job[q] = NoJob
    /\ job' = [job EXCEPT ![q] = request]
    /\ UNCHANGED <<rows, skipped, overtaken>>

End(q, races) ==
    /\ job' = [job EXCEPT ![q] = NoJob]
    /\ overtaken' = overtaken \cup races

-----------------------------------------------------------------------------
(* createSubCompany(): one tier below, with no more than oneself has. *)
CreateCheck(q, c, actions, n) ==
    /\ parentOf[c] \in known
    /\ c \notin known
    /\ Tier(parentOf[c]) < 3
    /\ actions \subseteq Grantable(parentOf[c])
    /\ Begin(q, [kind |-> "create", by |-> parentOf[c], target |-> c, actions |-> actions, n |-> n])

CreateWrite(q) ==
    /\ job[q].kind = "create"
    /\ LET c == job[q].target
       IN /\ c \notin known
          /\ known' = known \cup {c}
          /\ granted' = [granted EXCEPT ![c] = job[q].actions]
          /\ limit' = [limit EXCEPT ![c] = job[q].n]
          /\ End(q, GrantRaces(q, c))
    /\ UNCHANGED <<users, skipped>>

(* setGrants(): the whole list for a company anywhere below. *)
GrantCheck(q, by, t, actions) ==
    /\ by \in known
    /\ t \in (known \cap Subtree(by)) \ {by}
    /\ actions \subseteq Grantable(by)
    /\ Begin(q, [kind |-> "grant", by |-> by, target |-> t, actions |-> actions])

(* Mutant: without the cascade. *)
NotCascaded(t, actions) == [granted EXCEPT ![t] = actions]

(* What is taken away is taken away from everybody below as well. *)
Cascaded(t, actions) ==
    [c \in Company |-> IF c = t THEN actions
                       ELSE IF c \in Subtree(t) THEN granted[c] \ (granted[t] \ actions)
                       ELSE granted[c]]

(* What t gets from above a parent that does not have it. *)
Skips(by, t, actions) ==
    IF by = parentOf[t] THEN {} ELSE {t} \X (actions \ Grantable(parentOf[t]))

GrantWrite(q) ==
    /\ job[q].kind = "grant"
    /\ LET t == job[q].target
           actions == job[q].actions
       IN /\ granted' = Cascaded(t, actions)
          /\ skipped' = (skipped \ ({t} \X Action)) \cup Skips(job[q].by, t, actions)
          /\ End(q, GrantRaces(q, t))
    /\ UNCHANGED <<known, limit, users>>

-----------------------------------------------------------------------------
(* updateSubCompany() with a limit: not below the accounts that exist. *)
LimitCheck(q, by, t, n) ==
    /\ by \in known
    /\ t \in (known \cap Subtree(by)) \ {by}
    /\ users[t] <= n
    /\ Begin(q, [kind |-> "limit", target |-> t, n |-> n])

LimitWrite(q) ==
    /\ job[q].kind = "limit"
    /\ limit' = [limit EXCEPT ![job[q].target] = job[q].n]
    /\ End(q, QuotaRaces(q, job[q].target))
    /\ UNCHANGED <<known, granted, users, skipped>>

(* Mutant: one account too many passes. *)
AccountCheckOneMore(q, c) ==
    /\ c \in known
    /\ users[c] <= limit[c]
    /\ users[c] <= MaxUsers
    /\ Begin(q, [kind |-> "account", target |-> c])

(* createAccount() *)
AccountCheck(q, c) ==
    /\ c \in known
    /\ users[c] < limit[c]
    /\ Begin(q, [kind |-> "account", target |-> c])

AccountWrite(q) ==
    /\ job[q].kind = "account"
    /\ users' = [users EXCEPT ![job[q].target] = @ + 1]
    /\ End(q, QuotaRaces(q, job[q].target))
    /\ UNCHANGED <<known, granted, limit, skipped>>

(* A write that fails (a code, a grant or an account that exists by now, or *)
(* any error) leaves nothing behind.                                       *)
WriteFails(q) ==
    /\ job[q] # NoJob
    /\ End(q, {})
    /\ UNCHANGED <<rows, skipped>>

Next ==
    \E q \in Client :
       \/ \E c \in Company, actions \in SUBSET Action, n \in 0..MaxUsers :
             CreateCheck(q, c, actions, n)
       \/ \E by \in All, t \in Company :
             \/ \E actions \in SUBSET Action : GrantCheck(q, by, t, actions)
             \/ \E n \in 0..MaxUsers : LimitCheck(q, by, t, n)
       \/ \E c \in Company : AccountCheck(q, c)
       \/ CreateWrite(q) \/ GrantWrite(q) \/ LimitWrite(q) \/ AccountWrite(q) \/ WriteFails(q)

Spec == Init /\ [][Next]_vars

-----------------------------------------------------------------------------
Request ==
    [kind : {"create"}, by : All, target : Company, actions : SUBSET Action, n : 0..MaxUsers]
        \cup [kind : {"grant"}, by : All, target : Company, actions : SUBSET Action]
        \cup [kind : {"limit"}, target : Company, n : 0..MaxUsers]
        \cup [kind : {"account"}, target : Company]

TypeOK ==
    /\ known \in SUBSET All
    /\ granted \in [Company -> SUBSET Action]
    /\ limit \in [Company -> 0..MaxUsers]
    /\ users \in [Company -> Nat]
    /\ job \in [Client -> Request \cup {NoJob}]
    /\ skipped \in SUBSET (Company \X Action)
    /\ overtaken \in SUBSET Company

(***************************************************************************)
(* "The grants of the company above are the limit of those below", through *)
(* every order of granting, taking away and creating.  There are two ways  *)
(* around it: a grant from above a parent that does not have it, and a     *)
(* request that was overtaken by one that took its own grants away.        *)
(***************************************************************************)
GrantsNest ==
    \A c \in known \ {Platform} : \A a \in granted[c] :
        \/ a \in Grantable(parentOf[c])
        \/ <<c, a>> \in skipped
        \/ c \in overtaken

(***************************************************************************)
(* No company has more accounts than its limit, which can be lowered at    *)
(* any time, as long as requests about its accounts do not overlap.        *)
(***************************************************************************)
QuotaIsKept == \A c \in known \ {Platform} : users[c] <= limit[c] \/ c \in overtaken

(* "Without this there would be grants that the company below has and the  *)
(* one above has not" (setGrants): what taking away is meant to prevent.   *)
NoOrphans == \A c \in known \ {Platform} : granted[c] \subseteq Grantable(parentOf[c])
=============================================================================
