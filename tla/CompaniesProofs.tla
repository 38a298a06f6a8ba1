-------------------------- MODULE CompaniesProofs --------------------------
(***************************************************************************)
(* What holds of any tree of companies, any set of actions, any number of  *)
(* requests that overlap, and any bound on accounts.                       *)
(***************************************************************************)
EXTENDS Companies, TLAPS

(* Every request under way is well formed, and only about companies that   *)
(* exist; nothing else is ever written.                                    *)
THEOREM CompanyTypes == Spec => []TypeOK
<1> USE DEF Request, NoJob
<1>1. Init => TypeOK
  BY TreeAssumption, BoundAssumption DEF Init, TypeOK, All
<1>2. TypeOK /\ [Next]_vars => TypeOK'
  <2> SUFFICES ASSUME TypeOK, [Next]_vars PROVE TypeOK'
    OBVIOUS
  <2> USE TreeAssumption, BoundAssumption
  <2>races. \A q \in Client, t \in Company :
              /\ TypeOK /\ job[q].kind = "create" => GrantRaces(q, t) \subseteq Company
              /\ TypeOK /\ job[q].kind = "grant" => GrantRaces(q, t) \subseteq Company
              /\ QuotaRaces(q, t) \subseteq Company
    BY DEF TypeOK, GrantRaces, QuotaRaces, Others
  <2>1. ASSUME NEW q \in Client, NEW c \in Company, NEW actions \in SUBSET Action,
               NEW n \in 0 .. MaxUsers, CreateCheck(q, c, actions, n)
        PROVE  TypeOK'
    BY <2>1 DEF CreateCheck, Begin, rows, TypeOK, All
  <2>2. ASSUME NEW q \in Client, NEW by \in All, NEW t \in Company,
               NEW actions \in SUBSET Action, GrantCheck(q, by, t, actions)
        PROVE  TypeOK'
    BY <2>2 DEF GrantCheck, Begin, rows, TypeOK
  <2>3. ASSUME NEW q \in Client, NEW by \in All, NEW t \in Company,
               NEW n \in 0 .. MaxUsers, LimitCheck(q, by, t, n)
        PROVE  TypeOK'
    BY <2>3 DEF LimitCheck, Begin, rows, TypeOK
  <2>4. ASSUME NEW q \in Client, NEW c \in Company, AccountCheck(q, c)
        PROVE  TypeOK'
    BY <2>4 DEF AccountCheck, Begin, rows, TypeOK
  <2>5. ASSUME NEW q \in Client, CreateWrite(q) PROVE TypeOK'
    BY <2>5, <2>races DEF CreateWrite, End, TypeOK, All
  <2>6. ASSUME NEW q \in Client, GrantWrite(q) PROVE TypeOK'
    BY <2>6, <2>races DEF GrantWrite, Cascaded, Skips, End, TypeOK
  <2>7. ASSUME NEW q \in Client, LimitWrite(q) PROVE TypeOK'
    BY <2>7, <2>races DEF LimitWrite, End, TypeOK
  <2>8. ASSUME NEW q \in Client, AccountWrite(q) PROVE TypeOK'
    BY <2>8, <2>races DEF AccountWrite, End, TypeOK
  <2>9. ASSUME NEW q \in Client, WriteFails(q) PROVE TypeOK'
    BY <2>9 DEF WriteFails, End, rows, TypeOK
  <2>10. CASE UNCHANGED vars
    BY <2>10 DEF vars, rows, TypeOK
  <2> QED
    BY <2>1, <2>2, <2>3, <2>4, <2>5, <2>6, <2>7, <2>8, <2>9, <2>10 DEF Next
<1> QED
  BY <1>1, <1>2, PTL DEF Spec

-----------------------------------------------------------------------------
(* What a check has established still holds at the write, unless somebody  *)
(* has written about the same company in between.                          *)
QuotaInv ==
    /\ \A c \in Company : c \notin known => users[c] = 0
    /\ \A c \in Company : c \in known => users[c] <= limit[c] \/ c \in overtaken
    /\ \A q \in Client : job[q].kind = "account" =>
          /\ job[q].target \in known
          /\ users[job[q].target] < limit[job[q].target] \/ job[q].target \in overtaken
    /\ \A q \in Client : job[q].kind = "limit" =>
          /\ job[q].target \in known
          /\ users[job[q].target] <= job[q].n \/ job[q].target \in overtaken

(* A company's accounts stay within its limit through any sequence of new  *)
(* accounts and new limits that do not overlap (createAccount and          *)
(* updateSubCompany).                                                      *)
THEOREM QuotaHolds == Spec => []QuotaIsKept
<1> USE DEF NoJob
<1>1. Init => QuotaInv
  BY TreeAssumption DEF Init, QuotaInv
<1>2. TypeOK /\ QuotaInv /\ [Next]_vars => QuotaInv'
  <2> SUFFICES ASSUME TypeOK, QuotaInv, [Next]_vars PROVE QuotaInv'
    OBVIOUS
  <2> USE TreeAssumption, BoundAssumption DEF TypeOK, QuotaInv, Request
  <2>1. ASSUME NEW q \in Client, NEW c \in Company, NEW actions \in SUBSET Action,
               NEW n \in 0 .. MaxUsers, CreateCheck(q, c, actions, n)
        PROVE  QuotaInv'
    BY <2>1 DEF CreateCheck, Begin, rows
  <2>2. ASSUME NEW q \in Client, NEW by \in All, NEW t \in Company,
               NEW actions \in SUBSET Action, GrantCheck(q, by, t, actions)
        PROVE  QuotaInv'
    BY <2>2 DEF GrantCheck, Begin, rows
  <2>3. ASSUME NEW q \in Client, NEW by \in All, NEW t \in Company,
               NEW n \in 0 .. MaxUsers, LimitCheck(q, by, t, n)
        PROVE  QuotaInv'
    BY <2>3 DEF LimitCheck, Begin, rows
  <2>4. ASSUME NEW q \in Client, NEW c \in Company, AccountCheck(q, c)
        PROVE  QuotaInv'
    BY <2>4 DEF AccountCheck, Begin, rows
  <2>5. ASSUME NEW q \in Client, CreateWrite(q) PROVE QuotaInv'
    BY <2>5 DEF CreateWrite, End
  <2>6. ASSUME NEW q \in Client, GrantWrite(q) PROVE QuotaInv'
    BY <2>6 DEF GrantWrite, End
  <2>7. ASSUME NEW q \in Client, LimitWrite(q) PROVE QuotaInv'
    BY <2>7 DEF LimitWrite, End, QuotaRaces, Others
  <2>8. ASSUME NEW q \in Client, AccountWrite(q) PROVE QuotaInv'
    BY <2>8 DEF AccountWrite, End, QuotaRaces, Others
  <2>9. ASSUME NEW q \in Client, WriteFails(q) PROVE QuotaInv'
    BY <2>9 DEF WriteFails, End, rows
  <2>10. CASE UNCHANGED vars
    BY <2>10 DEF vars, rows
  <2> QED
    BY <2>1, <2>2, <2>3, <2>4, <2>5, <2>6, <2>7, <2>8, <2>9, <2>10 DEF Next
<1>3. TypeOK /\ QuotaInv => QuotaIsKept
  BY DEF TypeOK, QuotaInv, QuotaIsKept, All
<1> QED
  BY <1>1, <1>2, <1>3, CompanyTypes, PTL DEF Spec

-----------------------------------------------------------------------------
(* Below a company is below whatever that company is below: three tiers.   *)
LEMMA BelowIsBelow ==
    ASSUME NEW c \in Company, NEW t \in Company, parentOf[c] \in Subtree(t)
    PROVE  c \in Subtree(t)
<1>1. Platform \in Above(c) /\ parentOf[c] \in All /\ c \in All
  BY TreeAssumption DEF All
<1>2. CASE parentOf[c] = t
  BY <1>1, <1>2, TreeAssumption DEF Subtree, Above, Parents
<1>3. CASE parentOf[c] # t
  <2>1. t \in Above(parentOf[c]) /\ parentOf[c] # Platform
    BY <1>3, TreeAssumption DEF Subtree, Above, Parents
  <2>2. parentOf[c] \in Company /\ parentOf[parentOf[c]] = Platform
    BY <1>1, <2>1, TreeAssumption DEF Above, Parents, All
  <2>3. t = Platform
    BY <2>1, <2>2, TreeAssumption DEF Above, Parents
  <2> QED
    BY <2>3, TreeAssumption
<1> QED
  BY <1>2, <1>3

Accounted(c, a) ==
    \/ a \in Grantable(parentOf[c])
    \/ <<c, a>> \in skipped
    \/ c \in overtaken

(* What a request may grant is still its company's own when it writes,     *)
(* unless the request was overtaken; and the tree has no gaps.             *)
GrantInv ==
    /\ \A c \in Company : c \in known => parentOf[c] \in known
    /\ \A c \in Company : c \in known => \A a \in granted[c] : Accounted(c, a)
    /\ \A q \in Client : job[q].kind = "create" =>
          /\ job[q].by = parentOf[job[q].target] /\ job[q].by \in known
          /\ job[q].actions \subseteq Grantable(job[q].by) \/ job[q].target \in overtaken
    /\ \A q \in Client : job[q].kind = "grant" =>
          /\ job[q].by \in known
          /\ job[q].actions \subseteq Grantable(job[q].by) \/ job[q].target \in overtaken

(* Every grant is covered by the company above, or came over the head of   *)
(* that company, or from a request that was overtaken; the cascade of      *)
(* setGrants() leaves no other orphan, in any tree and order.              *)
THEOREM GrantsAreCovered == Spec => []GrantsNest
<1> USE DEF NoJob
<1>1. Init => GrantInv
  BY TreeAssumption DEF Init, GrantInv
<1>2. TypeOK /\ GrantInv /\ [Next]_vars => GrantInv'
  <2> SUFFICES ASSUME TypeOK, GrantInv, [Next]_vars PROVE GrantInv'
    OBVIOUS
  <2> USE TreeAssumption, BoundAssumption DEF TypeOK, GrantInv, Request, Accounted, Grantable
  <2>1. ASSUME NEW q \in Client, NEW c \in Company, NEW actions \in SUBSET Action,
               NEW n \in 0 .. MaxUsers, CreateCheck(q, c, actions, n)
        PROVE  GrantInv'
    BY <2>1 DEF CreateCheck, Begin, rows
  <2>2. ASSUME NEW q \in Client, NEW by \in All, NEW t \in Company,
               NEW actions \in SUBSET Action, GrantCheck(q, by, t, actions)
        PROVE  GrantInv'
    BY <2>2 DEF GrantCheck, Begin, rows
  <2>3. ASSUME NEW q \in Client, NEW by \in All, NEW t \in Company,
               NEW n \in 0 .. MaxUsers, LimitCheck(q, by, t, n)
        PROVE  GrantInv'
    BY <2>3 DEF LimitCheck, Begin, rows
  <2>4. ASSUME NEW q \in Client, NEW c \in Company, AccountCheck(q, c)
        PROVE  GrantInv'
    BY <2>4 DEF AccountCheck, Begin, rows
  <2>5. ASSUME NEW q \in Client, CreateWrite(q) PROVE GrantInv'
    <3> DEFINE t == job[q].target
    <3>1. /\ t \in Company /\ t \notin known
          /\ job[q].by = parentOf[t] /\ parentOf[t] \in known /\ parentOf[t] \in All
          /\ job[q].actions \subseteq Grantable(parentOf[t]) \/ t \in overtaken
      BY <2>5 DEF CreateWrite
    <3>2. \A c \in Company : c \in known => c # t /\ parentOf[c] # t
      BY <3>1
    <3>3. /\ known' = known \cup {t} /\ skipped' = skipped
          /\ granted' = [granted EXCEPT ![t] = job[q].actions]
          /\ job' = [job EXCEPT ![q] = [kind |-> "none"]]
          /\ overtaken \subseteq overtaken'
      BY <2>5 DEF CreateWrite, End
    <3>4. parentOf[t] # t
      BY <3>1, TreeAssumption DEF Above, Parents
    <3>5. \A b \in All : b # t => Grantable(b)' = Grantable(b)
      BY <3>3 DEF All
    <3>6. (\A c \in Company : c \in known => parentOf[c] \in known)'
      BY <3>1, <3>3, <2>5
    <3>7. (\A c \in Company : c \in known => \A a \in granted[c] : Accounted(c, a))'
      <4> SUFFICES ASSUME NEW c \in Company, c \in known', NEW a \in granted'[c]
                   PROVE  Accounted(c, a)'
        OBVIOUS
      <4>1. CASE c = t
        BY <4>1, <3>1, <3>3, <3>4, <3>5, <2>5
      <4>2. CASE c # t
        BY <4>2, <3>1, <3>2, <3>3, <3>5
      <4> QED
        BY <4>1, <4>2
    <3>8. (\A p \in Client : job[p].kind = "create" =>
              /\ job[p].by = parentOf[job[p].target] /\ job[p].by \in known
              /\ job[p].actions \subseteq Grantable(job[p].by) \/ job[p].target \in overtaken)'
      BY <3>1, <3>3, <3>5
    <3>9. (\A p \in Client : job[p].kind = "grant" =>
              /\ job[p].by \in known
              /\ job[p].actions \subseteq Grantable(job[p].by) \/ job[p].target \in overtaken)'
      BY <3>1, <3>3, <3>5
    <3> QED
      BY <3>6, <3>7, <3>8, <3>9
  <2>6. ASSUME NEW q \in Client, GrantWrite(q) PROVE GrantInv'
    <3> DEFINE t == job[q].target
               acts == job[q].actions
    <3>1. t \in Company /\ acts \subseteq Action /\ job[q].by \in All
      BY <2>6 DEF GrantWrite
    <3>2. /\ known' = known
          /\ granted' = Cascaded(t, acts)
          /\ job' = [job EXCEPT ![q] = [kind |-> "none"]]
          /\ overtaken' = overtaken \cup GrantRaces(q, t)
          /\ skipped' = (skipped \ ({t} \X Action)) \cup Skips(job[q].by, t, acts)
      BY <2>6 DEF GrantWrite, End
    <3>3. t \in Subtree(t) /\ Platform \notin Subtree(t) /\ parentOf[t] \notin Subtree(t)
      BY <3>1, TreeAssumption DEF Subtree, Above, Parents, All
    <3>4. \A b \in All : b \notin Subtree(t) => Grantable(b)' = Grantable(b)
      BY <3>2, <3>3 DEF Cascaded, All
    <3>5. (\A c \in Company : c \in known => \A a \in granted[c] : Accounted(c, a))'
      <4> SUFFICES ASSUME NEW c \in Company, c \in known, NEW a \in granted'[c]
                   PROVE  Accounted(c, a)'
        BY <3>2
      <4> parentOf[c] \in All
        OBVIOUS
      <4>1. CASE c = t
        <5>1. a \in acts
          BY <4>1, <3>1, <3>2 DEF Cascaded
        <5>2. CASE t \in overtaken
          BY <5>2, <4>1, <3>2
        <5>3. CASE t \notin overtaken
          <6>1. a \in Grantable(job[q].by)
            BY <5>1, <5>3, <2>6 DEF GrantWrite
          <6>2. CASE job[q].by = parentOf[t]
            BY <6>1, <6>2, <4>1, <3>3, <3>4
          <6>3. CASE job[q].by # parentOf[t]
            BY <5>1, <6>3, <4>1, <3>2, <3>3, <3>4 DEF Skips
          <6> QED
            BY <6>2, <6>3
        <5> QED
          BY <5>2, <5>3
      <4>2. CASE c # t /\ c \in Subtree(t)
        <5>1. a \in granted[c] /\ a \notin granted[t] \ acts
          BY <4>2, <3>1, <3>2 DEF Cascaded
        <5>2. CASE <<c, a>> \in skipped \/ c \in overtaken
          BY <5>2, <4>2, <3>2
        <5>3. CASE a \in Grantable(parentOf[c])
          <6>1. parentOf[c] \in Subtree(t) /\ parentOf[c] \in Company
            BY <4>2, <3>1 DEF Subtree, Above, Parents, All
          <6>2. CASE parentOf[c] = t
            BY <6>1, <6>2, <5>1, <5>3, <3>1, <3>2 DEF Cascaded
          <6>3. CASE parentOf[c] # t
            BY <6>1, <6>3, <5>1, <5>3, <3>1, <3>2 DEF Cascaded
          <6> QED
            BY <6>2, <6>3
        <5> QED
          BY <5>1, <5>2, <5>3
      <4>3. CASE c # t /\ c \notin Subtree(t)
        <5>1. a \in granted[c]
          BY <4>3, <3>2 DEF Cascaded
        <5>2. parentOf[c] \notin Subtree(t)
          BY <4>3, <3>1, BelowIsBelow
        <5> QED
          BY <5>1, <5>2, <4>3, <3>2, <3>4
      <4> QED
        BY <4>1, <4>2, <4>3
    <3>a. \A p \in Client : job'[p].kind \in {"create", "grant"} => p # q /\ job'[p] = job[p]
      BY <3>2
    <3>b. \A p \in Client : p # q /\ job[p].kind \in {"create", "grant"} =>
              /\ job[p].by \in All
              /\ job[p].by \in Subtree(t) => job[p].target \in overtaken'
      BY <3>2 DEF GrantRaces, Others
    <3>6. (\A p \in Client : job[p].kind = "create" =>
              /\ job[p].by = parentOf[job[p].target] /\ job[p].by \in known
              /\ job[p].actions \subseteq Grantable(job[p].by) \/ job[p].target \in overtaken)'
      BY <3>2, <3>4, <3>a, <3>b
    <3>7. (\A p \in Client : job[p].kind = "grant" =>
              /\ job[p].by \in known
              /\ job[p].actions \subseteq Grantable(job[p].by) \/ job[p].target \in overtaken)'
      BY <3>2, <3>4, <3>a, <3>b
    <3> QED
      BY <3>2, <3>5, <3>6, <3>7
  <2>7. ASSUME NEW q \in Client, LimitWrite(q) PROVE GrantInv'
    BY <2>7 DEF LimitWrite, End
  <2>8. ASSUME NEW q \in Client, AccountWrite(q) PROVE GrantInv'
    BY <2>8 DEF AccountWrite, End
  <2>9. ASSUME NEW q \in Client, WriteFails(q) PROVE GrantInv'
    BY <2>9 DEF WriteFails, End, rows
  <2>10. CASE UNCHANGED vars
    BY <2>10 DEF vars, rows
  <2> QED
    BY <2>1, <2>2, <2>3, <2>4, <2>5, <2>6, <2>7, <2>8, <2>9, <2>10 DEF Next
<1>3. TypeOK /\ GrantInv => GrantsNest
  BY DEF TypeOK, GrantInv, GrantsNest, Accounted, All
<1> QED
  BY <1>1, <1>2, <1>3, CompanyTypes, PTL DEF Spec
=============================================================================
