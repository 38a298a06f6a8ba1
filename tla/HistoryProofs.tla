---------------------------- MODULE HistoryProofs ----------------------------
(***************************************************************************)
(* Proofs about the version history and what is dispatched:                *)
(*                                                                         *)
(* CaseHistory, for any finite number of calls of record and recordMany    *)
(* and any entities: versions have no holes, and only calls that met on an *)
(* entity can lose or overwrite one.                                       *)
(*                                                                         *)
(* Dispatch, for any clients, orders, cases and inspections: types and the *)
(* inspections of live orders, whatever overlaps; and the rules that span  *)
(* several endpoints, for requests that come one after the other           *)
(* (OneRequest).                                                           *)
(***************************************************************************)
EXTENDS CaseHistory, Dispatch, TLAPS, FiniteSetTheorems

-----------------------------------------------------------------------------
(* Facts about numbers that both parts need.                               *)

(* A set of natural numbers with an upper bound has a maximum, and Max     *)
(* finds it (Math.max and SQL's MAX in the services).                      *)
LEMMA MaxOfBounded ==
    ASSUME NEW N \in Nat, NEW S \in SUBSET (0..N), S # {}
    PROVE  Max(S) \in S /\ \A y \in S : Max(S) >= y
<1> DEFINE above(x) == {v \in S : v > x}
           T == {above(x) : x \in S}
<1>1. IsFiniteSet(S)
  <2>1. IsFiniteSet(0..N)
    BY FS_Interval
  <2>2. QED
    BY <2>1, FS_Subset
<1>2. T \subseteq FiniteSubsetsOf(S) /\ T # {}
  <2>1. FiniteSubsetsOf(S) = SUBSET S
    BY <1>1, FS_FiniteSubsetsOfFinite
  <2>2. \A U \in T : U \in SUBSET S
    OBVIOUS
  <2>3. T # {}
    OBVIOUS
  <2> HIDE DEF T
  <2>4. QED
    BY <2>1, <2>2, <2>3
<1>3. IsWellFoundedOn(StrictSubsetOrdering(S), FiniteSubsetsOf(S))
  BY FS_StrictSubsetOrderingWellFounded
<1>4. PICK U \in T : \A V \in T : <<V, U>> \notin StrictSubsetOrdering(S)
  <2> HIDE DEF T
  <2>1. QED
    BY <1>2, <1>3, WFMin
<1>5. PICK x \in S : U = above(x)
  OBVIOUS
<1>6. above(x) = {}
  <2> SUFFICES ASSUME NEW v \in above(x) PROVE FALSE
    OBVIOUS
  <2>1. above(v) \in T
    OBVIOUS
  <2>2. v \in S /\ v > x /\ \A y \in S : y \in Int
    OBVIOUS
  <2>3. above(v) \subseteq above(x) /\ v \notin above(v)
    <3>1. \A y \in S : y > v => y > x
      BY <2>2
    <3>2. ~(v > v)
      BY <2>2
    <3>3. QED
      BY <3>1, <3>2
  <2>4. above(v) \in SUBSET S /\ above(x) \in SUBSET S /\ above(v) # above(x)
    BY <2>3
  <2> HIDE DEF above
  <2>5. <<above(v), above(x)>> \in StrictSubsetOrdering(S)
    BY <2>3, <2>4 DEF StrictSubsetOrdering
  <2>6. QED
    BY <2>1, <2>5, <1>4, <1>5
<1>7. \A y \in S : x >= y
  BY <1>6
<1>8. QED
  BY <1>7 DEF Max

-----------------------------------------------------------------------------
(* Writing versions: CaseHistory.                                          *)

Begun(w) == pc[w] # "start"

(* Who is the author of a version has saved it under that number. *)
AuthorsSaved ==
    \A e \in Subject, v \in Version : author[e][v] # Nobody =>
        LET w == author[e][v]
        IN pc[w] = "saved" /\ e \in batch[w] /\ version[w][e] = v

(* A number that was computed follows a version that exists. *)
NumbersFollow ==
    \A w \in Writer : \A e \in batch[w] :
        /\ version[w][e] \in Version
        /\ version[w][e] = 1 \/ version[w][e] - 1 \in Versions(e)

(* Only a call that has begun has entities. *)
BatchesBegun == \A w \in Writer : batch[w] # {} => Begun(w)

(* Two calls that are under way for one entity have both met. *)
RivalsMet ==
    \A u, w \in Active : u # w /\ batch[u] \cap batch[w] # {} => w \in met

(* The number of a call that has met nobody is still free when it saves. *)
FreshNumbers ==
    \A w \in Active \ met : \A e \in batch[w] : author[e][version[w][e]] = Nobody

(* Nobody who is under way will write the number of a call that has met    *)
(* nobody and has saved.                                                   *)
SoloApart ==
    \A w \in Writer \ met : pc[w] = "saved" =>
        \A u \in Active : \A e \in batch[u] \cap batch[w] : version[u][e] # version[w][e]

HistoryIInv ==
    /\ HistoryTypeOK
    /\ AuthorsSaved
    /\ NumbersFollow
    /\ BatchesBegun
    /\ NoHoles
    /\ RivalsMet
    /\ FreshNumbers
    /\ SoloApart
    /\ SoloVersionsStay
    /\ RefusedForARival

(* The number that is computed next exists in the bound of the model (a    *)
(* version has an author who saved it, so there are fewer versions than    *)
(* calls), is free, and follows one that exists: MAX + 1.                  *)
LEMMA NextVersionFits ==
    ASSUME HistoryTypeOK, AuthorsSaved, NoHoles,
           NEW e \in Subject, NEW w \in Writer, pc[w] = "start"
    PROVE  /\ NextVersion(e) \in Version
           /\ NextVersion(e) \notin Versions(e)
           /\ NextVersion(e) = 1 \/ NextVersion(e) - 1 \in Versions(e)
<1> DEFINE N == Cardinality(Writer)
           S == {0} \cup Versions(e)
           m == Max(S)
<1>1. IsFiniteSet(Writer) /\ N \in Nat
  BY WriterAssumption, FS_CardinalityType
<1>2. S \in SUBSET (0..N) /\ Versions(e) \subseteq 1..N
  BY <1>1 DEF Versions, Version
<1>3. m \in S /\ \A y \in S : m >= y
  <2> HIDE DEF N, S
  <2>1. S # {}
    BY DEF S
  <2>2. QED
    BY <1>1, <1>2, <2>1, MaxOfBounded
<1>4. m \in 0..N
  BY <1>2, <1>3
<1>5. ASSUME NEW v \in 1..m PROVE v \in Versions(e)
  <2> DEFINE missing == {u \in 1..m : u \notin Versions(e)}
             last == Max(missing)
  <2>1. SUFFICES ASSUME v \notin Versions(e) PROVE FALSE
    OBVIOUS
  <2>2. missing \in SUBSET (0..N) /\ missing # {}
    BY <2>1, <1>4, <1>1
  <2>3. last \in missing /\ \A y \in missing : last >= y
    <3> HIDE DEF missing, N
    <3>1. QED
      BY <2>2, <1>1, MaxOfBounded
  <2>4. m \in Versions(e)
    BY <1>3, <1>4, <1>5
  <2> HIDE DEF last
  <2>5. last \in 1..m /\ last # m /\ last \notin Versions(e)
    BY <2>3, <2>4
  <2>6. last + 1 \in 1..m /\ last + 1 \notin missing
    BY <2>3, <2>5, <1>4
  <2>7. last + 1 \in Versions(e)
    BY <2>6
  <2>8. last + 1 # 1 /\ (last + 1) - 1 = last
    BY <2>5, <1>4
  <2>9. QED
    BY <2>5, <2>7, <2>8 DEF NoHoles
<1>6. m < N
  <2> DEFINE f == [v \in 1..m |-> author[e][v]]
             Others == Writer \ {w}
  <2>1. ASSUME NEW v \in 1..m PROVE /\ f[v] \in Others
                                    /\ version[f[v]][e] = v
    <3>1. v \in Version /\ author[e][v] # Nobody
      BY <1>5 DEF Versions
    <3>2. author[e][v] \in Writer
      BY <3>1 DEF HistoryTypeOK
    <3>3. pc[author[e][v]] = "saved" /\ version[author[e][v]][e] = v
      BY <3>1 DEF AuthorsSaved
    <3>4. QED
      BY <3>2, <3>3
  <2>2. f \in [1..m -> Others]
    BY <2>1
  <2>3. \A u, v \in 1..m : f[u] = f[v] => u = v
    BY <2>1
  <2>4. IsFiniteSet(Others) /\ Cardinality(Others) = N - 1
    BY <1>1, FS_RemoveElement
  <2>5. Cardinality(1..m) = m /\ IsFiniteSet(1..m)
    BY <1>4, FS_Interval
  <2>6. f \in Injection(1..m, Others)
    <3> HIDE DEF f, Others
    <3>1. QED
      BY <2>2, <2>3 DEF Injection, IsInjective
  <2>7. Cardinality(1..m) <= Cardinality(Others)
    <3> HIDE DEF f, Others
    <3>1. QED
      BY <2>4, <2>6, FS_Injection
  <2>8. QED
    BY <2>4, <2>5, <2>7, <1>1, <1>4
<1>7. NextVersion(e) = m + 1
  BY DEF NextVersion
<1>8. m + 1 \in Version
  BY <1>1, <1>4, <1>6 DEF Version
<1>9. m + 1 \notin Versions(e)
  <2>1. m + 1 \notin S
    <3> HIDE DEF S, m
    <3>1. QED
      BY <1>3, <1>4
  <2>2. QED
    BY <2>1
<1>10. m + 1 = 1 \/ (m + 1) - 1 \in Versions(e)
  BY <1>3, <1>4
<1>11. QED
  BY <1>7, <1>8, <1>9, <1>10

(* The invariant holds before the first version (the migration creates an  *)
(* empty case_histories).                                                  *)
LEMMA HistoryIInvInit == HistoryInit => HistoryIInv
<1> SUFFICES ASSUME HistoryInit PROVE HistoryIInv
  OBVIOUS
<1>1. HistoryTypeOK
  BY DEF HistoryInit, HistoryTypeOK
<1>2. \A e \in Subject : Versions(e) = {}
  BY DEF HistoryInit, Versions
<1>3. AuthorsSaved
  BY DEF HistoryInit, AuthorsSaved
<1>4. NoHoles
  BY <1>2 DEF NoHoles
<1>5. Active = {} /\ \A w \in Writer : batch[w] = {} /\ pc[w] = "start"
  BY DEF HistoryInit, Active
<1>6. NumbersFollow /\ BatchesBegun /\ RivalsMet /\ FreshNumbers
  BY <1>5 DEF NumbersFollow, BatchesBegun, RivalsMet, FreshNumbers, Begun
<1>7. SoloApart /\ SoloVersionsStay /\ RefusedForARival
  BY <1>5 DEF SoloApart, SoloVersionsStay, RefusedForARival
<1>8. QED
  BY <1>1, <1>3, <1>4, <1>6, <1>7 DEF HistoryIInv

(* Reading MAX: whoever is under way for one of the entities is met.       *)
LEMMA NumberVersionsKeeps ==
    ASSUME HistoryIInv, NEW w \in Writer, NEW entities \in SUBSET Subject,
           NumberVersions(w, entities)
    PROVE  HistoryIInv'
<1> USE DEF HistoryIInv
<1>1. pc[w] = "start" /\ w \notin Active /\ batch[w] = {}
  BY DEF NumberVersions, Active, BatchesBegun, Begun
<1>2. /\ pc' = [pc EXCEPT ![w] = "numbered"]
      /\ batch' = [batch EXCEPT ![w] = entities]
      /\ UNCHANGED <<found, author>>
  BY DEF NumberVersions
<1>3. /\ \A e \in entities : version'[w][e] = NextVersion(e)
      /\ \A u \in Writer : u # w => version'[u] = version[u]
      /\ version' \in [Writer -> [Subject -> Version \cup {0}]]
  <2>1. [e \in Subject |-> IF e \in entities THEN NextVersion(e) ELSE 0] \in [Subject -> Version \cup {0}]
    BY <1>1, NextVersionFits
  <2>2. QED
    BY <2>1 DEF NumberVersions, HistoryTypeOK
<1>4. \A e \in Subject : Versions(e)' = Versions(e)
  BY <1>2 DEF Versions
<1>5. Active' = Active \cup {w}
  BY <1>2 DEF Active, HistoryTypeOK
<1>6. met \subseteq met' /\ met' \subseteq Writer
  BY DEF NumberVersions, HistoryTypeOK, Active
<1>7. \A u \in Active : batch[u] \cap entities # {} => u \in met' /\ w \in met'
  BY DEF NumberVersions
<1>8. /\ pc'[w] = "numbered" /\ batch'[w] = entities
      /\ \A u \in Writer : u # w => pc'[u] = pc[u] /\ batch'[u] = batch[u]
  BY <1>2 DEF HistoryTypeOK
<1>9. HistoryTypeOK'
  BY <1>2, <1>3, <1>6 DEF HistoryTypeOK
<1>10. AuthorsSaved'
  BY <1>1, <1>2, <1>3, <1>8 DEF AuthorsSaved, HistoryTypeOK
<1>11. NumbersFollow'
  <2> SUFFICES ASSUME NEW u \in Writer, NEW e \in batch'[u]
               PROVE  /\ version'[u][e] \in Version
                      /\ version'[u][e] = 1 \/ version'[u][e] - 1 \in Versions(e)'
    BY DEF NumbersFollow
  <2>1. e \in Subject
    BY <1>9 DEF HistoryTypeOK
  <2>2. CASE u = w
    BY <2>1, <2>2, <1>1, <1>3, <1>4, <1>8, NextVersionFits
  <2>3. CASE u # w
    BY <2>1, <2>3, <1>3, <1>4, <1>8 DEF NumbersFollow
  <2>4. QED
    BY <2>2, <2>3
<1>12. BatchesBegun'
  BY <1>8 DEF BatchesBegun, Begun
<1>13. NoHoles'
  BY <1>4 DEF NoHoles
<1>14. RivalsMet'
  <2> SUFFICES ASSUME NEW u \in Active', NEW x \in Active', u # x, batch'[u] \cap batch'[x] # {}
               PROVE  x \in met'
    BY DEF RivalsMet
  <2>1. CASE u # w /\ x # w
    BY <2>1, <1>5, <1>6, <1>8 DEF RivalsMet, Active
  <2>2. CASE u = w \/ x = w
    BY <2>2, <1>5, <1>7, <1>8 DEF Active
  <2>3. QED
    BY <2>1, <2>2
<1>15. FreshNumbers'
  <2> SUFFICES ASSUME NEW u \in Active', u \notin met', NEW e \in batch'[u]
               PROVE  author[e][version'[u][e]] = Nobody
    BY <1>2 DEF FreshNumbers
  <2>1. e \in Subject
    BY <1>9 DEF HistoryTypeOK, Active
  <2>2. CASE u = w
    BY <2>1, <2>2, <1>1, <1>3, <1>8, NextVersionFits DEF Versions
  <2>3. CASE u # w
    BY <2>1, <2>3, <1>3, <1>5, <1>6, <1>8 DEF FreshNumbers, Active
  <2>4. QED
    BY <2>2, <2>3
<1>16. SoloApart'
  <2> SUFFICES ASSUME NEW x \in Writer, x \notin met', pc'[x] = "saved",
                      NEW u \in Active', NEW e \in batch'[u] \cap batch'[x]
               PROVE  version'[u][e] # version'[x][e]
    BY DEF SoloApart
  <2>1. x # w /\ pc[x] = "saved" /\ x \notin met /\ e \in batch[x] /\ version'[x] = version[x]
        /\ e \in Subject
    BY <1>3, <1>6, <1>8, <1>9 DEF HistoryTypeOK
  <2>2. CASE u # w
    BY <2>1, <2>2, <1>3, <1>5, <1>8 DEF SoloApart, Active
  <2>3. CASE u = w
    <3>1. author[e][version[x][e]] = x /\ version[x][e] \in Version
      BY <2>1 DEF SoloVersionsStay, NumbersFollow
    <3>2. version[x][e] \in Versions(e)
      BY <3>1, NobodyAssumption DEF Versions
    <3>3. version'[u][e] \notin Versions(e)
      BY <2>1, <2>3, <1>1, <1>3, <1>8, NextVersionFits
    <3>4. QED
      BY <3>2, <3>3, <2>1
  <2>4. QED
    BY <2>2, <2>3
<1>17. SoloVersionsStay'
  BY <1>2, <1>3, <1>6, <1>8 DEF SoloVersionsStay
<1>18. RefusedForARival'
  BY <1>2, <1>6, <1>8 DEF RefusedForARival
<1>19. QED
  BY <1>9, <1>10, <1>11, <1>12, <1>13, <1>14, <1>15, <1>16, <1>17, <1>18

(* A step within a call that writes nothing: it is at most no longer under *)
(* way, and then it is not saved, and has a rival if its key was taken.    *)
LEMMA QuietStepKeeps ==
    ASSUME HistoryIInv, NEW w \in Active, NEW to \in {"loaded", "failed", "broken"},
           pc' = [pc EXCEPT ![w] = to], UNCHANGED <<batch, version, author, met>>,
           found' \in [Writer -> SUBSET Subject],
           to = "failed" => w \in met
    PROVE  HistoryIInv'
<1> USE DEF HistoryIInv
<1>1. w \in Writer /\ pc[w] \in {"numbered", "loaded"}
  BY DEF Active
<1>2. pc'[w] = to /\ \A u \in Writer : u # w => pc'[u] = pc[u]
  BY <1>1 DEF HistoryTypeOK
<1>3. Active' \subseteq Active /\ \A e \in Subject : Versions(e)' = Versions(e)
  BY <1>1, <1>2 DEF Active, Versions
<1>4. HistoryTypeOK'
  BY <1>1 DEF HistoryTypeOK
<1>5. AuthorsSaved'
  BY <1>1, <1>2 DEF AuthorsSaved, HistoryTypeOK
<1>6. NumbersFollow' /\ NoHoles'
  BY <1>3, <1>4 DEF NumbersFollow, NoHoles, HistoryTypeOK
<1>7. BatchesBegun'
  BY <1>2 DEF BatchesBegun, Begun
<1>8. RivalsMet' /\ FreshNumbers'
  BY <1>3 DEF RivalsMet, FreshNumbers
<1>9. SoloApart' /\ SoloVersionsStay'
  BY <1>2, <1>3 DEF SoloApart, SoloVersionsStay
<1>10. RefusedForARival'
  <2>1. \A e \in Subject, v \in Version : author[e][v] # w
    BY <1>1, NobodyAssumption DEF AuthorsSaved
  <2>2. QED
    BY <1>1, <1>2, <2>1 DEF RefusedForARival
<1>11. QED
  BY <1>4, <1>5, <1>6, <1>7, <1>8, <1>9, <1>10

(* save(): the rows are written; a number that somebody else has taken is  *)
(* written over, which only happens to calls that have met.                *)
LEMMA SaveKeeps ==
    ASSUME HistoryIInv, NEW w \in Writer, Save(w)
    PROVE  HistoryIInv'
<1> USE DEF HistoryIInv
<1>1. /\ pc[w] = "loaded" /\ w \in Active
      /\ pc'[w] = "saved"
      /\ \A u \in Writer : u # w => pc'[u] = pc[u]
      /\ UNCHANGED <<batch, version, found, met>>
      /\ Active' = Active \ {w}
  BY DEF Save, HistoryTypeOK, Active
<1>2. ASSUME NEW e \in batch[w] PROVE e \in Subject /\ version[w][e] \in Version
  BY <1>2 DEF NumbersFollow, HistoryTypeOK
<1>3. ASSUME NEW e \in Subject, NEW v \in Version
      PROVE  author'[e][v] = IF e \in batch[w] /\ v = version[w][e] THEN w ELSE author[e][v]
  BY <1>3 DEF Save, HistoryTypeOK
<1>4. author' \in [Subject -> [Version -> Writer \cup {Nobody}]]
  BY <1>2 DEF Save, HistoryTypeOK
<1>5. ASSUME NEW e \in Subject
      PROVE  /\ Versions(e) \subseteq Versions(e)'
             /\ Versions(e)' \subseteq Versions(e) \cup {v \in Version : e \in batch[w] /\ v = version[w][e]}
  BY <1>3, NobodyAssumption DEF Versions
<1>6. HistoryTypeOK'
  BY <1>1, <1>4 DEF HistoryTypeOK, Save
<1>7. AuthorsSaved'
  <2> SUFFICES ASSUME NEW e \in Subject, NEW v \in Version, author'[e][v] # Nobody
               PROVE  /\ pc'[author'[e][v]] = "saved"
                      /\ e \in batch[author'[e][v]]
                      /\ version[author'[e][v]][e] = v
    BY <1>1 DEF AuthorsSaved
  <2>1. CASE e \in batch[w] /\ v = version[w][e]
    BY <2>1, <1>1, <1>3
  <2>2. CASE ~(e \in batch[w] /\ v = version[w][e])
    <3>1. author'[e][v] = author[e][v] /\ author[e][v] \in Writer
      BY <2>2, <1>3 DEF HistoryTypeOK
    <3>2. QED
      BY <3>1, <1>1 DEF AuthorsSaved
  <2>3. QED
    BY <2>1, <2>2
<1>8. NumbersFollow'
  <2>1. \A u \in Writer : \A e \in batch[u] : e \in Subject
    BY DEF HistoryTypeOK
  <2>2. QED
    BY <2>1, <1>1, <1>5 DEF NumbersFollow
<1>9. NoHoles'
  <2> SUFFICES ASSUME NEW e \in Subject, NEW v \in Versions(e)', v # 1
               PROVE  v - 1 \in Versions(e)'
    BY DEF NoHoles
  <2>1. CASE v \in Versions(e)
    BY <2>1, <1>5 DEF NoHoles
  <2>2. CASE v \notin Versions(e)
    BY <2>2, <1>5 DEF NumbersFollow
  <2>3. QED
    BY <2>1, <2>2
<1>10. BatchesBegun' /\ RivalsMet'
  BY <1>1 DEF BatchesBegun, Begun, RivalsMet
<1>11. FreshNumbers'
  <2> SUFFICES ASSUME NEW u \in Active, u # w, u \notin met, NEW e \in batch[u]
               PROVE  author'[e][version[u][e]] = Nobody
    BY <1>1 DEF FreshNumbers
  <2>1. e \in Subject /\ version[u][e] \in Version
    BY DEF Active, NumbersFollow, HistoryTypeOK
  <2>2. e \notin batch[w]
    BY <1>1 DEF RivalsMet
  <2>3. QED
    BY <2>1, <2>2, <1>3 DEF FreshNumbers
<1>12. SoloApart'
  <2> SUFFICES ASSUME NEW x \in Writer, x \notin met, pc'[x] = "saved",
                      NEW u \in Active, u # w, NEW e \in batch[u] \cap batch[x]
               PROVE  version[u][e] # version[x][e]
    BY <1>1 DEF SoloApart
  <2>1. CASE x = w
    BY <2>1, <1>1 DEF RivalsMet
  <2>2. CASE x # w
    BY <2>2, <1>1 DEF SoloApart
  <2>3. QED
    BY <2>1, <2>2
<1>13. SoloVersionsStay'
  <2> SUFFICES ASSUME NEW x \in Writer, x \notin met, pc'[x] = "saved", NEW e \in batch[x]
               PROVE  author'[e][version[x][e]] = x
    BY <1>1 DEF SoloVersionsStay
  <2>1. e \in Subject /\ version[x][e] \in Version
    BY DEF NumbersFollow, HistoryTypeOK
  <2>2. CASE x = w
    BY <2>1, <2>2, <1>3
  <2>3. CASE x # w
    <3>1. author[e][version[x][e]] = x
      BY <2>3, <1>1 DEF SoloVersionsStay
    <3>2. ~(e \in batch[w] /\ version[x][e] = version[w][e])
      BY <2>3, <1>1 DEF SoloApart
    <3>3. QED
      BY <2>1, <3>1, <3>2, <1>3
  <2>4. QED
    BY <2>2, <2>3
<1>14. RefusedForARival'
  <2> SUFFICES ASSUME NEW x \in Writer, pc'[x] \in {"failed", "broken"}
               PROVE  /\ pc'[x] = "failed" => x \in met
                      /\ \A e \in Subject, v \in Version : author'[e][v] # x
    BY <1>1 DEF RefusedForARival
  <2>1. x # w /\ pc[x] = pc'[x]
    BY <1>1
  <2>2. QED
    BY <2>1, <1>3 DEF RefusedForARival
<1>15. QED
  BY <1>6, <1>7, <1>8, <1>9, <1>10, <1>11, <1>12, <1>13, <1>14

(* Every step of every call keeps it. *)
LEMMA HistoryIInvStep == HistoryIInv /\ [HistoryNext]_historyVars => HistoryIInv'
<1> SUFFICES ASSUME HistoryIInv, [HistoryNext]_historyVars PROVE HistoryIInv'
  OBVIOUS
<1>1. ASSUME NEW w \in Writer, NEW entities \in SUBSET Subject, NumberVersions(w, entities)
      PROVE  HistoryIInv'
  BY <1>1, NumberVersionsKeeps
<1>2. ASSUME NEW w \in Writer, LoadExisting(w) PROVE HistoryIInv'
  <2>1. w \in Active /\ pc' = [pc EXCEPT ![w] = "loaded"] /\ UNCHANGED <<batch, version, author, met>>
    BY <1>2 DEF LoadExisting, Active
  <2>2. found' \in [Writer -> SUBSET Subject]
    BY <1>2 DEF LoadExisting, HistoryIInv, HistoryTypeOK
  <2>3. QED
    BY <2>1, <2>2, QuietStepKeeps
<1>3. ASSUME NEW w \in Writer, Save(w) PROVE HistoryIInv'
  BY <1>3, SaveKeeps
<1>4. ASSUME NEW w \in Writer, Fail(w) PROVE HistoryIInv'
  <2>1. w \in Active /\ pc' = [pc EXCEPT ![w] = "failed"] /\ UNCHANGED <<batch, version, author, met>>
    BY <1>4 DEF Fail, Active
  <2>2. found' \in [Writer -> SUBSET Subject]
    BY <1>4 DEF Fail, HistoryIInv, HistoryTypeOK
  <2>3. w \in met
    BY <1>4, <2>1 DEF Fail, Taken, HistoryIInv, FreshNumbers
  <2>4. QED
    BY <2>1, <2>2, <2>3, QuietStepKeeps
<1>5. ASSUME NEW w \in Writer, Break(w) PROVE HistoryIInv'
  <2>1. w \in Active /\ pc' = [pc EXCEPT ![w] = "broken"] /\ UNCHANGED <<batch, version, author, met>>
    BY <1>5 DEF Break
  <2>2. found' \in [Writer -> SUBSET Subject]
    BY <1>5 DEF Break, HistoryIInv, HistoryTypeOK
  <2>3. QED
    BY <2>1, <2>2, QuietStepKeeps
<1>6. CASE UNCHANGED historyVars
  BY <1>6 DEF historyVars, HistoryIInv, HistoryTypeOK, AuthorsSaved, NumbersFollow, BatchesBegun, Begun,
     NoHoles, RivalsMet, FreshNumbers, SoloApart, SoloVersionsStay, RefusedForARival, Versions, Active
<1>7. QED
  BY <1>1, <1>2, <1>3, <1>4, <1>5, <1>6 DEF HistoryNext, WriterStep

(* Numbers, authors and meetings fit together in every reachable state of  *)
(* the calls of record and recordMany.                                     *)
THEOREM HistoryInductive == HistorySpec => []HistoryIInv
<1>1. QED
  BY HistoryIInvInit, HistoryIInvStep, PTL DEF HistorySpec

(* Every variable keeps its type; MAX + 1 never leaves the bound.          *)
THEOREM HistoryTypes == HistorySpec => []HistoryTypeOK
<1>1. QED
  BY HistoryInductive, PTL DEF HistoryIInv

(* The versions of an entity are 1 .. n, whatever calls collide or fail.   *)
THEOREM VersionsHaveNoHoles == HistorySpec => []NoHoles
<1>1. QED
  BY HistoryInductive, PTL DEF HistoryIInv

(* A version written while nobody else wrote to its entities stays as it   *)
(* is for ever.                                                            *)
THEOREM SoloVersionsAreKept == HistorySpec => []SoloVersionsStay
<1>1. QED
  BY HistoryInductive, PTL DEF HistoryIInv

(* A key is only a duplicate for a rival, and of a batch that failed in    *)
(* any way nothing stays.                                                  *)
THEOREM RefusalsHaveRivals == HistorySpec => []RefusedForARival
<1>1. QED
  BY HistoryInductive, PTL DEF HistoryIInv

(* A version is only ever written over by a call that met another one, and *)
(* only if its author did so too: the races of record, lines 158-168, are  *)
(* the one way in which history is lost.                                   *)
OnlyRivalsOverwrite ==
    [][\A e \in Subject, v \in Version :
          author[e][v] # Nobody /\ author'[e][v] # author[e][v]
             => author[e][v] \in met /\ author'[e][v] \in met]_historyVars

(* History is only lost between two calls that ran at the same time.       *)
THEOREM OverwritesAreRaces == HistorySpec => OnlyRivalsOverwrite
<1>1. HistoryIInv /\ [HistoryNext]_historyVars =>
        [\A e \in Subject, v \in Version :
            author[e][v] # Nobody /\ author'[e][v] # author[e][v]
               => author[e][v] \in met /\ author'[e][v] \in met]_historyVars
  <2> SUFFICES ASSUME HistoryIInv, HistoryNext, NEW e \in Subject, NEW v \in Version,
                      author[e][v] # Nobody, author'[e][v] # author[e][v]
               PROVE  author[e][v] \in met /\ author'[e][v] \in met
    BY DEF historyVars
  <2> USE DEF HistoryIInv
  <2>1. PICK w \in Writer : Save(w)
    BY DEF HistoryNext, WriterStep, NumberVersions, LoadExisting, Fail, Break
  <2>2. e \in batch[w] /\ v = version[w][e] /\ author'[e][v] = w
    BY <2>1 DEF Save, HistoryTypeOK
  <2>3. w \in Active /\ pc[w] = "loaded"
    BY <2>1 DEF Save, Active
  <2>4. w \in met
    BY <2>2, <2>3 DEF FreshNumbers
  <2> DEFINE x == author[e][v]
  <2>5. x \in Writer /\ pc[x] = "saved" /\ e \in batch[x] /\ version[x][e] = v
    BY DEF HistoryTypeOK, AuthorsSaved
  <2>6. x \in met
    BY <2>2, <2>3, <2>5 DEF SoloApart
  <2>7. QED
    BY <2>2, <2>4, <2>6
<1>2. QED
  BY <1>1, HistoryInductive, PTL DEF HistorySpec, OnlyRivalsOverwrite

-----------------------------------------------------------------------------
(* Dispatching: Dispatch.                                                  *)

(* The versions of a case or an inspection show statuses of its own kind.  *)
SourceTrails == \A s \in Source : trail[s] \in Seq(SourceStatus)

(* A request that will write a status has found the row of its order, and  *)
(* what is still to be recorded of a source is a status of its kind.       *)
JobsFit ==
    \A c \in Client :
        /\ job[c].at = "status" => job[c].order \in Rows
        /\ job[c].at = "record" =>
              \A e \in DOMAIN job[c].fixed : e \in Source => job[c].fixed[e] \in SourceStatus

IInv == TypeOK /\ SourceTrails /\ JobsFit

(* What a request carries, by the place where it is. *)
LEMMA JobShape ==
    ASSUME NEW j \in Jobs
    PROVE  /\ j.at = "create" => j.source \in Source /\ j.workers \in SUBSET Worker
           /\ j.at = "update" => /\ j.order \in Order /\ j.crew \in Crews
                                 /\ j.status \in OrderStatus /\ j.workers \in SUBSET Worker
           /\ j.at = "status" => j.order \in Order /\ j.to \in OrderStatus /\ j.restore \in BOOLEAN
           /\ j.at = "maint" => j.maint \in Maint /\ j.to \in SourceStatus
           /\ j.at = "record" =>
                 /\ j.reread \in SUBSET Order
                 /\ DOMAIN j.fixed \subseteq Entity
                 /\ j.fixed \in [DOMAIN j.fixed -> OrderStatus]
<1>1. CASE j = NoJob
  BY <1>1 DEF NoJob
<1>2. CASE j \in [at : {"create"}, source : Source, workers : SUBSET Worker]
  BY <1>2
<1>3. CASE j \in [at : {"update"}, order : Order, crew : Crews, status : OrderStatus,
                  workers : SUBSET Worker]
  BY <1>3
<1>4. CASE j \in [at : {"status"}, order : Order, to : OrderStatus, restore : BOOLEAN]
  BY <1>4
<1>5. CASE j \in [at : {"maint"}, maint : Maint, to : SourceStatus]
  BY <1>5
<1>6. CASE j \in [at : {"record"}, reread : SUBSET Order,
                  fixed : UNION {[d -> OrderStatus] : d \in SUBSET Entity}]
  <2>1. PICK d \in SUBSET Entity : j.fixed \in [d -> OrderStatus]
    BY <1>6
  <2>2. j.at = "record" /\ j.reread \in SUBSET Order /\ DOMAIN j.fixed = d
    BY <1>6, <2>1
  <2>3. QED
    BY <2>1, <2>2
<1>7. QED
  BY <1>1, <1>2, <1>3, <1>4, <1>5, <1>6 DEF Jobs

(* The end of a handler is a place of a request. *)
LEMMA RecordIsJob ==
    ASSUME NEW d \in SUBSET Entity, NEW f \in [d -> OrderStatus], NEW r \in SUBSET Order
    PROVE  /\ ToRecord(f, r) \in Jobs
           /\ ToRecord(f, r).at = "record"
           /\ ToRecord(f, r).fixed = f
           /\ ToRecord(f, r).reread = r
<1>1. f \in UNION {[x -> OrderStatus] : x \in SUBSET Entity}
  OBVIOUS
<1>2. QED
  BY <1>1 DEF ToRecord, Jobs

(* Statuses of sources are statuses of orders too; the named ones lie in   *)
(* their ranges.                                                           *)
LEMMA StatusRanges ==
    /\ SourceStatus \subseteq OrderStatus /\ OrderStatus \subseteq Int
    /\ {Deleted, Unconfirmed, Watching, Dispatched} \subseteq SourceStatus
    /\ {Deleted, Pending, Working, Reported, Finished} \subseteq OrderStatus
BY DEF SourceStatus, OrderStatus, Deleted, Unconfirmed, Watching, Dispatched, Pending, Working,
   Reported, Finished

(* The greater of two numbers. *)
LEMMA MaxOfTwo ==
    ASSUME NEW a \in Int, NEW b \in Int
    PROVE  Max({a, b}) \in {a, b} /\ Max({a, b}) >= a /\ Max({a, b}) >= b
<1>1. \E x \in {a, b} : \A y \in {a, b} : x >= y
  BY SMT
<1>2. /\ Max({a, b}) \in {a, b}
      /\ \A y \in {a, b} : Max({a, b}) >= y
  BY <1>1 DEF Max
<1>3. QED
  BY <1>2

(* getPreviousDifferentValue() finds the default or a status that a        *)
(* version of the entity shows, never "deleted".                           *)
LEMMA PreviousShown ==
    ASSUME TypeOK, NEW e \in Entity, NEW default
    PROVE  \/ PreviousOr(e, default) = default
           \/ /\ PreviousOr(e, default) # Deleted
              /\ \E i \in DOMAIN trail[e] : PreviousOr(e, default) = trail[e][i]
<1>1. CASE LiveVersions(e) = {}
  BY <1>1 DEF PreviousOr
<1>2. CASE LiveVersions(e) # {}
  <2>1. trail[e] \in Seq(OrderStatus)
    BY DEF TypeOK
  <2>2. Len(trail[e]) \in Nat /\ DOMAIN trail[e] = 1..Len(trail[e])
    BY <2>1
  <2>3. LiveVersions(e) \in SUBSET (0..Len(trail[e]))
    BY <2>2 DEF LiveVersions
  <2>4. Max(LiveVersions(e)) \in LiveVersions(e)
    BY <1>2, <2>2, <2>3, MaxOfBounded
  <2>5. PreviousOr(e, default) = trail[e][Max(LiveVersions(e))]
    BY <1>2 DEF PreviousOr
  <2>6. QED
    BY <2>4, <2>5 DEF LiveVersions
<1>3. QED
  BY <1>1, <1>2

(* What a restore finds for a source is a status of a source.              *)
LEMMA PreviousOfSource ==
    ASSUME TypeOK, SourceTrails, NEW s \in Source, NEW default \in SourceStatus
    PROVE  PreviousOr(s, default) \in SourceStatus
<1>1. s \in Entity /\ trail[s] \in Seq(SourceStatus)
  BY DEF Entity, SourceTrails
<1>2. \A i \in DOMAIN trail[s] : trail[s][i] \in SourceStatus
  BY <1>1
<1>3. QED
  BY <1>1, <1>2, PreviousShown

(* Every request to change a status resolves to one that orders have, or   *)
(* is refused; to "deleted" only by a deletion, of an order that is not    *)
(* locked; and to "finished" only with photos or by a restore of an order  *)
(* that was finished before (resolveStatus, resolveRestore).               *)
LEMMA Resolved ==
    ASSUME TypeOK, NEW o \in Order, NEW request \in OrderRequests, NEW s \in Resolve(o, request)
    PROVE  /\ s \in OrderStatus
           /\ s = Deleted => status[o] < Reported
           /\ s = Finished => photos[o] \/ \E i \in DOMAIN trail[o] : trail[o][i] = Finished
<1>1. status[o] \in -1..3 /\ WorkerStatus(o) \in {0, 1} /\ o \in Entity
  BY DEF TypeOK, OrderStatus, Deleted, Finished, WorkerStatus, Working, Pending, Entity
<1>2. trail[o] \in Seq(OrderStatus) /\ \A i \in DOMAIN trail[o] : trail[o][i] \in OrderStatus
  <2>1. trail[o] \in Seq(OrderStatus)
    BY <1>1 DEF TypeOK
  <2>2. QED
    BY <2>1
<1>3. CASE request = Deleted
  <2>1. s \in DeleteTo(o)
    BY <1>3 DEF Resolve, Deleted, Withdraw, Restore
  <2>2. s = Deleted /\ status[o] < Reported
    BY <2>1 DEF DeleteTo
  <2>3. QED
    BY <2>2, StatusRanges DEF Deleted, Finished
<1>4. CASE request = Withdraw
  <2>1. s \in {IF status[o] - 1 > Working THEN status[o] - 1 ELSE WorkerStatus(o)}
    BY <1>4 DEF Resolve, WithdrawTo, Deleted, Withdraw, Restore
  <2>2. s \in 0..2
    BY <2>1, <1>1 DEF Working
  <2>3. QED
    BY <2>2 DEF OrderStatus, Deleted, Finished
<1>5. CASE request = Restore
  <2> DEFINE p == PreviousOr(o, Deleted)
  <2>1. s = Max({WorkerStatus(o), p})
    BY <1>5 DEF Resolve, RestoreTo, Deleted, Withdraw, Restore
  <2>2. p = Deleted \/ \E i \in DOMAIN trail[o] : p = trail[o][i]
    BY <1>1, PreviousShown
  <2>3. p \in OrderStatus
    BY <2>2, <1>2, StatusRanges
  <2> HIDE DEF p
  <2>4. WorkerStatus(o) \in Int /\ p \in Int
    BY <1>1, <2>3, StatusRanges
  <2>5. s \in {WorkerStatus(o), p} /\ s >= WorkerStatus(o)
    BY <2>1, <2>4, MaxOfTwo
  <2>6. s \in OrderStatus /\ s # Deleted
    BY <2>3, <2>5, <1>1 DEF OrderStatus, Deleted, Finished
  <2>7. s = Finished => s = p /\ p # Deleted
    BY <2>5, <1>1 DEF Finished, Deleted
  <2>8. QED
    BY <2>2, <2>6, <2>7
<1>6. CASE request \notin {Deleted, Withdraw, Restore}
  <2>1. s = request /\ (s = Finished => photos[o])
    BY <1>6 DEF Resolve, SetTo
  <2>2. s \in OrderStatus
    BY <2>1, <1>6 DEF OrderRequests
  <2>3. QED
    BY <2>1, <2>2, <1>6
<1>7. QED
  BY <1>3, <1>4, <1>5, <1>6

(* Every request to change an inspection resolves to one of its statuses;  *)
(* to "deleted" only if every order of it is deleted (softDelete).         *)
LEMMA MaintResolved ==
    ASSUME TypeOK, SourceTrails, NEW m \in Maint, NEW request \in MaintRequests,
           NEW s \in MaintResolve(m, request)
    PROVE  /\ s \in SourceStatus
           /\ s = Deleted => \A o \in OrdersOf(m) : status[o] = Deleted
<1>1. m \in Source /\ m \in Entity
  BY DEF Source, Entity
<1>2. CASE request = Deleted
  <2>1. s \in MaintDeleteTo(m)
    BY <1>2 DEF MaintResolve, Deleted, Restore
  <2>2. QED
    BY <2>1, StatusRanges DEF MaintDeleteTo
<1>3. CASE request = Restore
  <2>1. s = PreviousOr(m, Unconfirmed)
    BY <1>3 DEF MaintResolve, Deleted, Restore
  <2>2. s \in SourceStatus
    BY <2>1, <1>1, StatusRanges, PreviousOfSource
  <2>3. s # Deleted
    BY <2>1, <1>1, PreviousShown DEF Unconfirmed, Deleted
  <2>4. QED
    BY <2>2, <2>3
<1>4. CASE request \notin {Deleted, Restore}
  BY <1>4 DEF MaintResolve, MaintRequests
<1>5. QED
  BY <1>2, <1>3, <1>4

(* Versions that are added keep the types of the trails.                   *)
LEMMA TrailsExtend ==
    ASSUME TypeOK, SourceTrails, NEW d \in SUBSET Entity, NEW f \in [d -> OrderStatus],
           \A e \in d : e \in Source => f[e] \in SourceStatus,
           trail' = Extended(f)
    PROVE  trail' \in [Entity -> Seq(OrderStatus)] /\ SourceTrails'
<1>1. ASSUME NEW e \in Entity
      PROVE  /\ trail'[e] \in Seq(OrderStatus)
             /\ e \in Source => trail'[e] \in Seq(SourceStatus)
  <2>1. trail[e] \in Seq(OrderStatus) /\ (e \in Source => trail[e] \in Seq(SourceStatus))
    BY DEF TypeOK, SourceTrails
  <2>2. trail'[e] = IF e \in d THEN Append(trail[e], f[e]) ELSE trail[e]
    BY DEF Extended
  <2>3. CASE e \in d
    <3>1. f[e] \in OrderStatus /\ (e \in Source => f[e] \in SourceStatus)
      BY <2>3
    <3>2. QED
      BY <2>1, <2>2, <2>3, <3>1
  <2>4. CASE e \notin d
    BY <2>1, <2>2, <2>4
  <2>5. QED
    BY <2>3, <2>4
<1>2. trail' = [e \in Entity |-> trail'[e]]
  BY DEF Extended
<1>3. trail' \in [Entity -> Seq(OrderStatus)]
  BY <1>1, <1>2
<1>4. SourceTrails'
  BY <1>1 DEF SourceTrails, Entity
<1>5. QED
  BY <1>3, <1>4

(* The same for one version of one entity.                                 *)
LEMMA TrailExtends ==
    ASSUME TypeOK, SourceTrails, NEW e \in Entity, NEW s \in OrderStatus,
           e \in Source => s \in SourceStatus,
           trail' = [trail EXCEPT ![e] = Append(@, s)]
    PROVE  trail' \in [Entity -> Seq(OrderStatus)] /\ SourceTrails'
<1>1. ASSUME NEW x \in Entity
      PROVE  /\ trail'[x] \in Seq(OrderStatus)
             /\ x \in Source => trail'[x] \in Seq(SourceStatus)
  <2>1. trail[x] \in Seq(OrderStatus) /\ (x \in Source => trail[x] \in Seq(SourceStatus))
    BY DEF TypeOK, SourceTrails
  <2>2. trail'[x] = IF x = e THEN Append(trail[x], s) ELSE trail[x]
    BY DEF TypeOK
  <2>3. QED
    BY <2>1, <2>2
<1>2. trail' = [x \in Entity |-> trail'[x]]
  BY DEF TypeOK
<1>3. trail' \in [Entity -> Seq(OrderStatus)]
  BY <1>1, <1>2
<1>4. SourceTrails'
  BY <1>1 DEF SourceTrails, Entity
<1>5. QED
  BY <1>3, <1>4

(* The invariant holds when nothing has been dispatched. *)
LEMMA IInvInit == Init => IInv
<1> SUFFICES ASSUME Init PROVE IInv
  OBVIOUS
<1>1. NoJob \in Jobs /\ NoJob.at = "none"
  BY DEF Jobs, NoJob
<1>2. trail \in [Entity -> Seq(OrderStatus)] /\ SourceTrails
  <2>1. PICK u \in SourceStatus : u = Unconfirmed /\ u \in OrderStatus
    BY StatusRanges
  <2>2. <<u>> \in Seq(SourceStatus)
    BY <2>1
  <2>3. <<u>> \in Seq(OrderStatus)
    BY <2>1
  <2>4. <<>> \in Seq(OrderStatus)
    OBVIOUS
  <2>5. trail = [e \in Entity |-> IF e \in Source THEN <<u>> ELSE <<>>]
    BY <2>1 DEF Init
  <2>6. trail \in [Entity -> Seq(OrderStatus)]
    BY <2>3, <2>4, <2>5
  <2>7. \A s \in Source : trail[s] = <<u>>
    BY <2>5 DEF Entity
  <2>8. QED
    BY <2>2, <2>6, <2>7 DEF SourceTrails
<1>3. TypeOK
  BY <1>1, <1>2, StatusRanges DEF Init, TypeOK
<1>4. JobsFit
  BY <1>1 DEF Init, JobsFit
<1>5. QED
  BY <1>2, <1>3, <1>4 DEF IInv

(* The part of a handler before its transaction changes no row.            *)
LEMMA CheckKeeps ==
    ASSUME IInv, NEW c \in Client, NEW j \in Jobs,
           job' = [job EXCEPT ![c] = j], UNCHANGED <<rows, trail, exposed>>,
           j.at = "status" => j.order \in Rows,
           j.at # "record"
    PROVE  IInv'
<1> USE DEF IInv
<1>1. UNCHANGED <<source, status, workers, photos, srcStatus, trail, exposed>> /\ Rows' = Rows
  BY DEF rows, Rows
<1>2. TypeOK'
  BY <1>1 DEF TypeOK
<1>3. \A d \in Client : job'[d] = IF d = c THEN j ELSE job[d]
  BY DEF TypeOK
<1>4. JobsFit'
  BY <1>1, <1>3 DEF JobsFit
<1>5. SourceTrails'
  BY <1>1 DEF SourceTrails
<1>6. QED
  BY <1>2, <1>4, <1>5

(* The steps of a request that only look at rows, and may be refused. *)
Looks(c) ==
    \/ \E s \in Source, crew \in SUBSET Worker : CreateCheck(c, s, crew)
    \/ CreateRefused(c)
    \/ \E o \in Order, crew \in Crews : UpdateCheck(c, o, crew)
    \/ \E o \in Order, request \in OrderRequests : StatusCheck(c, o, request)
    \/ \E m \in Maint, request \in MaintRequests : MaintCheck(c, m, request)

(* Handlers that find nothing to do, or are refused, keep it (create,      *)
(* update, updateStatus, softDelete and setStatus before their writes).    *)
LEMMA ChecksKeepIInv ==
    ASSUME IInv, NEW c \in Client, Looks(c)
    PROVE  \E j \in Jobs : /\ job' = [job EXCEPT ![c] = j]
                           /\ UNCHANGED <<rows, trail, exposed>>
                           /\ j.at = "status" => j.order \in Rows
                           /\ j.at # "record"
<1> USE DEF IInv
<1>1. ASSUME NEW s \in Source, NEW crew \in SUBSET Worker, CreateCheck(c, s, crew)
      PROVE  \E j \in Jobs : /\ job' = [job EXCEPT ![c] = j] /\ UNCHANGED <<rows, trail, exposed>>
                             /\ j.at \notin {"status", "record"}
  <2> DEFINE j == [at |-> "create", source |-> s, workers |-> crew]
  <2>1. j \in Jobs /\ j.at = "create"
    BY DEF Jobs
  <2>2. QED
    BY <2>1, <1>1 DEF CreateCheck
<1>2. ASSUME CreateRefused(c)
      PROVE  \E j \in Jobs : /\ job' = [job EXCEPT ![c] = j] /\ UNCHANGED <<rows, trail, exposed>>
                             /\ j.at \notin {"status", "record"}
  <2>1. NoJob \in Jobs /\ NoJob.at = "none"
    BY DEF Jobs, NoJob
  <2>2. QED
    BY <2>1, <1>2 DEF CreateRefused
<1>3. ASSUME NEW o \in Order, NEW crew \in Crews, UpdateCheck(c, o, crew)
      PROVE  \E j \in Jobs : /\ job' = [job EXCEPT ![c] = j] /\ UNCHANGED <<rows, trail, exposed>>
                             /\ j.at \notin {"status", "record"}
  <2> DEFINE j == [at |-> "update", order |-> o, crew |-> crew, status |-> status[o], workers |-> workers[o]]
  <2>1. j \in Jobs /\ j.at = "update"
    BY DEF Jobs, TypeOK
  <2>2. QED
    BY <2>1, <1>3 DEF UpdateCheck
<1>4. ASSUME NEW o \in Order, NEW request \in OrderRequests, StatusCheck(c, o, request)
      PROVE  \E j \in Jobs : /\ job' = [job EXCEPT ![c] = j] /\ UNCHANGED <<rows, trail, exposed>>
                             /\ j.at = "status" /\ j.order \in Rows
  <2>1. PICK s \in Resolve(o, request) :
           job' = [job EXCEPT ![c] = [at |-> "status", order |-> o, to |-> s, restore |-> request = Restore]]
    BY <1>4 DEF StatusCheck
  <2> DEFINE j == [at |-> "status", order |-> o, to |-> s, restore |-> request = Restore]
  <2>2. s \in OrderStatus /\ (request = Restore) \in BOOLEAN
    BY Resolved
  <2>3. j \in Jobs /\ j.at = "status" /\ j.order = o
    BY <2>2 DEF Jobs
  <2>4. QED
    BY <2>1, <2>3, <1>4 DEF StatusCheck
<1>5. ASSUME NEW m \in Maint, NEW request \in MaintRequests, MaintCheck(c, m, request)
      PROVE  \E j \in Jobs : /\ job' = [job EXCEPT ![c] = j] /\ UNCHANGED <<rows, trail, exposed>>
                             /\ j.at \notin {"status", "record"}
  <2>1. PICK s \in MaintResolve(m, request) : job' = [job EXCEPT ![c] = [at |-> "maint", maint |-> m, to |-> s]]
    BY <1>5 DEF MaintCheck
  <2> DEFINE j == [at |-> "maint", maint |-> m, to |-> s]
  <2>2. s \in SourceStatus
    BY MaintResolved
  <2>3. j \in Jobs /\ j.at = "maint"
    BY <2>2 DEF Jobs
  <2>4. QED
    BY <2>1, <2>3, <1>5 DEF MaintCheck
<1>6. QED
  BY <1>1, <1>2, <1>3, <1>4, <1>5 DEF Looks

(* Writing the versions of a handler keeps it. *)
LEMMA RecordKeepsIInv ==
    ASSUME IInv, NEW c \in Client, Record(c)
    PROVE  IInv'
<1> USE DEF IInv
<1>1. job[c] \in Jobs /\ job[c].at = "record"
  BY DEF Record, TypeOK
<1> DEFINE fixed == job[c].fixed
           reread == job[c].reread
<1>2. reread \in SUBSET Order /\ DOMAIN fixed \subseteq Entity /\ fixed \in [DOMAIN fixed -> OrderStatus]
  BY <1>1, JobShape
<1>3. PICK kept \in Written(DOMAIN fixed \cup reread) :
         trail' = Extended([e \in kept |-> IF e \in DOMAIN fixed THEN fixed[e] ELSE status[e]])
  BY DEF Record
<1>4. kept \subseteq DOMAIN fixed \cup reread /\ kept \in SUBSET Entity
  BY <1>2 DEF Written, Entity
<1> DEFINE f == [e \in kept |-> IF e \in DOMAIN fixed THEN fixed[e] ELSE status[e]]
<1>5. \A e \in kept : /\ f[e] \in OrderStatus
                      /\ e \in Source => f[e] \in SourceStatus
  <2> SUFFICES ASSUME NEW e \in kept PROVE f[e] \in OrderStatus /\ (e \in Source => f[e] \in SourceStatus)
    OBVIOUS
  <2>1. CASE e \in DOMAIN fixed
    BY <2>1, <1>1, <1>2 DEF JobsFit
  <2>2. CASE e \notin DOMAIN fixed
    BY <2>2, <1>2, <1>4, SourceAssumption DEF TypeOK
  <2>3. QED
    BY <2>1, <2>2
<1>6. f \in [kept -> OrderStatus]
  BY <1>5
<1>7. trail' \in [Entity -> Seq(OrderStatus)] /\ SourceTrails'
  <2> HIDE DEF f
  <2>1. trail' = Extended(f)
    BY <1>3 DEF f
  <2>2. QED
    BY <2>1, <1>4, <1>5, <1>6, TrailsExtend
<1>8. NoJob \in Jobs /\ NoJob.at = "none"
  BY DEF Jobs, NoJob
<1>9. /\ job' = [job EXCEPT ![c] = NoJob] /\ Rows' = Rows
      /\ UNCHANGED <<source, status, workers, photos, srcStatus, exposed>>
  BY DEF Record, rows, Rows
<1>10. TypeOK'
  BY <1>7, <1>8, <1>9 DEF TypeOK
<1>11. JobsFit'
  BY <1>8, <1>9 DEF JobsFit, TypeOK
<1>12. QED
  BY <1>7, <1>10, <1>11

(* Who is exposed is an inspection. *)
LEMMA ExposedFits ==
    ASSUME IInv
    PROVE  /\ \A s \in Source : Dispatches(s) => exposed' \in SUBSET Maint
           /\ \A o \in Order, to \in OrderStatus : Revives(o, to) => exposed' \in SUBSET Maint
<1>1. exposed \in SUBSET Maint
  BY DEF IInv, TypeOK
<1>2. ASSUME NEW s \in Source, Deleting(s) PROVE s \in Maint
  BY <1>2, JobShape DEF Deleting, IInv, TypeOK
<1>3. QED
  BY <1>1, <1>2 DEF Dispatches, Revives

(* The transaction of create(): the unique key on the source decides.      *)
LEMMA CreateKeepsIInv ==
    ASSUME IInv, NEW c \in Client, NEW o \in Order, CreateWrite(c, o)
    PROVE  IInv'
<1> USE DEF IInv
<1> DEFINE s == job[c].source
           crew == job[c].workers
           log == IF s \in Maint THEN Log(s, Dispatched) ELSE NoLog
<1>1. s \in Source /\ crew \in SUBSET Worker /\ s \in Entity
  BY JobShape DEF CreateWrite, TypeOK, Entity
<1>2. /\ o \notin Rows /\ OrdersOf(s) = {}
      /\ source' = [source EXCEPT ![o] = s]
      /\ status' = [status EXCEPT ![o] = IF crew # {} THEN Working ELSE Pending]
      /\ workers' = [workers EXCEPT ![o] = crew]
      /\ srcStatus' = [srcStatus EXCEPT ![s] = Dispatched]
      /\ job' = [job EXCEPT ![c] = ToRecord(log, {o})]
      /\ UNCHANGED <<photos, trail>>
      /\ Dispatches(s)
  BY DEF CreateWrite
<1>3. PICK d \in SUBSET Entity : /\ log \in [d -> OrderStatus]
                                 /\ DOMAIN log = d
                                 /\ \A e \in d : log[e] \in SourceStatus
  <2>1. CASE s \in Maint
    BY <2>1, <1>1, StatusRanges DEF Log
  <2>2. CASE s \notin Maint
    <3>1. NoLog \in [{} -> OrderStatus] /\ DOMAIN NoLog = {} /\ {} \in SUBSET Entity
      BY DEF NoLog
    <3>2. log = NoLog
      BY <2>2
    <3> HIDE DEF log
    <3>3. QED
      BY <3>1, <3>2
  <2>3. QED
    BY <2>1, <2>2
<1> HIDE DEF s, crew, log
<1>4. /\ ToRecord(log, {o}) \in Jobs
      /\ ToRecord(log, {o}).at = "record"
      /\ ToRecord(log, {o}).fixed = log
  BY <1>3, RecordIsJob
<1>5. TypeOK'
  BY <1>1, <1>2, <1>4, StatusRanges, ExposedFits DEF TypeOK
<1>6. Rows' = Rows \cup {o}
  BY <1>1, <1>2, SourceAssumption DEF Rows, TypeOK
<1>7. JobsFit'
  <2> SUFFICES ASSUME NEW x \in Client
               PROVE  /\ job'[x].at = "status" => job'[x].order \in Rows'
                      /\ job'[x].at = "record" =>
                            \A e \in DOMAIN job'[x].fixed : e \in Source => job'[x].fixed[e] \in SourceStatus
    BY DEF JobsFit
  <2>1. CASE x = c
    BY <2>1, <1>2, <1>3, <1>4 DEF TypeOK
  <2>2. CASE x # c
    BY <2>2, <1>2, <1>6 DEF TypeOK, JobsFit
  <2>3. QED
    BY <2>1, <2>2
<1>8. SourceTrails'
  BY <1>2 DEF SourceTrails
<1>9. QED
  BY <1>5, <1>7, <1>8

(* A transaction that writes statuses and crews of orders that exist, and  *)
(* of sources, and leaves a job behind.                                    *)
LEMMA WriteKeeps ==
    ASSUME IInv, NEW c \in Client, NEW j \in Jobs, job' = [job EXCEPT ![c] = j],
           UNCHANGED <<source, photos, trail>>,
           status' \in [Order -> OrderStatus], workers' \in [Order -> SUBSET Worker],
           srcStatus' \in [Source -> SourceStatus], exposed' \in SUBSET Maint,
           j.at # "status",
           j.at = "record" => \A e \in DOMAIN j.fixed : e \in Source => j.fixed[e] \in SourceStatus
    PROVE  IInv'
<1> USE DEF IInv
<1>1. Rows' = Rows
  BY DEF Rows
<1>2. TypeOK'
  BY DEF TypeOK
<1>3. \A d \in Client : job'[d] = IF d = c THEN j ELSE job[d]
  BY DEF TypeOK
<1>4. JobsFit'
  BY <1>1, <1>3 DEF JobsFit
<1>5. SourceTrails'
  BY <1>1 DEF SourceTrails
<1>6. QED
  BY <1>2, <1>4, <1>5

(* The transaction of update(). *)
LEMMA UpdateKeepsIInv ==
    ASSUME IInv, NEW c \in Client, UpdateWrite(c)
    PROVE  IInv'
<1> USE DEF IInv
<1> DEFINE o == job[c].order
           crew == UNION job[c].crew
           given == job[c].crew # {}
           add == IF given THEN crew \ job[c].workers ELSE {}
           remove == IF given THEN job[c].workers \ crew ELSE {}
           to == IF crew # {} /\ job[c].status = Pending THEN Working ELSE status[o]
<1>1. o \in Order /\ crew \in SUBSET Worker /\ o \in Entity
  <2>1. job[c].order \in Order /\ job[c].crew \in Crews
    BY JobShape DEF UpdateWrite, TypeOK
  <2>2. QED
    BY <2>1 DEF Crews, Entity
<1>2. NoJob \in Jobs /\ NoJob.at = "none"
  BY DEF Jobs, NoJob
<1>3. /\ ToRecord(NoLog, {o}) \in Jobs
      /\ ToRecord(NoLog, {o}).at = "record"
      /\ DOMAIN ToRecord(NoLog, {o}).fixed = {}
  <2>1. NoLog \in [{} -> OrderStatus] /\ DOMAIN NoLog = {} /\ {} \in SUBSET Entity
    BY DEF NoLog
  <2>2. {o} \in SUBSET Order
    BY <1>1
  <2> HIDE DEF o
  <2>3. QED
    BY <2>1, <2>2, RecordIsJob
<1>4. CASE add \cap workers[o] # {}
  <2>1. job' = [job EXCEPT ![c] = NoJob] /\ UNCHANGED <<source, status, workers, photos, srcStatus, trail, exposed>>
    BY <1>4 DEF UpdateWrite
  <2>2. QED
    BY <2>1, <1>2, WriteKeeps DEF TypeOK
<1>5. CASE add \cap workers[o] = {}
  <2>1. /\ workers' = [workers EXCEPT ![o] = (@ \ remove) \cup add]
        /\ status' = [status EXCEPT ![o] = to] /\ Revives(o, to)
        /\ job' = [job EXCEPT ![c] = ToRecord(NoLog, {o})]
        /\ UNCHANGED <<source, photos, srcStatus, trail>>
    BY <1>5 DEF UpdateWrite
  <2>2. add \subseteq Worker /\ to \in OrderStatus
    BY <1>1, StatusRanges DEF TypeOK
  <2> HIDE DEF o, crew, add, remove, to
  <2>3. workers' \in [Order -> SUBSET Worker]
    BY <2>1, <2>2 DEF TypeOK
  <2>4. status' \in [Order -> OrderStatus]
    BY <2>1, <2>2 DEF TypeOK
  <2>5. srcStatus' \in [Source -> SourceStatus] /\ exposed' \in SUBSET Maint
    BY <1>1, <2>1, <2>2, ExposedFits DEF TypeOK
  <2>6. QED
    BY <2>1, <2>3, <2>4, <2>5, <1>3, WriteKeeps
<1>6. QED
  BY <1>4, <1>5

(* The transaction of updateStatus(): the source of the order is released, *)
(* or brought back.                                                        *)
LEMMA StatusKeepsIInv ==
    ASSUME IInv, NEW c \in Client, StatusWrite(c)
    PROVE  IInv'
<1> USE DEF IInv
<1> DEFINE o == job[c].order
           s == source[o]
           to == job[c].to
           d == {o} \cup {m \in {s} \cap Maint : to = Deleted \/ job[c].restore}
           f == [e \in d |-> IF e = o THEN to ELSE IF to = Deleted THEN Watching ELSE Dispatched]
           r == IF job[c].restore THEN Restored(s, Released(s, to)) ELSE Released(s, to)
<1>1. job[c].at = "status" /\ job[c] \in Jobs
  BY DEF StatusWrite, TypeOK
<1>2. o \in Order /\ to \in OrderStatus /\ o \in Rows
  BY <1>1, JobShape DEF JobsFit
<1>3. s \in Source
  BY <1>2 DEF Rows, TypeOK
<1>4. /\ status' = [status EXCEPT ![o] = to]
      /\ srcStatus' = [srcStatus EXCEPT ![s] = r]
      /\ job' = [job EXCEPT ![c] = ToRecord(f, {})]
      /\ Dispatches(s) \/ Revives(o, to)
      /\ UNCHANGED <<source, workers, photos, trail>>
  BY DEF StatusWrite
<1>5. srcStatus[s] \in SourceStatus
  BY <1>3 DEF TypeOK
<1>6. Released(s, to) \in SourceStatus
  BY <1>5, StatusRanges DEF Released
<1>7. r \in SourceStatus
  BY <1>6, StatusRanges DEF Restored
<1>8. d \in SUBSET Entity
  BY <1>2, <1>3 DEF Entity
<1>9. \A e \in d : f[e] \in OrderStatus /\ (e \in Source => f[e] \in SourceStatus)
  <2>1. o \notin Source
    BY <1>2, SourceAssumption
  <2>2. QED
    BY <2>1, <1>2, StatusRanges
<1>10. f \in [d -> OrderStatus] /\ DOMAIN f = d
  BY <1>9
<1> HIDE DEF o, s, to, d, f, r
<1>11. /\ ToRecord(f, {}) \in Jobs
       /\ ToRecord(f, {}).at = "record"
       /\ ToRecord(f, {}).fixed = f
  BY <1>8, <1>10, RecordIsJob
<1>12. status' \in [Order -> OrderStatus] /\ srcStatus' \in [Source -> SourceStatus]
  BY <1>2, <1>4, <1>7 DEF TypeOK
<1>13. workers' \in [Order -> SUBSET Worker] /\ exposed' \in SUBSET Maint
  BY <1>2, <1>3, <1>4, ExposedFits DEF TypeOK
<1>14. QED
  BY <1>4, <1>9, <1>10, <1>11, <1>12, <1>13, WriteKeeps

(* A step that adds versions and may change statuses keeps it, when the    *)
(* requests only end.                                                      *)
LEMMA TrailStepKeeps ==
    ASSUME IInv, UNCHANGED <<source, workers>>,
           status' \in [Order -> OrderStatus], srcStatus' \in [Source -> SourceStatus],
           photos' \in [Order -> BOOLEAN], exposed' \in SUBSET Maint,
           trail' \in [Entity -> Seq(OrderStatus)], SourceTrails',
           job' \in [Client -> Jobs],
           \A d \in Client : job'[d] = job[d] \/ job'[d] = NoJob
    PROVE  IInv'
<1> USE DEF IInv
<1>1. Rows' = Rows
  BY DEF Rows
<1>2. TypeOK'
  BY DEF TypeOK
<1>3. NoJob.at = "none"
  BY DEF NoJob
<1>4. JobsFit'
  BY <1>1, <1>3 DEF JobsFit
<1>5. QED
  BY <1>2, <1>4

(* The transaction of Maintenance.updateStatus(). *)
LEMMA MaintKeepsIInv ==
    ASSUME IInv, NEW c \in Client, MaintWrite(c)
    PROVE  IInv'
<1> USE DEF IInv
<1>1. job[c].at = "maint" /\ job[c] \in Jobs
  BY DEF MaintWrite, TypeOK
<1>2. job[c].maint \in Maint /\ job[c].to \in SourceStatus
  BY <1>1, JobShape
<1>3. PICK m \in Source, to \in SourceStatus : m = job[c].maint /\ to = job[c].to
  BY <1>2 DEF Source
<1>4. PICK kept \in Written({m}) : trail' = Extended([x \in kept |-> to])
  BY <1>3 DEF MaintWrite
<1>5. kept \in SUBSET Entity
  BY <1>4 DEF Written, Entity
<1>6. [x \in kept |-> to] \in [kept -> OrderStatus] /\ \A e \in kept : [x \in kept |-> to][e] \in SourceStatus
  BY StatusRanges
<1>7. trail' \in [Entity -> Seq(OrderStatus)] /\ SourceTrails'
  BY <1>4, <1>5, <1>6, TrailsExtend
<1>8. /\ srcStatus' = [srcStatus EXCEPT ![m] = to]
      /\ job' = [job EXCEPT ![c] = NoJob]
      /\ UNCHANGED <<source, status, workers, photos, exposed>>
  BY <1>3 DEF MaintWrite
<1>9. /\ srcStatus' \in [Source -> SourceStatus] /\ status' \in [Order -> OrderStatus]
      /\ photos' \in [Order -> BOOLEAN] /\ exposed' \in SUBSET Maint
  BY <1>8 DEF TypeOK
<1>10. job' \in [Client -> Jobs] /\ \A d \in Client : job'[d] = job[d] \/ job'[d] = NoJob
  <2>1. NoJob \in Jobs
    BY DEF Jobs
  <2>2. QED
    BY <2>1, <1>8 DEF TypeOK
<1>11. QED
  BY <1>7, <1>8, <1>9, <1>10, TrailStepKeeps

(* Photos: the status stays, and an upload leaves a version. *)
LEMMA PhotosKeepIInv ==
    ASSUME IInv, NEW c \in Client, NEW o \in Order,
           DeleteImage(c, o) \/ \E complete \in BOOLEAN : UploadImages(c, o, complete)
    PROVE  IInv'
<1> USE DEF IInv
<1>1. o \in Entity /\ o \notin Source /\ status[o] \in OrderStatus
  BY SourceAssumption DEF Entity, TypeOK
<1>2. UNCHANGED <<source, status, workers, srcStatus, job, exposed>> /\ photos' \in [Order -> BOOLEAN]
  BY DEF DeleteImage, UploadImages, TypeOK
<1>3. trail' \in [Entity -> Seq(OrderStatus)] /\ SourceTrails'
  <2>1. CASE DeleteImage(c, o)
    BY <2>1 DEF DeleteImage, TypeOK, SourceTrails
  <2>2. CASE \E complete \in BOOLEAN : UploadImages(c, o, complete)
    BY <2>2, <1>1, TrailExtends DEF UploadImages
  <2>3. QED
    BY <2>1, <2>2
<1>4. QED
  BY <1>2, <1>3, TrailStepKeeps DEF TypeOK

(* need_repair of a case. *)
LEMMA NeedRepairKeepsIInv ==
    ASSUME IInv, NEW c \in Client, NEW k \in Case, NEW s \in SourceStatus, SetNeedRepair(c, k, s)
    PROVE  IInv'
<1> USE DEF IInv
<1>1. k \in Source /\ k \in Entity /\ s \in OrderStatus
  BY StatusRanges DEF Source, Entity
<1>2. /\ srcStatus' = [srcStatus EXCEPT ![k] = s]
      /\ trail' = [trail EXCEPT ![k] = Append(@, s)]
      /\ UNCHANGED <<source, status, workers, photos, job, exposed>>
  BY DEF SetNeedRepair
<1>3. srcStatus' \in [Source -> SourceStatus]
  BY <1>2 DEF TypeOK
<1>4. trail' \in [Entity -> Seq(OrderStatus)] /\ SourceTrails'
  BY <1>1, <1>2, TrailExtends
<1>5. QED
  BY <1>2, <1>3, <1>4, TrailStepKeeps DEF TypeOK

(* The restore of a version writes a status that the entity had.           *)
LEMMA RestoreKeepsIInv ==
    ASSUME IInv, NEW c \in Client, NEW e \in Entity, NEW s \in OrderStatus, RestoreVersion(c, e, s)
    PROVE  IInv'
<1> USE DEF IInv
<1>1. e \in Source => s \in SourceStatus
  <2> SUFFICES ASSUME e \in Source PROVE s \in SourceStatus
    OBVIOUS
  <2>1. trail[e] \in Seq(SourceStatus)
    BY DEF SourceTrails
  <2>2. PICK i \in DOMAIN trail[e] : trail[e][i] = s
    BY DEF RestoreVersion
  <2>3. QED
    BY <2>1, <2>2
<1>2. /\ trail' = [trail EXCEPT ![e] = Append(@, s)]
      /\ UNCHANGED <<source, workers, photos, job>>
  BY DEF RestoreVersion
<1>3. trail' \in [Entity -> Seq(OrderStatus)] /\ SourceTrails'
  BY <1>1, <1>2, TrailExtends
<1>4. status' \in [Order -> OrderStatus] /\ srcStatus' \in [Source -> SourceStatus] /\ exposed' \in SUBSET Maint
  <2>1. CASE e \in Order
    BY <2>1, ExposedFits DEF RestoreVersion, TypeOK
  <2>2. CASE e \notin Order
    <3>1. e \in Source
      BY <2>2 DEF Entity
    <3>2. QED
      BY <3>1, <2>2, <1>1 DEF RestoreVersion, TypeOK
  <2>3. QED
    BY <2>1, <2>2
<1>5. QED
  BY <1>2, <1>3, <1>4, TrailStepKeeps DEF TypeOK

(* Every step of every request, and every restore of a version, keeps it.  *)
LEMMA IInvStep == IInv /\ [Next]_vars => IInv'
<1> SUFFICES ASSUME IInv, [Next]_vars PROVE IInv'
  OBVIOUS
<1>1. ASSUME NEW c \in Client, ClientNext(c) PROVE IInv'
  <2>1. CASE Record(c)
    BY <2>1, RecordKeepsIInv
  <2>2. CASE \E o \in Order : CreateWrite(c, o)
    BY <2>2, CreateKeepsIInv
  <2>3. CASE UpdateWrite(c)
    BY <2>3, UpdateKeepsIInv
  <2>4. CASE StatusWrite(c)
    BY <2>4, StatusKeepsIInv
  <2>5. CASE MaintWrite(c)
    BY <2>5, MaintKeepsIInv
  <2>6. CASE \E o \in Order : DeleteImage(c, o) \/ \E complete \in BOOLEAN : UploadImages(c, o, complete)
    BY <2>6, PhotosKeepIInv
  <2>7. CASE \E k \in Case, s \in SourceStatus : SetNeedRepair(c, k, s)
    BY <2>7, NeedRepairKeepsIInv
  <2>8. CASE Looks(c)
    BY <2>8, ChecksKeepIInv, CheckKeeps
  <2>9. QED
    BY <1>1, <2>1, <2>2, <2>3, <2>4, <2>5, <2>6, <2>7, <2>8 DEF ClientNext, Looks
<1>2. CASE VersionRestored
  BY <1>2, RestoreKeepsIInv DEF VersionRestored
<1>3. CASE UNCHANGED vars
  <2>1. UNCHANGED <<source, status, workers, photos, srcStatus, trail, job, exposed>> /\ Rows' = Rows
    BY <1>3 DEF vars, Rows
  <2>2. QED
    BY <2>1 DEF IInv, TypeOK, SourceTrails, JobsFit
<1>4. QED
  BY <1>1, <1>2, <1>3 DEF Next

(* Rows, versions and requests under way fit together in every reachable   *)
(* state, however many requests overlap and whatever history is lost.      *)
THEOREM DispatchInductive == Spec => []IInv
<1>1. QED
  BY IInvInit, IInvStep, PTL DEF Spec

(* Every variable keeps its type: action codes are never stored, and a     *)
(* source only has statuses of its own kind.                               *)
THEOREM DispatchTypes == Spec => []TypeOK
<1>1. QED
  BY DispatchInductive, PTL DEF IInv

-----------------------------------------------------------------------------
(* One request at a time: the handlers run one after the other, and what   *)
(* each has read is still true when it writes.                             *)
OneRequest == \A c, d \in Client : c = d

WasFinished(o) == \E i \in DOMAIN trail[o] : trail[o][i] = Finished

(* What a handler has checked, for the row that it will write. *)
Checked(c) ==
    job[c].at = "status" =>
        /\ job[c].to = Deleted => status[job[c].order] < Reported
        /\ job[c].to = Finished => photos[job[c].order] \/ WasFinished(job[c].order)

AllChecked == \A c \in Client : Checked(c)

(* The newest version of an order shows its status, or the handler that    *)
(* has written the status is about to record it.                           *)
Current(o) == trail[o] # <<>> /\ trail[o][Len(trail[o])] = status[o]
Recording(c, o) == job[c].at = "record" /\ o \in DOMAIN job[c].fixed \cup job[c].reread

TrailsFollow ==
    /\ \A o \in Rows : Current(o) \/ \E c \in Client : Recording(c, o)
    /\ \A o \in Rows, c \in Client :
          job[c].at = "record" /\ o \in DOMAIN job[c].fixed => job[c].fixed[o] = status[o]

(* The steps of a request that write rows or versions. *)
Writes(c) ==
    \/ Record(c) \/ UpdateWrite(c) \/ StatusWrite(c) \/ MaintWrite(c)
    \/ \E o \in Order : CreateWrite(c, o)
    \/ \E o \in Order, complete \in BOOLEAN : UploadImages(c, o, complete)
    \/ \E o \in Order : DeleteImage(c, o)
    \/ \E k \in Case, s \in SourceStatus : SetNeedRepair(c, k, s)
    \/ \E e \in Entity, s \in OrderStatus : RestoreVersion(c, e, s)

(* Where the request of a client is after the part of a handler that only  *)
(* looks: it has checked what it will rely on.                             *)
LEMMA LookingChecks ==
    ASSUME IInv, NEW c \in Client, Looks(c)
    PROVE  Checked(c)' /\ UNCHANGED <<rows, trail, exposed>> /\ job[c].at # "record" /\ job'[c].at # "record"
<1> USE DEF IInv
<1>1. NoJob.at = "none"
  BY DEF NoJob
<1>2. ASSUME NEW s \in Source, NEW crew \in SUBSET Worker, CreateCheck(c, s, crew)
      PROVE  Checked(c)' /\ UNCHANGED <<rows, trail, exposed>> /\ job[c].at # "record" /\ job'[c].at # "record"
  <2>1. job'[c].at = "create" /\ job[c].at = "none" /\ UNCHANGED <<rows, trail, exposed>>
    BY <1>1, <1>2 DEF CreateCheck, TypeOK
  <2>2. QED
    BY <2>1 DEF Checked
<1>3. ASSUME CreateRefused(c)
      PROVE  Checked(c)' /\ UNCHANGED <<rows, trail, exposed>> /\ job[c].at # "record" /\ job'[c].at # "record"
  <2>1. job'[c].at = "none" /\ job[c].at = "create" /\ UNCHANGED <<rows, trail, exposed>>
    BY <1>1, <1>3 DEF CreateRefused, TypeOK
  <2>2. QED
    BY <2>1 DEF Checked
<1>4. ASSUME NEW o \in Order, NEW crew \in Crews, UpdateCheck(c, o, crew)
      PROVE  Checked(c)' /\ UNCHANGED <<rows, trail, exposed>> /\ job[c].at # "record" /\ job'[c].at # "record"
  <2>1. job'[c].at = "update" /\ job[c].at = "none" /\ UNCHANGED <<rows, trail, exposed>>
    BY <1>1, <1>4 DEF UpdateCheck, TypeOK
  <2>2. QED
    BY <2>1 DEF Checked
<1>5. ASSUME NEW o \in Order, NEW request \in OrderRequests, StatusCheck(c, o, request)
      PROVE  Checked(c)' /\ UNCHANGED <<rows, trail, exposed>> /\ job[c].at # "record" /\ job'[c].at # "record"
  <2>1. PICK s \in Resolve(o, request) :
           job' = [job EXCEPT ![c] = [at |-> "status", order |-> o, to |-> s, restore |-> request = Restore]]
    BY <1>5 DEF StatusCheck
  <2>2. job'[c].at = "status" /\ job'[c].order = o /\ job'[c].to = s
    BY <2>1 DEF TypeOK
  <2>3. job[c].at = "none" /\ UNCHANGED <<rows, trail, exposed>>
    BY <1>1, <1>5 DEF StatusCheck
  <2>4. /\ s = Deleted => status[o] < Reported
        /\ s = Finished => photos[o] \/ WasFinished(o)
    BY Resolved DEF WasFinished
  <2>5. status' = status /\ photos' = photos /\ trail' = trail
    BY <2>3 DEF rows
  <2>6. WasFinished(o)' = WasFinished(o)
    BY <2>5 DEF WasFinished
  <2>7. QED
    BY <2>2, <2>3, <2>4, <2>5, <2>6 DEF Checked, WasFinished
<1>6. ASSUME NEW m \in Maint, NEW request \in MaintRequests, MaintCheck(c, m, request)
      PROVE  Checked(c)' /\ UNCHANGED <<rows, trail, exposed>> /\ job[c].at # "record" /\ job'[c].at # "record"
  <2>1. PICK s \in MaintResolve(m, request) : job' = [job EXCEPT ![c] = [at |-> "maint", maint |-> m, to |-> s]]
    BY <1>6 DEF MaintCheck
  <2>2. job'[c].at = "maint"
    BY <2>1 DEF TypeOK
  <2>3. job[c].at = "none" /\ UNCHANGED <<rows, trail, exposed>>
    BY <1>1, <1>6 DEF MaintCheck
  <2>4. QED
    BY <2>2, <2>3 DEF Checked
<1>7. QED
  BY <1>2, <1>3, <1>4, <1>5, <1>6 DEF Looks

(* A step that writes rows leaves the client's request at its end, or at   *)
(* the record of its versions.                                             *)
LEMMA WritingEnds ==
    ASSUME IInv, NEW c \in Client, Writes(c)
    PROVE  job'[c].at \in {"none", "record"}
<1> USE DEF IInv
<1>1. NoJob.at = "none"
  BY DEF NoJob
<1>2. \A f, r : ToRecord(f, r).at = "record"
  BY DEF ToRecord
<1>3. ASSUME Record(c) \/ MaintWrite(c) PROVE job'[c].at \in {"none", "record"}
  BY <1>1, <1>3 DEF Record, MaintWrite, TypeOK
<1>4. ASSUME UpdateWrite(c) PROVE job'[c].at \in {"none", "record"}
  <2>1. job' = [job EXCEPT ![c] = NoJob] \/ \E f, r : job' = [job EXCEPT ![c] = ToRecord(f, r)]
    BY <1>4 DEF UpdateWrite
  <2>2. QED
    BY <2>1, <1>1, <1>2 DEF TypeOK
<1>5. ASSUME StatusWrite(c) PROVE job'[c].at \in {"none", "record"}
  <2>1. \E f, r : job' = [job EXCEPT ![c] = ToRecord(f, r)]
    BY <1>5 DEF StatusWrite
  <2>2. QED
    BY <2>1, <1>2 DEF TypeOK
<1>6. ASSUME NEW o \in Order, CreateWrite(c, o) PROVE job'[c].at \in {"none", "record"}
  <2>1. \E f, r : job' = [job EXCEPT ![c] = ToRecord(f, r)]
    BY <1>6 DEF CreateWrite
  <2>2. QED
    BY <2>1, <1>2 DEF TypeOK
<1>7. ASSUME \/ \E o \in Order, complete \in BOOLEAN : UploadImages(c, o, complete)
             \/ \E o \in Order : DeleteImage(c, o)
             \/ \E k \in Case, s \in SourceStatus : SetNeedRepair(c, k, s)
             \/ \E e \in Entity, s \in OrderStatus : RestoreVersion(c, e, s)
      PROVE  job'[c].at \in {"none", "record"}
  BY <1>1, <1>7 DEF UploadImages, DeleteImage, SetNeedRepair, RestoreVersion
<1>8. QED
  BY <1>3, <1>4, <1>5, <1>6, <1>7 DEF Writes

(* Every step is one of a request that looks, or that writes. *)
LEMMA StepOfSomebody == Next => \E c \in Client : Looks(c) \/ Writes(c)
<1>1. ASSUME NEW c \in Client, ClientNext(c) PROVE Looks(c) \/ Writes(c)
  BY <1>1 DEF ClientNext, Looks, Writes
<1>2. ASSUME NEW c \in Client, NEW e \in Entity, NEW s \in OrderStatus, RestoreVersion(c, e, s)
      PROVE  Writes(c)
  BY <1>2 DEF Writes
<1>3. QED
  BY <1>1, <1>2 DEF Next, VersionRestored

(* Without overlapping requests, what a handler has checked stays true     *)
(* until it writes.                                                        *)
LEMMA CheckedStep == OneRequest /\ IInv /\ AllChecked /\ [Next]_vars => AllChecked'
<1> SUFFICES ASSUME OneRequest, IInv, AllChecked, [Next]_vars PROVE AllChecked'
  OBVIOUS
<1>1. CASE UNCHANGED vars
  BY <1>1 DEF vars, AllChecked, Checked, WasFinished, OrdersOf
<1>2. CASE Next
  <2>1. PICK c \in Client : Looks(c) \/ Writes(c)
    BY <1>2, StepOfSomebody
  <2>2. Checked(c)' \/ job'[c].at \in {"none", "record"}
    BY <2>1, LookingChecks, WritingEnds
  <2>3. Checked(c)'
    BY <2>2 DEF Checked
  <2>4. \A d \in Client : d = c
    BY DEF OneRequest
  <2>5. QED
    BY <2>3, <2>4 DEF AllChecked
<1>3. QED
  BY <1>1, <1>2

(* Nothing has been checked when no request has come. *)
LEMMA CheckedInit == Init => AllChecked
<1> SUFFICES ASSUME Init, NEW c \in Client PROVE Checked(c)
  BY DEF AllChecked
<1>1. job[c].at = "none"
  BY DEF Init, NoJob
<1>2. QED
  BY <1>1 DEF Checked

(* What a handler has checked is true when it writes, if the requests come *)
(* one after the other.                                                    *)
THEOREM ChecksHoldUntilWritten == OneRequest => (Spec => [](IInv /\ AllChecked))
<1> SUFFICES ASSUME OneRequest PROVE Spec => [](IInv /\ AllChecked)
  OBVIOUS
<1>1. Init => IInv /\ AllChecked
  BY IInvInit, CheckedInit
<1>2. IInv /\ AllChecked /\ [Next]_vars => (IInv /\ AllChecked)'
  BY IInvStep, CheckedStep
<1>3. QED
  BY <1>1, <1>2, PTL DEF Spec

-----------------------------------------------------------------------------
(* What a step does to the status of an order: it stays, or a new row has  *)
(* the status of its crew, or update() puts the order to work, or a status *)
(* request or a restored version writes what it was asked for.             *)
LEMMA StatusOfStep ==
    ASSUME IInv, NEW c \in Client, Looks(c) \/ Writes(c), NEW o \in Order
    PROVE  \/ status'[o] \in {status[o], Pending, Working}
           \/ job[c].at = "status" /\ job[c].order = o /\ status'[o] = job[c].to
           \/ \E s \in OrderStatus : RestoreVersion(c, o, s) /\ status'[o] = s
<1> USE DEF IInv
<1>1. CASE Looks(c)
  <2>1. status' = status
    BY <1>1, LookingChecks DEF rows
  <2>2. QED
    BY <2>1
<1>2. CASE \/ Record(c) \/ MaintWrite(c)
           \/ \E x \in Order, complete \in BOOLEAN : UploadImages(c, x, complete)
           \/ \E x \in Order : DeleteImage(c, x)
           \/ \E k \in Case, s \in SourceStatus : SetNeedRepair(c, k, s)
  <2>1. status' = status
    BY <1>2 DEF Record, MaintWrite, UploadImages, DeleteImage, SetNeedRepair, rows
  <2>2. QED
    BY <2>1
<1>3. ASSUME NEW x \in Order, CreateWrite(c, x)
      PROVE  status'[o] \in {status[o], Pending, Working}
  <2>1. status' = [status EXCEPT ![x] = Working] \/ status' = [status EXCEPT ![x] = Pending]
    BY <1>3 DEF CreateWrite
  <2>2. QED
    BY <2>1 DEF TypeOK
<1>4. ASSUME UpdateWrite(c)
      PROVE  status'[o] \in {status[o], Pending, Working}
  <2>1. \/ status' = status
        \/ status' = [status EXCEPT ![job[c].order] = Working]
        \/ status' = [status EXCEPT ![job[c].order] = @]
    BY <1>4 DEF UpdateWrite
  <2>2. QED
    BY <2>1 DEF TypeOK
<1>5. ASSUME StatusWrite(c)
      PROVE  \/ status'[o] = status[o]
             \/ job[c].at = "status" /\ job[c].order = o /\ status'[o] = job[c].to
  <2>1. job[c].at = "status" /\ status' = [status EXCEPT ![job[c].order] = job[c].to]
    BY <1>5 DEF StatusWrite
  <2>2. QED
    BY <2>1 DEF TypeOK
<1>6. ASSUME NEW e \in Entity, NEW s \in OrderStatus, RestoreVersion(c, e, s)
      PROVE  status'[o] = status[o] \/ (RestoreVersion(c, o, s) /\ status'[o] = s)
  <2>1. CASE e = o
    <3>1. status' = [status EXCEPT ![o] = s]
      BY <1>6, <2>1 DEF RestoreVersion
    <3>2. QED
      BY <3>1, <1>6, <2>1 DEF TypeOK
  <2>2. CASE e # o
    <3>1. status' = status \/ status' = [status EXCEPT ![e] = s]
      BY <1>6 DEF RestoreVersion
    <3>2. QED
      BY <3>1, <2>2 DEF TypeOK
  <2>3. QED
    BY <2>1, <2>2
<1>7. QED
  BY <1>1, <1>2, <1>3, <1>4, <1>5, <1>6 DEF Writes

(* An order that was reported or finished is not deleted before it has     *)
(* been withdrawn, however its requests follow each other (updateStatus,   *)
(* canDelete).                                                             *)
THEOREM LockedOrdersStay == OneRequest => (Spec => LockedOrderNotDeleted)
<1> SUFFICES ASSUME OneRequest PROVE Spec => LockedOrderNotDeleted
  OBVIOUS
<1>1. ASSUME IInv, AllChecked, [Next]_vars
      PROVE  [\A o \in Order : status[o] >= Reported /\ status'[o] = Deleted => VersionRestored]_vars
  <2> SUFFICES ASSUME Next, NEW o \in Order, status[o] >= Reported, status'[o] = Deleted
               PROVE  VersionRestored
    BY <1>1
  <2>1. PICK c \in Client : Looks(c) \/ Writes(c)
    BY StepOfSomebody
  <2>2. status[o] \in Int
    BY <1>1, StatusRanges DEF IInv, TypeOK
  <2>3. status'[o] \notin {status[o], Pending, Working}
    BY <2>2 DEF Deleted, Pending, Working, Reported
  <2>4. ~(job[c].at = "status" /\ job[c].order = o /\ status'[o] = job[c].to)
    BY <1>1, <2>2 DEF AllChecked, Checked, Reported
  <2>5. \E s \in OrderStatus : RestoreVersion(c, o, s)
    BY <1>1, <2>1, <2>3, <2>4, StatusOfStep
  <2>6. QED
    BY <2>5 DEF VersionRestored, Entity
<1>2. QED
  BY <1>1, ChecksHoldUntilWritten, PTL DEF Spec, LockedOrderNotDeleted

(* No order becomes finished for the first time without its photos, by a   *)
(* status request, a restore of the order or a restore of a version.       *)
THEOREM FinishedOrdersHavePhotos == OneRequest => (Spec => FirstFinishHasPhotos)
<1> SUFFICES ASSUME OneRequest PROVE Spec => FirstFinishHasPhotos
  OBVIOUS
<1>1. ASSUME IInv, AllChecked, [Next]_vars
      PROVE  [\A o \in Order : status[o] # Finished /\ status'[o] = Finished
                => photos[o] \/ \E i \in DOMAIN trail[o] : trail[o][i] = Finished]_vars
  <2> SUFFICES ASSUME Next, NEW o \in Order, status[o] # Finished, status'[o] = Finished
               PROVE  photos[o] \/ WasFinished(o)
    BY <1>1 DEF WasFinished
  <2>1. PICK c \in Client : Looks(c) \/ Writes(c)
    BY StepOfSomebody
  <2>2. status'[o] \notin {status[o], Pending, Working}
    BY DEF Finished, Pending, Working
  <2>3. CASE job[c].at = "status" /\ job[c].order = o /\ status'[o] = job[c].to
    BY <1>1, <2>3 DEF AllChecked, Checked
  <2>4. CASE \E s \in OrderStatus : RestoreVersion(c, o, s) /\ status'[o] = s
    BY <2>4 DEF RestoreVersion, WasFinished
  <2>5. QED
    BY <1>1, <2>1, <2>2, <2>3, <2>4, StatusOfStep
<1>2. QED
  BY <1>1, ChecksHoldUntilWritten, PTL DEF Spec, FirstFinishHasPhotos

-----------------------------------------------------------------------------
(* A client whose request is not at its end has nothing to record: with    *)
(* one request at a time, all versions are written.                        *)
LEMMA NothingToRecord ==
    ASSUME OneRequest, TrailsFollow, NEW c \in Client, job[c].at # "record"
    PROVE  \A o \in Rows : Current(o)
BY DEF OneRequest, TrailsFollow, Recording

(* A version that is added shows the status that the order has now. *)
LEMMA AppendedIsCurrent ==
    ASSUME IInv, NEW o \in Order, NEW s \in OrderStatus,
           trail'[o] = Append(trail[o], s), status'[o] = s
    PROVE  Current(o)'
<1>1. trail[o] \in Seq(OrderStatus)
  BY DEF IInv, TypeOK, Entity
<1>2. PICK t \in Seq(OrderStatus) : t = trail[o]
  BY <1>1
<1>3. Len(t) \in Nat /\ Append(t, s) \in Seq(OrderStatus) /\ Len(Append(t, s)) = Len(t) + 1
  OBVIOUS
<1>4. Append(t, s)[Len(t) + 1] = s
  OBVIOUS
<1>5. Append(t, s) # <<>>
  BY <1>3
<1>6. QED
  BY <1>2, <1>3, <1>4, <1>5 DEF Current

(* When every version is written and nothing is to be recorded, or only    *)
(* the order that a handler has just written, the trails follow.           *)
LEMMA FollowsWhenCurrent ==
    ASSUME OneRequest, NEW c \in Client,
           \A o \in Rows' : Current(o)' \/ Recording(c, o)',
           job'[c].at = "record" =>
              \A o \in Rows' : o \in DOMAIN job'[c].fixed => job'[c].fixed[o] = status'[o]
    PROVE  TrailsFollow'
BY DEF OneRequest, TrailsFollow

(* Writing the versions of a handler, without losing any. *)
LEMMA RecordFollows ==
    ASSUME LossyHistory = FALSE, OneRequest, IInv, TrailsFollow, NEW c \in Client, Record(c)
    PROVE  TrailsFollow'
<1> DEFINE fixed == job[c].fixed
           kept == DOMAIN fixed \cup job[c].reread
           f == [e \in kept |-> IF e \in DOMAIN fixed THEN fixed[e] ELSE status[e]]
<1>1. job[c].at = "record" /\ job' = [job EXCEPT ![c] = NoJob] /\ UNCHANGED rows
  BY DEF Record
<1>2. trail' = Extended(f)
  BY DEF Record, Written
<1>3. job'[c].at # "record"
  BY <1>1 DEF NoJob, IInv, TypeOK
<1>4. Rows' = Rows /\ status' = status
  BY <1>1 DEF rows, Rows
<1>5. ASSUME NEW o \in Rows PROVE Current(o)'
  <2>1. o \in Order /\ o \in Entity /\ status[o] \in OrderStatus
    BY DEF Rows, Entity, IInv, TypeOK
  <2>2. CASE o \in kept
    <3>1. f[o] = status[o]
      BY <1>1, <2>2 DEF TrailsFollow
    <3>2. DOMAIN f = kept
      OBVIOUS
    <3> HIDE DEF f, kept
    <3>3. trail'[o] = Append(trail[o], status[o])
      BY <1>2, <2>1, <2>2, <3>1, <3>2 DEF Extended
    <3>4. QED
      BY <1>4, <2>1, <3>3, AppendedIsCurrent
  <2>3. CASE o \notin kept
    <3>1. ~ Recording(c, o)
      BY <2>3 DEF Recording
    <3>2. Current(o)
      BY <3>1 DEF TrailsFollow, OneRequest
    <3>3. DOMAIN f = kept
      OBVIOUS
    <3> HIDE DEF f, kept
    <3>4. trail'[o] = trail[o]
      BY <1>2, <2>1, <2>3, <3>3 DEF Extended
    <3>5. QED
      BY <1>4, <3>2, <3>4 DEF Current
  <2>4. QED
    BY <2>2, <2>3
<1>6. QED
  BY <1>3, <1>4, <1>5, FollowsWhenCurrent

(* create(): the new order is recorded with its row. *)
LEMMA CreateFollows ==
    ASSUME OneRequest, IInv, TrailsFollow, NEW c \in Client, NEW o \in Order, CreateWrite(c, o)
    PROVE  TrailsFollow'
<1> DEFINE s == job[c].source
           log == IF s \in Maint THEN Log(s, Dispatched) ELSE NoLog
<1>1. job[c].at = "create" /\ s \in Source /\ job \in [Client -> Jobs]
  BY JobShape DEF CreateWrite, IInv, TypeOK
<1>2. \A p \in Rows : Current(p)
  BY <1>1, NothingToRecord
<1>3. job'[c] = ToRecord(log, {o}) /\ trail' = trail
  BY <1>1 DEF CreateWrite
<1>4. DOMAIN log \subseteq {s}
  BY DEF Log, NoLog
<1> HIDE DEF log
<1>5. /\ job'[c].at = "record"
      /\ job'[c].fixed = log
      /\ job'[c].reread = {o}
  BY <1>3 DEF ToRecord
<1>6. ASSUME NEW p \in Rows', p # o PROVE Current(p)'
  <2>1. p \in Order /\ source'[p] # NoSource
    BY DEF Rows
  <2>2. source'[p] = source[p] /\ status'[p] = status[p]
    BY <1>6, <2>1 DEF CreateWrite, IInv, TypeOK
  <2>3. p \in Rows
    BY <2>1, <2>2 DEF Rows
  <2>4. QED
    BY <1>2, <1>3, <2>2, <2>3 DEF Current
<1>7. Recording(c, o)'
  BY <1>5 DEF Recording
<1>8. \A p \in Rows' : p \notin DOMAIN log
  BY <1>1, <1>4, SourceAssumption DEF Rows
<1>9. QED
  BY <1>5, <1>6, <1>7, <1>8, FollowsWhenCurrent

(* update(): the order is read again for its version. *)
LEMMA UpdateFollows ==
    ASSUME OneRequest, IInv, TrailsFollow, NEW c \in Client, UpdateWrite(c)
    PROVE  TrailsFollow'
<1>1. job[c].at = "update" /\ UNCHANGED <<source, trail>> /\ Rows' = Rows /\ job \in [Client -> Jobs]
  BY DEF UpdateWrite, Rows, IInv, TypeOK
<1>2. \A p \in Rows : Current(p)
  BY <1>1, NothingToRecord
<1>3. CASE job' = [job EXCEPT ![c] = NoJob] /\ UNCHANGED status
  <2>1. job'[c].at # "record"
    BY <1>1, <1>3 DEF NoJob
  <2>2. \A p \in Rows' : Current(p)'
    BY <1>1, <1>2, <1>3 DEF Current
  <2>3. QED
    BY <2>1, <2>2, FollowsWhenCurrent
<1>4. CASE /\ job' = [job EXCEPT ![c] = ToRecord(NoLog, {job[c].order})]
           /\ \E x \in OrderStatus : status' = [status EXCEPT ![job[c].order] = x]
  <2>1. job'[c] = ToRecord(NoLog, {job[c].order})
    BY <1>1, <1>4
  <2>2. /\ job'[c].at = "record"
        /\ DOMAIN job'[c].fixed = {}
        /\ job'[c].reread = {job[c].order}
    BY <2>1 DEF ToRecord, NoLog
  <2>3. ASSUME NEW p \in Rows, p # job[c].order PROVE Current(p)'
    <3>1. p \in Order
      BY DEF Rows
    <3>2. status'[p] = status[p]
      BY <1>4, <2>3, <3>1 DEF IInv, TypeOK
    <3>3. QED
      BY <1>1, <1>2, <3>2 DEF Current
  <2>4. \A p \in Rows : p = job[c].order => Recording(c, p)'
    BY <2>2 DEF Recording
  <2>5. QED
    BY <1>1, <2>2, <2>3, <2>4, FollowsWhenCurrent
<1>5. \/ job' = [job EXCEPT ![c] = NoJob] /\ UNCHANGED status
      \/ /\ job' = [job EXCEPT ![c] = ToRecord(NoLog, {job[c].order})]
         /\ \E x \in OrderStatus : status' = [status EXCEPT ![job[c].order] = x]
  <2>1. job[c].order \in Order /\ status[job[c].order] \in OrderStatus
    BY <1>1, JobShape DEF IInv, TypeOK
  <2>2. \/ job' = [job EXCEPT ![c] = NoJob] /\ UNCHANGED status
        \/ /\ job' = [job EXCEPT ![c] = ToRecord(NoLog, {job[c].order})]
           /\ \E x \in {Working, status[job[c].order]} : status' = [status EXCEPT ![job[c].order] = x]
    BY DEF UpdateWrite
  <2>3. QED
    BY <2>1, <2>2, StatusRanges
<1>6. QED
  BY <1>3, <1>4, <1>5

(* updateStatus(): the status that is written is the one to be recorded. *)
LEMMA StatusFollows ==
    ASSUME OneRequest, IInv, TrailsFollow, NEW c \in Client, StatusWrite(c)
    PROVE  TrailsFollow'
<1> DEFINE o == job[c].order
           s == source[o]
           to == job[c].to
           d == {o} \cup {m \in {s} \cap Maint : to = Deleted \/ job[c].restore}
           f == [e \in d |-> IF e = o THEN to ELSE IF to = Deleted THEN Watching ELSE Dispatched]
<1>1. /\ job[c].at = "status" /\ job \in [Client -> Jobs]
      /\ status' = [status EXCEPT ![o] = to]
      /\ job' = [job EXCEPT ![c] = ToRecord(f, {})]
      /\ UNCHANGED <<source, trail>> /\ Rows' = Rows
  BY DEF StatusWrite, Rows, IInv, TypeOK
<1>2. \A p \in Rows : Current(p)
  BY <1>1, NothingToRecord
<1>3. o \in Order
  BY <1>1, JobShape
<1>4. DOMAIN f = d /\ f[o] = to /\ \A p \in Order : p \in d => p = o
  BY SourceAssumption DEF Source
<1> HIDE DEF f, d
<1>5. job'[c].at = "record" /\ job'[c].fixed = f
  BY <1>1 DEF ToRecord
<1>6. \A p \in Rows : status'[p] = IF p = o THEN to ELSE status[p]
  BY <1>1 DEF Rows, IInv, TypeOK
<1>7. o \in d
  BY DEF d
<1>8. \A p \in Rows : p = o => Recording(c, p)'
  BY <1>4, <1>5, <1>7 DEF Recording
<1>9. \A p \in Rows : p # o => Current(p)'
  BY <1>1, <1>2, <1>6 DEF Current
<1>10. \A p \in Rows : p \in DOMAIN f => f[p] = status'[p]
  BY <1>4, <1>6 DEF Rows
<1>11. QED
  BY <1>1, <1>5, <1>8, <1>9, <1>10, FollowsWhenCurrent

(* The other steps write their version at once, or touch no order: all     *)
(* orders stay current.                                                    *)
LEMMA OthersFollow ==
    ASSUME OneRequest, IInv, TrailsFollow, NEW c \in Client,
           \/ Looks(c) \/ MaintWrite(c)
           \/ \E o \in Order, complete \in BOOLEAN : UploadImages(c, o, complete)
           \/ \E o \in Order : DeleteImage(c, o)
           \/ \E k \in Case, s \in SourceStatus : SetNeedRepair(c, k, s)
           \/ \E e \in Entity, s \in OrderStatus : RestoreVersion(c, e, s)
    PROVE  TrailsFollow'
<1> USE DEF IInv
<1>1. NoJob.at # "record"
  BY DEF NoJob
<1>2. /\ job[c].at # "record" /\ job'[c].at # "record"
      /\ source' = source /\ Rows' = Rows
  <2>1. CASE Looks(c)
    BY <2>1, LookingChecks DEF rows, Rows
  <2>2. CASE MaintWrite(c)
    BY <1>1, <2>2 DEF MaintWrite, Rows, TypeOK
  <2>3. CASE ~ Looks(c) /\ ~ MaintWrite(c)
    BY <1>1, <2>3 DEF UploadImages, DeleteImage, SetNeedRepair, RestoreVersion, Rows
  <2>4. QED
    BY <2>1, <2>2, <2>3
<1>3. \A p \in Rows : Current(p)
  BY <1>2, NothingToRecord
<1>4. \A p \in Rows : p \in Order /\ p \in Entity /\ p \notin Source /\ status[p] \in OrderStatus
  BY SourceAssumption DEF Rows, Entity, TypeOK
<1>5. \A p \in Rows : Current(p)'
  <2>1. CASE Looks(c)
    BY <2>1, <1>3, LookingChecks DEF rows, Current
  <2>2. CASE MaintWrite(c)
    <3>1. job[c].maint \in Maint
      BY <2>2, JobShape DEF MaintWrite, TypeOK
    <3>2. PICK kept \in Written({job[c].maint}) : trail' = Extended([m \in kept |-> job[c].to])
      BY <2>2 DEF MaintWrite
    <3>3. kept \subseteq Source
      BY <3>1, <3>2 DEF Written, Source
    <3>4. \A p \in Rows : trail'[p] = trail[p]
      BY <1>4, <3>2, <3>3 DEF Extended
    <3>5. status' = status
      BY <2>2 DEF MaintWrite
    <3>6. QED
      BY <1>3, <3>4, <3>5 DEF Current
  <2>3. ASSUME NEW o \in Order, NEW complete \in BOOLEAN, UploadImages(c, o, complete), NEW p \in Rows
        PROVE  Current(p)'
    <3>1. status' = status /\ trail' = [trail EXCEPT ![o] = Append(@, status[o])]
      BY <2>3 DEF UploadImages
    <3>2. CASE p = o
      <4>1. trail'[p] = Append(trail[p], status[p])
        BY <1>4, <3>1, <3>2 DEF TypeOK
      <4>2. QED
        BY <1>4, <3>1, <4>1, AppendedIsCurrent
    <3>3. CASE p # o
      <4>1. trail'[p] = trail[p]
        BY <1>4, <3>1, <3>3 DEF TypeOK
      <4>2. QED
        BY <1>3, <3>1, <4>1 DEF Current
    <3>4. QED
      BY <3>2, <3>3
  <2>4. CASE \E o \in Order : DeleteImage(c, o)
    BY <2>4, <1>3 DEF DeleteImage, Current
  <2>5. CASE \E k \in Case, s \in SourceStatus : SetNeedRepair(c, k, s)
    <3>1. PICK k \in Case, s \in SourceStatus : SetNeedRepair(c, k, s)
      BY <2>5
    <3>2. status' = status /\ trail' = [trail EXCEPT ![k] = Append(@, s)] /\ k \in Source
      BY <3>1 DEF SetNeedRepair, Source
    <3>3. \A p \in Rows : trail'[p] = trail[p]
      BY <1>4, <3>2 DEF TypeOK
    <3>4. QED
      BY <1>3, <3>2, <3>3 DEF Current
  <2>6. ASSUME NEW e \in Entity, NEW s \in OrderStatus, RestoreVersion(c, e, s), NEW p \in Rows
        PROVE  Current(p)'
    <3>1. trail' = [trail EXCEPT ![e] = Append(@, s)]
      BY <2>6 DEF RestoreVersion
    <3>2. CASE p = e
      <4>1. trail'[p] = Append(trail[p], s)
        BY <1>4, <3>1, <3>2 DEF TypeOK
      <4>2. status'[p] = s
        BY <2>6, <1>4, <3>2 DEF RestoreVersion, TypeOK
      <4>3. QED
        BY <1>4, <4>1, <4>2, AppendedIsCurrent
    <3>3. CASE p # e
      <4>1. trail'[p] = trail[p]
        BY <1>4, <3>1, <3>3 DEF TypeOK
      <4>2. status'[p] = status[p]
        BY <2>6, <1>4, <3>3 DEF RestoreVersion, TypeOK
      <4>3. QED
        BY <1>3, <4>1, <4>2 DEF Current
    <3>4. QED
      BY <3>2, <3>3
  <2>7. QED
    BY <2>1, <2>2, <2>3, <2>4, <2>5, <2>6
<1>6. QED
  BY <1>2, <1>5, FollowsWhenCurrent

(* Between two requests the newest version of every order shows the status *)
(* of its row, if history can be written (recordSafe after every handler). *)
THEOREM OrderTrailsAreCurrent ==
    OneRequest /\ LossyHistory = FALSE => (Spec => []OrderTrailIsCurrent)
<1> SUFFICES ASSUME OneRequest, LossyHistory = FALSE PROVE Spec => []OrderTrailIsCurrent
  OBVIOUS
<1>1. Init => TrailsFollow
  <2>1. Init => Rows = {}
    BY DEF Init, Rows
  <2>2. QED
    BY <2>1 DEF TrailsFollow
<1>2. IInv /\ TrailsFollow /\ [Next]_vars => TrailsFollow'
  <2> SUFFICES ASSUME IInv, TrailsFollow, [Next]_vars PROVE TrailsFollow'
    OBVIOUS
  <2>1. CASE UNCHANGED vars
    BY <2>1 DEF vars, TrailsFollow, Current, Recording, Rows
  <2>2. CASE Next
    <3>1. PICK c \in Client : Looks(c) \/ Writes(c)
      BY <2>2, StepOfSomebody
    <3>2. QED
      BY <3>1, RecordFollows, CreateFollows, UpdateFollows, StatusFollows, OthersFollow DEF Writes
  <2>3. QED
    BY <2>1, <2>2
<1>3. TrailsFollow => OrderTrailIsCurrent
  <2> SUFFICES ASSUME TrailsFollow, Quiet, NEW o \in Rows PROVE Current(o)
    BY DEF OrderTrailIsCurrent, Current
  <2>1. \A c \in Client : job[c].at # "record"
    BY DEF Quiet, NoJob
  <2>2. QED
    BY <2>1 DEF TrailsFollow, Recording
<1>4. QED
  BY <1>1, <1>2, <1>3, DispatchInductive, PTL DEF Spec
-----------------------------------------------------------------------------
(* Live orders and their inspections, for any clients.  The inductive form *)
(* adds that no deletion of the inspection is under way: such a request    *)
(* has seen no live order, and whoever makes one behind its back is        *)
(* exposed.                                                                *)
LiveInv ==
    \A o \in Rows : IsLive(o) /\ source[o] \in Maint \ exposed =>
        srcStatus[source[o]] # Deleted /\ ~ Deleting(source[o])

(* A step that makes no order, brings none to life unless its inspection   *)
(* is exposed, and deletes only inspections that somebody was deleting.    *)
LEMMA NothingRevived ==
    ASSUME LiveInv, source' = source, exposed \subseteq exposed',
           \A o \in Rows : source[o] \in Maint \ exposed' /\ status'[o] # Deleted => status[o] # Deleted,
           \A m \in Maint : Deleting(m)' => Deleting(m) \/ \A o \in OrdersOf(m) : status'[o] = Deleted,
           \A m \in Maint \ exposed' : srcStatus'[m] = Deleted => srcStatus[m] = Deleted \/ Deleting(m)
    PROVE  LiveInv'
<1> SUFFICES ASSUME NEW o \in Rows', IsLive(o)', NEW m \in Maint, m = source'[o], m \notin exposed'
             PROVE  srcStatus'[m] # Deleted /\ ~ (Deleting(m)')
  BY DEF LiveInv, Deleting
<1>1. source[o] = m /\ o \in Rows /\ o \in Order /\ m \in Maint \ exposed'
  BY DEF Rows
<1>2. IsLive(o) /\ m \in Maint \ exposed
  BY <1>1 DEF IsLive
<1>3. srcStatus[m] # Deleted /\ ~ Deleting(m)
  BY <1>1, <1>2 DEF LiveInv
<1>4. o \in OrdersOf(m) /\ status'[o] # Deleted
  BY <1>1 DEF OrdersOf, IsLive
<1>5. srcStatus'[m] # Deleted
  BY <1>1, <1>3
<1>6. ~ (Deleting(m)')
  BY <1>1, <1>3, <1>4
<1>7. QED
  BY <1>5, <1>6

(* A request that is not one to delete adds no deletion. *)
LEMMA NoNewDeletion ==
    ASSUME NEW c \in Client, NEW j, j.at # "maint" \/ j.to # Deleted,
           job' = [job EXCEPT ![c] = j], job \in [Client -> Jobs]
    PROVE  \A m \in Maint : Deleting(m)' => Deleting(m)
BY DEF Deleting

(* Looking, which may begin the deletion of an inspection without a live   *)
(* order (softDelete()).                                                   *)
LEMMA LookKeepsLive ==
    ASSUME IInv, LiveInv, NEW c \in Client, Looks(c)
    PROVE  LiveInv'
<1> USE DEF IInv
<1>1. UNCHANGED <<source, status, srcStatus, exposed>>
  BY LookingChecks DEF rows
<1>2. ASSUME NEW m \in Maint, Deleting(m)', ~ Deleting(m)
      PROVE  \A o \in OrdersOf(m) : status[o] = Deleted
  <2>1. PICK d \in Client : job'[d].at = "maint" /\ job'[d].maint = m /\ job'[d].to = Deleted
    BY <1>2 DEF Deleting
  <2>2. job'[d] # job[d]
    BY <1>2, <2>1 DEF Deleting
  <2>3. CASE \E x \in Maint, request \in MaintRequests : MaintCheck(c, x, request)
    <3>1. PICK x \in Maint, request \in MaintRequests : MaintCheck(c, x, request)
      BY <2>3
    <3>2. PICK s \in MaintResolve(x, request) :
             job' = [job EXCEPT ![c] = [at |-> "maint", maint |-> x, to |-> s]]
      BY <3>1 DEF MaintCheck
    <3>3. d = c /\ x = m /\ s = Deleted
      BY <2>1, <2>2, <3>2 DEF TypeOK
    <3>4. QED
      BY <3>2, <3>3, MaintResolved
  <2>4. CASE ~ \E x \in Maint, request \in MaintRequests : MaintCheck(c, x, request)
    <3>1. \E j : j.at # "maint" /\ job' = [job EXCEPT ![c] = j]
      BY <2>4 DEF Looks, CreateCheck, CreateRefused, NoJob, UpdateCheck, StatusCheck
    <3>2. QED
      BY <2>1, <2>2, <3>1 DEF TypeOK
  <2>5. QED
    BY <2>3, <2>4
<1>3. QED
  BY <1>1, <1>2, NothingRevived

(* create() makes an order, and restore brings one back: each puts the     *)
(* inspection back, and whoever is deleting it has exposed it.             *)
LEMMA DispatchKeepsLive ==
    ASSUME IInv, LiveInv, NEW s \in Source, Dispatches(s), srcStatus'[s] # Deleted,
           \A m \in Source : m # s => srcStatus'[m] = srcStatus[m],
           \A o \in Order : source'[o] = source[o] \/ source'[o] = s,
           \A o \in Order : source'[o] # s => status'[o] = status[o],
           \A m \in Maint : Deleting(m)' => Deleting(m)
    PROVE  LiveInv'
<1> SUFFICES ASSUME NEW o \in Rows', IsLive(o)', NEW m \in Maint, m = source'[o], m \notin exposed'
             PROVE  srcStatus'[m] # Deleted /\ ~ (Deleting(m)')
  BY DEF LiveInv, Deleting
<1>1. o \in Order /\ m \in Source /\ m # NoSource
  BY SourceAssumption DEF Rows, Source
<1>2. CASE m = s
  <2>1. ~ Deleting(m)
    BY <1>2 DEF Dispatches
  <2>2. QED
    BY <1>2, <2>1
<1>3. CASE m # s
  <2>1. source[o] = m /\ o \in Rows /\ status'[o] = status[o] /\ srcStatus'[m] = srcStatus[m]
    BY <1>1, <1>3 DEF Rows
  <2>2. IsLive(o) /\ m \notin exposed
    BY <1>3, <2>1 DEF IsLive, Dispatches
  <2>3. srcStatus[m] # Deleted /\ ~ Deleting(m)
    BY <1>1, <2>1, <2>2 DEF LiveInv
  <2>4. QED
    BY <1>1, <2>1, <2>3
<1>4. QED
  BY <1>2, <1>3
(* updateStatus(): only a restore looks at the source; the deletion and    *)
(* the return to pending put it to "watching" (releaseSource).             *)
LEMMA StatusKeepsLive ==
    ASSUME IInv, LiveInv, NEW c \in Client, StatusWrite(c)
    PROVE  LiveInv'
<1> USE DEF IInv
<1> DEFINE o == job[c].order
           s == source[o]
           to == job[c].to
           released == Released(s, to)
           f == [e \in {o} \cup {m \in {s} \cap Maint : to = Deleted \/ job[c].restore} |->
                    IF e = o THEN to ELSE IF to = Deleted THEN Watching ELSE Dispatched]
<1>1. /\ o \in Rows /\ o \in Order /\ s \in Source /\ to \in OrderStatus
      /\ source' = source /\ status' = [status EXCEPT ![o] = to]
      /\ srcStatus' = [srcStatus EXCEPT ![s] =
            IF job[c].restore THEN Restored(s, released) ELSE released]
      /\ IF job[c].restore THEN Dispatches(s) ELSE Revives(o, to)
      /\ job' = [job EXCEPT ![c] = ToRecord(f, {})]
  BY JobShape DEF StatusWrite, JobsFit, TypeOK, Rows
<1>2. \A m \in Maint : Deleting(m)' => Deleting(m)
  <2>1. ToRecord(f, {}).at # "maint"
    BY DEF ToRecord
  <2>2. QED
    BY <1>1, <2>1, NoNewDeletion DEF TypeOK
<1>3. \A m \in Source : m # s => srcStatus'[m] = srcStatus[m]
  BY <1>1 DEF TypeOK
<1>4. CASE job[c].restore
  <2>1. srcStatus'[s] # Deleted
    BY <1>1, <1>4 DEF Restored, TypeOK, Dispatched, Deleted
  <2>2. \A p \in Order : source'[p] # s => status'[p] = status[p]
    BY <1>1 DEF TypeOK
  <2>3. QED
    BY <1>1, <1>2, <1>3, <1>4, <2>1, <2>2, DispatchKeepsLive
<1>5. CASE ~ job[c].restore
  <2>1. Revives(o, to)
    BY <1>1, <1>5
  <2>2. \A p \in Rows : source[p] \in Maint \ exposed' /\ status'[p] # Deleted => status[p] # Deleted
    BY <1>1, <2>1 DEF Revives, Rows, TypeOK
  <2>3. srcStatus'[s] = Deleted => srcStatus[s] = Deleted
    BY <1>1, <1>5 DEF Released, TypeOK, Watching, Deleted
  <2>4. \A m \in Maint : m \in Source
    BY DEF Source
  <2>5. QED
    BY <1>1, <1>2, <1>3, <2>1, <2>2, <2>3, <2>4, NothingRevived DEF Revives
<1>6. QED
  BY <1>4, <1>5

(* The other writes of a request.                                          *)
LEMMA WriteKeepsLive ==
    ASSUME IInv, LiveInv, NEW c \in Client, Writes(c)
    PROVE  LiveInv'
<1> USE DEF IInv
<1>1. NoJob.at # "maint" /\ job \in [Client -> Jobs]
  BY DEF NoJob, TypeOK
<1>2. CASE Record(c)
  <2>1. UNCHANGED <<source, status, srcStatus, exposed>> /\ job' = [job EXCEPT ![c] = NoJob]
    BY <1>2 DEF Record, rows
  <2>2. QED
    BY <1>1, <2>1, NoNewDeletion, NothingRevived
<1>3. CASE UpdateWrite(c)
  <2>1. job[c].order \in Order /\ UNCHANGED <<source, srcStatus>>
    BY <1>3, JobShape DEF UpdateWrite, TypeOK
  <2>2. \E j : j.at # "maint" /\ job' = [job EXCEPT ![c] = j]
    BY <1>1, <1>3 DEF UpdateWrite, ToRecord
  <2>3. CASE UNCHANGED <<status, exposed>>
    BY <1>1, <2>1, <2>2, <2>3, NoNewDeletion, NothingRevived
  <2>4. CASE \E to \in Int : /\ status' = [status EXCEPT ![job[c].order] = to]
                             /\ Revives(job[c].order, to)
    <3>1. PICK to \in Int : /\ status' = [status EXCEPT ![job[c].order] = to]
                            /\ Revives(job[c].order, to)
      BY <2>4
    <3>2. \A p \in Rows : source[p] \in Maint \ exposed' /\ status'[p] # Deleted => status[p] # Deleted
      BY <2>1, <3>1 DEF Revives, Rows, TypeOK
    <3>3. QED
      BY <1>1, <2>1, <2>2, <3>1, <3>2, NoNewDeletion, NothingRevived DEF Revives
  <2>5. status[job[c].order] \in Int /\ Working \in Int
    BY <2>1, StatusRanges DEF TypeOK, Working
  <2>6. QED
    BY <1>3, <2>3, <2>4, <2>5 DEF UpdateWrite
<1>4. CASE StatusWrite(c)
  BY <1>4, StatusKeepsLive
<1>5. CASE MaintWrite(c)
  <2>1. /\ UNCHANGED <<source, status, exposed>> /\ job[c].at = "maint"
        /\ job' = [job EXCEPT ![c] = NoJob]
        /\ srcStatus' = [srcStatus EXCEPT ![job[c].maint] = job[c].to]
    BY <1>5 DEF MaintWrite
  <2>2. \A m \in Maint : srcStatus'[m] = Deleted => srcStatus[m] = Deleted \/ Deleting(m)
    BY <2>1 DEF Deleting, TypeOK, Source
  <2>3. QED
    BY <1>1, <2>1, <2>2, NoNewDeletion, NothingRevived
<1>6. ASSUME NEW o \in Order, CreateWrite(c, o)
      PROVE  LiveInv'
  <2> DEFINE s == job[c].source
  <2>1. s \in Source /\ Dispatches(s) /\ srcStatus' = [srcStatus EXCEPT ![s] = Dispatched]
        /\ source' = [source EXCEPT ![o] = s]
    BY <1>6, JobShape DEF CreateWrite, TypeOK
  <2>2. \E j : j.at # "maint" /\ job' = [job EXCEPT ![c] = j]
    BY <1>6 DEF CreateWrite, ToRecord
  <2>3. srcStatus'[s] # Deleted /\ \A m \in Source : m # s => srcStatus'[m] = srcStatus[m]
    BY <2>1 DEF TypeOK, Dispatched, Deleted
  <2>4. /\ \A p \in Order : source'[p] = source[p] \/ source'[p] = s
        /\ \A p \in Order : source'[p] # s => status'[p] = status[p]
    BY <1>6, <2>1 DEF CreateWrite, TypeOK
  <2>5. QED
    BY <1>1, <2>1, <2>2, <2>3, <2>4, NoNewDeletion, DispatchKeepsLive
<1>7. CASE \/ \E o \in Order, complete \in BOOLEAN : UploadImages(c, o, complete)
           \/ \E o \in Order : DeleteImage(c, o)
  <2>1. UNCHANGED <<source, status, srcStatus, exposed, job>>
    BY <1>7 DEF UploadImages, DeleteImage
  <2>2. \A m \in Maint : Deleting(m)' => Deleting(m)
    BY <2>1 DEF Deleting
  <2>3. QED
    BY <2>1, <2>2, NothingRevived
<1>8. CASE \E k \in Case, s \in SourceStatus : SetNeedRepair(c, k, s)
  <2>1. PICK k \in Case, s \in SourceStatus : SetNeedRepair(c, k, s)
    BY <1>8
  <2>2. UNCHANGED <<source, status, exposed, job>>
    BY <2>1 DEF SetNeedRepair
  <2>3. \A m \in Maint : srcStatus'[m] = srcStatus[m] /\ (Deleting(m)' => Deleting(m))
    BY <2>1, SourceAssumption DEF SetNeedRepair, TypeOK, Source, Deleting
  <2>4. QED
    BY <2>2, <2>3, NothingRevived
<1>9. ASSUME NEW e \in Entity, NEW s \in OrderStatus, RestoreVersion(c, e, s)
      PROVE  LiveInv'
  <2>1. UNCHANGED <<source, job>>
    BY <1>9 DEF RestoreVersion
  <2>2. \A m \in Maint : Deleting(m)' => Deleting(m)
    BY <2>1 DEF Deleting
  <2>3. CASE e \in Order
    <3>1. status' = [status EXCEPT ![e] = s] /\ Revives(e, s) /\ srcStatus' = srcStatus
      BY <1>9, <2>3 DEF RestoreVersion
    <3>2. \A p \in Rows : source[p] \in Maint \ exposed' /\ status'[p] # Deleted => status[p] # Deleted
      BY <2>3, <3>1 DEF Revives, Rows, TypeOK
    <3>3. QED
      BY <2>1, <2>2, <3>1, <3>2, NothingRevived DEF Revives
  <2>4. CASE e \notin Order
    <3>1. /\ status' = status /\ srcStatus' = [srcStatus EXCEPT ![e] = s]
          /\ exposed' = IF s = Deleted THEN exposed \cup ({e} \cap Maint) ELSE exposed
      BY <1>9, <2>4 DEF RestoreVersion
    <3>2. \A m \in Maint \ exposed' : srcStatus'[m] = Deleted => srcStatus[m] = Deleted
      BY <3>1 DEF TypeOK, Source
    <3>3. QED
      BY <2>1, <2>2, <3>1, <3>2, NothingRevived
  <2>5. QED
    BY <2>3, <2>4
<1>10. QED
  BY <1>2, <1>3, <1>4, <1>5, <1>6, <1>7, <1>8, <1>9 DEF Writes

(* Whatever requests overlap, a live order has an inspection that is not   *)
(* deleted, but for the inspections in "exposed" (architecture.md:113).    *)
THEOREM LiveOrdersHaveInspections == Spec => []LiveOrderHasInspection
<1>1. Init => LiveInv
  BY DEF Init, LiveInv, Rows
<1>2. IInv /\ LiveInv /\ [Next]_vars => LiveInv'
  <2> SUFFICES ASSUME IInv, LiveInv, [Next]_vars PROVE LiveInv'
    OBVIOUS
  <2>1. CASE UNCHANGED vars
    BY <2>1 DEF vars, LiveInv, IsLive, Rows, Deleting
  <2>2. CASE Next
    BY <2>2, StepOfSomebody, LookKeepsLive, WriteKeepsLive
  <2>3. QED
    BY <2>1, <2>2
<1>3. LiveInv => LiveOrderHasInspection
  BY DEF LiveInv, LiveOrderHasInspection
<1>4. QED
  BY <1>1, <1>2, <1>3, DispatchInductive, PTL DEF Spec
=============================================================================
