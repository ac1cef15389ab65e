---------------------------- MODULE TopUpProofs -----------------------------
(***************************************************************************)
(* Proofs about TopUp, for any number of requests, users and admins.       *)
(*                                                                         *)
(* The invariant: as long as nobody else writes a row during its save, one *)
(* admin at most is saving it, what save() has read is still what the row  *)
(* says, and the coins given are explained by the status and the history.  *)
(* Submissions that do not overlap see no pending sibling until they are   *)
(* saved.                                                                  *)
(***************************************************************************)
EXTENDS TopUp, TLAPS

\* An admin is at a row exactly during a save, which the approve action only does
\* with "approved".
JobsAreWellFormed ==
    \A a \in Admin :
        /\ phase[a] \in {"read", "moved", "form"} <=> at[a] # NoRequest
        /\ phase[a] \in {"read", "moved"} => target[a] = "approved"
        /\ phase[a] = "form" => target[a] \in {"pending", "approved", "rejected"}

\* Only rows that exist are listed or saved, and a row that is being submitted does
\* not exist yet.
RowsExist ==
    /\ \A a \in Admin : at[a] \in Request => status[at[a]] # "none"
    /\ \A a \in Admin : \A r \in queue[a] : status[r] # "none"
    /\ \A r \in checked : status[r] = "none"

Alone ==
    \A r \in Request \ raced : \A a, b \in Admin :
        at[a] = r /\ at[b] = r => a = b

ReadIsCurrent ==
    \A a \in Admin : at[a] \in Request \ raced => old[a] = status[at[a]]

SubmitterSeesNone ==
    \A r \in checked \ crowded : NonePending(r) /\ Siblings(r) \cap checked = {r}

CrowdedIsClosed == \A q \in crowded : Siblings(q) \subseteq crowded

IInv == /\ TypeOK
        /\ JobsAreWellFormed
        /\ RowsExist
        /\ Alone
        /\ ReadIsCurrent
        /\ NetIsExplained
        /\ SubmitterSeesNone
        /\ CrowdedIsClosed
        /\ OnePending

Choice == {"pending", "approved", "rejected"}

-----------------------------------------------------------------------------
\* Distributing the points of a request over one approval more or less.
LEMMA OneMoreOneLess ==
  ASSUME NEW p \in Int, NEW k \in Int
  PROVE  p * (k + 1) = p * k + p /\ p * (k - 1) = p * k - p
OBVIOUS

\* Points are never negative, in either currency.
LEMMA PointsAreNat == \A r \in Request : points(r) \in Nat
<1> SUFFICES ASSUME NEW r \in Request PROVE points(r) \in Nat
  OBVIOUS
<1>1. Amount[r] \in Nat
  BY TopUpAssumption DEF TopUpAssumption
<1>2. Amount[r] \div 1000 \in Nat /\ (Amount[r] * 12) \div 100 \in Nat
  BY <1>1
<1>3. QED
  BY <1>2 DEF points, points_uzs, points_usdt

\* The initial state: there are no rows.
LEMMA InitIInv == Init => IInv
<1> SUFFICES ASSUME Init PROVE IInv
  OBVIOUS
<1> USE TopUpAssumption DEF TopUpAssumption
<1>1. TypeOK
  BY DEF Init, TypeOK, Status
<1>2. JobsAreWellFormed /\ RowsExist /\ Alone /\ ReadIsCurrent
  BY DEF Init, JobsAreWellFormed, RowsExist, Alone, ReadIsCurrent
<1>3. SubmitterSeesNone /\ CrowdedIsClosed /\ OnePending
  BY DEF Init, SubmitterSeesNone, CrowdedIsClosed, OnePending, Pending
<1>4. NetIsExplained
  <2> SUFFICES ASSUME NEW r \in Request PROVE net[r] = points(r) * Owed(r)
    BY DEF NetIsExplained
  <2>1. net[r] = 0 /\ Owed(r) = 0
    BY DEF Init, Owed, One, Credited
  <2>2. QED
    BY <2>1, PointsAreNat
<1>5. QED
  BY <1>1, <1>2, <1>3, <1>4 DEF IInv

-----------------------------------------------------------------------------
(* Types and the shape of a save                                           *)

\* Every step keeps the types, the shape of the jobs and the rows they work on.
LEMMA ShapeStep ==
  ASSUME TypeOK, JobsAreWellFormed, RowsExist, [Next]_vars
  PROVE  TypeOK' /\ JobsAreWellFormed' /\ RowsExist'
<1> USE TopUpAssumption
<1> USE DEF TypeOK, JobsAreWellFormed, RowsExist, Status, coins, jobs, mishaps, Choice
<1>1. ASSUME NEW r \in Request, CheckSubmit(r)
      PROVE  TypeOK' /\ JobsAreWellFormed' /\ RowsExist'
  BY <1>1 DEF CheckSubmit, Siblings
<1>2. ASSUME NEW r \in Request, Submit(r)
      PROVE  TypeOK' /\ JobsAreWellFormed' /\ RowsExist'
  BY <1>2 DEF Submit
<1>3. ASSUME NEW r \in Request, NEW s \in {"approved", "rejected"}, AdminAdd(r, s)
      PROVE  TypeOK' /\ JobsAreWellFormed' /\ RowsExist'
  BY <1>3 DEF AdminAdd, Drift
<1>4. ASSUME NEW a \in Admin, NEW S \in SUBSET Request, ListPending(a, S)
      PROVE  TypeOK' /\ JobsAreWellFormed' /\ RowsExist'
  BY <1>4 DEF ListPending, Pending
<1>5. ASSUME NEW a \in Admin, NEW r \in Request, ApproveRead(a, r)
      PROVE  TypeOK' /\ JobsAreWellFormed' /\ RowsExist'
  BY <1>5 DEF ApproveRead, Read
<1>6. ASSUME NEW a \in Admin, ApproveMove(a)
      PROVE  TypeOK' /\ JobsAreWellFormed' /\ RowsExist'
  <2>1. at[a] \in Request
    BY <1>6 DEF ApproveMove
  <2>2. net' \in [Request -> Int] /\ moves' \in [Request -> 0..MaxMoves]
    BY <1>6, <2>1, PointsAreNat DEF ApproveMove, MoveCoins, Transfer
  <2>3. QED
    BY <1>6, <2>2 DEF ApproveMove
<1>7. ASSUME NEW a \in Admin, ApproveSave(a)
      PROVE  TypeOK' /\ JobsAreWellFormed' /\ RowsExist'
  <2>1. at[a] \in Request /\ target[a] = "approved"
    BY <1>7 DEF ApproveSave
  <2>2. QED
    BY <1>7, <2>1 DEF ApproveSave, Write, Drift, Siblings
<1>8. ASSUME NEW a \in Admin, NEW r \in Request, NEW t \in Choice, FormRead(a, r, t)
      PROVE  TypeOK' /\ JobsAreWellFormed' /\ RowsExist'
  BY <1>8 DEF FormRead, Read
<1>9. ASSUME NEW a \in Admin, FormCommit(a)
      PROVE  TypeOK' /\ JobsAreWellFormed' /\ RowsExist'
  <2>1. at[a] \in Request /\ target[a] \in Choice
    BY <1>9 DEF FormCommit
  <2>2. net' \in [Request -> Int] /\ moves' \in [Request -> 0..MaxMoves]
    BY <1>9, <2>1, PointsAreNat DEF FormCommit, MoveCoins, Transfer
  <2>3. /\ status' = [status EXCEPT ![at[a]] = target[a]]
        /\ drift' \in [Request -> Int] /\ crowded' \subseteq Request
        /\ at' = [at EXCEPT ![a] = NoRequest] /\ old' = [old EXCEPT ![a] = "none"]
        /\ target' = [target EXCEPT ![a] = "none"]
        /\ phase' = [phase EXCEPT ![a] = "idle"]
        /\ UNCHANGED <<checked, queue, raced>>
    BY <1>9, <2>1 DEF FormCommit, Write, Drift, Siblings
  <2>4. TypeOK'
    BY <2>1, <2>2, <2>3
  <2>5. JobsAreWellFormed'
    BY <2>3
  <2>6. RowsExist'
    BY <2>1, <2>3
  <2>7. QED
    BY <2>4, <2>5, <2>6
<1>10. ASSUME NEW a \in Admin, Die(a)
       PROVE  TypeOK' /\ JobsAreWellFormed' /\ RowsExist'
  BY <1>10 DEF Die, Drift, Credited
<1>11. ASSUME NEW S \in SUBSET Request, RejectPending(S)
       PROVE  TypeOK' /\ JobsAreWellFormed' /\ RowsExist'
  BY <1>11 DEF RejectPending, Pending
<1>12. CASE UNCHANGED vars
  BY <1>12 DEF vars
<1>13. QED
  BY <1>1, <1>2, <1>3, <1>4, <1>5, <1>6, <1>7, <1>8, <1>9, <1>10, <1>11, <1>12
     DEF Next, Approve, ChangePage, reject_requests

-----------------------------------------------------------------------------
(* Saves that nobody disturbs                                              *)

\* What save() has read stays what the row says, unless the row counts as raced.
LEMMA ReadStep ==
  ASSUME TypeOK, JobsAreWellFormed, RowsExist, Alone, ReadIsCurrent, [Next]_vars
  PROVE  Alone' /\ ReadIsCurrent'
<1> USE TopUpAssumption
<1> USE DEF TypeOK, Alone, ReadIsCurrent, coins, jobs, mishaps
<1>0. \A a \in Admin : phase[a] = "idle" => at[a] = NoRequest
  BY DEF JobsAreWellFormed
<1>1. ASSUME NEW r \in Request, NEW a \in Admin, NEW t, Read(a, r, t), status' = status
      PROVE  Alone' /\ ReadIsCurrent'
  <2>1. \A b \in Admin \ {a} : at[b] = r => r \in raced'
    BY <1>0, <1>1 DEF Read, Races, Saving
  <2>2. raced \subseteq raced'
    BY <1>1 DEF Read
  <2>3. at' = [at EXCEPT ![a] = r] /\ old' = [old EXCEPT ![a] = status[r]]
    BY <1>1 DEF Read
  <2>4. Alone'
    BY <2>1, <2>2, <2>3
  <2>5. ReadIsCurrent'
    BY <1>1, <2>2, <2>3
  <2>6. QED
    BY <2>4, <2>5
<1>2. ASSUME NEW a \in Admin, NEW r \in Request, at[a] = r, raced' = raced,
             status' = [status EXCEPT ![r] = target[a]],
             at' = [at EXCEPT ![a] = NoRequest], old' = [old EXCEPT ![a] = "none"]
      PROVE  Alone' /\ ReadIsCurrent'
  <2>1. Alone'
    BY <1>2
  <2>2. ASSUME NEW b \in Admin, at'[b] \in Request \ raced'
        PROVE  old'[b] = status'[at'[b]]
    <3>1. b # a /\ at'[b] = at[b] /\ old'[b] = old[b]
      BY <1>2, <2>2
    <3>2. at[b] # r
      BY <1>2, <2>2, <3>1
    <3>3. QED
      BY <1>2, <2>2, <3>1, <3>2
  <2>3. QED
    BY <2>1, <2>2
<1>3. ASSUME NEW r \in Request, NEW s, status[r] = "none",
             status' = [status EXCEPT ![r] = s], UNCHANGED <<at, old, raced>>
      PROVE  Alone' /\ ReadIsCurrent'
  BY <1>3 DEF RowsExist
<1>4. ASSUME UNCHANGED <<status, at, old, raced>>
      PROVE  Alone' /\ ReadIsCurrent'
  BY <1>4
<1>5. ASSUME NEW r \in Request, CheckSubmit(r) PROVE Alone' /\ ReadIsCurrent'
  BY <1>5, <1>4 DEF CheckSubmit
<1>6. ASSUME NEW r \in Request, Submit(r) PROVE Alone' /\ ReadIsCurrent'
  <2>1. status[r] = "none"
    BY <1>6 DEF Submit, RowsExist
  <2>2. QED
    BY <1>6, <1>3, <2>1 DEF Submit
<1>7. ASSUME NEW r \in Request, NEW s \in Choice, AdminAdd(r, s)
      PROVE  Alone' /\ ReadIsCurrent'
  BY <1>7, <1>3 DEF AdminAdd
<1>8. ASSUME NEW a \in Admin, NEW S \in SUBSET Request, ListPending(a, S)
      PROVE  Alone' /\ ReadIsCurrent'
  BY <1>8, <1>4 DEF ListPending
<1>9. ASSUME NEW a \in Admin, NEW r \in Request, ApproveRead(a, r)
      PROVE  Alone' /\ ReadIsCurrent'
  BY <1>9, <1>1 DEF ApproveRead
<1>10. ASSUME NEW a \in Admin, ApproveMove(a) PROVE Alone' /\ ReadIsCurrent'
  BY <1>10, <1>4 DEF ApproveMove
<1>11. ASSUME NEW a \in Admin, ApproveSave(a) PROVE Alone' /\ ReadIsCurrent'
  <2>1. at[a] \in Request
    BY <1>11 DEF ApproveSave, JobsAreWellFormed
  <2>2. QED
    BY <1>11, <1>2, <2>1 DEF ApproveSave, Write
<1>12. ASSUME NEW a \in Admin, NEW r \in Request, NEW t \in Choice, FormRead(a, r, t)
       PROVE  Alone' /\ ReadIsCurrent'
  BY <1>12, <1>1 DEF FormRead
<1>13. ASSUME NEW a \in Admin, FormCommit(a) PROVE Alone' /\ ReadIsCurrent'
  <2>1. at[a] \in Request
    BY <1>13 DEF FormCommit, JobsAreWellFormed
  <2>2. QED
    BY <1>13, <1>2, <2>1 DEF FormCommit, Write
<1>14. ASSUME NEW a \in Admin, Die(a) PROVE Alone' /\ ReadIsCurrent'
  BY <1>14 DEF Die
<1>15. ASSUME NEW S \in SUBSET Request, RejectPending(S)
       PROVE  Alone' /\ ReadIsCurrent'
  <2>1. raced \subseteq raced' /\ UNCHANGED <<at, old>>
    BY <1>15 DEF RejectPending
  <2>2. \A a \in Admin : at[a] \in Request \ raced' => status'[at[a]] = status[at[a]]
    BY <1>0, <1>15 DEF RejectPending, Saving
  <2>3. QED
    BY <2>1, <2>2
<1>16. CASE UNCHANGED vars
  BY <1>16, <1>4 DEF vars
<1>17. QED
  BY <1>5, <1>6, <1>7, <1>8, <1>9, <1>10, <1>11, <1>12, <1>13, <1>14, <1>15, <1>16
     DEF Next, Approve, ChangePage, reject_requests, Choice

-----------------------------------------------------------------------------
(* The coins                                                               *)

\* Every step moves the coins of an undisturbed row by as many points as it moves
\* what is owed for it: none, one time up, or one time down.
LEMMA NetStep ==
  ASSUME TypeOK, JobsAreWellFormed, RowsExist, Alone, ReadIsCurrent, NetIsExplained,
         TypeOK', [Next]_vars
  PROVE  NetIsExplained'
<1> SUFFICES ASSUME NEW r \in Request, r \notin raced'
             PROVE  net'[r] = points(r) * Owed(r)'
  BY DEF NetIsExplained
<1> USE TopUpAssumption
<1> DEFINE Cr == \E a \in Admin : Credited(a, r)
<1> USE DEF coins, jobs, mishaps
<1>1. r \notin raced
  BY DEF Next, vars, CheckSubmit, Submit, AdminAdd, Approve, ListPending, ApproveRead,
         ApproveMove, ApproveSave, ChangePage, FormRead, FormCommit, Read, Write, Die,
         reject_requests, RejectPending
<1>2. /\ Owed(r) = (IF status[r] = "approved" THEN 1 ELSE 0) + drift[r]
                       + (IF Cr THEN 1 ELSE 0)
      /\ Owed(r)' = (IF status'[r] = "approved" THEN 1 ELSE 0) + drift'[r]
                       + (IF Cr' THEN 1 ELSE 0)
  BY DEF Owed, One
<1>3. /\ points(r) \in Int /\ net[r] \in Int /\ drift[r] \in Int /\ drift'[r] \in Int
      /\ net[r] = points(r) * Owed(r)
  BY <1>1, PointsAreNat DEF TypeOK, NetIsExplained
<1>5. Owed(r) \in Int /\ Owed(r)' \in Int
  BY <1>2, <1>3
<1> HIDE DEF Cr
<1>6. ASSUME net'[r] = net[r], drift'[r] = drift[r], Cr' <=> Cr,
             status'[r] = "approved" <=> status[r] = "approved"
      PROVE  net'[r] = points(r) * Owed(r)'
  <2>1. Owed(r)' = Owed(r)
    BY <1>2, <1>6
  <2>2. QED
    BY <1>3, <1>6, <2>1
<1>7. ASSUME net'[r] = net[r] + points(r), Owed(r)' = Owed(r) + 1
      PROVE  net'[r] = points(r) * Owed(r)'
  BY <1>3, <1>5, <1>7, OneMoreOneLess
<1>8. ASSUME net'[r] = net[r] - points(r), Owed(r)' = Owed(r) - 1
      PROVE  net'[r] = points(r) * Owed(r)'
  BY <1>3, <1>5, <1>8, OneMoreOneLess
<1>9. ASSUME net'[r] = net[r], Owed(r)' = Owed(r)
      PROVE  net'[r] = points(r) * Owed(r)'
  BY <1>3, <1>9
<1>10. ASSUME UNCHANGED <<at, old, target, phase>> PROVE Cr' <=> Cr
  BY <1>10 DEF Cr, Credited
<1>11. ASSUME NEW a \in Admin, NEW q \in Request, NEW t, Read(a, q, t),
              phase[a] \in {"idle", "listed"}, NEW ph \in {"read", "form"},
              phase' = [phase EXCEPT ![a] = ph]
       PROVE  Cr' <=> Cr
  <2>1. \A b \in Admin : Credited(b, r)' <=> Credited(b, r)
    BY <1>11 DEF Credited, Read, TypeOK
  <2>2. QED
    BY <2>1 DEF Cr
\* Nobody but a saves r, so what is credited and not saved is a's.
<1>12. ASSUME NEW a \in Admin, at[a] = r PROVE Cr <=> Credited(a, r)
  BY <1>1, <1>12 DEF Cr, Credited, Alone
<1>13. ASSUME NEW a \in Admin, at[a] # r,
              \A b \in Admin \ {a} : /\ at'[b] = at[b] /\ old'[b] = old[b]
                                     /\ target'[b] = target[b] /\ phase'[b] = phase[b],
              at'[a] # r
       PROVE  Cr' <=> Cr
  BY <1>13 DEF Cr, Credited
<1>14. ASSUME NEW a \in Admin, at[a] = r, ~Credited(a, r)',
              \A b \in Admin \ {a} : at'[b] = at[b]
       PROVE  ~Cr'
  BY <1>1, <1>14 DEF Cr, Credited, Alone

\* Submissions and bulk updates move neither coins nor approvals.
<1>20. ASSUME NEW q \in Request, CheckSubmit(q) PROVE net'[r] = points(r) * Owed(r)'
  BY <1>20, <1>6, <1>10 DEF CheckSubmit
<1>21. ASSUME NEW q \in Request, Submit(q) PROVE net'[r] = points(r) * Owed(r)'
  <2>1. status[q] = "none"
    BY <1>21 DEF Submit, RowsExist
  <2>2. status'[r] = "approved" <=> status[r] = "approved"
    BY <1>21, <2>1 DEF Submit, TypeOK
  <2>3. QED
    BY <1>21, <1>6, <1>10, <2>2 DEF Submit
<1>22. ASSUME NEW S \in SUBSET Request, RejectPending(S)
       PROVE  net'[r] = points(r) * Owed(r)'
  <2>1. status'[r] = "approved" <=> status[r] = "approved"
    BY <1>22 DEF RejectPending, Pending
  <2>2. QED
    BY <1>22, <1>6, <1>10, <2>1 DEF RejectPending
\* A row that is added as approved has not earned its points.
<1>23. ASSUME NEW q \in Request, NEW s \in Choice, AdminAdd(q, s)
       PROVE  net'[r] = points(r) * Owed(r)'
  <2>1. /\ status[q] = "none" /\ status' = [status EXCEPT ![q] = s]
        /\ drift' = Drift(q, IF s = "approved" THEN -1 ELSE 0)
        /\ net' = net /\ UNCHANGED <<at, old, target, phase>>
    BY <1>23 DEF AdminAdd
  <2>2. CASE q = r /\ s = "approved"
    <3>1. /\ status[r] = "none" /\ status'[r] = "approved" /\ drift'[r] = drift[r] - 1
      BY <1>1, <2>1, <2>2 DEF Drift, TypeOK
    <3>2. Owed(r)' = Owed(r)
      BY <1>2, <1>3, <1>10, <2>1, <3>1
    <3>3. QED
      BY <1>9, <2>1, <3>2
  <2>3. CASE ~(q = r /\ s = "approved")
    <3>1. /\ status'[r] = "approved" <=> status[r] = "approved"
          /\ drift'[r] = drift[r]
      BY <1>1, <1>3, <2>1, <2>3 DEF Drift, TypeOK
    <3>2. QED
      BY <1>6, <1>10, <2>1, <3>1
  <2>4. QED
    BY <2>2, <2>3
<1>24. ASSUME NEW a \in Admin, NEW S \in SUBSET Request, ListPending(a, S)
       PROVE  net'[r] = points(r) * Owed(r)'
  <2>1. \A b \in Admin : Credited(b, r)' <=> Credited(b, r)
    BY <1>24 DEF ListPending, Credited, TypeOK
  <2>2. Cr' <=> Cr
    BY <2>1 DEF Cr
  <2>3. QED
    BY <1>24, <1>6, <2>2 DEF ListPending
<1>25. ASSUME NEW a \in Admin, NEW q \in Request, ApproveRead(a, q)
       PROVE  net'[r] = points(r) * Owed(r)'
  BY <1>25, <1>6, <1>11 DEF ApproveRead
<1>26. ASSUME NEW a \in Admin, NEW q \in Request, NEW t \in Choice, FormRead(a, q, t)
       PROVE  net'[r] = points(r) * Owed(r)'
  BY <1>26, <1>6, <1>11 DEF FormRead
\* The wallet's commit: from now on the points are owed to the save.
<1>27. ASSUME NEW a \in Admin, ApproveMove(a) PROVE net'[r] = points(r) * Owed(r)'
  <2>1. /\ phase[a] = "read" /\ phase' = [phase EXCEPT ![a] = "moved"]
        /\ MoveCoins(at[a], old[a], target[a])
        /\ UNCHANGED <<status, drift, at, old, target>>
    BY <1>27 DEF ApproveMove
  <2>2. at[a] \in Request /\ target[a] = "approved"
    BY <2>1 DEF JobsAreWellFormed, TypeOK
  <2>3. CASE at[a] # r
    <3>1. net'[r] = net[r]
      BY <2>1, <2>2, <2>3 DEF MoveCoins, Transfer, TypeOK
    <3>2. Cr' <=> Cr
      BY <1>13, <2>1, <2>3 DEF TypeOK
    <3>3. QED
      BY <1>6, <2>1, <3>1, <3>2
  <2>4. CASE at[a] = r
    <3>1. ~Cr
      BY <1>12, <2>1, <2>4 DEF Credited
    <3>2. CASE Credits(old[a], target[a])
      <4>1. net'[r] = net[r] + points(r)
        BY <2>1, <2>2, <2>4, <3>2, <1>3 DEF MoveCoins, Transfer, Credits, Debits, TypeOK
      <4>2. Credited(a, r)'
        BY <2>1, <2>4, <3>2 DEF Credited, TypeOK
      <4>3. Cr'
        BY <4>2 DEF Cr
      <4>4. Owed(r)' = Owed(r) + 1
        BY <1>2, <1>3, <2>1, <3>1, <4>3
      <4>5. QED
        BY <1>7, <4>1, <4>4
    <3>3. CASE ~Credits(old[a], target[a])
      <4>1. net'[r] = net[r]
        BY <2>1, <2>2, <2>4, <3>3 DEF MoveCoins, Debits
      <4>2. ~Cr'
        BY <1>14, <2>1, <2>4, <3>3 DEF Credited
      <4>3. QED
        BY <1>6, <2>1, <3>1, <4>1, <4>2
    <3>4. QED
      BY <3>2, <3>3
  <2>5. QED
    BY <2>3, <2>4
\* The save that follows: what was owed to it is owed for the status.
<1>28. ASSUME NEW a \in Admin, ApproveSave(a) PROVE net'[r] = points(r) * Owed(r)'
  <2>1. /\ phase[a] = "moved" /\ Write(a, at[a], old[a], target[a])
        /\ phase' = [phase EXCEPT ![a] = IF queue[a] = {} THEN "idle" ELSE "listed"]
        /\ net' = net
    BY <1>28 DEF ApproveSave
  <2>2. at[a] \in Request /\ target[a] = "approved"
    BY <2>1 DEF JobsAreWellFormed, TypeOK
  <2>3. CASE at[a] # r
    <3>1. status'[r] = status[r] /\ drift'[r] = drift[r]
      BY <1>1, <2>1, <2>2, <2>3 DEF Write, Drift, TypeOK
    <3>2. Cr' <=> Cr
      BY <1>13, <2>1, <2>3, TopUpAssumption DEF Write, TypeOK, TopUpAssumption
    <3>3. QED
      BY <1>6, <2>1, <3>1, <3>2
  <2>4. CASE at[a] = r
    <3>1. status'[r] = "approved" /\ old[a] = status[r] /\ status[r] # "none"
      BY <1>1, <2>1, <2>2, <2>4 DEF Write, ReadIsCurrent, RowsExist, TypeOK
    <3>2. ~Cr'
      BY <1>14, <2>1, <2>4 DEF Write, Credited, TypeOK
    <3>3. Cr <=> status[r] = "pending"
      BY <1>12, <2>1, <2>2, <2>4, <3>1 DEF Credited, Credits
    <3>4. drift'[r] = IF status[r] = "rejected" THEN drift[r] - 1 ELSE drift[r]
      BY <1>1, <1>3, <2>1, <2>2, <2>4, <3>1 DEF Write, Drift, TypeOK
    <3>5. status[r] \in {"pending", "approved", "rejected"}
      BY <3>1 DEF TypeOK, Status
    <3>6. Owed(r)' = Owed(r)
      BY <1>2, <1>3, <3>1, <3>2, <3>3, <3>4, <3>5
    <3>7. QED
      BY <1>9, <2>1, <3>6
  <2>5. QED
    BY <2>3, <2>4
\* The change page moves the coins and the status together.
<1>29. ASSUME NEW a \in Admin, FormCommit(a) PROVE net'[r] = points(r) * Owed(r)'
  <2>1. /\ phase[a] = "form" /\ Write(a, at[a], old[a], target[a])
        /\ MoveCoins(at[a], old[a], target[a])
        /\ phase' = [phase EXCEPT ![a] = "idle"]
    BY <1>29 DEF FormCommit
  <2>2. at[a] \in Request /\ target[a] \in {"pending", "approved", "rejected"}
    BY <2>1 DEF JobsAreWellFormed, TypeOK
  <2>3. CASE at[a] # r
    <3>1. status'[r] = status[r] /\ drift'[r] = drift[r] /\ net'[r] = net[r]
      BY <1>1, <2>1, <2>2, <2>3 DEF Write, Drift, MoveCoins, Transfer, TypeOK
    <3>2. Cr' <=> Cr
      BY <1>13, <2>1, <2>3, TopUpAssumption DEF Write, TypeOK, TopUpAssumption
    <3>3. QED
      BY <1>6, <3>1, <3>2
  <2>4. CASE at[a] = r
    <3>1. status'[r] = target[a] /\ old[a] = status[r] /\ status[r] # "none"
      BY <1>1, <2>1, <2>2, <2>4 DEF Write, ReadIsCurrent, RowsExist, TypeOK
    <3>2. ~Cr' /\ ~Cr
      BY <1>12, <1>14, <2>1, <2>4 DEF Write, Credited, TypeOK
    <3>3. drift'[r] = IF status[r] = "rejected" /\ target[a] = "approved"
                      THEN drift[r] - 1 ELSE drift[r]
      BY <1>1, <1>3, <2>1, <2>2, <2>4, <3>1 DEF Write, Drift, TypeOK
    <3>4. status[r] \in {"pending", "approved", "rejected"}
      BY <3>1 DEF TypeOK, Status
    <3>5. CASE Credits(old[a], target[a])
      <4>1. net'[r] = net[r] + points(r)
        BY <1>3, <2>1, <2>2, <2>4, <3>5 DEF MoveCoins, Transfer, Credits, Debits, TypeOK
      <4>2. Owed(r)' = Owed(r) + 1
        BY <1>2, <1>3, <3>1, <3>2, <3>3, <3>5 DEF Credits
      <4>3. QED
        BY <1>7, <4>1, <4>2
    <3>6. CASE Debits(old[a], target[a])
      <4>1. net'[r] = net[r] - points(r)
        BY <1>3, <2>1, <2>2, <2>4, <3>6 DEF MoveCoins, Transfer, Credits, Debits, TypeOK
      <4>2. Owed(r)' = Owed(r) - 1
        BY <1>2, <1>3, <3>1, <3>2, <3>3, <3>6 DEF Debits
      <4>3. QED
        BY <1>8, <4>1, <4>2
    <3>7. CASE ~Credits(old[a], target[a]) /\ ~Debits(old[a], target[a])
      <4>1. net'[r] = net[r]
        BY <2>1, <3>7 DEF MoveCoins
      <4>2. Owed(r)' = Owed(r)
        BY <1>2, <1>3, <2>2, <3>1, <3>2, <3>3, <3>4, <3>7 DEF Credits, Debits
      <4>3. QED
        BY <1>9, <4>1, <4>2
    <3>8. QED
      BY <3>5, <3>6, <3>7
  <2>5. QED
    BY <2>3, <2>4
\* A save that ends early leaves the coins, and the history says so.
<1>30. ASSUME NEW a \in Admin, Die(a) PROVE net'[r] = points(r) * Owed(r)'
  <2>1. /\ at' = [at EXCEPT ![a] = NoRequest] /\ phase' = [phase EXCEPT ![a] = "idle"]
        /\ old' = [old EXCEPT ![a] = "none"] /\ target' = [target EXCEPT ![a] = "none"]
        /\ drift' = IF Credited(a, at[a]) THEN Drift(at[a], 1) ELSE drift
        /\ net' = net /\ status' = status
    BY <1>30 DEF Die
  <2>2. CASE at[a] # r
    <3>1. drift'[r] = drift[r]
      BY <1>1, <1>3, <2>1, <2>2 DEF Drift, TypeOK
    <3>2. Cr' <=> Cr
      BY <1>13, <2>1, <2>2, TopUpAssumption DEF TypeOK, TopUpAssumption
    <3>3. QED
      BY <1>6, <2>1, <3>1, <3>2
  <2>3. CASE at[a] = r
    <3>1. ~Cr'
      BY <1>14, <2>1, <2>3 DEF Credited, TypeOK
    <3>2. drift'[r] = IF Cr THEN drift[r] + 1 ELSE drift[r]
      BY <1>1, <1>3, <1>12, <2>1, <2>3 DEF Drift, TypeOK
    <3>3. Owed(r)' = Owed(r)
      BY <1>2, <1>3, <2>1, <3>1, <3>2
    <3>4. QED
      BY <1>9, <2>1, <3>3
  <2>4. QED
    BY <2>2, <2>3
<1>31. CASE UNCHANGED vars
  BY <1>31, <1>6, <1>10 DEF vars
<1>32. QED
  BY <1>20, <1>21, <1>22, <1>23, <1>24, <1>25, <1>26, <1>27, <1>28, <1>29, <1>30, <1>31
     DEF Next, Approve, ChangePage, reject_requests, Choice

-----------------------------------------------------------------------------
(* Submissions                                                             *)

\* A submission that does not overlap another sees no pending row until it is saved.
LEMMA SubmitStep ==
  ASSUME TypeOK, JobsAreWellFormed, RowsExist, SubmitterSeesNone, CrowdedIsClosed,
         OnePending, [Next]_vars
  PROVE  SubmitterSeesNone' /\ CrowdedIsClosed' /\ OnePending'
<1> DEFINE Goal == SubmitterSeesNone /\ CrowdedIsClosed /\ OnePending
<1> USE DEF TypeOK, SubmitterSeesNone, CrowdedIsClosed, OnePending, NonePending, Pending,
            Siblings, coins, jobs, mishaps
\* Rows get crowded together with their siblings.
<1>1. ASSUME NEW q \in Request, crowded' \in {crowded, crowded \cup Siblings(q)}
      PROVE  CrowdedIsClosed' /\ crowded \subseteq crowded'
  BY <1>1
<1>2. ASSUME NEW q \in Request, CheckSubmit(q) PROVE Goal'
  <2>1. checked' = checked \cup {q} /\ status' = status
    BY <1>2 DEF CheckSubmit
  <2>2. CrowdedIsClosed' /\ crowded \subseteq crowded'
    BY <1>1, <1>2 DEF CheckSubmit
  <2>3. OnePending'
    BY <2>1, <2>2
  <2>4. ASSUME NEW r \in checked' \ crowded'
        PROVE  NonePending(r)' /\ Siblings(r) \cap checked' = {r}
    <3>1. CASE Siblings(q) \cap checked # {}
      <4>1. crowded' = crowded \cup Siblings(q)
        BY <1>2, <3>1 DEF CheckSubmit
      <4>2. r # q /\ r \in checked \ crowded /\ q \notin Siblings(r)
        BY <1>2, <2>1, <2>4, <4>1
      <4>3. QED
        BY <2>1, <4>2
    <3>2. CASE Siblings(q) \cap checked = {}
      <4>1. CASE r = q
        BY <1>2, <2>1, <3>2, <4>1 DEF CheckSubmit
      <4>2. CASE r # q
        <5>1. r \in checked \ crowded /\ q \notin Siblings(r)
          BY <2>1, <2>2, <2>4, <3>2, <4>2
        <5>2. QED
          BY <2>1, <5>1
      <4>3. QED
        BY <4>1, <4>2
    <3>3. QED
      BY <3>1, <3>2
  <2>5. QED
    BY <2>2, <2>3, <2>4
<1>3. ASSUME NEW q \in Request, Submit(q) PROVE Goal'
  <2>1. /\ q \in checked /\ checked' = checked \ {q} /\ crowded' = crowded
        /\ status' = [status EXCEPT ![q] = "pending"]
    BY <1>3 DEF Submit
  <2>2. ASSUME NEW r \in checked' \ crowded'
        PROVE  NonePending(r)' /\ Siblings(r) \cap checked' = {r}
    <3>1. r \in checked \ crowded /\ r # q /\ q \notin Siblings(r)
      BY <2>1, <2>2
    <3>2. QED
      BY <2>1, <3>1
  <2>3. OnePending'
    <3>1. ASSUME NEW r \in Request \ crowded', Pending(r)', NEW s \in Siblings(r) \ {r}
          PROVE  ~Pending(s)'
      <4>1. CASE r = q
        BY <2>1, <3>1, <4>1
      <4>2. CASE s = q
        <5>1. r \in Siblings(q) /\ q \notin crowded /\ status[r] = "pending"
          BY <2>1, <3>1, <4>2
        <5>2. QED
          BY <2>1, <5>1
      <4>3. CASE r # q /\ s # q
        BY <2>1, <3>1, <4>3
      <4>4. QED
        BY <4>1, <4>2, <4>3
    <3>2. QED
      BY <3>1
  <2>4. QED
    BY <2>1, <2>2, <2>3
\* Other steps make a row pending only together with the siblings' being crowded.
<1>4. ASSUME NEW q \in Request, crowded' \in {crowded, crowded \cup Siblings(q)},
             checked' = checked,
             \A r \in Request : status'[r] = "pending" =>
                 status[r] = "pending" \/ (r = q /\ crowded' = crowded \cup Siblings(q))
      PROVE  Goal'
  <2>1. CrowdedIsClosed' /\ crowded \subseteq crowded'
    BY <1>1, <1>4
  <2>2. ASSUME NEW r \in Request \ crowded', NEW s \in Siblings(r), Pending(s)'
        PROVE  Pending(s)
    BY <1>4, <2>1, <2>2
  <2>3. SubmitterSeesNone'
    BY <1>4, <2>1, <2>2
  <2>4. OnePending'
    <3>1. ASSUME NEW r \in Request \ crowded', Pending(r)', NEW s \in Siblings(r) \ {r}
          PROVE  ~Pending(s)'
      BY <2>1, <2>2, <3>1
    <3>2. QED
      BY <3>1
  <2>5. QED
    BY <2>1, <2>3, <2>4
<1>5. ASSUME NEW q \in Request, NEW s \in {"approved", "rejected"}, AdminAdd(q, s)
      PROVE  Goal'
  BY <1>4, <1>5 DEF AdminAdd
<1>6. ASSUME NEW a \in Admin, ApproveSave(a) \/ FormCommit(a) PROVE Goal'
  <2>1. /\ at[a] \in Request /\ checked' = checked
        /\ Write(a, at[a], old[a], target[a])
    BY <1>6 DEF ApproveSave, FormCommit, JobsAreWellFormed
  <2>2. QED
    BY <1>4, <2>1 DEF Write
<1>7. ASSUME UNCHANGED <<checked, crowded>>,
             \A r \in Request : status'[r] = "pending" => status[r] = "pending"
      PROVE  Goal'
  BY <1>7
<1>8. ASSUME NEW S \in SUBSET Request, RejectPending(S) PROVE Goal'
  BY <1>7, <1>8 DEF RejectPending
<1>9. ASSUME NEW a \in Admin,
             \/ \E S \in SUBSET Request : ListPending(a, S)
             \/ \E r \in Request : ApproveRead(a, r)
             \/ ApproveMove(a)
             \/ \E r \in Request, t \in Choice : FormRead(a, r, t)
             \/ Die(a)
      PROVE  Goal'
  BY <1>7, <1>9 DEF ListPending, ApproveRead, ApproveMove, FormRead, Die
<1>10. ASSUME UNCHANGED vars PROVE Goal'
  BY <1>7, <1>10 DEF vars
<1> HIDE DEF Goal
<1>11. Goal'
  <2>1. ASSUME NEW a \in Admin, Approve(a) \/ ChangePage(a) \/ Die(a) PROVE Goal'
    BY <1>6, <1>9, <2>1 DEF Approve, ChangePage, Choice
  <2>2. ASSUME reject_requests PROVE Goal'
    BY <1>8, <2>2 DEF reject_requests
  <2>3. ASSUME NEW q \in Request,
               \/ CheckSubmit(q)
               \/ Submit(q)
               \/ \E s \in {"approved", "rejected"} : AdminAdd(q, s)
        PROVE  Goal'
    <3>1. CASE CheckSubmit(q)
      BY <1>2, <3>1
    <3>2. CASE Submit(q)
      BY <1>3, <3>2
    <3>3. ASSUME NEW s \in {"approved", "rejected"}, AdminAdd(q, s) PROVE Goal'
      BY <1>5, <3>3
    <3>4. QED
      BY <2>3, <3>1, <3>2, <3>3
  <2>4. CASE Next
    BY <2>1, <2>2, <2>3, <2>4 DEF Next
  <2>5. QED
    BY <1>10, <2>4
<1>12. QED
  BY <1>11 DEF Goal

-----------------------------------------------------------------------------
\* All parts of the invariant together.
LEMMA InductiveInvariant == Spec => []IInv
<1>1. IInv /\ [Next]_vars => IInv'
  <2> SUFFICES ASSUME IInv, [Next]_vars PROVE IInv'
    OBVIOUS
  <2>1. TypeOK' /\ JobsAreWellFormed' /\ RowsExist'
    BY ShapeStep DEF IInv
  <2>2. Alone' /\ ReadIsCurrent'
    BY ReadStep DEF IInv
  <2>3. NetIsExplained'
    BY NetStep, <2>1 DEF IInv
  <2>4. SubmitterSeesNone' /\ CrowdedIsClosed' /\ OnePending'
    BY SubmitStep DEF IInv
  <2>5. QED
    BY <2>1, <2>2, <2>3, <2>4 DEF IInv
<1>2. QED
  BY <1>1, InitIInv, PTL DEF Spec

\* For a request whose saves do not overlap, the ledger is the status: every coin
\* too many or too few is an approval that ended between its two commits, or one of a
\* row that was not pending.
THEOREM NetIsExplainedHolds == Spec => []NetIsExplained
BY InductiveInvariant, PTL DEF IInv

\* One pending request per user and table, unless submissions overlap or an admin
\* reopens one.
THEOREM OnePendingHolds == Spec => []OnePending
BY InductiveInvariant, PTL DEF IInv
=============================================================================
