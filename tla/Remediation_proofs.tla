------------------------- MODULE Remediation_proofs -------------------------
(***************************************************************************)
(* Proofs about module Remediation: for any number of findings, any paths, *)
(* any files of the user's, any policy, with interruptions, decisions and  *)
(* edits of the user.                                                      *)
(***************************************************************************)
EXTENDS Remediation, TLAPS

LEMMA BoundNat == MaxAttempts \in Nat
  BY RemediationAssumption

\* What is done to the repository leaves one version at a path.
LEMMA TreesStay ==
  /\ {} \in Trees
  /\ \A t \in Trees : Visible(t) \in Trees
  /\ \A t \in Trees : \A p \in Path : t \ At(t, p) \in Trees
  /\ \A t \in Trees : \A v \in Version : Write(t, v) \in Trees
  /\ \A t, u \in Trees : \A p \in Path : (t \ At(t, p)) \cup At(u, p) \in Trees
  /\ \A t, u \in Trees : Changed(t, u) \subseteq Path
<1>1. \A t, u \in Trees : Changed(t, u) \subseteq Path
  BY RemediationAssumption DEF Trees, Changed, Paths
<1>2. \A t \in Trees : Visible(t) \in Trees
  BY DEF Trees, Visible
<1>3. \A t \in Trees : \A v \in Version : Write(t, v) \in Trees
  BY DEF Trees, Write, At
<1>4. \A t, u \in Trees : \A p \in Path : (t \ At(t, p)) \cup At(u, p) \in Trees
  BY DEF Trees, At
<1> QED
  BY <1>1, <1>2, <1>3, <1>4 DEF Trees

LEMMA TypeInit == Init => TypeOK
<1> SUFFICES ASSUME Init PROVE TypeOK
  OBVIOUS
<1>1. tree \in Trees /\ before \in Trees /\ after \in Trees /\ base \in Trees
      /\ undo \subseteq Path /\ edited \subseteq Path /\ tests \subseteq Tests \ Ignored
  BY TreesStay DEF Init
<1>2. status \in [Finding -> Pending \cup Settled]
  BY DEF Init, Pending
<1>3. /\ loaded = {} /\ todo = {} /\ interrupted = {}
      /\ current = User /\ pc = "idle" /\ succeeded = FALSE /\ rejects = "none"
      /\ outcome = "none"
  BY DEF Init
<1>4. attempts \in 0..MaxAttempts
  BY BoundNat DEF Init
<1> QED
  BY <1>1, <1>2, <1>3, <1>4 DEF TypeOK, Labels

LEMMA TypeNext == TypeOK /\ [Next]_vars => TypeOK'
<1> SUFFICES ASSUME TypeOK, [Next]_vars PROVE TypeOK'
  OBVIOUS
<1> USE BoundNat DEF TypeOK, Labels, Goes, Becomes, Returns, Pending, Settled, findings,
        memory, history
<1>1. CASE Begin
  <2>1. attempts' \in 0..MaxAttempts
    BY <1>1 DEF Begin
  <2>2. todo' \subseteq Finding /\ loaded' \subseteq Finding /\ pc' = "next"
    BY <1>1 DEF Begin, Approvals
  <2> QED
    BY <1>1, <2>1, <2>2 DEF Begin
<1>2. CASE MarkApproved \/ MarkFixing
  <2>1. status' \in [Finding -> Pending \cup Settled]
    BY <1>2 DEF MarkApproved, MarkFixing
  <2>2. current' \in todo'
    BY <1>2 DEF MarkApproved, MarkFixing, TakesUp
  <2> QED
    BY <1>2, <2>1, <2>2 DEF MarkApproved, MarkFixing
<1>16. CASE Finish \/ AwaitApproval
  BY <1>16, TreesStay DEF Finish, AwaitApproval
<1>3. CASE Capture
  BY <1>3, TreesStay DEF Capture, Snapshot
<1>4. CASE CommandWrites
  <2>1. tree' \in Trees
    BY <1>4, TreesStay DEF CommandWrites
  <2> QED
    BY <1>4, <2>1 DEF CommandWrites
<1>5. CASE CommandExits
  BY <1>5 DEF CommandExits
<1>6. CASE Validate
  BY <1>6, TreesStay DEF Validate
<1>7. CASE RejectRepair
  <2>1. undo' \subseteq Path /\ after' \in Trees
    BY <1>7, TreesStay DEF RejectRepair
  <2> QED
    BY <1>7, <2>1 DEF RejectRepair
<1>8. CASE Measure
  <2>1. undo' \subseteq Path /\ after' \in Trees
    BY <1>8, TreesStay DEF Measure
  <2> QED
    BY <1>8, <2>1 DEF Measure
<1>9. CASE RestoreFile
  <2>1. undo' \subseteq Path /\ tree' \in Trees
    BY <1>9, TreesStay DEF RestoreFile
  <2> QED
    BY <1>9, <2>1 DEF RestoreFile
<1>10. CASE Restored
  BY <1>10, TreesStay DEF Restored
<1>11. CASE MarkPending \/ VerificationPasses \/ VerificationFails \/ Confirm
  BY <1>11, TreesStay DEF MarkPending, VerificationPasses, VerificationFails, Confirm
<1>12. CASE Interrupt
  <2>1. tree' \in Trees /\ {} \in Trees
    BY <1>12, TreesStay DEF Interrupt
  <2> QED
    BY <1>12, <2>1 DEF Interrupt
<1>14. CASE UserEdits
  <2>1. tree' \in Trees /\ edited' \subseteq Path /\ tests' \subseteq Tests \ Ignored
    BY <1>14, TreesStay DEF UserEdits, At
  <2> QED
    BY <1>14, <2>1 DEF UserEdits
<1>15. CASE UNCHANGED vars
  BY <1>15 DEF vars
<1> QED
  BY <1>1, <1>2, <1>3, <1>4, <1>5, <1>6, <1>7, <1>8, <1>9, <1>10, <1>11, <1>12, <1>14,
     <1>15, <1>16 DEF Next, StepOfAttempt

\* The types of the finding files, of the attempt's memory and of the
\* repository, and that an attempt at work has a finding before it.
THEOREM TypeCorrect == Spec => []TypeOK
  BY TypeInit, TypeNext, PTL DEF Spec

-----------------------------------------------------------------------------
Allowed(files, f) ==
  \A v \in Of(f, files) : v.at \in Scope /\ (v.suppresses => Excused(v.at))

\* A finding that is not verified has nothing in the repository; one that is,
\* nothing forbidden; but for the one whose repair goes on.
CleanTree ==
  \A f \in Finding \ interrupted : ~Repairs(f) =>
    /\ status[f] # "VERIFIED" => Of(f, tree) = {}
    /\ Allowed(tree, f)

\* The same of the snapshot, for every finding.
CleanSnapshot ==
  pc \in Repairing =>
    /\ before = Visible(base)
    /\ \A f \in Finding \ interrupted :
         /\ status[f] # "VERIFIED" => Of(f, before) = {}
         /\ Allowed(before, f)

\* No finding still to be repaired is verified, and after the validation the
\* files of the one at work are allowed.
AtWork ==
  /\ \A f \in todo : status[f] # "VERIFIED"
  /\ pc \in {"pending", "verify", "confirm"} /\ current \notin interrupted =>
       Allowed(tree, current)

\* What is left of a rollback: at the rejection the validation has seen
\* everything, and what is not in undo is as it was, but for what the user did
\* since; he writes nothing in the name of a finding.
RollbackLeft ==
  /\ pc = "reject" =>
       /\ \A p \in Path \ (Ignored \cup edited) : At(tree, p) = At(after, p)
       /\ \A v \in Visible(tree) : v.by # User => v \in after
  /\ pc = "restore" =>
       /\ \A p \in Path \ (Ignored \cup edited) : p \in undo \/ At(tree, p) = At(before, p)
       /\ \A v \in Visible(tree) : v.by # User => v.at \in undo \/ v \in before

RepairInv == TypeOK /\ CleanTree /\ CleanSnapshot /\ AtWork /\ RollbackLeft

LEMMA RepairInit == Init => RepairInv
<1> SUFFICES ASSUME Init PROVE RepairInv
  OBVIOUS
<1>1. TypeOK
  BY TypeInit
<1>2. pc = "idle" /\ todo = {} /\ \A v \in tree : v.by = User
  BY DEF Init
<1>3. \A f \in Finding : Of(f, tree) = {}
  BY <1>2, RemediationAssumption DEF Of, Visible, Finding, User
<1>4. CleanTree
  BY <1>3 DEF CleanTree, Allowed
<1>5. CleanSnapshot /\ AtWork /\ RollbackLeft
  BY <1>2 DEF CleanSnapshot, AtWork, RollbackLeft, Repairing
<1> QED
  BY <1>1, <1>4, <1>5 DEF RepairInv

\* A step that writes no file, does not unsettle a finding and goes to a label
\* outside the repair.
LEMMA Elsewhere ==
  ASSUME RepairInv, TypeOK', tree' \subseteq tree, pc' \notin Repairing \cup {"capture"},
         interrupted \subseteq interrupted',
         \A f \in Finding : Repairs(f) => f \in interrupted',
         \A f \in Finding : status'[f] # "VERIFIED" => status[f] # "VERIFIED",
         \A f \in todo' : status'[f] # "VERIFIED"
  PROVE  RepairInv'
<1> USE DEF RepairInv, Repairing
<1>1. CleanTree'
  <2> SUFFICES ASSUME NEW f \in Finding \ interrupted'
               PROVE  /\ status'[f] # "VERIFIED" => Of(f, tree') = {}
                      /\ Allowed(tree, f)'
    BY DEF CleanTree
  <2>1. Of(f, tree') \subseteq Of(f, tree)
    BY DEF Of, Visible
  <2>2. (status[f] # "VERIFIED" => Of(f, tree) = {}) /\ Allowed(tree, f)
    BY DEF CleanTree
  <2>3. \A p \in Path : Excused(p) => Excused(p)'
    BY DEF Excused
  <2>4. \A v \in Of(f, tree) : v.at \in Path
    BY RemediationAssumption DEF TypeOK, Trees, Of, Visible
  <2> QED
    BY <2>1, <2>2, <2>3, <2>4 DEF Allowed
<1>2. CleanSnapshot' /\ AtWork' /\ RollbackLeft'
  BY DEF CleanSnapshot, AtWork, RollbackLeft
<1> QED
  BY <1>1, <1>2

\* The user changes one path, and writes in his own name.
LEMMA EditsOnePath ==
  ASSUME UserEdits
  PROVE  \E p \in Path :
           /\ \A v \in tree' : v.by # User => v \in tree
           /\ \A q \in Path : q # p => At(tree', q) = At(tree, q)
           /\ edited' = IF pc \in {"reject", "restore"} THEN edited \cup {p} ELSE edited
           /\ tests' = tests \ {p}
<1>1. PICK p \in Path :
        /\ (\E v \in At(Version, p) : v.by = User /\ tree' = Write(tree, v)) \/ tree' = tree \ At(tree, p)
        /\ edited' = IF pc \in {"reject", "restore"} THEN edited \cup {p} ELSE edited
        /\ tests' = tests \ {p}
  BY DEF UserEdits
<1>2. \A v \in tree' : v.by # User => v \in tree
  BY <1>1 DEF Write, At
<1>3. ASSUME NEW q \in Path, q # p PROVE At(tree', q) = At(tree, q)
  BY <1>1, <1>3 DEF Write, At
<1> QED
  BY <1>1, <1>2, <1>3

LEMMA RepairNext == RepairInv /\ [Next]_vars => RepairInv'
<1> SUFFICES ASSUME RepairInv, [Next]_vars PROVE RepairInv'
  OBVIOUS
<1>0. TypeOK /\ TypeOK'
  BY TypeNext DEF RepairInv
<1> USE DEF Goes, findings, memory, history
<1>1. CASE Begin \/ Finish \/ AwaitApproval
  <2>1. pc' \notin Repairing \cup {"capture"} /\ tree' = tree /\ interrupted' = interrupted
        /\ status' = status /\ pc \notin Repairing
    BY <1>1 DEF Begin, Finish, AwaitApproval, TakesUp, Returns, Repairing
  <2>2. \A f \in todo' : status'[f] # "VERIFIED"
    BY <1>1 DEF Begin, Finish, AwaitApproval, Returns, Repairable, Pending
  <2> QED
    BY <1>0, <2>1, <2>2, Elsewhere DEF Repairs
<1>2. CASE MarkApproved
  <2>1. pc' \notin Repairing \cup {"capture"} /\ tree' = tree /\ interrupted' = interrupted
        /\ pc \notin Repairing
    BY <1>2 DEF MarkApproved, TakesUp, Repairing
  <2>2. PICK f \in Finding : f \in todo /\ pc = "next"
               /\ status' = IF NeedsApproval THEN [status EXCEPT ![f] = "APPROVED_FOR_FIX"]
                            ELSE status
    BY <1>2 DEF MarkApproved, TakesUp
  <2>3. status[f] # "VERIFIED"
    BY <2>2 DEF RepairInv, AtWork
  <2>4. \A g \in Finding : status'[g] # "VERIFIED" => status[g] # "VERIFIED"
    BY <1>0, <2>2, <2>3 DEF TypeOK
  <2>5. \A g \in todo' : status'[g] # "VERIFIED"
    BY <1>0, <1>2, <2>2, <2>3 DEF TypeOK, MarkApproved, RepairInv, AtWork
  <2> QED
    BY <1>0, <2>1, <2>4, <2>5, Elsewhere DEF Repairs
<1>3. CASE MarkFixing
  <2>1. pc' = "capture" /\ tree' = tree /\ interrupted' = interrupted /\ pc = "mark"
        /\ todo' = todo /\ current' = current
    BY <1>3 DEF MarkFixing
  <2>2. \A g \in Finding : status'[g] # "VERIFIED" => status[g] # "VERIFIED"
    BY <1>0, <1>3 DEF TypeOK, MarkFixing, Becomes, RepairInv, AtWork
  <2>3. \A g \in todo : status'[g] # "VERIFIED"
    BY <1>0, <1>3 DEF TypeOK, MarkFixing, Becomes, RepairInv, AtWork
  <2> QED
    BY <1>0, <2>1, <2>2, <2>3
       DEF RepairInv, CleanTree, CleanSnapshot, AtWork, RollbackLeft, Repairs, Repairing, Of, Allowed, Excused
<1>4. CASE Capture
  <2>1. pc' = "repair" /\ tree' = tree /\ interrupted' = interrupted /\ pc = "capture"
        /\ todo' = todo /\ current' = current /\ status' = status
        /\ before' = Visible(tree) /\ base' = tree
    BY <1>4 DEF Capture, Snapshot
  <2>2. CleanTree'
    BY <2>1 DEF RepairInv, CleanTree, Repairs, Repairing, Of, Allowed, Excused
  <2>3. \A f \in Finding : Of(f, before') = Of(f, tree)
    BY <2>1 DEF Of, Visible
  <2>4. CleanSnapshot'
    BY <2>1, <2>3 DEF RepairInv, CleanTree, CleanSnapshot, Repairs, Repairing, Allowed, Excused
  <2>5. AtWork' /\ RollbackLeft'
    BY <2>1 DEF RepairInv, AtWork, RollbackLeft
  <2> QED
    BY <1>0, <2>2, <2>4, <2>5 DEF RepairInv
<1>5. CASE CommandWrites
  <2>1. pc = "repair" /\ current \in Finding /\ UNCHANGED <<findings, memory, pc, outcome, history>>
    BY <1>0, <1>5 DEF CommandWrites, TypeOK
  <2>2. \A f \in Finding \ {current} : Of(f, tree') \subseteq Of(f, tree)
    BY <1>5, RemediationAssumption DEF CommandWrites, Write, At, Of, Visible, Finding, User
  <2>3. CleanTree'
    BY <2>1, <2>2 DEF RepairInv, CleanTree, Repairs, Repairing, Allowed, Excused
  <2>4. CleanSnapshot' /\ AtWork' /\ RollbackLeft'
    BY <2>1 DEF RepairInv, CleanSnapshot, AtWork, RollbackLeft, Repairing, Allowed, Excused, Of, Visible
  <2> QED
    BY <1>0, <2>3, <2>4 DEF RepairInv
<1>6. CASE CommandExits
  <2>1. pc = "repair" /\ pc' = "validate"
        /\ UNCHANGED <<tree, status, todo, current, before, undo, base, edited, interrupted>>
    BY <1>6 DEF CommandExits
  <2> QED
    BY <1>0, <2>1
       DEF RepairInv, CleanTree, CleanSnapshot, AtWork, RollbackLeft, Repairs, Repairing, Of, Allowed, Excused
<1>7. CASE Validate
  <2>1. pc = "validate" /\ pc' \in {"measure", "reject", "pending"} /\ after' = Visible(tree)
        /\ (pc' = "pending" => ~Violates(before, after'))
        /\ UNCHANGED <<tree, status, todo, current, before, undo, base, edited, interrupted>>
    BY <1>7 DEF Validate
  <2>2. CleanTree' /\ CleanSnapshot'
    BY <2>1 DEF RepairInv, CleanTree, CleanSnapshot, Repairs, Repairing, Of, Allowed, Excused
  <2>3. RollbackLeft'
    <3>1. \A p \in Path \ Ignored : At(tree, p) = At(Visible(tree), p)
      BY DEF At, Visible
    <3> QED
      BY <2>1, <3>1 DEF RollbackLeft, Visible, At
  <2>4. ASSUME pc' = "pending", current \in Finding \ interrupted PROVE Allowed(tree, current)
    <3>1. /\ Changed(before, Visible(tree)) \subseteq Scope
          /\ ~Suppresses(before, Visible(tree))
      BY <2>1, <2>4 DEF Violates
    <3>2. /\ before = Visible(base) /\ base \in Trees
          /\ \A f \in Finding \ interrupted : Allowed(before, f)
      BY <1>0, <2>1 DEF RepairInv, CleanSnapshot, Repairing, TypeOK
    <3>3. ASSUME NEW v \in before, v.suppresses PROVE Excused(v.at)
      <4>1. v \in Version /\ v.at \notin Ignored
        BY <3>2 DEF Visible, Trees
      <4>2. CASE v.by \in {User} \cup interrupted
        BY <3>3, <4>1, <4>2 DEF Excused, At
      <4>3. CASE v.by \in Finding \ interrupted
        BY <3>2, <3>3, <4>1, <4>3 DEF Allowed, Of, Visible
      <4> QED
        BY <4>1, <4>2, <4>3, RemediationAssumption
    <3> SUFFICES ASSUME NEW v \in Of(current, tree)
                 PROVE  v.at \in Scope /\ (v.suppresses => Excused(v.at))
      BY DEF Allowed
    <3>4. CASE v \in before
      BY <2>4, <3>2, <3>4 DEF Allowed, Of, Visible
    <3>5. CASE v \notin before
      <4>1. v \in Visible(tree) \ before
        BY <3>5 DEF Of
      <4>2. v.at \in Scope
        BY <3>1, <4>1 DEF Changed, Paths
      <4>3. v.suppresses => \E u \in before : u.at = v.at /\ u.suppresses
        BY <3>1, <4>1 DEF Suppresses, At
      <4> QED
        BY <3>3, <4>2, <4>3
    <3> QED
      BY <3>4, <3>5
  <2>5. AtWork'
    <3>1. current \in Finding
      BY <1>0, <2>1 DEF TypeOK
    <3> QED
      BY <2>1, <2>4, <3>1 DEF RepairInv, AtWork, Allowed, Excused, Of, Visible
  <2> QED
    BY <1>0, <2>2, <2>3, <2>5 DEF RepairInv
<1>8. CASE RejectRepair
  <2>1. pc = "reject" /\ pc' = "restore" /\ undo' = Changed(before, after)
        /\ UNCHANGED <<tree, todo, current, before, base, edited, interrupted>>
    BY <1>8 DEF RejectRepair
  <2>2. \A f \in Finding : status'[f] = (IF f = current THEN "REPAIR_REJECTED" ELSE status[f])
    BY <1>0, <1>8 DEF TypeOK, RejectRepair, Becomes
  <2>3. \A f \in Finding : status'[f] # "VERIFIED" /\ f # current => status[f] # "VERIFIED"
    BY <2>2
  <2>4. current \in todo /\ todo \subseteq Finding /\ status[current] # "VERIFIED"
    BY <1>0, <2>1 DEF TypeOK, RepairInv, AtWork
  <2>5. CleanTree'
    BY <2>1, <2>3 DEF RepairInv, CleanTree, Repairs, Repairing, Of, Allowed, Excused
  <2>6. CleanSnapshot'
    BY <2>1, <2>3, <2>4 DEF RepairInv, CleanSnapshot, Repairing, Allowed, Excused, Of
  <2>7. AtWork'
    BY <2>1, <2>2, <2>4 DEF RepairInv, AtWork
  <2>8. RollbackLeft'
    BY <2>1 DEF RepairInv, RollbackLeft, Changed, Paths, At, Visible
  <2> QED
    BY <1>0, <2>5, <2>6, <2>7, <2>8 DEF RepairInv
<1>9. CASE Measure
  <2>1. pc = "measure" /\ pc' = "restore" /\ undo' = Changed(before, Visible(tree))
        /\ UNCHANGED <<tree, status, todo, current, before, base, edited, interrupted>>
    BY <1>9 DEF Measure
  <2>2. CleanTree' /\ CleanSnapshot' /\ AtWork'
    BY <2>1 DEF RepairInv, CleanTree, CleanSnapshot, AtWork, Repairs, Repairing, Of, Allowed, Excused
  <2>3. RollbackLeft'
    BY <2>1 DEF RollbackLeft, Changed, Paths, At, Visible
  <2> QED
    BY <1>0, <2>2, <2>3 DEF RepairInv
<1>10. CASE RestoreFile
  <2>1. PICK p \in undo :
          /\ tree' = (tree \ At(tree, p)) \cup At(before, p)
          /\ undo' = undo \ {p}
    BY <1>10 DEF RestoreFile
  <2>2. pc = "restore" /\ pc' = "restore"
        /\ UNCHANGED <<status, todo, current, before, after, base, edited, interrupted>>
    BY <1>10 DEF RestoreFile
  <2>3. \A f \in Finding : Of(f, tree') \subseteq Of(f, tree) \cup Of(f, before)
    BY <2>1 DEF Of, Visible, At
  <2>4. CleanTree'
    BY <2>2, <2>3 DEF RepairInv, CleanTree, CleanSnapshot, Repairs, Repairing, Allowed, Excused
  <2>5. CleanSnapshot' /\ AtWork'
    BY <2>2 DEF RepairInv, CleanSnapshot, AtWork, Repairing, Allowed, Excused, Of, Visible
  <2>6. RollbackLeft'
    BY <2>1, <2>2 DEF RepairInv, RollbackLeft, At, Visible
  <2> QED
    BY <1>0, <2>4, <2>5, <2>6 DEF RepairInv
<1>11. CASE Restored
  <2>1. pc = "restore" /\ undo = {} /\ pc' = "idle" /\ todo' = {}
        /\ UNCHANGED <<tree, interrupted>>
    BY <1>11 DEF Restored, Returns
  <2>2. current \in todo /\ todo \subseteq Finding /\ status[current] # "VERIFIED"
    BY <1>0, <2>1 DEF TypeOK, RepairInv, AtWork
  <2>3. \A f \in Finding : status'[f] # "VERIFIED" => status[f] # "VERIFIED"
    BY <1>0, <1>11, <2>2 DEF TypeOK, Restored, Becomes
  <2>4. \A f \in Finding : Of(f, tree) \subseteq Of(f, before)
    BY <2>1, RemediationAssumption DEF RepairInv, RollbackLeft, Of, Visible, Finding, User
  <2>5. CleanTree'
    <3> SUFFICES ASSUME NEW f \in Finding \ interrupted
                 PROVE  /\ status'[f] # "VERIFIED" => Of(f, tree) = {}
                        /\ Allowed(tree, f)
      BY <2>1 DEF CleanTree, Of, Allowed, Excused, Visible
    <3>1. status[f] # "VERIFIED" => Of(f, before) = {}
      BY <2>1 DEF RepairInv, CleanSnapshot, Repairing
    <3>2. Allowed(before, f)
      BY <2>1 DEF RepairInv, CleanSnapshot, Repairing
    <3> QED
      BY <2>3, <2>4, <3>1, <3>2 DEF Allowed
  <2>6. CleanSnapshot' /\ AtWork' /\ RollbackLeft'
    BY <2>1 DEF CleanSnapshot, AtWork, RollbackLeft, Repairing
  <2> QED
    BY <1>0, <2>5, <2>6 DEF RepairInv
<1>12. CASE MarkPending
  <2>1. pc = "pending" /\ pc' = "verify"
        /\ UNCHANGED <<tree, todo, current, before, after, undo, base, edited, interrupted>>
    BY <1>12 DEF MarkPending
  <2>2. current \in todo /\ todo \subseteq Finding /\ status[current] # "VERIFIED"
    BY <1>0, <2>1 DEF TypeOK, RepairInv, AtWork
  <2>3. \A f \in Finding : status'[f] # "VERIFIED" => status[f] # "VERIFIED"
    BY <1>0, <1>12, <2>2 DEF TypeOK, MarkPending, Becomes
  <2>4. \A f \in todo : status'[f] # "VERIFIED"
    BY <1>0, <1>12, <2>2 DEF TypeOK, MarkPending, Becomes, RepairInv, AtWork
  <2>5. CleanTree' /\ CleanSnapshot'
    BY <2>1, <2>3 DEF RepairInv, CleanTree, CleanSnapshot, Repairs, Repairing, Of, Allowed, Excused
  <2>6. AtWork' /\ RollbackLeft'
    BY <2>1, <2>4 DEF RepairInv, AtWork, RollbackLeft, Allowed, Excused, Of
  <2> QED
    BY <1>0, <2>5, <2>6 DEF RepairInv
<1>13. CASE VerificationPasses \/ VerificationFails
  <2>1. pc = "verify" /\ pc' \in {"confirm", "measure"}
        /\ UNCHANGED <<tree, status, todo, current, before, after, undo, base, edited, interrupted>>
    BY <1>13 DEF VerificationPasses, VerificationFails
  <2> QED
    BY <1>0, <2>1
       DEF RepairInv, CleanTree, CleanSnapshot, AtWork, RollbackLeft, Repairs, Repairing, Of, Allowed, Excused
<1>14. CASE Confirm
  <2>1. pc = "confirm" /\ pc' = "next" /\ todo' = todo \ {current}
        /\ UNCHANGED <<tree, before, interrupted>>
    BY <1>14 DEF Confirm
  <2>2. current \in todo /\ todo \subseteq Finding
    BY <1>0, <2>1 DEF TypeOK
  <2>3. \A f \in Finding : status'[f] = (IF f = current THEN "VERIFIED" ELSE status[f])
    BY <1>0, <1>14, <2>2 DEF TypeOK, Confirm, Becomes
  <2>4. current \notin interrupted => Allowed(tree, current)
    BY <2>1 DEF RepairInv, AtWork
  <2>5. CleanTree'
    BY <2>1, <2>3, <2>4 DEF RepairInv, CleanTree, Repairs, Repairing, Of, Allowed, Excused
  <2>6. AtWork'
    BY <2>1, <2>2, <2>3 DEF RepairInv, AtWork
  <2>7. CleanSnapshot' /\ RollbackLeft'
    BY <2>1 DEF CleanSnapshot, RollbackLeft, Repairing
  <2> QED
    BY <1>0, <2>5, <2>6, <2>7 DEF RepairInv
<1>15. CASE Interrupt
  <2>1. pc' = "idle" /\ todo' = {} /\ tree' \subseteq tree /\ status' = status
        /\ interrupted' = interrupted \cup {f \in Finding : Repairs(f)}
    BY <1>15 DEF Interrupt, Returns
  <2> QED
    BY <1>0, <2>1, Elsewhere DEF Repairing
<1>17. CASE UserEdits
  <2>1. UNCHANGED <<findings, memory, pc, outcome, base, interrupted>>
    BY <1>17 DEF UserEdits
  <2>2. PICK p \in Path :
          /\ \A v \in tree' : v.by # User => v \in tree
          /\ \A q \in Path : q # p => At(tree', q) = At(tree, q)
          /\ edited' = IF pc \in {"reject", "restore"} THEN edited \cup {p} ELSE edited
    BY <1>17, EditsOnePath
  <2>3. \A f \in Finding : Of(f, tree') \subseteq Of(f, tree)
    BY <2>2, RemediationAssumption DEF Of, Visible, Finding, User
  <2>4. CleanTree' /\ CleanSnapshot'
    BY <2>1, <2>3 DEF RepairInv, CleanTree, CleanSnapshot, Repairs, Allowed, Excused
  <2>5. current \in todo \/ pc \in {"idle", "next"}
    BY <1>0 DEF TypeOK
  <2>6. AtWork'
    BY <1>0, <2>1, <2>3, <2>5 DEF RepairInv, AtWork, Allowed, Excused, TypeOK
  <2>7. RollbackLeft'
    BY <2>1, <2>2 DEF RepairInv, RollbackLeft, Visible
  <2> QED
    BY <1>0, <2>4, <2>6, <2>7 DEF RepairInv
<1>18. CASE UNCHANGED vars
  BY <1>0, <1>18
     DEF vars, RepairInv, CleanTree, CleanSnapshot, AtWork, RollbackLeft, Repairs, Of, Allowed, Excused
<1> QED
  BY <1>1, <1>2, <1>3, <1>4, <1>5, <1>6, <1>7, <1>8, <1>9, <1>10, <1>11, <1>12, <1>13, <1>14,
     <1>15, <1>17, <1>18 DEF Next, StepOfAttempt

\* However often the step is attempted and interrupted, whatever the commands
\* write: a rejected or blocked finding has nothing of its repair left.
THEOREM RejectedRepairsAreRolledBack == Spec => []RejectedIsRolledBack
<1>1. RepairInv => RejectedIsRolledBack
  BY DEF RepairInv, CleanTree, RejectedIsRolledBack
<1> QED
  BY <1>1, RepairInit, RepairNext, PTL DEF Spec

\* What the validation forbids never outlives the repair that wrote it.
THEOREM NothingForbiddenStays == Spec => []ForbiddenIsRemoved
<1>1. RepairInv => ForbiddenIsRemoved
  BY DEF RepairInv, CleanTree, Allowed, ForbiddenIsRemoved
<1> QED
  BY <1>1, RepairInit, RepairNext, PTL DEF Spec

\* A rollback ends with the repository the command found, but for paths the user
\* touched while it was going on.
THEOREM RollbacksAreExact == Spec => []RollbackIsExact
<1>1. RepairInv => RollbackIsExact
  <2>1. \A p \in Path \ Ignored : At(base, p) = At(Visible(base), p)
    BY DEF At, Visible
  <2> QED
    BY <2>1 DEF RepairInv, RollbackLeft, CleanSnapshot, Repairing, RollbackIsExact
<1> QED
  BY <1>1, RepairInit, RepairNext, PTL DEF Spec

-----------------------------------------------------------------------------
\* The findings before an attempt are those that are not settled, until a rejection has been
\* written and is being rolled back.
Agenda ==
  /\ \A f \in todo : status[f] \in Pending \/ (pc = "restore" /\ f = current /\ rejects = "none")
  /\ pc = "reject" => rejects = "none"
  /\ pc # "idle" => \A f \in Finding : status[f] \in Settled \/ f \in todo
  /\ outcome = "SUCCEEDED" /\ pc = "idle" => \A f \in Finding : status[f] \in Settled

\* A step that writes the status of findings before the attempt, or none.
LEMMA AgendaNext ==
  ASSUME TypeOK, TypeOK', Agenda, [Next]_vars
  PROVE  Agenda' /\ \A f \in Finding : status[f] \in Settled => status'[f] = status[f]
<1> USE DEF Agenda, Goes, Returns, findings, memory, history
<1>0. Pending \cap Settled = {}
  BY DEF Pending, Settled
<1>1. CASE Begin
  <2>1. /\ todo' = {f \in Finding : status[f] \in Pending} /\ status' = status
        /\ pc' = "next" /\ status \in [Finding -> Pending \cup Settled]
    BY <1>1 DEF Begin, Repairable, TypeOK
  <2> QED
    BY <2>1
<1>2. CASE Finish \/ AwaitApproval \/ Interrupt
  <2>1. status' = status /\ todo' = {} /\ pc' = "idle" /\ pc # "idle"
        /\ (outcome' = "SUCCEEDED" => todo = {})
    BY <1>2 DEF Finish, AwaitApproval, Interrupt, TakesUp
  <2> QED
    BY <2>1
<1>3. CASE MarkApproved
  <2>1. PICK f \in Finding : /\ f \in todo /\ pc = "next"
                             /\ status' = IF NeedsApproval THEN [status EXCEPT ![f] = "APPROVED_FOR_FIX"]
                                          ELSE status
    BY <1>3 DEF MarkApproved, TakesUp
  <2>2. pc' = "mark" /\ todo' = todo /\ rejects' = rejects /\ outcome' = outcome
    BY <1>3 DEF MarkApproved
  <2>3. status[f] \in Pending
    BY <2>1
  <2>4. \A g \in Finding : status'[g] = status[g] \/ (g = f /\ status'[g] \in Pending)
    BY <2>1 DEF TypeOK, Pending
  <2> QED
    BY <1>0, <2>1, <2>2, <2>3, <2>4
<1>4. CASE MarkFixing \/ MarkPending
  <2>1. /\ pc \in {"mark", "pending"} /\ pc' \in {"capture", "verify"}
        /\ todo' = todo /\ current' = current /\ rejects' = rejects /\ outcome' = outcome
    BY <1>4 DEF MarkFixing, MarkPending
  <2>2. current \in todo /\ todo \subseteq Finding
    BY <2>1 DEF TypeOK
  <2>3. \A g \in Finding : status'[g] = status[g] \/ (g = current /\ status'[g] \in Pending)
    BY <1>4, <2>2 DEF TypeOK, Pending, MarkFixing, MarkPending, Becomes
  <2>4. status[current] \in Pending
    BY <2>1, <2>2
  <2> QED
    BY <1>0, <2>1, <2>2, <2>3, <2>4
<1>5. CASE RejectRepair
  <2>1. /\ pc = "reject" /\ pc' = "restore" /\ rejects = "none" /\ rejects' = "none"
        /\ todo' = todo /\ current' = current
    BY <1>5 DEF RejectRepair
  <2>2. current \in todo /\ todo \subseteq Finding /\ status[current] \in Pending
    BY <2>1 DEF TypeOK
  <2>3. \A g \in Finding : status'[g] = status[g] \/ (g = current /\ status'[g] \in Settled)
    BY <1>5, <2>2 DEF TypeOK, Settled, RejectRepair, Becomes
  <2> QED
    BY <1>0, <2>1, <2>2, <2>3
<1>6. CASE Restored
  <2>1. pc = "restore" /\ pc' = "idle" /\ todo' = {} /\ outcome' = "FAILED"
    BY <1>6 DEF Restored
  <2>2. current \in todo /\ todo \subseteq Finding
    BY <2>1 DEF TypeOK
  <2>3. rejects = "none" \/ status[current] \in Pending
    BY <2>1, <2>2
  <2>4. /\ rejects = "none" => status' = status
        /\ \A g \in Finding : g # current => status'[g] = status[g]
    BY <1>6, <2>2 DEF TypeOK, Restored, Becomes
  <2> QED
    BY <1>0, <2>1, <2>3, <2>4
<1>7. CASE Confirm
  <2>1. /\ pc = "confirm" /\ pc' = "next" /\ todo' = todo \ {current}
    BY <1>7 DEF Confirm
  <2>2. current \in todo /\ todo \subseteq Finding /\ status[current] \in Pending
    BY <2>1 DEF TypeOK
  <2>3. \A g \in Finding : IF g = current THEN status'[g] \in Settled ELSE status'[g] = status[g]
    BY <1>7, <2>2 DEF TypeOK, Settled, Confirm, Becomes
  <2> QED
    BY <1>0, <2>1, <2>2, <2>3
<1>8. CASE Capture \/ CommandWrites \/ CommandExits \/ Validate \/ Measure \/ RestoreFile
           \/ VerificationPasses \/ VerificationFails
  <2>1. /\ UNCHANGED <<status, todo, current, outcome>> /\ pc # "idle" /\ pc' # "idle"
        /\ pc' = "reject" => rejects' = "none"
        /\ pc = "restore" => pc' = "restore" /\ rejects' = rejects
    BY <1>8 DEF Capture, CommandWrites, CommandExits, Validate, Measure, RestoreFile,
       VerificationPasses, VerificationFails
  <2> QED
    BY <2>1
<1>9. CASE UserEdits
  BY <1>9 DEF UserEdits
<1>10. CASE UNCHANGED vars
  BY <1>10 DEF vars
<1> QED
  BY <1>1, <1>2, <1>3, <1>4, <1>5, <1>6, <1>7, <1>8, <1>9, <1>10 DEF Next, StepOfAttempt

LEMMA AgendaHolds == Spec => [](TypeOK /\ Agenda)
<1>1. Init => Agenda
  BY DEF Init, Agenda
<1>2. TypeOK /\ Agenda /\ [Next]_vars => Agenda'
  BY TypeNext, AgendaNext
<1> QED
  BY <1>1, <1>2, TypeInit, TypeNext, PTL DEF Spec

\* However often the step was interrupted: when an attempt succeeds there is no finding left that
\* some attempt began with (runRemediationCapability).
THEOREM SuccessSettlesAll == Spec => []SucceededIsSettled
<1>1. Agenda => SucceededIsSettled
  BY DEF Agenda, SucceededIsSettled
<1> QED
  BY <1>1, AgendaHolds, PTL

\* What was verified, rejected or blocked is never repaired again.
THEOREM SettledFindingsStay == Spec => SettledStays
<1>1. TypeOK /\ Agenda /\ [Next]_vars =>
        [\A f \in Finding : status[f] \in Settled => status'[f] = status[f]]_vars
  BY TypeNext, AgendaNext
<1> QED
  BY <1>1, AgendaHolds, PTL DEF Spec, SettledStays

-----------------------------------------------------------------------------
\* A path that holds something in the repository.
Holds(files, p) == At(files, p) # {}

\* While a repair goes on the tests are in its snapshot, and once it was
\* validated they are in the repository, too.  The user's hand is off them
\* during a rollback.
TestsAreKept ==
  /\ pc \in Repairing => \A p \in tests : Holds(before, p)
  /\ pc \notin Repairing \ {"pending", "verify", "confirm"} => \A p \in tests : Holds(tree, p)
  /\ pc \notin {"reject", "restore"} => edited = {}
  /\ pc # "restore" => undo = {}
  /\ tests \cap edited = {}

KeptUnlessInterrupted == interrupted = {} => TestsAreKept

LEMMA TestsNext ==
  ASSUME RepairInv, TypeOK', KeptUnlessInterrupted, [Next]_vars
  PROVE  KeptUnlessInterrupted'
<1> SUFFICES ASSUME interrupted' = {} PROVE TestsAreKept'
  BY DEF KeptUnlessInterrupted
<1>0. TypeOK /\ interrupted = {} /\ TestsAreKept
  <2>1. interrupted \subseteq interrupted'
    BY DEF Next, StepOfAttempt, vars, history, Returns, Begin, Finish, AwaitApproval, MarkApproved,
       MarkFixing, Capture, CommandWrites, CommandExits, Validate, RejectRepair, Measure,
       RestoreFile, Restored, MarkPending, VerificationPasses, VerificationFails, Confirm,
       Interrupt, UserEdits
  <2> QED
    BY <2>1 DEF KeptUnlessInterrupted, RepairInv
<1>a. tests \subseteq Tests /\ tests \subseteq Path \ Ignored
  BY <1>0, RemediationAssumption DEF TypeOK
<1> USE DEF Goes, Returns, findings, memory, history
<1>1. CASE Begin \/ Finish \/ AwaitApproval \/ Interrupt
  <2>1. /\ UNCHANGED <<tree, tests>> /\ pc' \in {"idle", "next"} /\ pc \notin Repairing
        /\ edited' = {} /\ undo' = {}
    <3>1. CASE Interrupt
      <4>1. ~\E f \in Finding : Repairs(f)
        BY <3>1 DEF Interrupt
      <4>2. pc \in Repairing => current \in Finding
        BY <1>0 DEF TypeOK, Repairing
      <4>3. pc \notin Repairing
        BY <4>1, <4>2 DEF Repairs
      <4>4. undo = {}
        BY <1>0, <4>3 DEF TestsAreKept, Repairing
      <4> QED
        BY <3>1, <4>3, <4>4 DEF Interrupt
    <3> QED
      BY <1>0, <1>1, <3>1 DEF Begin, Finish, AwaitApproval, TakesUp, Repairing, TestsAreKept
  <2> QED
    BY <1>0, <2>1 DEF TestsAreKept, Holds, At, Repairing
<1>2. CASE MarkApproved \/ MarkFixing
  <2>1. /\ UNCHANGED <<tree, tests, edited, undo>> /\ pc \notin Repairing
        /\ pc' \in {"mark", "capture"}
    BY <1>2 DEF MarkApproved, MarkFixing, TakesUp, Repairing
  <2> QED
    BY <1>0, <2>1 DEF TestsAreKept, Holds, At, Repairing
<1>3. CASE Capture
  <2>1. /\ UNCHANGED <<tree, edited, undo>> /\ before' = Visible(tree) /\ pc = "capture"
        /\ pc' = "repair" /\ tests' = tests \cup {p \in Tests \ Ignored : At(tree, p) # {}}
    BY <1>3 DEF Capture, Snapshot
  <2>2. \A p \in tests' : Holds(tree, p) /\ p \notin Ignored
    BY <1>0, <1>a, <2>1 DEF TestsAreKept, Holds, Repairing
  <2>3. \A p \in tests' : Holds(before', p)
    BY <2>1, <2>2 DEF Holds, At, Visible
  <2> QED
    BY <1>0, <2>1, <2>3 DEF TestsAreKept, Holds, At, Repairing
<1>4. CASE CommandWrites \/ CommandExits
  <2>1. /\ UNCHANGED <<before, edited, undo, tests>> /\ pc = "repair"
        /\ pc' \in {"repair", "validate"}
    BY <1>4 DEF CommandWrites, CommandExits
  <2> QED
    BY <1>0, <2>1 DEF TestsAreKept, Holds, At, Repairing
<1>6. CASE Validate
  <2>1. /\ UNCHANGED <<tree, before, edited, undo, tests>> /\ pc = "validate"
        /\ pc' \in {"measure", "reject", "pending"}
        /\ pc' = "pending" => ~Violates(before, Visible(tree))
    BY <1>6 DEF Validate
  <2>2. \A p \in tests : Holds(before, p)
    BY <1>0, <2>1 DEF TestsAreKept, Repairing
  <2>3. ASSUME pc' = "pending" PROVE \A p \in tests : Holds(tree, p)
    <3>1. ~DeletesTest(before, Visible(tree))
      BY <2>1, <2>3 DEF Violates
    <3> QED
      BY <1>a, <2>2, <3>1 DEF DeletesTest, Holds, At, Visible
  <2> QED
    BY <1>0, <2>1, <2>2, <2>3 DEF TestsAreKept, Holds, At, Repairing
<1>7. CASE RejectRepair \/ Measure
  <2>1. /\ UNCHANGED <<before, edited, tests>> /\ pc \in {"reject", "measure"}
        /\ pc' = "restore"
    BY <1>7 DEF RejectRepair, Measure
  <2> QED
    BY <1>0, <2>1 DEF TestsAreKept, Holds, At, Repairing
<1>8. CASE RestoreFile
  <2>1. UNCHANGED <<before, edited, tests>> /\ pc = "restore" /\ pc' = "restore"
    BY <1>8 DEF RestoreFile
  <2> QED
    BY <1>0, <2>1 DEF TestsAreKept, Holds, At, Repairing
<1>9. CASE Restored
  <2>1. /\ pc = "restore" /\ undo = {} /\ pc' = "idle" /\ UNCHANGED <<tree, tests>>
        /\ edited' = {} /\ undo' = {}
    BY <1>9 DEF Restored
  <2>2. \A p \in tests : Holds(before, p) /\ p \notin edited
    BY <1>0, <2>1 DEF TestsAreKept, Repairing
  <2>3. \A p \in tests : Holds(tree, p)
    BY <1>a, <2>1, <2>2 DEF RepairInv, RollbackLeft, Holds
  <2> QED
    BY <1>0, <2>1, <2>3 DEF TestsAreKept, Holds, At, Repairing
<1>10. CASE MarkPending \/ VerificationPasses \/ VerificationFails \/ Confirm
  <2>1. /\ UNCHANGED <<tree, before, edited, undo, tests>> /\ pc \in {"pending", "verify", "confirm"}
        /\ pc' \in {"verify", "confirm", "measure", "next"}
    BY <1>10 DEF MarkPending, VerificationPasses, VerificationFails, Confirm
  <2> QED
    BY <1>0, <2>1 DEF TestsAreKept, Holds, At, Repairing
<1>13. CASE UserEdits
  <2>1. PICK p \in Path :
          /\ \A q \in Path : q # p => At(tree', q) = At(tree, q)
          /\ edited' = IF pc \in {"reject", "restore"} THEN edited \cup {p} ELSE edited
          /\ tests' = tests \ {p}
    BY <1>13, EditsOnePath
  <2>2. UNCHANGED <<pc, before, undo>>
    BY <1>13 DEF UserEdits
  <2>3. \A q \in tests' : q \in tests /\ (Holds(tree, q) => Holds(tree', q))
    BY <1>a, <2>1 DEF Holds
  <2> QED
    BY <1>0, <2>1, <2>2, <2>3 DEF TestsAreKept, Holds, At
<1>14. CASE UNCHANGED vars
  BY <1>0, <1>14 DEF vars, TestsAreKept, Holds, At
<1> QED
  BY <1>1, <1>2, <1>3, <1>4, <1>6, <1>7, <1>8, <1>9, <1>10, <1>13, <1>14
     DEF Next, StepOfAttempt

\* Whatever repair commands overwrite and remove, whoever wrote the tests and
\* whatever the user does in between: the path of a test that was there when a
\* repair began exists until the user touches it, if nothing is interrupted
\* (validateRepair).
THEOREM TestsAreNotLost == Spec => []TestsStay
<1>1. Init => KeptUnlessInterrupted
  BY DEF Init, KeptUnlessInterrupted, TestsAreKept, Repairing
<1>2. RepairInv /\ KeptUnlessInterrupted /\ [Next]_vars => KeptUnlessInterrupted'
  BY TestsNext, TypeNext DEF RepairInv
<1>3. KeptUnlessInterrupted => TestsStay
  BY DEF KeptUnlessInterrupted, TestsAreKept, TestsStay, Holds
<1> QED
  BY <1>1, <1>2, <1>3, RepairInit, RepairNext, PTL DEF Spec
=============================================================================
