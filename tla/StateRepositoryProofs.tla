----------------------- MODULE StateRepositoryProofs ------------------------
(***************************************************************************)
(* The managed-state file is replaced atomically for every set of states:  *)
(* typing, the inductive invariant behind save(), and the refinement of    *)
(* the register in StateStore.                                             *)
(***************************************************************************)
EXTENDS StateRepository, TLAPS

(* The inductive invariant: the phases of save(), the honesty of its       *)
(* result, and that nothing torn is ever named path_.  file is among the   *)
(* contents a power loss may leave.                                        *)
RepositoryInv ==
  /\ TypeOK
  /\ SaveProgress
  /\ NeverTorn
  /\ SaveIsAllOrNothing
  /\ file \in flash

(* The repository starts idle with a whole file or none.                   *)
LEMMA InitInv == Init => RepositoryInv
  BY ContentsDiffer
  DEF Init, RepositoryInv, TypeOK, SaveProgress, NeverTorn, SaveIsAllOrNothing,
      Steps, Contents, Unusable, NoTmp, Results

(* The two fresh states of path_.tmp are well typed.                       *)
LEMMA FreshTmp ==
  /\ NoTmp \in [data : Contents, synced : BOOLEAN]
  /\ [data |-> Torn, synced |-> FALSE] \in [data : Contents, synced : BOOLEAN]
  BY DEF NoTmp, Contents, Unusable

(* One step per system call of save(), per operation and per failure.      *)
LEMMA StepInv == RepositoryInv /\ [Next]_vars => RepositoryInv'
<1> SUFFICES ASSUME RepositoryInv, [Next]_vars
             PROVE  RepositoryInv'
  OBVIOUS
<1> USE ContentsDiffer DEF RepositoryInv
<1>1. ASSUME NEW s \in OwnState \cup BadState, Save(s)
      PROVE  RepositoryInv'
  <2>1. TypeOK'
    BY <1>1 DEF Save, Return, TypeOK, SaveProgress, Steps, Contents, Unusable, NoTmp, Results
  <2>2. SaveProgress'
    BY <1>1 DEF Save, Return, TypeOK, SaveProgress, Steps
  <2>3. NeverTorn' /\ file' \in flash'
    BY <1>1 DEF Save, Return, SaveProgress, NeverTorn, Unusable
  <2>4. SaveIsAllOrNothing'
    BY <1>1 DEF Save, Return, SaveProgress, SaveIsAllOrNothing, Steps, TypeOK
  <2>5. QED
    BY <2>1, <2>2, <2>3, <2>4
<1>2. CASE MkdirP
  <2>1. TypeOK'
    BY <1>2 DEF MkdirP, Return, Goto, TypeOK, SaveProgress, Steps, Contents, Unusable, NoTmp, Results
  <2>2. SaveProgress'
    BY <1>2 DEF MkdirP, Return, Goto, TypeOK, SaveProgress, Steps
  <2>3. NeverTorn' /\ file' \in flash'
    BY <1>2 DEF MkdirP, Return, Goto, SaveProgress, NeverTorn, Unusable
  <2>4. SaveIsAllOrNothing'
    BY <1>2 DEF MkdirP, Return, Goto, SaveProgress, SaveIsAllOrNothing, Steps, TypeOK
  <2>5. QED
    BY <2>1, <2>2, <2>3, <2>4
<1>3. CASE OpenTmp
  <2>1. TypeOK'
    <3>1. tmp' \in [data : Contents, synced : BOOLEAN]
      BY <1>3, FreshTmp DEF OpenTmp, TypeOK
    <3>2. QED
      BY <1>3, <3>1 DEF OpenTmp, Return, Goto, TypeOK, Steps, Results
  <2>2. SaveProgress'
    BY <1>3 DEF OpenTmp, Return, Goto, TypeOK, SaveProgress, Steps
  <2>3. NeverTorn' /\ file' \in flash'
    BY <1>3 DEF OpenTmp, Return, Goto, SaveProgress, NeverTorn, Unusable
  <2>4. SaveIsAllOrNothing'
    BY <1>3 DEF OpenTmp, Return, Goto, SaveProgress, SaveIsAllOrNothing, Steps, TypeOK
  <2>5. QED
    BY <2>1, <2>2, <2>3, <2>4
<1>4. CASE WriteAll
  <2>1. TypeOK'
    BY <1>4 DEF WriteAll, Return, Goto, TypeOK, SaveProgress, Steps, Contents, Unusable, NoTmp, Results
  <2>2. SaveProgress'
    BY <1>4 DEF WriteAll, Return, Goto, TypeOK, SaveProgress, Steps
  <2>3. NeverTorn' /\ file' \in flash'
    BY <1>4 DEF WriteAll, Return, Goto, SaveProgress, NeverTorn, Unusable
  <2>4. SaveIsAllOrNothing'
    BY <1>4 DEF WriteAll, Return, Goto, SaveProgress, SaveIsAllOrNothing, Steps, TypeOK
  <2>5. QED
    BY <2>1, <2>2, <2>3, <2>4
<1>5. CASE SyncTmp
  <2>1. TypeOK'
    BY <1>5 DEF SyncTmp, Return, Goto, TypeOK, SaveProgress, Steps, Contents, Unusable, NoTmp, Results
  <2>2. SaveProgress'
    BY <1>5 DEF SyncTmp, Return, Goto, TypeOK, SaveProgress, Steps
  <2>3. NeverTorn' /\ file' \in flash'
    BY <1>5 DEF SyncTmp, Return, Goto, SaveProgress, NeverTorn, Unusable
  <2>4. SaveIsAllOrNothing'
    BY <1>5 DEF SyncTmp, Return, Goto, SaveProgress, SaveIsAllOrNothing, Steps, TypeOK
  <2>5. QED
    BY <2>1, <2>2, <2>3, <2>4
<1>6. CASE RenameTmp
  <2>0. tmp.data = subject /\ tmp.synced /\ subject \in OwnState
    BY <1>6 DEF RenameTmp, SaveProgress, TypeOK
  <2>1. TypeOK'
    <3>1. tmp' \in [data : Contents, synced : BOOLEAN]
      BY <1>6, FreshTmp DEF RenameTmp, TypeOK
    <3>2. file' \in Contents /\ flash' \in SUBSET Contents
      BY <1>6, <2>0 DEF RenameTmp, TypeOK, Contents
    <3>3. QED
      BY <1>6, <3>1, <3>2 DEF RenameTmp, Return, Goto, TypeOK, Steps, Results
  <2>2. SaveProgress'
    BY <1>6 DEF RenameTmp, Return, Goto, TypeOK, SaveProgress, Steps
  <2>3. NeverTorn' /\ file' \in flash'
    BY <1>6, <2>0 DEF RenameTmp, NeverTorn, Unusable
  <2>4. SaveIsAllOrNothing'
    BY <1>6 DEF RenameTmp, Return, Goto, SaveProgress, SaveIsAllOrNothing, Steps, TypeOK
  <2>5. QED
    BY <2>1, <2>2, <2>3, <2>4
<1>7. CASE SyncParent
  <2>1. TypeOK'
    BY <1>7 DEF SyncParent, Return, TypeOK, SaveProgress, Steps, Contents, Unusable, NoTmp, Results
  <2>2. SaveProgress'
    BY <1>7 DEF SyncParent, Return, TypeOK, SaveProgress, Steps
  <2>3. NeverTorn' /\ file' \in flash'
    BY <1>7 DEF SyncParent, Return, SaveProgress, NeverTorn, Unusable
  <2>4. SaveIsAllOrNothing'
    BY <1>7 DEF SyncParent, Return, SaveProgress, SaveIsAllOrNothing, Steps, TypeOK
  <2>5. QED
    BY <2>1, <2>2, <2>3, <2>4
<1>8. CASE Clear
  <2>1. TypeOK'
    BY <1>8 DEF Clear, Return, TypeOK, SaveProgress, Steps, Contents, Unusable, NoTmp, Results
  <2>2. SaveProgress'
    BY <1>8 DEF Clear, Return, TypeOK, SaveProgress, Steps
  <2>3. NeverTorn' /\ file' \in flash'
    BY <1>8 DEF Clear, Return, SaveProgress, NeverTorn, Unusable
  <2>4. SaveIsAllOrNothing'
    BY <1>8 DEF Clear, Return, SaveProgress, SaveIsAllOrNothing, Steps, TypeOK
  <2>5. QED
    BY <2>1, <2>2, <2>3, <2>4
<1>9. CASE Load
  <2>1. TypeOK'
    BY <1>9 DEF Load, LoadResult, TypeOK, SaveProgress, Steps, Contents, Unusable, NoTmp, Results
  <2>2. SaveProgress'
    BY <1>9 DEF Load, LoadResult, TypeOK, SaveProgress, Steps
  <2>3. NeverTorn' /\ file' \in flash'
    BY <1>9 DEF Load, LoadResult, SaveProgress, NeverTorn, Unusable
  <2>4. SaveIsAllOrNothing'
    BY <1>9 DEF Load, LoadResult, SaveProgress, SaveIsAllOrNothing, Steps, TypeOK
  <2>5. QED
    BY <2>1, <2>2, <2>3, <2>4
<1>10. CASE Writeback
  <2>1. TypeOK'
    BY <1>10 DEF Writeback, TypeOK, SaveProgress, Steps, Contents, Unusable, NoTmp, Results
  <2>2. SaveProgress'
    BY <1>10 DEF Writeback, TypeOK, SaveProgress, Steps
  <2>3. NeverTorn' /\ file' \in flash'
    BY <1>10 DEF Writeback, SaveProgress, NeverTorn, Unusable
  <2>4. SaveIsAllOrNothing'
    BY <1>10 DEF Writeback, SaveProgress, SaveIsAllOrNothing, Steps, TypeOK
  <2>5. QED
    BY <2>1, <2>2, <2>3, <2>4
<1>11. CASE ProcessDeath
  <2>1. TypeOK'
    BY <1>11 DEF ProcessDeath, Restart, TypeOK, SaveProgress, Steps, Contents, Unusable, NoTmp, Results
  <2>2. SaveProgress'
    BY <1>11 DEF ProcessDeath, Restart, TypeOK, SaveProgress, Steps
  <2>3. NeverTorn' /\ file' \in flash'
    BY <1>11 DEF ProcessDeath, Restart, SaveProgress, NeverTorn, Unusable
  <2>4. SaveIsAllOrNothing'
    BY <1>11 DEF ProcessDeath, Restart, SaveProgress, SaveIsAllOrNothing, Steps, TypeOK
  <2>5. QED
    BY <2>1, <2>2, <2>3, <2>4
<1>12. CASE PowerLoss
  <2>1. TypeOK'
    <3>1. tmp' \in [data : Contents, synced : BOOLEAN]
      BY <1>12, FreshTmp DEF PowerLoss, TypeOK
    <3>2. PICK c \in flash : file' = c /\ flash' = {c}
      BY <1>12 DEF PowerLoss
    <3>3. QED
      BY <1>12, <3>1, <3>2 DEF PowerLoss, Restart, TypeOK, Steps, Results
  <2>2. SaveProgress'
    BY <1>12 DEF PowerLoss, Restart, TypeOK, SaveProgress, Steps
  <2>3. NeverTorn' /\ file' \in flash'
    BY <1>12 DEF PowerLoss, Restart, SaveProgress, NeverTorn, Unusable
  <2>4. SaveIsAllOrNothing'
    BY <1>12 DEF PowerLoss, Restart, SaveProgress, SaveIsAllOrNothing, Steps, TypeOK
  <2>5. QED
    BY <2>1, <2>2, <2>3, <2>4
<1>13. CASE UNCHANGED vars
  <2>1. TypeOK'
    BY <1>13 DEF vars, TypeOK, SaveProgress, Steps, Contents, Unusable, NoTmp, Results
  <2>2. SaveProgress'
    BY <1>13 DEF vars, TypeOK, SaveProgress, Steps
  <2>3. NeverTorn' /\ file' \in flash'
    BY <1>13 DEF vars, SaveProgress, NeverTorn, Unusable
  <2>4. SaveIsAllOrNothing'
    BY <1>13 DEF vars, SaveProgress, SaveIsAllOrNothing, Steps, TypeOK
  <2>5. QED
    BY <2>1, <2>2, <2>3, <2>4
<1>14. QED
  BY <1>1, <1>2, <1>3, <1>4, <1>5, <1>6, <1>7, <1>8, <1>9, <1>10, <1>11,
     <1>12, <1>13 DEF Next, SaveStep

(* The invariant holds of every behaviour, with any number of crashes.     *)
THEOREM RepositoryCorrect == Spec => []RepositoryInv
<1>1. QED
  BY InitInv, StepInv, PTL DEF Spec

(* Every variable of the repository keeps its type.                        *)
THEOREM RepositoryTypes == Spec => []TypeOK
<1>1. RepositoryInv => TypeOK
  BY DEF RepositoryInv
<1>2. QED
  BY <1>1, RepositoryCorrect, PTL

(* No reader of the managed-state file, before or after a power loss,      *)
(* meets a half written document.                                          *)
THEOREM AtomicWrites == Spec => []NeverTorn
<1>1. RepositoryInv => NeverTorn
  BY DEF RepositoryInv
<1>2. QED
  BY <1>1, RepositoryCorrect, PTL

(* The answer of save() tells the caller what path_ holds.                 *)
THEOREM HonestSave == Spec => []SaveIsAllOrNothing
<1>1. RepositoryInv => SaveIsAllOrNothing
  BY DEF RepositoryInv
<1>2. QED
  BY <1>1, RepositoryCorrect, PTL

(* Every step of the repository is a step of the register or leaves it     *)
(* unchanged.                                                              *)
LEMMA StepRefines ==
  RepositoryInv /\ [Next]_vars => [Store!Next]_<<file, flash>>
<1> SUFFICES ASSUME RepositoryInv, [Next]_vars
             PROVE  [Store!Next]_<<file, flash>>
  OBVIOUS
<1> USE DEF Store!Next
<1>1. ASSUME NEW s \in OwnState \cup BadState, Save(s)
      PROVE  UNCHANGED <<file, flash>>
  BY <1>1 DEF Save
<1>2. CASE MkdirP \/ OpenTmp \/ WriteAll \/ SyncTmp
  BY <1>2 DEF MkdirP, OpenTmp, WriteAll, SyncTmp
<1>3. CASE RenameTmp
  <2>1. tmp.data = subject /\ tmp.synced /\ subject \in OwnState
    BY <1>3 DEF RenameTmp, RepositoryInv, SaveProgress, TypeOK
  <2>2. CASE UNCHANGED <<file, flash>>
    BY <2>2
  <2>3. CASE file' = tmp.data /\ flash' = flash \cup {tmp.data}
    BY <2>1, <2>3 DEF Store!Replace
  <2>4. QED
    BY <1>3, <2>1, <2>2, <2>3 DEF RenameTmp
<1>4. CASE SyncParent
  BY <1>4 DEF SyncParent, Store!Settle
<1>5. CASE Clear
  BY <1>5 DEF Clear, Store!Erase
<1>6. CASE Load
  BY <1>6 DEF Load
<1>7. CASE Writeback
  BY <1>7 DEF Writeback, Store!Settle
<1>8. CASE ProcessDeath
  BY <1>8 DEF ProcessDeath
<1>9. CASE PowerLoss
  BY <1>9 DEF PowerLoss, Store!Recover
<1>10. CASE UNCHANGED vars
  BY <1>10 DEF vars
<1>11. QED
  BY <1>1, <1>2, <1>3, <1>4, <1>5, <1>6, <1>7, <1>8, <1>9, <1>10
  DEF Next, SaveStep

(* The file with its system calls, failures and crashes implements the     *)
(* register the daemon is written against.                                 *)
THEOREM RepositoryRefinesStore == Spec => ImplementsStateStore
<1>1. Init => Store!Init
  BY DEF Init, Store!Init
<1>2. QED
  BY <1>1, StepRefines, RepositoryCorrect, PTL
  DEF Spec, ImplementsStateStore, Store!Spec
=============================================================================
