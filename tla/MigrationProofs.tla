--------------------------- MODULE MigrationProofs ---------------------------
(***************************************************************************)
(* Proofs about StorageMigration, for any files, directories and contents. *)
(***************************************************************************)
EXTENDS StorageMigration, TLAPS

\* The target has key k as the source has it, or will get it.
Due(k) ==
  \/ target[k] = source[k]
  \/ target[k] = None /\ source[k] # None /\ (Dir[k] \in dirs \/ k \in listed)

\* While nothing has gone wrong, no copied key is in parts, and what nobody
\* has touched is copied or due.
Progress ==
  (pc = "copying" /\ ~errors) =>
    \A k \in Keys : /\ target[k] # Torn
                    /\ k \notin touched => Due(k)

\* The command has nothing left to copy.
Copied ==
  pc \in {"counting", "done"} =>
    \A k \in Keys : /\ target[k] # Torn
                    /\ k \notin touched => target[k] = source[k]

Inv == TypeOK /\ Progress /\ Copied

\* TypeOK is inductive by itself.
LEMMA TypeStep ==
  ASSUME TypeOK, [Next]_vars
  PROVE  TypeOK'
<1> USE MigrationNames, MigrationContents DEF TypeOK
<1>1. ASSUME NEW k \in Keys, NEW v \in Values \union {None}, Write(k, v)
      PROVE  TypeOK'
  BY <1>1 DEF Write, Files
<1>2. ASSUME NEW t \in Temps, NEW c \in Values \union {None, Torn}, TempFile(t, c)
      PROVE  TypeOK'
  BY <1>2 DEF TempFile, Files
<1>3. CASE Start
  BY <1>3 DEF Start, Dirs, In
<1>4. ASSUME NEW d \in Dirs, ListDir(d)
      PROVE  TypeOK'
  BY <1>4 DEF ListDir, In
<1>5. ASSUME NEW x \in Files, Copy(x)
      PROVE  TypeOK'
  <2>1. target' \in [Files -> Values \union {None, Torn}]
    BY <1>5 DEF Copy
  <2>2. QED
    BY <1>5, <2>1 DEF Copy
<1>6. CASE EndCopy
  BY <1>6 DEF EndCopy
<1>7. CASE Count
  BY <1>7 DEF Count
<1>8. CASE Die
  BY <1>8 DEF Die
<1>9. CASE ClearTarget
  BY <1>9 DEF ClearTarget
<1>10. CASE UNCHANGED vars
  BY <1>10 DEF vars
<1>11. QED
  BY <1>1, <1>2, <1>3, <1>4, <1>5, <1>6, <1>7, <1>8, <1>9, <1>10 DEF Next

\* What is due stays due until it is copied, and what is copied stays so until
\* somebody touches it.
LEMMA ProgressStep ==
  ASSUME Inv, [Next]_vars
  PROVE  Progress' /\ Copied'
<1> USE MigrationNames, MigrationContents DEF Inv, TypeOK, Progress, Copied, Due
<1>1. ASSUME NEW k \in Keys, NEW v \in Values \union {None}, Write(k, v)
      PROVE  Progress' /\ Copied'
  BY <1>1 DEF Write, Files
<1>2. ASSUME NEW t \in Temps, NEW c \in Values \union {None, Torn}, TempFile(t, c)
      PROVE  Progress' /\ Copied'
  <2>1. \A k \in Keys : source'[k] = source[k]
    BY <1>2 DEF TempFile, Files
  <2>2. QED
    BY <1>2, <2>1 DEF TempFile
<1>3. CASE Start
  <2>1. \A k \in Keys : k \in Files /\ target[k] = None
    BY <1>3 DEF Start, In, Files
  <2>2. \A k \in Keys : source[k] # None => Dir[k] \in dirs'
    BY <1>3, <2>1 DEF Start, In
  <2>3. QED
    BY <1>3, <2>1, <2>2 DEF Start
<1>4. ASSUME NEW d \in Dirs, ListDir(d)
      PROVE  Progress' /\ Copied'
  <2>1. \A k \in Keys : (source[k] # None /\ Dir[k] = d) => k \in listed'
    BY <1>4 DEF ListDir, In, Files
  <2>2. \A k \in Keys : Due(k) => Due(k)'
    BY <1>4, <2>1 DEF ListDir
  <2>3. QED
    BY <1>4, <2>2 DEF ListDir
<1>5. ASSUME NEW x \in Files, Copy(x)
      PROVE  Progress' /\ Copied'
  <2>1. CASE errors'
    BY <1>5, <2>1 DEF Copy
  <2>2. CASE ~errors'
    <3>1. ~errors /\ target' = [target EXCEPT ![x] = source[x]] /\ pc = "copying"
      BY <1>5, <2>2 DEF Copy
    <3>2. \A k \in Keys : target'[k] # Torn /\ (Due(k) => Due(k)')
      BY <1>5, <3>1 DEF Copy, Files
    <3>3. QED
      BY <1>5, <3>1, <3>2 DEF Copy
  <2>3. QED
    BY <2>1, <2>2
<1>6. CASE EndCopy
  BY <1>6 DEF EndCopy
<1>7. CASE Count
  BY <1>7 DEF Count
<1>8. CASE Die
  BY <1>8 DEF Die
<1>9. CASE ClearTarget
  BY <1>9 DEF ClearTarget
<1>10. CASE UNCHANGED vars
  BY <1>10 DEF vars
<1>11. QED
  BY <1>1, <1>2, <1>3, <1>4, <1>5, <1>6, <1>7, <1>8, <1>9, <1>10 DEF Next

\* Inv is inductive.
THEOREM Invariance == Spec => []Inv
<1>1. Init => Inv
  BY MigrationNames, MigrationContents DEF Init, Inv, TypeOK, Progress, Copied, Files
<1>2. Inv /\ [Next]_vars => Inv'
  BY TypeStep, ProgressStep DEF Inv
<1>3. QED
  BY <1>1, <1>2, PTL DEF Spec

\* Whatever the server does and however the command ends, every variable keeps
\* its type, and nothing is left to list or to copy outside of a copy.
THEOREM TypeCorrect == Spec => []TypeOK
BY Invariance, PTL DEF Inv

\* A run of migrate-storage that reports success has copied every key that
\* nobody touched meanwhile, and no key in part, whatever the server wrote,
\* which copies failed and which runs were interrupted before.
THEOREM MigratedFaithfully == Spec => []MigrationFaithful
<1>1. Inv => MigrationFaithful
  BY DEF Inv, Copied, MigrationFaithful
<1>2. QED
  BY Invariance, <1>1, PTL
==============================================================================
