--------------------------- MODULE StorageMigration ---------------------------
(***************************************************************************)
(* The migrate-storage command, a process of its own, beside a server that *)
(* goes on writing to the source: shutil.copytree lists and copies file by *)
(* file, whatever happens to the files meanwhile, and the command then     *)
(* counts.  A file that can not be copied is remembered and the others are *)
(* copied all the same.                                                    *)
(*                                                                         *)
(* What the server does is that of AtomicFile: a file changes as a whole;  *)
(* beside them there are temporary files, which may be in parts.           *)
(***************************************************************************)
EXTENDS Naturals, FiniteSets

\* A definition whose name tells what it does wrong (EndCopyForgiving, ...) is a
\* mutated form of the definition after it; the specification never uses it.

CONSTANTS
  Keys,       \* storage keys
  Temps,      \* names of temporary files
  Dir,        \* Dir[x]: the directory in which x is
  Values,     \* contents
  Torn,       \* a part of a content
  None        \* no file

Files == Keys \union Temps
Dirs == {Dir[x] : x \in Files}

ASSUME MigrationNames == Keys \intersect Temps = {} /\ IsFiniteSet(Files)
ASSUME MigrationContents == None \notin Values /\ Torn \notin Values /\ Torn # None

VARIABLES
  source,     \* the files below source_root
  target,     \* the files below target_root
  pc,         \* where the command stands
  dirs,       \* directories that copytree has found and not listed yet
  listed,     \* files that it has listed and not copied yet
  errors,     \* whether it has an error to raise at the end
  touched     \* history: keys that changed since the command began

vars == <<source, target, pc, dirs, listed, errors, touched>>

In(tree) == {x \in Files : tree[x] # None}

TypeOK ==
  /\ source \in [Files -> Values \union {None, Torn}]
  /\ \A k \in Keys : source[k] # Torn
  /\ target \in [Files -> Values \union {None, Torn}]
  /\ pc \in {"idle", "copying", "counting", "done", "failed"}
  /\ dirs \subseteq Dirs /\ listed \subseteq Files
  /\ pc # "copying" => dirs = {} /\ listed = {}
  /\ errors \in BOOLEAN
  /\ touched \subseteq Keys

Init ==
  /\ source \in [Files -> Values \union {None}]
  /\ \A t \in Temps : source[t] = None
  /\ target = [x \in Files |-> None]
  /\ pc = "idle"
  /\ dirs = {} /\ listed = {} /\ errors = FALSE
  /\ touched = {}

------------------------------------------------------------------------------
(* The server *)

Write(k, v) ==
  /\ source[k] # v
  /\ source' = [source EXCEPT ![k] = v]
  /\ touched' = touched \union {k}
  /\ UNCHANGED <<target, pc, dirs, listed, errors>>

\* A temporary file is made, is written, is renamed away or unlinked.
TempFile(t, c) ==
  /\ source[t] # c
  /\ source' = [source EXCEPT ![t] = c]
  /\ UNCHANGED <<target, pc, dirs, listed, errors, touched>>

------------------------------------------------------------------------------
(* MigrateStorageUseCase.execute *)

StartOverwriting ==
  /\ pc \in {"idle", "failed"}
  /\ pc' = "copying"
  /\ dirs' = {Dir[x] : x \in In(source)}
  /\ errors' = FALSE
  /\ touched' = {}
  /\ UNCHANGED <<source, target, listed>>

\* The target has to be missing or empty; copytree lists the root.  A command
\* that refuses changes nothing.
Start ==
  /\ pc \in {"idle", "failed"}
  /\ In(target) = {}
  /\ pc' = "copying"
  /\ dirs' = {Dir[x] : x \in In(source)}
  /\ errors' = FALSE
  /\ touched' = {}
  /\ UNCHANGED <<source, target, listed>>

ListDir(d) ==
  /\ d \in dirs
  /\ dirs' = dirs \ {d}
  /\ listed' = listed \union {x \in In(source) : Dir[x] = d}
  /\ UNCHANGED <<source, target, pc, errors, touched>>

\* copy2 of one file; it may be gone by now, and copying may fail half-way.
Copy(x) ==
  /\ x \in listed
  /\ listed' = listed \ {x}
  /\ \/ /\ source[x] # None
        /\ target' = [target EXCEPT ![x] = source[x]]
        /\ UNCHANGED errors
     \/ /\ source[x] = None
        /\ errors' = TRUE
        /\ UNCHANGED target
     \/ /\ source[x] # None
        /\ errors' = TRUE
        /\ \E c \in {None, Torn} : target' = [target EXCEPT ![x] = c]
  /\ UNCHANGED <<source, pc, dirs, touched>>

EndCopyEarly ==
  /\ pc = "copying" /\ dirs = {}
  /\ pc' = IF errors THEN "failed" ELSE "counting"
  /\ UNCHANGED <<source, target, dirs, listed, errors, touched>>

EndCopyForgiving ==
  /\ pc = "copying" /\ dirs = {} /\ listed = {}
  /\ pc' = "counting"
  /\ UNCHANGED <<source, target, dirs, listed, errors, touched>>

\* copytree raises shutil.Error if there was any error.
EndCopy ==
  /\ pc = "copying" /\ dirs = {} /\ listed = {}
  /\ pc' = IF errors THEN "failed" ELSE "counting"
  /\ UNCHANGED <<source, target, dirs, listed, errors, touched>>

\* Both trees are listed and counted.
Count ==
  /\ pc = "counting"
  /\ pc' = IF Cardinality(In(source)) = Cardinality(In(target)) THEN "done" ELSE "failed"
  /\ UNCHANGED <<source, target, dirs, listed, errors, touched>>

\* The command is interrupted; what it has copied stays.
Die ==
  /\ pc \in {"copying", "counting"}
  /\ pc' = "failed"
  /\ dirs' = {} /\ listed' = {}
  /\ UNCHANGED <<source, target, errors, touched>>

\* Somebody removes what a failed run left, which the next one refuses.
ClearTarget ==
  /\ pc = "failed"
  /\ target' = [x \in Files |-> None]
  /\ pc' = "idle"
  /\ UNCHANGED <<source, dirs, listed, errors, touched>>

Next ==
  \/ \E k \in Keys, v \in Values \union {None} : Write(k, v)
  \/ \E t \in Temps, c \in Values \union {None, Torn} : TempFile(t, c)
  \/ Start
  \/ \E d \in Dirs : ListDir(d)
  \/ \E x \in Files : Copy(x)
  \/ EndCopy
  \/ Count
  \/ Die
  \/ ClearTarget

Spec == Init /\ [][Next]_vars

------------------------------------------------------------------------------
(* Properties *)

\* When the command reports success, every key that nobody touched since it
\* began is in the target as it is in the source, and no key is in parts,
\* even one that was: neither the errors that copytree collects nor the
\* leftovers of an earlier run get past.
MigrationFaithful ==
  pc = "done" => \A k \in Keys : /\ target[k] # Torn
                                 /\ k \notin touched => target[k] = source[k]
==============================================================================
