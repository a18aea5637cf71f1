------------------------------- MODULE FileLock -------------------------------
(***************************************************************************)
(* The lock files of pipeline/storage/files.ts.  A lock is a file that     *)
(* names its owner; it is created, released and recovered under a second   *)
(* file, its guard, which exists only for that long.  A process that dies  *)
(* leaves both behind.                                                     *)
(***************************************************************************)
EXTENDS Integers

CONSTANTS Locks,      \* lock names
          Tabs,       \* command executions, each in a process of its own
          MaxLives    \* bound: lives of a process

ASSUME LockAssumption == MaxLives \in Nat \ {0}

VARIABLES lock,       \* [Locks -> Absent, Empty or an owner]
          guard,      \* [Locks -> BOOLEAN]: the guard file exists
          life        \* [Tabs -> Nat]: the process's pid is that of this life

lockVars == <<lock, guard, life>>

Absent == <<"absent">>
Empty == <<"empty">>
Owner(t) == <<"owner", t, life[t]>>
Owners == {<<"owner", t, n>> : t \in Tabs, n \in 1 .. MaxLives}

(* process.kill(pid, 0): the life that signed the lock still runs. *)
Running(owner) == life[owner[2]] = owner[3]

LockTypeOK == /\ lock \in [Locks -> Owners \cup {Absent, Empty}]
              /\ guard \in [Locks -> BOOLEAN]
              /\ life \in [Tabs -> 1 .. MaxLives]

LockInit == /\ lock = [n \in Locks |-> Absent]
            /\ guard = [n \in Locks |-> FALSE]
            /\ life = [t \in Tabs |-> 1]

(* withLockGuard, entered: the exclusive open fails when the file exists. *)
EnterGuard(n) == /\ ~guard[n]
                 /\ guard' = [guard EXCEPT ![n] = TRUE]
                 /\ UNCHANGED <<lock, life>>

LeaveGuard(n) == guard' = [guard EXCEPT ![n] = FALSE]

(* withFileLock: the exclusive open of the lock, under its guard. *)
Create(n) == /\ lock[n] = Absent
             /\ lock' = [lock EXCEPT ![n] = Empty]
             /\ UNCHANGED <<guard, life>>

CreateRefused(n) == /\ lock[n] # Absent
                    /\ LeaveGuard(n)
                    /\ UNCHANGED <<lock, life>>

(* The ownership is written and the guard left; or the write fails and the *)
(* lock is removed again.                                                  *)
Sign(n, t) == /\ lock' = [lock EXCEPT ![n] = Owner(t)]
              /\ LeaveGuard(n)
              /\ UNCHANGED life

SignFailed(n) == /\ lock' = [lock EXCEPT ![n] = Absent]
                 /\ LeaveGuard(n)
                 /\ UNCHANGED life

(* The release under the guard: only the owner's own file is removed, else *)
(* lock_ownership_conflict.                                                *)
Remove(n, t) == /\ lock' = [lock EXCEPT ![n] = IF @ = Owner(t) THEN Absent ELSE @]
                /\ LeaveGuard(n)
                /\ UNCHANGED life

\* Mutant: recovery does not look whether the owner still runs.
AnyRecoverable(n) == lock[n] \in Owners

(* recoverStoppedLock under the guard: a missing file is nothing to        *)
(* recover; an empty one, or one whose pid runs, blocks it.                *)
Recoverable(n) == lock[n] \in Owners /\ ~Running(lock[n])

RemoveStopped(n) == /\ lock' = [lock EXCEPT ![n] = Absent]
                    /\ LeaveGuard(n)
                    /\ UNCHANGED life

(* The process dies, or is stopped, and another one is started: every file *)
(* stays.                                                                  *)
Restart(t) == /\ life[t] < MaxLives
              /\ life' = [life EXCEPT ![t] = @ + 1]
              /\ UNCHANGED <<lock, guard>>

(* The owner stops every process and removes a guard left behind, as the   *)
(* documentation tells to.                                                 *)
RemoveGuard(n) == guard[n] /\ LeaveGuard(n) /\ UNCHANGED <<lock, life>>
===============================================================================
