----------------------------- MODULE WriterLock -----------------------------
(***************************************************************************)
(* The writer lock of one database file.  Two mechanisms guard the file:   *)
(*                                                                         *)
(*   - _ACTIVE_WRITERS, a set of paths in the memory of each process       *)
(*     (tinydb/storage/file.py), by which a process refuses a second       *)
(*     writer of its own at once; a test-then-add without a mutex;         *)
(*   - an exclusive advisory lock on the sidecar file <path>.lock          *)
(*     (tinydb/locking.py), polled until a timeout.                        *)
(*                                                                         *)
(* TransactionManager.begin takes the first and then the second, and       *)
(* releases them in the same order.  Recovery, when a database is opened,  *)
(* takes the sidecar lock only, and opens nothing while its own process    *)
(* has a registered writer.                                                *)
(*                                                                         *)
(* A client is a Database handle, used by one thread.  The calls of one    *)
(* handle are serialised by Database._instance_lock, and those of one      *)
(* thread by the thread, so a client takes a step of a call only if no     *)
(* other client of its thread is inside one.                               *)
(***************************************************************************)
EXTENDS Integers

CONSTANTS
    Clients,    \* the Database handles open on the file
    Threads,    \* the threads that use them
    Procs,      \* the processes these threads run in
    ThreadOf,   \* the thread of each client
    ProcOf,     \* the process of each thread
    Timeout,    \* lock_timeout of each client, in polls, or Forever for None
    Forever,    \* lock_timeout=None
    Nobody,     \* the holder of a free sidecar lock
    Interrupts  \* TRUE iff a KeyboardInterrupt may end a wait for the lock

ASSUME ThreadsAssumption == /\ ThreadOf \in [Clients -> Threads]
                            /\ ProcOf \in [Threads -> Procs]
ASSUME TimeoutAssumption == /\ Timeout \in [Clients -> Nat \cup {Forever}]
                            /\ Forever \notin Nat
ASSUME NobodyAssumption == Nobody \notin Clients
ASSUME InterruptsAssumption == Interrupts \in BOOLEAN

VARIABLES
    registry,   \* the processes whose _ACTIVE_WRITERS contains the path
    flock,      \* the client whose lock file object holds the sidecar lock
    pc,         \* where each client is
    role,       \* whether a client that is not idle writes or recovers
    waited      \* the part of its timeout that each client has waited

vars == <<registry, flock, pc, role, waited>>

(***************************************************************************)
(* The states of a client:                                                 *)
(*   idle          no transaction, no call                                 *)
(*   checked       found no entry of its process in the registry           *)
(*   polling       about to try the sidecar lock                           *)
(*   sleeping      the lock was taken, in time.sleep(0.01)                 *)
(*   expired       the deadline has passed, ConcurrencyError raised        *)
(*   holding       the call that acquired the lock goes on or has returned *)
(*   unregistered  left the registry, about to release the sidecar lock    *)
(***************************************************************************)
States == {"idle", "checked", "polling", "sleeping", "expired", "holding",
           "unregistered"}

Roles == {"writer", "recoverer"}

Proc(c) == ProcOf[ThreadOf[c]]

\* A transaction stays open between the calls of its client; a recovery runs
\* inside one call, Database.__init__.
InCall(c) == \/ pc[c] \notin {"idle", "holding"}
             \/ pc[c] = "holding" /\ role[c] = "recoverer"

ThreadIsFree(c) ==
    \A d \in Clients \ {c} : ThreadOf[d] = ThreadOf[c] => ~InCall(d)

Init ==
    /\ registry = {}
    /\ flock = Nobody
    /\ pc = [c \in Clients |-> "idle"]
    /\ role = [c \in Clients |-> "writer"]
    /\ waited = [c \in Clients |-> 0]

-----------------------------------------------------------------------------
(* TransactionManager._acquire_writer *)

\* Mutant: the registry is not consulted.
CheckRegistryMutant(c) ==
    /\ pc[c] = "idle"
    /\ ThreadIsFree(c)
    /\ pc' = [pc EXCEPT ![c] = "checked"]
    /\ role' = [role EXCEPT ![c] = "writer"]
    /\ UNCHANGED <<registry, flock, waited>>

\* _acquire_same_process_writer finds no entry.  If it finds one it raises
\* and nothing changes.
CheckRegistry(c) ==
    /\ pc[c] = "idle"
    /\ ThreadIsFree(c)
    /\ Proc(c) \notin registry
    /\ pc' = [pc EXCEPT ![c] = "checked"]
    /\ role' = [role EXCEPT ![c] = "writer"]
    /\ UNCHANGED <<registry, flock, waited>>

\* _ACTIVE_WRITERS.add, a step after the test.
Register(c) ==
    /\ pc[c] = "checked"
    /\ registry' = registry \cup {Proc(c)}
    /\ pc' = [pc EXCEPT ![c] = "polling"]
    /\ waited' = [waited EXCEPT ![c] = 0]
    /\ UNCHANGED <<flock, role>>

\* Mutant: a live transaction of the same process is not told from a crash.
StartRecoveryMutant(c) ==
    /\ pc[c] = "idle"
    /\ ThreadIsFree(c)
    /\ pc' = [pc EXCEPT ![c] = "polling"]
    /\ role' = [role EXCEPT ![c] = "recoverer"]
    /\ waited' = [waited EXCEPT ![c] = 0]
    /\ UNCHANGED <<registry, flock>>

\* Opening a database whose header holds a marker: the process must have no
\* registered writer, and recovery then goes for the sidecar lock.
StartRecovery(c) ==
    /\ pc[c] = "idle"
    /\ ThreadIsFree(c)
    /\ Proc(c) \notin registry
    /\ pc' = [pc EXCEPT ![c] = "polling"]
    /\ role' = [role EXCEPT ![c] = "recoverer"]
    /\ waited' = [waited EXCEPT ![c] = 0]
    /\ UNCHANGED <<registry, flock>>

-----------------------------------------------------------------------------
(* PlatformLockAdapter.acquire_exclusive *)

\* Mutant: a lock that is shared, not exclusive.
LockMutant(c) ==
    /\ pc[c] = "polling"
    /\ flock' = c
    /\ pc' = [pc EXCEPT ![c] = "holding"]
    /\ UNCHANGED <<registry, role, waited>>

Lock(c) ==
    /\ pc[c] = "polling"
    /\ flock = Nobody
    /\ flock' = c
    /\ pc' = [pc EXCEPT ![c] = "holding"]
    /\ UNCHANGED <<registry, role, waited>>

DeadlinePassed(c) == Timeout[c] # Forever /\ waited[c] >= Timeout[c]

\* The lock is taken and the deadline is ahead, or there is none.
Sleep(c) ==
    /\ pc[c] = "polling"
    /\ flock # Nobody
    /\ ~DeadlinePassed(c)
    /\ pc' = [pc EXCEPT ![c] = "sleeping"]
    /\ UNCHANGED <<registry, flock, role, waited>>

\* Mutant: the deadline is computed again in every round.
WakeMutant(c) ==
    /\ pc[c] = "sleeping"
    /\ pc' = [pc EXCEPT ![c] = "polling"]
    /\ UNCHANGED <<registry, flock, role, waited>>

\* Mutant: the time that remains is counted down, past zero.
WakeCountdownMutant(c) ==
    /\ pc[c] = "sleeping"
    /\ pc' = [pc EXCEPT ![c] = "polling"]
    /\ waited' = [waited EXCEPT ![c] = @ - 1]
    /\ UNCHANGED <<registry, flock, role>>

\* A sleep takes some time, often more than the 10 ms asked for.
Wake(c) ==
    /\ pc[c] = "sleeping"
    /\ pc' = [pc EXCEPT ![c] = "polling"]
    /\ IF Timeout[c] = Forever
       THEN UNCHANGED waited
       ELSE \E t \in (waited[c] + 1)..Timeout[c] :
                waited' = [waited EXCEPT ![c] = t]
    /\ UNCHANGED <<registry, flock, role>>

\* The lock is taken and the deadline has passed.
Expire(c) ==
    /\ pc[c] = "polling"
    /\ flock # Nobody
    /\ DeadlinePassed(c)
    /\ pc' = [pc EXCEPT ![c] = "expired"]
    /\ UNCHANGED <<registry, flock, role, waited>>

\* Mutant: the entry in the registry stays.
GiveUpMutant(c) ==
    /\ pc[c] = "expired"
    /\ pc' = [pc EXCEPT ![c] = "idle"]
    /\ UNCHANGED <<registry, flock, role, waited>>

\* Mutant: locks of the process (fcntl.lockf) in place of locks of the open
\* file (fcntl.flock): closing the lock file drops those of the process.
GiveUpProcessLockMutant(c) ==
    /\ pc[c] = "expired"
    /\ registry' = IF role[c] = "writer" THEN registry \ {Proc(c)} ELSE registry
    /\ flock' = IF flock # Nobody /\ Proc(flock) = Proc(c) THEN Nobody ELSE flock
    /\ pc' = [pc EXCEPT ![c] = "idle"]
    /\ UNCHANGED <<role, waited>>

\* The ConcurrencyError reaches its handler: _release_writer for a writer, the
\* closing of the file for a recoverer.
GiveUp(c) ==
    /\ pc[c] = "expired"
    /\ registry' = IF role[c] = "writer" THEN registry \ {Proc(c)} ELSE registry
    /\ pc' = [pc EXCEPT ![c] = "idle"]
    /\ UNCHANGED <<flock, role, waited>>

\* A KeyboardInterrupt is no Exception: no handler runs.
Interrupt(c) ==
    /\ Interrupts
    /\ pc[c] = "sleeping"
    /\ pc' = [pc EXCEPT ![c] = "idle"]
    /\ UNCHANGED <<registry, flock, role, waited>>

-----------------------------------------------------------------------------
(* TransactionManager._release_writer, the end of a recovery, and a crash *)

\* Commit, rollback, close, or a begin that fails after it got the lock.
Unregister(c) ==
    /\ pc[c] = "holding"
    /\ role[c] = "writer"
    /\ ThreadIsFree(c)
    /\ registry' = registry \ {Proc(c)}
    /\ pc' = [pc EXCEPT ![c] = "unregistered"]
    /\ UNCHANGED <<flock, role, waited>>

\* Mutant: a recovery that does not release its lock.
UnlockMutant(c) ==
    /\ \/ pc[c] = "unregistered"
       \/ pc[c] = "holding" /\ role[c] = "recoverer"
    /\ flock' = IF role[c] = "writer" THEN Nobody ELSE flock
    /\ pc' = [pc EXCEPT ![c] = "idle"]
    /\ UNCHANGED <<registry, role, waited>>

\* LockHandle.release: unlocks through the lock file object of c.
Unlock(c) ==
    /\ \/ pc[c] = "unregistered"
       \/ pc[c] = "holding" /\ role[c] = "recoverer"
    /\ flock' = IF flock = c THEN Nobody ELSE flock
    /\ pc' = [pc EXCEPT ![c] = "idle"]
    /\ UNCHANGED <<registry, role, waited>>

\* Process p dies and another takes its place.  Its registry was memory, and
\* the system drops its lock.
Crash(p) ==
    /\ \E c \in Clients : Proc(c) = p /\ pc[c] # "idle"
    /\ registry' = registry \ {p}
    /\ flock' = IF flock # Nobody /\ Proc(flock) = p THEN Nobody ELSE flock
    /\ pc' = [c \in Clients |-> IF Proc(c) = p THEN "idle" ELSE pc[c]]
    /\ UNCHANGED <<role, waited>>

Poll(c) == Lock(c) \/ Sleep(c) \/ Wake(c) \/ Expire(c)

Step(c) == \/ CheckRegistry(c) \/ Register(c) \/ StartRecovery(c)
           \/ Poll(c) \/ GiveUp(c) \/ Interrupt(c)
           \/ Unregister(c) \/ Unlock(c)

Next == \/ \E c \in Clients : Step(c)
        \/ \E p \in Procs : Crash(p)

Spec == Init /\ [][Next]_vars

\* A thread inside a call is scheduled again.  Whether and when a client
\* begins or ends a transaction is up to the program that uses TinyDB.
Fairness == \A c \in Clients :
                WF_vars(Register(c) \/ Poll(c) \/ GiveUp(c) \/ Unlock(c))

FairSpec == Spec /\ Fairness

-----------------------------------------------------------------------------
(* Properties *)

TypeOK ==
    /\ registry \in SUBSET Procs
    /\ flock \in Clients \cup {Nobody}
    /\ pc \in [Clients -> States]
    /\ role \in [Clients -> Roles]
    /\ waited \in [Clients -> Nat]

\* The client may write the file: it is inside a transaction or a recovery,
\* or has only just finished one.
Owns(c) == pc[c] \in {"holding", "unregistered"}

\* At most one client writes or recovers the file, in all threads of all
\* processes, whatever times out, fails or dies (specs/concurrency-control,
\* Single Writer Safety).
MutualExclusion == \A c, d \in Clients : Owns(c) /\ Owns(d) => c = d

\* The sidecar lock is never left taken by a client that is past its
\* transaction: no path through begin, commit, rollback, a timeout or a crash
\* forgets LockHandle.release.
NoOrphanLock == \A c \in Clients : flock = c <=> Owns(c)

\* c has put its process in the registry and has not yet taken it out.
Registered(c) == /\ role[c] = "writer"
                 /\ pc[c] \in {"polling", "sleeping", "expired", "holding"}

\* A process that has an entry in _ACTIVE_WRITERS has a writer that will take
\* it out.  An entry without one would lock the process out of its database:
\* "database already has an active writer in this process".
RegistryNotLeaked ==
    \A p \in registry : \E c \in Clients : Proc(c) = p /\ Registered(c)

\* A second writer of the same process fails at once, it never waits for the
\* sidecar lock (_acquire_same_process_writer; tests/test_transactions.py,
\* test_same_process_conflict_does_not_wait_for_platform_lock).
SameProcessConflictIsImmediate ==
    \A c, d \in Clients :
        /\ c # d /\ Proc(c) = Proc(d)
        /\ Registered(c)
        => ~Registered(d)

\* A thread never waits for the sidecar lock while a transaction of its own
\* holds it: nobody else could release the lock, and with lock_timeout=None
\* the thread would wait forever.  The lock is per open file and does not
\* know threads; that this holds is due to the registry alone.
NoSelfWait ==
    \A c, d \in Clients :
        pc[c] \in {"polling", "sleeping"} /\ flock = d
        => ThreadOf[c] # ThreadOf[d]

\* Whoever has a finite lock_timeout gets the lock or an error, also if the
\* holder never lets go (README.md: waits at most that many seconds).
FiniteWaitsEnd ==
    \A c \in Clients :
        Timeout[c] # Forever /\ pc[c] = "checked"
        ~> pc[c] \in {"idle", "holding"}

\* The protocol implements the lock it promises; the owner is the client
\* between acquiring the sidecar lock and releasing it.
Owner == IF \E c \in Clients : Owns(c)
         THEN CHOOSE c \in Clients : Owns(c)
         ELSE Nobody

SW == INSTANCE SingleWriter WITH owner <- Owner

ImplementsSingleWriter == SW!Spec
=============================================================================
