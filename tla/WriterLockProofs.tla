-------------------------- MODULE WriterLockProofs --------------------------
(***************************************************************************)
(* Theorems about WriterLock, for every number of clients, threads and     *)
(* processes and every timeout.                                            *)
(***************************************************************************)
EXTENDS WriterLock, TLAPS

\* Registry, lock and control states stay in their types.
THEOREM Typing == Spec => []TypeOK
<1> USE ThreadsAssumption, TimeoutAssumption
<1>1. Init => TypeOK
  BY DEF Init, TypeOK, States, Roles
<1>2. TypeOK /\ [Next]_vars => TypeOK'
  <2> SUFFICES ASSUME TypeOK, [Next]_vars PROVE TypeOK'
    OBVIOUS
  <2> USE DEF TypeOK, States, Roles
  <2>1. CASE UNCHANGED vars
    BY <2>1 DEF vars
  <2>2. ASSUME NEW c \in Clients, Step(c) PROVE TypeOK'
    <3>1. Proc(c) \in Procs
      BY DEF Proc
    <3>2. CASE CheckRegistry(c)
      BY <3>2 DEF CheckRegistry
    <3>3. CASE Register(c)
      BY <3>3, <3>1 DEF Register
    <3>4. CASE StartRecovery(c)
      BY <3>4 DEF StartRecovery
    <3>5. CASE Lock(c)
      BY <3>5 DEF Lock
    <3>6. CASE Sleep(c)
      BY <3>6 DEF Sleep
    <3>7. CASE Wake(c)
      BY <3>7 DEF Wake
    <3>8. CASE Expire(c)
      BY <3>8 DEF Expire
    <3>9. CASE GiveUp(c)
      BY <3>9 DEF GiveUp
    <3>10. CASE Interrupt(c)
      BY <3>10 DEF Interrupt
    <3>11. CASE Unregister(c)
      BY <3>11 DEF Unregister
    <3>12. CASE Unlock(c)
      BY <3>12 DEF Unlock
    <3>13. QED
      BY <2>2, <3>2, <3>3, <3>4, <3>5, <3>6, <3>7, <3>8, <3>9, <3>10,
         <3>11, <3>12 DEF Step, Poll
  <2>3. ASSUME NEW p \in Procs, Crash(p) PROVE TypeOK'
    BY <2>3 DEF Crash
  <2>4. QED
    BY <2>1, <2>2, <2>3 DEF Next
<1>3. QED
  BY <1>1, <1>2, PTL DEF Spec

-----------------------------------------------------------------------------
(***************************************************************************)
(* The sidecar lock.  That the lock is taken exactly while its client owns *)
(* the file is inductive, and excludes two owners.                         *)
(***************************************************************************)

\* The sidecar lock is taken by c exactly while c is in a transaction or a
\* recovery: it is never forgotten and never released by somebody else.
THEOREM LockIsNotLeaked == Spec => []NoOrphanLock
<1> USE NobodyAssumption DEF Owns
<1>1. Init => NoOrphanLock
  BY DEF Init, NoOrphanLock
<1>2. TypeOK /\ NoOrphanLock /\ [Next]_vars => NoOrphanLock'
  <2> SUFFICES ASSUME TypeOK, NoOrphanLock, [Next]_vars
               PROVE  NoOrphanLock'
    OBVIOUS
  <2> USE DEF TypeOK, NoOrphanLock
  <2>1. CASE UNCHANGED vars
    BY <2>1 DEF vars
  <2>2. ASSUME NEW c \in Clients, Step(c) PROVE NoOrphanLock'
    <3>1. CASE CheckRegistry(c)
      BY <3>1 DEF CheckRegistry
    <3>2. CASE Register(c)
      BY <3>2 DEF Register
    <3>3. CASE StartRecovery(c)
      BY <3>3 DEF StartRecovery
    <3>4. CASE Lock(c)
      BY <3>4 DEF Lock
    <3>5. CASE Sleep(c)
      BY <3>5 DEF Sleep
    <3>6. CASE Wake(c)
      BY <3>6 DEF Wake
    <3>7. CASE Expire(c)
      BY <3>7 DEF Expire
    <3>8. CASE GiveUp(c)
      BY <3>8 DEF GiveUp
    <3>9. CASE Interrupt(c)
      BY <3>9 DEF Interrupt
    <3>10. CASE Unregister(c)
      BY <3>10 DEF Unregister
    <3>11. CASE Unlock(c)
      BY <3>11 DEF Unlock
    <3>12. QED
      BY <2>2, <3>1, <3>2, <3>3, <3>4, <3>5, <3>6, <3>7, <3>8, <3>9,
         <3>10, <3>11 DEF Step, Poll
  <2>3. ASSUME NEW p \in Procs, Crash(p) PROVE NoOrphanLock'
    BY <2>3 DEF Crash
  <2>4. QED
    BY <2>1, <2>2, <2>3 DEF Next
<1>3. QED
  BY <1>1, <1>2, Typing, PTL DEF Spec

\* No two clients write or recover the file at the same time.
THEOREM LockExcludes == Spec => []MutualExclusion
<1>1. NoOrphanLock => MutualExclusion
  BY DEF NoOrphanLock, MutualExclusion
<1>2. QED
  BY <1>1, LockIsNotLeaked, PTL

\* The owner that the abstract lock sees is the holder of the sidecar lock.
LEMMA OwnerIsHolder ==
  ASSUME TypeOK, NoOrphanLock
  PROVE  Owner = flock
<1>1. CASE flock \in Clients
  <2>1. \A c \in Clients : Owns(c) <=> c = flock
    BY DEF NoOrphanLock
  <2>2. QED
    BY <1>1, <2>1 DEF Owner
<1>2. CASE flock = Nobody
  BY <1>2, NobodyAssumption DEF Owner, NoOrphanLock
<1>3. QED
  BY <1>1, <1>2 DEF TypeOK

\* The two-stage protocol with polling, timeouts, recoveries and crashes
\* implements the atomic lock of SingleWriter.
THEOREM LockImplementsSingleWriter == Spec => ImplementsSingleWriter
<1> USE NobodyAssumption
<1>1. Init => SW!Init
  BY DEF Init, SW!Init, Owner, Owns
<1>2. TypeOK /\ NoOrphanLock /\ TypeOK' /\ NoOrphanLock' /\ [Next]_vars
        => [SW!Next]_Owner
  <2> SUFFICES ASSUME TypeOK, NoOrphanLock, TypeOK', NoOrphanLock',
                      [Next]_vars
               PROVE  [SW!Next]_Owner
    OBVIOUS
  <2>1. Owner = flock
    BY OwnerIsHolder
  <2>2. Owner' = flock'
    <3>1. CASE flock' \in Clients
      <4>1. \A c \in Clients : Owns(c)' <=> c = flock'
        BY DEF NoOrphanLock
      <4>2. QED
        BY <3>1, <4>1 DEF Owner
    <3>2. CASE flock' = Nobody
      BY <3>2 DEF Owner, NoOrphanLock
    <3>3. QED
      BY <3>1, <3>2 DEF TypeOK
  <2>3. \/ flock' = flock
        \/ flock = Nobody /\ flock' \in Clients
        \/ flock \in Clients /\ flock' = Nobody
    BY DEF TypeOK
        , Next, Step, Poll, CheckRegistry, Register, StartRecovery, Lock,
        Sleep, Wake, Expire, GiveUp, Interrupt, Unregister, Unlock, Crash,
        vars
  <2>4. QED
    BY <2>1, <2>2, <2>3 DEF SW!Next, SW!Acquire, SW!Release
<1>3. QED
  BY <1>1, <1>2, Typing, LockIsNotLeaked, PTL
     DEF Spec, ImplementsSingleWriter, SW!Spec
-----------------------------------------------------------------------------
(***************************************************************************)
(* The registry.  _acquire_same_process_writer tests it and adds to it in  *)
(* two steps, between which another thread of the process may add: the     *)
(* race of file.py:43.  What the registry is for can fail by that race     *)
(* only, with any number of threads; a process with one thread never has   *)
(* it.                                                                     *)
(***************************************************************************)

\* Nobody enters the registry while its process has an entry there, as if the test
\* and the addition of _acquire_same_process_writer were one step.
TestAndAddAreOne ==
    [][\A c \in Clients : Register(c) => Proc(c) \notin registry]_vars

\* A thread is inside one call at a time.
OneCallPerThread ==
    \A c, d \in Clients :
        c # d /\ ThreadOf[c] = ThreadOf[d] => ~(InCall(c) /\ InCall(d))

\* The entry of a registered client is there.
RegisteredIsInRegistry ==
    \A c \in Clients : Registered(c) => Proc(c) \in registry

\* A thread that recovers a file, or wants to, has no transaction on it.
RecoveryIsAlone ==
    \A c, d \in Clients :
        /\ c # d /\ ThreadOf[c] = ThreadOf[d]
        /\ InCall(c) /\ role[c] = "recoverer"
        => ~Registered(d)

\* The role is the writer's wherever only a writer gets.
WritersOnly ==
    \A c \in Clients :
        pc[c] \in {"checked", "unregistered"} => role[c] = "writer"

RegistryInv ==
    /\ TypeOK
    /\ OneCallPerThread
    /\ WritersOnly
    /\ RegisteredIsInRegistry
    /\ RecoveryIsAlone
    /\ SameProcessConflictIsImmediate

\* The calls of a thread come one after the other, also when they race with those of
\* other threads.
LEMMA CallsAreSerial == Spec => [](TypeOK /\ OneCallPerThread)
<1>1. Init => OneCallPerThread
  BY DEF Init, OneCallPerThread, InCall
<1>2. TypeOK /\ TypeOK' /\ OneCallPerThread /\ [Next]_vars => OneCallPerThread'
  <2> SUFFICES ASSUME TypeOK, TypeOK', OneCallPerThread, [Next]_vars PROVE OneCallPerThread'
    OBVIOUS
  <2> USE DEF OneCallPerThread, InCall, TypeOK
  <2>1. CASE UNCHANGED vars
    BY <2>1 DEF vars
  <2>2. ASSUME NEW c \in Clients, Step(c) PROVE OneCallPerThread'
    <3>1. \A d \in Clients \ {c} : InCall(d)' => InCall(d)
      BY <2>2 DEF Step, Poll, CheckRegistry, Register, StartRecovery, Lock, Sleep, Wake,
                  Expire, GiveUp, Interrupt, Unregister, Unlock
    <3>2. InCall(c)' => InCall(c) \/ ThreadIsFree(c)
      BY <2>2 DEF Step, Poll, CheckRegistry, Register, StartRecovery, Lock, Sleep, Wake,
                  Expire, GiveUp, Interrupt, Unregister, Unlock
    <3>3. QED
      BY <3>1, <3>2 DEF ThreadIsFree
  <2>3. ASSUME NEW p \in Procs, Crash(p) PROVE OneCallPerThread'
    BY <2>3 DEF Crash
  <2>4. QED
    BY <2>1, <2>2, <2>3 DEF Next
<1>3. QED
  BY <1>1, <1>2, Typing, PTL DEF Spec

\* Without that race the registry is exact, from the entry of a writer to its removal:
\* nobody takes out the entry of another.
LEMMA RegistryInductive == Spec /\ TestAndAddAreOne => []RegistryInv
<1>1. Init => RegistryInv
  <2> SUFFICES ASSUME Init PROVE RegistryInv
    OBVIOUS
  <2>1. TypeOK
    BY ThreadsAssumption, TimeoutAssumption DEF Init, TypeOK, States, Roles
  <2>2. QED
    BY <2>1 DEF Init, RegistryInv, OneCallPerThread, WritersOnly,
                RegisteredIsInRegistry, RecoveryIsAlone, InCall, Registered,
                SameProcessConflictIsImmediate
<1>2. /\ TypeOK' /\ OneCallPerThread' /\ RegistryInv /\ [Next]_vars
      /\ [\A c \in Clients : Register(c) => Proc(c) \notin registry]_vars
      => RegistryInv'
  <2> SUFFICES ASSUME TypeOK', OneCallPerThread', RegistryInv, [Next]_vars,
                      [\A c \in Clients : Register(c) => Proc(c) \notin registry]_vars
               PROVE  RegistryInv'
    OBVIOUS
  <2> USE DEF RegistryInv, OneCallPerThread, WritersOnly,
              RegisteredIsInRegistry, RecoveryIsAlone, InCall, Registered,
              SameProcessConflictIsImmediate, TypeOK
  <2>1. CASE UNCHANGED vars
    BY <2>1 DEF vars
  <2>2. ASSUME NEW c \in Clients, Step(c) PROVE RegistryInv'
    <3>1. CASE CheckRegistry(c)
      BY <3>1 DEF CheckRegistry
    <3>2. CASE Register(c)
      <4>1. Proc(c) \notin registry
        BY <3>2 DEF Register, vars
      <4>2. \A d \in Clients : Proc(d) = Proc(c) => ~Registered(d)
        BY <4>1
      <4>3. QED
        BY <3>2, <4>2 DEF Register
    <3>3. CASE StartRecovery(c)
      <4>1. \A d \in Clients : ThreadOf[d] = ThreadOf[c] => ~Registered(d)
        BY <3>3 DEF StartRecovery, Proc
      <4>2. QED
        BY <3>3, <4>1 DEF StartRecovery
    <3>4. CASE Lock(c)
      BY <3>4 DEF Lock
    <3>5. CASE Sleep(c)
      BY <3>5 DEF Sleep
    <3>6. CASE Wake(c)
      BY <3>6 DEF Wake
    <3>7. CASE Expire(c)
      BY <3>7 DEF Expire
    <3>8. CASE GiveUp(c)
      BY <3>8 DEF GiveUp
    <3>9. CASE Interrupt(c)
      BY <3>9 DEF Interrupt
    <3>10. CASE Unregister(c)
      BY <3>10 DEF Unregister
    <3>11. CASE Unlock(c)
      BY <3>11 DEF Unlock
    <3>12. QED
      BY <2>2, <3>1, <3>2, <3>3, <3>4, <3>5, <3>6, <3>7,
         <3>8, <3>9, <3>10, <3>11 DEF Step, Poll
  <2>3. ASSUME NEW p \in Procs, Crash(p) PROVE RegistryInv'
    BY <2>3 DEF Crash, Proc
  <2>4. QED
    BY <2>1, <2>2, <2>3 DEF Next
<1>3. QED
  BY <1>1, <1>2, CallsAreSerial, PTL DEF Spec, TestAndAddAreOne

\* With any number of threads, a second writer of a process gets past the registry
\* only by the race between test and addition.
THEOREM ConflictNeedsARace ==
  Spec /\ TestAndAddAreOne => []SameProcessConflictIsImmediate
<1>1. RegistryInv => SameProcessConflictIsImmediate
  BY DEF RegistryInv
<1>2. QED
  BY <1>1, RegistryInductive, PTL

\* With any number of threads, a thread waits for a lock that a transaction of its own
\* holds only after two threads have raced into the registry: otherwise the tests of
\* begin and of recovery suffice, though the lock itself does not know threads.
THEOREM SelfWaitNeedsARace == Spec /\ TestAndAddAreOne => []NoSelfWait
<1>1. RegistryInv /\ NoOrphanLock => NoSelfWait
  <2> SUFFICES ASSUME RegistryInv, NoOrphanLock,
                      NEW c \in Clients, NEW d \in Clients,
                      pc[c] \in {"polling", "sleeping"}, flock = d,
                      ThreadOf[c] = ThreadOf[d]
               PROVE  FALSE
    BY DEF NoSelfWait
  <2>1. Owns(d) /\ c # d
    BY DEF NoOrphanLock, Owns
  <2>2. pc[d] = "holding" /\ role[d] = "writer"
    BY <2>1 DEF RegistryInv, OneCallPerThread, InCall, Owns, TypeOK, Roles
  <2>3. CASE role[c] = "writer"
    BY <2>1, <2>2, <2>3
       DEF RegistryInv, SameProcessConflictIsImmediate, Registered, Proc
  <2>4. CASE role[c] = "recoverer"
    BY <2>1, <2>2, <2>4 DEF RegistryInv, RecoveryIsAlone, InCall, Registered
  <2>5. QED
    BY <2>3, <2>4 DEF RegistryInv, TypeOK, Roles
<1>2. QED
  BY <1>1, RegistryInductive, LockIsNotLeaked, PTL

OneThreadPerProcess ==
    \A c, d \in Clients : Proc(c) = Proc(d) => ThreadOf[c] = ThreadOf[d]

\* What the test of the registry found still holds when it is acted on.
TestIsFresh == \A c \in Clients : pc[c] = "checked" => Proc(c) \notin registry

\* A process with one thread does not race: whoever could add an entry between test and
\* addition would be inside a call of the same thread.
LEMMA OneThreadDoesNotRace ==
  ASSUME OneThreadPerProcess
  PROVE  Spec => TestAndAddAreOne
<1>1. Init => TestIsFresh
  BY DEF Init, TestIsFresh
<1>2. TypeOK /\ OneCallPerThread /\ TestIsFresh /\ [Next]_vars => TestIsFresh'
  <2> SUFFICES ASSUME TypeOK, OneCallPerThread, TestIsFresh, [Next]_vars PROVE TestIsFresh'
    OBVIOUS
  <2> USE DEF TypeOK, TestIsFresh
  <2>1. CASE UNCHANGED vars
    BY <2>1 DEF vars
  <2>2. ASSUME NEW c \in Clients, Step(c) PROVE TestIsFresh'
    <3>1. CASE Register(c)
      <4>1. \A d \in Clients \ {c} : Proc(d) = Proc(c) => pc[d] # "checked"
        BY <3>1, OneThreadPerProcess
           DEF Register, OneThreadPerProcess, OneCallPerThread, InCall
      <4>2. QED
        BY <3>1, <4>1 DEF Register
    <3>2. CASE CheckRegistry(c)
      BY <3>2 DEF CheckRegistry
    <3>3. CASE ~Register(c) /\ ~CheckRegistry(c)
      <4>1. registry' \subseteq registry
        BY <2>2, <3>3 DEF Step, Poll, StartRecovery, Lock, Sleep, Wake, Expire, GiveUp,
                          Interrupt, Unregister, Unlock
      <4>2. \A d \in Clients : pc'[d] = "checked" => pc[d] = "checked"
        BY <2>2, <3>3 DEF Step, Poll, StartRecovery, Lock, Sleep, Wake, Expire, GiveUp,
                          Interrupt, Unregister, Unlock
      <4>3. QED
        BY <4>1, <4>2
    <3>4. QED
      BY <3>1, <3>2, <3>3
  <2>3. ASSUME NEW p \in Procs, Crash(p) PROVE TestIsFresh'
    BY <2>3 DEF Crash
  <2>4. QED
    BY <2>1, <2>2, <2>3 DEF Next
<1>3. TestIsFresh => [\A c \in Clients : Register(c) => Proc(c) \notin registry]_vars
  BY DEF TestIsFresh, Register
<1>4. QED
  BY <1>1, <1>2, <1>3, CallsAreSerial, PTL DEF Spec, TestAndAddAreOne

\* With one thread per process, a second writer of a process is refused
\* before it waits for the sidecar lock.
THEOREM ConflictIsImmediate ==
  ASSUME OneThreadPerProcess
  PROVE  Spec => []SameProcessConflictIsImmediate
BY OneThreadPerProcess, OneThreadDoesNotRace, ConflictNeedsARace, PTL

\* With one thread per process, no thread waits for a lock that a transaction
\* of its own holds.
COROLLARY NoThreadWaitsForItself ==
  ASSUME OneThreadPerProcess
  PROVE  Spec => []NoSelfWait
BY OneThreadPerProcess, OneThreadDoesNotRace, SelfWaitNeedsARace, PTL
-----------------------------------------------------------------------------
(***************************************************************************)
(* The entries of the registry, with any number of threads.  An entry of a *)
(* process that leaves the registry belongs to that process alone, so what *)
(* keeps the other entries is not disturbed.                               *)
(***************************************************************************)

\* Only a writer goes from the test of the registry to its entry.
OnlyWritersRegister == \A c \in Clients : pc[c] = "checked" => role[c] = "writer"

\* If no wait is interrupted, an entry of the registry has a writer that will take
\* it out: a begin that fails or times out and a process that dies leave none.
THEOREM RegistryIsNotLeaked ==
  ASSUME ~Interrupts
  PROVE  Spec => []RegistryNotLeaked
<1> DEFINE Inv == OnlyWritersRegister /\ RegistryNotLeaked
<1>1. Init => Inv
  BY DEF Init, OnlyWritersRegister, RegistryNotLeaked
<1>2. TypeOK /\ Inv /\ [Next]_vars => Inv'
  <2> SUFFICES ASSUME TypeOK, Inv, [Next]_vars PROVE Inv'
    OBVIOUS
  <2> USE DEF TypeOK, OnlyWritersRegister, RegistryNotLeaked
  <2>1. CASE UNCHANGED vars
    BY <2>1 DEF vars, Registered
  <2>2. ASSUME NEW c \in Clients, Step(c) PROVE Inv'
    \* Whoever else has an entry keeps it.
    <3>1. \A d \in Clients \ {c} : Registered(d) => Registered(d)'
      BY <2>2 DEF Registered, Step, Poll, CheckRegistry, Register, StartRecovery,
                  Lock, Sleep, Wake, Expire, GiveUp, Interrupt, Unregister, Unlock
    <3>2. OnlyWritersRegister'
      BY <2>2 DEF Step, Poll, CheckRegistry, Register, StartRecovery, Lock,
                  Sleep, Wake, Expire, GiveUp, Interrupt, Unregister, Unlock
    <3>3. \/ registry' \subseteq registry /\ (Registered(c) => Registered(c)')
          \/ registry' = registry \cup {Proc(c)} /\ Registered(c)'
          \/ registry' = registry \ {Proc(c)}
      <4>1. CASE CheckRegistry(c)
        BY <4>1 DEF CheckRegistry, Registered
      <4>2. CASE Register(c)
        BY <4>2 DEF Register, Registered
      <4>3. CASE StartRecovery(c)
        BY <4>3 DEF StartRecovery, Registered
      <4>4. CASE Poll(c)
        BY <4>4 DEF Poll, Lock, Sleep, Wake, Expire, Registered
      <4>5. CASE GiveUp(c)
        BY <4>5 DEF GiveUp, Registered
      <4>6. CASE Unregister(c)
        BY <4>6 DEF Unregister
      <4>7. CASE Unlock(c)
        BY <4>7 DEF Unlock, Registered
      <4>8. QED
        BY <2>2, <4>1, <4>2, <4>3, <4>4, <4>5, <4>6, <4>7 DEF Step, Interrupt
    <3>4. ASSUME NEW p \in registry'
          PROVE  \E d \in Clients : Proc(d) = p /\ Registered(d)'
      <4>1. CASE p \in registry /\ p # Proc(c)
        <5>1. PICK d \in Clients : Proc(d) = p /\ Registered(d)
          BY <4>1
        <5>2. QED
          BY <3>1, <4>1, <5>1
      <4>2. CASE p \in registry /\ p = Proc(c)
        <5>1. PICK d \in Clients : Proc(d) = p /\ Registered(d)
          BY <4>2
        <5>2. QED
          BY <3>1, <3>3, <3>4, <4>2, <5>1
      <4>3. CASE p \notin registry
        BY <3>3, <3>4, <4>3
      <4>4. QED
        BY <4>1, <4>2, <4>3
    <3>5. QED
      BY <3>2, <3>4 DEF Proc
  <2>3. ASSUME NEW q \in Procs, Crash(q) PROVE Inv'
    BY <2>3 DEF Crash, Registered, Proc
  <2>4. QED
    BY <2>1, <2>2, <2>3 DEF Next
<1>3. Inv => RegistryNotLeaked
  OBVIOUS
<1>4. QED
  BY <1>1, <1>2, <1>3, Typing, PTL DEF Spec
=============================================================================
