---------------------------- MODULE MCWriterLock ----------------------------
(* Instances of WriterLock for TLC: three handles in two processes. *)
EXTENDS WriterLock, TLC

CONSTANTS h1, h2, h3, t1, t2, t3, p1, p2

MCClients == {h1, h2, h3}
MCThreads == {t1, t2, t3}
MCProcs == {p1, p2}

\* Every process has one thread: h1 and h2 are used by the same one.
SingleThreadOf == h1 :> t1 @@ h2 :> t1 @@ h3 :> t3

\* h1 and h2 are used by two threads of one process.
TwoThreadsOf == h1 :> t1 @@ h2 :> t2 @@ h3 :> t3

MCProcOf == t1 :> p1 @@ t2 :> p1 @@ t3 :> p2

\* lock_timeout: two polls, None, and 0 which fails on the first conflict.
MCTimeout == h1 :> 2 @@ h2 :> Forever @@ h3 :> 0
=============================================================================
