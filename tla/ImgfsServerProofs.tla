------------------------- MODULE ImgfsServerProofs --------------------------
(***************************************************************************)
(* The server process, for any number of connections and requests: types,  *)
(* mutual exclusion around the library calls, that no call loses the change *)
(* of another, and that none is served before the startup. The inductive   *)
(* part says what the holder of the mutex relies on: the table it has      *)
(* looked at is still the table.                                           *)
(***************************************************************************)
EXTENDS ImgfsServer, TLAPS

\* A connection nobody has made has no thread and is not the one main accepted.
Unconnected == \A c \in Conns : client[c] = "away" => thread[c] = "none"

Typed == TypeOK /\ Unconnected

\* What a thread inside a call has seen of the table still holds.
SeenIsCurrent == \A c \in Conns : thread[c] = "inside" => seen[c] = table

\* What Exclusive and CallsAreAtomic rest on, as long as there is a mutex.
LockInv == mutex # "destroyed" => SeenIsCurrent

IInv == Typed /\ Exclusive /\ CallsAreAtomic /\ LockInv

-----------------------------------------------------------------------------

LEMMA InitTyped == Init => Typed
<1> SUFFICES ASSUME Init PROVE Typed
  OBVIOUS
<1>1. /\ thread \in [Conns -> Places] /\ sent \in [Conns -> 0 .. MaxRequests]
      /\ client \in [Conns -> {"away", "here", "gone"}]
      /\ request \in [Conns -> {"none", "call", "page", "bad", "dropped"}]
      /\ seen \in [Conns -> Nat]
  BY LimitsAssumption DEF Init, Places
<1>2. phase \in Phases /\ handler \in Threads \cup {None}
  BY DEF Init, Phases, Threads
<1>3. Unconnected
  BY DEF Init, Unconnected
<1> QED
  BY <1>1, <1>2, <1>3 DEF Init, Typed, TypeOK

\* Every step of clients, of main, of the threads and of the shutdown keeps the
\* types.
LEMMA TypeStep == Typed /\ [Next]_vars => Typed'
<1> SUFFICES ASSUME Typed, [Next]_vars PROVE Typed'
  OBVIOUS
<1> USE ThreadsAssumption, LimitsAssumption
<1> USE DEF Places, Phases, Threads
<1>1. CASE UNCHANGED vars
  BY <1>1 DEF Typed, TypeOK, Unconnected, vars, clients, shutdown, signals, locked
<1>2. ASSUME NEW c \in Conns, Connect(c) PROVE Typed'
  BY <1>2 DEF Typed, TypeOK, Unconnected, Connect, shutdown, signals, locked
<1>3. ASSUME NEW c \in Conns, Send(c) PROVE Typed'
  <2>1. sent[c] + 1 \in 0 .. MaxRequests
    BY <1>3 DEF Typed, TypeOK, Send
  <2> QED
    BY <1>3, <2>1 DEF Typed, TypeOK, Unconnected, Send, shutdown, signals, locked
<1>4. ASSUME NEW c \in Conns, Leave(c) PROVE Typed'
  BY <1>4 DEF Typed, TypeOK, Unconnected, Leave, shutdown, signals, locked
<1>5. ASSUME NEW c \in Conns, Accept(c) PROVE Typed'
  BY <1>5 DEF Typed, TypeOK, Unconnected, Accept, clients, shutdown, signals, locked
<1>6. CASE AcceptFails
  BY <1>6 DEF Typed, TypeOK, Unconnected, AcceptFails, clients, shutdown, signals, locked
<1>7. CASE Spawn \/ SpawnFails
  BY <1>7 DEF Typed, TypeOK, Unconnected, Spawn, SpawnFails, HandedOver, clients, shutdown, signals, locked
<1>8. ASSUME NEW c \in Conns, Mask(c) \/ NoBuffer(c) \/ Receive(c) \/ End(c) PROVE Typed'
  <2>1. /\ thread' \in [Conns -> Places]
        /\ \A d \in Conns : thread[d] = "none" => thread'[d] = "none"
        /\ main' = main /\ (main' # None => thread'[main] = "accepted")
        /\ UNCHANGED <<phase, clients, shutdown, process, fds, locked>>
    BY <1>8 DEF Typed, TypeOK, Unconnected, Mask, NoBuffer, Receive, End, Goes, Closed
  <2> QED
    BY <2>1 DEF Typed, TypeOK, Unconnected, clients, shutdown, signals, locked
<1>9. ASSUME NEW c \in Conns, Lock(c) PROVE Typed'
  BY <1>9 DEF Typed, TypeOK, Unconnected, Lock, Goes, clients, shutdown, signals
<1>10. ASSUME NEW c \in Conns, Unlock(c) PROVE Typed'
  BY <1>10 DEF Typed, TypeOK, Unconnected, Unlock, Released, Goes, clients, shutdown, signals
<1>11. ASSUME NEW c \in Conns, Reply(c) \/ ReplyToNobody(c) \/ NoReply(c) PROVE Typed'
  BY <1>11 DEF Typed, TypeOK, Unconnected, Reply, ReplyToNobody, NoReply, shutdown, signals, locked
<1>12. ASSUME NEW t \in Threads, Signal(t) PROVE Typed'
  BY <1>12 DEF Typed, TypeOK, Unconnected, Signal, clients, locked
<1>13. CASE Shutdown
  BY <1>13 DEF Typed, TypeOK, Unconnected, Shutdown, HttpClose, MutexDestroy, FileClose, Exit, Stage, clients
<1>14. CASE Startup \/ EarlySignal
  BY <1>14 DEF Typed, TypeOK, Unconnected, Startup, OpenFile, Listen, InitVips, SetSignalHandler, StartFails,
      Starts, GivesUp, EarlySignal, clients, shutdown, signals, locked
<1> QED
  BY <1>1, <1>2, <1>3, <1>4, <1>5, <1>6, <1>7, <1>8, <1>9, <1>10, <1>11, <1>12,
     <1>13, <1>14 DEF Next, MainStep, ThreadStep

\* Threads enter and leave a call by Lock and Unlock only; every other step
\* moves threads among the other places, or takes the mutex away for good.
LEMMA OtherSteps ==
    ASSUME IInv, [Next]_vars, \A c \in Conns : ~Lock(c) /\ ~Unlock(c)
    PROVE  /\ \A c \in Conns : thread'[c] = "inside" <=> thread[c] = "inside"
           /\ UNCHANGED <<table, seen, calls>>
           /\ mutex' = mutex \/ mutex' = "destroyed"
<1> USE ThreadsAssumption
<1> DEFINE Aim == /\ \A d \in Conns : thread'[d] = "inside" <=> thread[d] = "inside"
                  /\ UNCHANGED <<table, seen, calls>>
                  /\ mutex' = mutex \/ mutex' = "destroyed"
<1>t. TypeOK /\ Unconnected
  BY DEF IInv, Typed
<1>1. CASE UNCHANGED vars
  BY <1>1 DEF vars, locked
<1>2. ASSUME NEW c \in Conns, Connect(c) \/ Send(c) \/ Leave(c) \/ Accept(c) PROVE Aim
  BY <1>2, <1>t DEF Connect, Send, Leave, Accept, locked, TypeOK, Unconnected
<1>3. CASE AcceptFails
  BY <1>3 DEF AcceptFails, locked
<1>4. CASE Spawn \/ SpawnFails
  BY <1>4, <1>t DEF Spawn, SpawnFails, locked, TypeOK
<1>5. ASSUME NEW c \in Conns, Mask(c) \/ NoBuffer(c) \/ Receive(c) \/ End(c) PROVE Aim
  BY <1>5, <1>t DEF Mask, NoBuffer, Receive, End, Goes, locked, TypeOK
<1>6. ASSUME NEW c \in Conns, Reply(c) \/ ReplyToNobody(c) \/ NoReply(c) PROVE Aim
  BY <1>6, <1>t DEF Reply, ReplyToNobody, NoReply, locked, TypeOK
<1>7. ASSUME NEW t \in Threads, Signal(t) PROVE Aim
  BY <1>7 DEF Signal, locked
<1>8. CASE Shutdown
  BY <1>8 DEF Shutdown, HttpClose, MutexDestroy, FileClose, Exit, Stage
<1>9. CASE Startup \/ EarlySignal
  BY <1>9 DEF Startup, OpenFile, Listen, InitVips, SetSignalHandler, StartFails, Starts, EarlySignal, locked
<1>10. Aim
  BY <1>1, <1>2, <1>3, <1>4, <1>5, <1>6, <1>7, <1>8, <1>9 DEF Next, MainStep, ThreadStep
<1> QED
  BY <1>10

\* The thread that takes the mutex finds it free, so nobody is inside, and what
\* it sees is the table.
LEMMA LockStep ==
    ASSUME IInv, NEW c \in Conns, Lock(c)
    PROVE  Exclusive' /\ CallsAreAtomic' /\ LockInv'
<1> USE ThreadsAssumption
<1>1. TypeOK /\ Exclusive /\ CallsAreAtomic /\ LockInv
  BY DEF IInv, Typed
<1>2. /\ thread' = [thread EXCEPT ![c] = "inside"]
      /\ seen' = [seen EXCEPT ![c] = table]
      /\ UNCHANGED <<table, calls>>
      /\ mutex' = IF mutex = "destroyed" THEN mutex ELSE c
      /\ mutex \in {"free", "destroyed"}
  BY DEF Lock, Goes, Available
<1>3. CASE mutex = "destroyed"
  BY <1>2, <1>3 DEF Exclusive, CallsAreAtomic, LockInv
<1>4. CASE mutex = "free"
  <2>1. mutex' = c /\ \A d \in Conns : thread[d] # "inside"
    BY <1>1, <1>2, <1>4 DEF Exclusive
  <2>2. \A d \in Conns : thread'[d] = "inside" <=> d = c
    BY <1>1, <1>2, <2>1 DEF TypeOK
  <2>3. seen'[c] = table'
    BY <1>1, <1>2 DEF TypeOK
  <2> QED
    BY <1>1, <1>2, <1>4, <2>1, <2>2, <2>3
    DEF Exclusive, CallsAreAtomic, LockInv, SeenIsCurrent
<1> QED
  BY <1>2, <1>3, <1>4

\* The thread that gives the mutex back was the only one inside, so the table
\* it changes is the one the last call left.
LEMMA UnlockStep ==
    ASSUME IInv, NEW c \in Conns, Unlock(c)
    PROVE  Exclusive' /\ CallsAreAtomic' /\ LockInv'
<1> USE ThreadsAssumption
<1>1. TypeOK /\ Exclusive /\ CallsAreAtomic /\ LockInv
  BY DEF IInv, Typed
<1>2. /\ thread[c] = "inside"
      /\ thread' = [thread EXCEPT ![c] = "replying"]
      /\ table' = seen[c] + 1 /\ calls' = calls + 1
      /\ mutex' = IF mutex = "destroyed" THEN mutex ELSE "free"
  BY DEF Unlock, Goes, Released
<1>3. CASE mutex = "destroyed"
  BY <1>2, <1>3 DEF Exclusive, CallsAreAtomic, LockInv
<1>4. CASE mutex # "destroyed"
  <2>1. mutex = c /\ mutex' = "free" /\ seen[c] = table
    BY <1>1, <1>2, <1>4 DEF Exclusive, LockInv, SeenIsCurrent
  <2>2. \A d \in Conns : thread'[d] # "inside"
    BY <1>1, <1>2, <1>4, <2>1 DEF Exclusive, TypeOK
  <2>3. table' = calls'
    BY <1>1, <1>2, <1>4, <2>1 DEF CallsAreAtomic
  <2> QED
    BY <2>1, <2>2, <2>3 DEF Exclusive, CallsAreAtomic, LockInv, SeenIsCurrent
<1> QED
  BY <1>3, <1>4

-----------------------------------------------------------------------------
(* The startup.                                                             *)

\* A process that goes on after do_open has its file open until its handler
\* closes it, and only a handler has a next thing to do.
Opened ==
    /\ stage # "none" => handler # None
    /\ process = "running" /\ phase # "do_open" => fs_open \/ handler # None

StartInv == Typed /\ Opened /\ StartedFirst

\* A thread begins by an Accept, and main accepts when it serves; the startup
\* and the shutdown move nothing back.
LEMMA StartStep == StartInv /\ [Next]_vars => StartInv'
<1> SUFFICES ASSUME StartInv, [Next]_vars PROVE Opened' /\ StartedFirst'
  BY TypeStep DEF StartInv
<1> USE ThreadsAssumption
<1>t. TypeOK /\ Unconnected /\ Opened /\ StartedFirst
  BY DEF StartInv, Typed
<1>1. CASE UNCHANGED vars
  BY <1>1, <1>t DEF Opened, StartedFirst, vars, shutdown, signals
<1>2. ASSUME NEW c \in Conns, Connect(c) \/ Send(c) \/ Leave(c)
      PROVE  Opened' /\ StartedFirst'
  BY <1>2, <1>t DEF Opened, StartedFirst, TypeOK, Connect, Send, Leave, shutdown, signals
<1>3. CASE Startup \/ EarlySignal
  BY <1>3, <1>t DEF Opened, StartedFirst, Startup, OpenFile, Listen, InitVips,
     SetSignalHandler, StartFails, Starts, GivesUp, EarlySignal, shutdown, signals
<1>4. ASSUME NEW c \in Conns, Accept(c) PROVE Opened' /\ StartedFirst'
  BY <1>4, <1>t DEF Opened, StartedFirst, TypeOK, Accept, Receiving, Free, shutdown, signals
<1>5. CASE AcceptFails \/ Spawn \/ SpawnFails
  <2>1. /\ UNCHANGED <<phase, handler, stage, fs_open>>
        /\ process' = "running" => process = "running"
        /\ \A d \in Conns : thread[d] \in {"none", "backlog"} => thread'[d] = thread[d]
    BY <1>5, <1>t DEF TypeOK, AcceptFails, Spawn, SpawnFails, shutdown, signals
  <2> QED
    BY <1>t, <2>1 DEF Opened, StartedFirst
<1>6. ASSUME NEW c \in Conns, ThreadStep(c) PROVE Opened' /\ StartedFirst'
  <2>1. /\ UNCHANGED <<phase, handler, stage, fs_open>>
        /\ process' = "running" => process = "running"
        /\ thread[c] \notin {"none", "backlog"}
        /\ \E place : thread' = [thread EXCEPT ![c] = place]
    BY <1>6 DEF ThreadStep, Mask, NoBuffer, Receive, End, Lock, Unlock, Reply, ReplyToNobody,
       NoReply, Goes, Free, shutdown, signals
  <2>2. \A d \in Conns : thread[d] \in {"none", "backlog"} => thread'[d] = thread[d]
    BY <2>1, <1>t DEF TypeOK
  <2> QED
    BY <1>t, <2>1, <2>2 DEF Opened, StartedFirst
<1>7. ASSUME NEW t \in Threads, Signal(t) PROVE Opened' /\ StartedFirst'
  BY <1>7, <1>t DEF Opened, StartedFirst, Signal, Threads
<1>8. CASE Shutdown
  BY <1>8, <1>t DEF Opened, StartedFirst, Shutdown, HttpClose, MutexDestroy, FileClose, Exit, Stage
<1> QED
  BY <1>1, <1>2, <1>3, <1>4, <1>5, <1>6, <1>7, <1>8 DEF Next, MainStep

\* For any connections: a thread works for a process whose startup has gone
\* through, on a file that was opened.
THEOREM StartedBeforeServing == Spec => []StartedFirst
<1>1. Init => StartInv
  BY InitTyped DEF Init, StartInv, Opened, StartedFirst
<1> QED
  BY <1>1, StartStep, PTL DEF Spec, StartInv

-----------------------------------------------------------------------------

\* The invariant holds when the server has started, and every step keeps it.
THEOREM Invariance == Spec => []IInv
<1>1. Init => IInv
  BY InitTyped, ThreadsAssumption
  DEF Init, IInv, Exclusive, CallsAreAtomic, LockInv, SeenIsCurrent
<1>2. IInv /\ [Next]_vars => IInv'
  <2> SUFFICES ASSUME IInv, [Next]_vars PROVE IInv'
    OBVIOUS
  <2>1. Typed'
    BY TypeStep DEF IInv
  <2>2. CASE \E c \in Conns : Lock(c)
    BY <2>1, <2>2, LockStep DEF IInv
  <2>3. CASE \E c \in Conns : Unlock(c)
    BY <2>1, <2>3, UnlockStep DEF IInv
  <2>4. CASE \A c \in Conns : ~Lock(c) /\ ~Unlock(c)
    <3>1. /\ \A c \in Conns : thread'[c] = "inside" <=> thread[c] = "inside"
          /\ UNCHANGED <<table, seen, calls>>
          /\ mutex' = mutex \/ mutex' = "destroyed"
      BY <2>4, OtherSteps
    <3> QED
      BY <2>1, <3>1 DEF IInv, Exclusive, CallsAreAtomic, LockInv, SeenIsCurrent
  <2> QED
    BY <2>2, <2>3, <2>4
<1> QED
  BY <1>1, <1>2, PTL DEF Spec

\* For any connections, limits and requests: every variable has its type.
THEOREM ServerTypes == Spec => []TypeOK
  BY Invariance, PTL DEF IInv, Typed

\* For any connections: until a shutdown destroys it, the mutex is held by the
\* thread inside a library call and by nobody else.
THEOREM MutualExclusion == Spec => []Exclusive
  BY Invariance, PTL DEF IInv

\* For any connections: no call works on a table another call has changed since
\* it looked, so a call may be taken as one step, as ImgfsLib does.
THEOREM CallsAtomic == Spec => []CallsAreAtomic
  BY Invariance, PTL DEF IInv

=============================================================================
