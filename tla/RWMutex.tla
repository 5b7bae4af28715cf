------------------------------ MODULE RWMutex ------------------------------
(***************************************************************************)
(* sync.RWMutex of the Go standard library, as internal/backend/mem uses   *)
(* it. It is not under src/: this is its documented behaviour and the      *)
(* structure of its implementation.                                        *)
(*                                                                         *)
(* Lock has two waits: first for the other writers (the inner Mutex), then *)
(* for the readers that were in when it announced itself. From its         *)
(* announcement on, new readers queue behind it. Unlock lets in every      *)
(* queued reader before the next writer can announce itself, so neither    *)
(* side starves the other.                                                 *)
(***************************************************************************)
CONSTANTS Clients, NoClient

VARIABLES announced,  \* the writer that owns the inner Mutex, or NoClient
          writing,    \* that writer's Lock has returned
          readers,    \* clients whose RLock has returned
          queued      \* clients whose RLock waits behind the announced writer

rwVars == <<announced, writing, readers, queued>>

TypeOK ==
  /\ announced \in Clients \cup {NoClient}
  /\ writing \in BOOLEAN
  /\ readers \subseteq Clients
  /\ queued \subseteq Clients

Init ==
  /\ announced = NoClient
  /\ writing = FALSE
  /\ readers = {}
  /\ queued = {}

\* The first half of Lock.
Announce(c) ==
  /\ announced = NoClient
  /\ announced' = c
  /\ UNCHANGED <<writing, readers, queued>>

\* The second half of Lock: the last reader that was in has left.
Acquire(c) ==
  /\ announced = c
  /\ ~writing
  /\ readers = {}
  /\ writing' = TRUE
  /\ UNCHANGED <<announced, readers, queued>>

Unlock(c) ==
  /\ announced = c
  /\ writing
  /\ announced' = NoClient
  /\ writing' = FALSE
  /\ readers' = readers \cup queued
  /\ queued' = {}

\* RLock returns at once, or queues behind an announced writer.
RLock(c) ==
  /\ IF announced = NoClient
       THEN readers' = readers \cup {c} /\ UNCHANGED queued
       ELSE queued' = queued \cup {c} /\ UNCHANGED readers
  /\ UNCHANGED <<announced, writing>>

RUnlock(c) ==
  /\ c \in readers
  /\ readers' = readers \ {c}
  /\ UNCHANGED <<announced, writing, queued>>

Holds(c)  == announced = c /\ writing
RHolds(c) == c \in readers

\* A writer shares the lock with nobody, and a reader only ever waits for a
\* writer that will let it in.
Exclusion ==
  /\ writing => announced # NoClient /\ readers = {}
  /\ queued # {} => announced # NoClient
  /\ readers \cap queued = {}
=============================================================================
