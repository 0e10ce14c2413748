--------------------------- MODULE DatabaseServer ---------------------------
(***************************************************************************)
(* The database server's scheduler: DatabaseServer::handle_operation and   *)
(* clear_operation over one DBOperationQueue per doid.  Operations are     *)
(* numbered in the order handle_datagram receives them, so "i < j" reads   *)
(* "i arrived before j".  Each handler holds m_lock from its first access  *)
(* to m_queues to its last, so each is one step.                           *)
(*                                                                         *)
(* The backend is any backend: it may complete the operations it was       *)
(* handed in any order.  MongoDatabase refines it to worker threads.       *)
(***************************************************************************)
EXTENDS DBOperation, Sequences

\* An operator whose name ends in _<Word> is a mutant of the definition that
\* follows it: a plausible mistake in that code, which a run of PROJECT.json
\* must catch.  No specification uses it.

CONSTANTS
  Requests,     \* the operations that may arrive
  Malformed,    \* operations that may arrive and fail to initialize
  MaxRequests   \* bound of the model: how many arrive

ASSUME DatabaseServerAssumption ==
  /\ Requests \subseteq Operation
  /\ Malformed \subseteq {op \in Operation : op.type \notin {"DELETE_OBJECT", "GET_OBJECT"}}
  /\ MaxRequests \in Nat

VARIABLES
  request,   \* every operation received so far; its index is its id
  queue,     \* DBOperationQueue::m_queue of each doid, ids in FIFO order
  running,   \* DBOperationQueue::m_running_operations of each doid
  submitted, \* ids handed to the backend and not yet completed
  cleared,   \* ids whose operation was deleted by cleanup()
  dropped    \* ids of gets that failed to initialize: nobody cleans them up

vars == <<request, queue, running, submitted, cleared, dropped>>

Received == 1..Len(request)

Independent(i, j) == IsIndependentOf(request[i], request[j])

Init ==
  /\ request = <<>>
  /\ queue = [d \in Doid |-> <<>>]
  /\ running = [d \in Doid |-> {}]
  /\ submitted = {}
  /\ cleared = {}
  /\ dropped = {}

-----------------------------------------------------------------------------
\* DBOperationQueue::can_operation_start.
CanOperationStart_AnyOf(op, S) == S = {} \/ \E r \in S : IsIndependentOf(op, request[r])

CanOperationStart(op, S) == \A r \in S : IsIndependentOf(op, request[r])

\* enqueue_operation refuses: the operation goes straight to the backend.
StartsAtOnce_Overtaking(op) == CanOperationStart(op, running[op.doid])

StartsAtOnce(op) == queue[op.doid] = <<>> /\ CanOperationStart(op, running[op.doid])

NewId == Len(request) + 1

\* handle_datagram with a well-formed request, then handle_operation: either
\* the operation goes straight to the backend or it joins the queue.
HandleOperation(op) ==
  LET i == NewId
      d == op.doid
  IN  /\ Len(request) < MaxRequests
      /\ request' = Append(request, op)
      /\ \/ /\ StartsAtOnce(op)
            /\ running' = [running EXCEPT ![d] = @ \cup {i}]
            /\ submitted' = submitted \cup {i}
            /\ UNCHANGED queue
         \/ /\ ~StartsAtOnce(op)
            /\ queue' = [queue EXCEPT ![d] = Append(@, i)]
            /\ UNCHANGED <<running, submitted>>
      /\ UNCHANGED <<cleared, dropped>>

\* finalize_operation's answer: the finished operation may have been what the
\* front of the queue was waiting for.
MayUnblock_Inverted(op, d) ==
  queue[d] # <<>> /\ IsIndependentOf(op, request[Head(queue[d])])

MayUnblock(op, d) ==
  /\ queue[d] # <<>>
  /\ ~IsIndependentOf(op, request[Head(queue[d])])

\* The first n operations of the queue can be started one after the other,
\* each against those of S and the ones started before it.
CanStart(d, S, n) ==
  \A k \in 1..n :
    CanOperationStart(request[queue[d][k]], S \cup {queue[d][m] : m \in 1..(k-1)})

\* The loop over get_next_operation starts n operations and stops at the end of
\* the queue or at the first operation that may not start.
StartsExactly_One(d, S, n) == n = IF CanStart(d, S, 1) THEN 1 ELSE 0

StartsExactly(d, S, n) ==
  /\ CanStart(d, S, n)
  /\ n < Len(queue[d]) => ~CanStart(d, S, n + 1)

\* clear_operation(op), the last thing operation i does.  It may never have
\* been running: a modification that fails to initialize passes here too.
ClearOperation(op, i) ==
  LET d == op.doid
  IN  \E n \in 0..Len(queue[d]) :
        LET started == {queue[d][k] : k \in 1..n}
        IN  /\ IF MayUnblock(op, d) THEN StartsExactly(d, running[d] \ {i}, n) ELSE n = 0
            /\ running' = [running EXCEPT ![d] = (@ \ {i}) \cup started]
            /\ queue' = [queue EXCEPT ![d] = SubSeq(@, n + 1, Len(@))]
            /\ submitted' = (submitted \ {i}) \cup started
            /\ cleared' = cleared \cup {i}
            /\ UNCHANGED dropped

\* handle_datagram with a request whose initialize() returns false.  A
\* modification calls on_failure() first, which ends in clear_operation; a get
\* just returns false.
RejectRequest(op) ==
  LET i == NewId
  IN  /\ Len(request) < MaxRequests
      /\ request' = Append(request, op)
      /\ \/ /\ Writes(op)
            /\ ClearOperation(op, i)
         \/ /\ Gets(op)
            /\ dropped' = dropped \cup {i}
            /\ UNCHANGED <<queue, running, submitted, cleared>>

\* The backend completes an operation it was handed.
Complete(i) ==
  /\ i \in submitted
  /\ ClearOperation(request[i], i)
  /\ UNCHANGED request

Next ==
  \/ \E op \in Requests : HandleOperation(op)
  \/ \E op \in Malformed : RejectRequest(op)
  \/ \E i \in submitted : Complete(i)

Spec == Init /\ [][Next]_vars

\* Every backend keeps completing the operations it holds.
FairSpec == Spec /\ WF_vars(\E i \in submitted : Complete(i))

-----------------------------------------------------------------------------
(* Every queue, running set and bookkeeping set holds received operations.  *)
TypeOK ==
  /\ request \in Seq(Operation)
  /\ queue \in [Doid -> Seq(Received)]
  /\ running \in [Doid -> SUBSET Received]
  /\ submitted \in SUBSET Received
  /\ cleared \in SUBSET Received
  /\ dropped \in SUBSET Received

(* Operations that run at the same time never conflict, in either direction *)
(* of is_independent_of: the guarantee DBOperationQueue exists for.          *)
RunningIndependent ==
  \A d \in Doid : \A i, j \in running[d] : i # j => Independent(i, j)

(* A queue is never left waiting for nothing: whatever is at its front       *)
(* conflicts with an operation that is still running, so some later          *)
(* clear_operation will look at it again.  finalize_operation skips the      *)
(* look when the finished operation is independent of the front.             *)
NothingStuck ==
  \A d \in Doid : queue[d] # <<>> =>
    \E r \in running[d] : ~Independent(Head(queue[d]), r)

(* Conflicting operations take turns in arrival order: when an operation is  *)
(* with the backend, every earlier operation it conflicts with has been      *)
(* completed and cleaned up (or was never accepted).                         *)
ArrivalOrder ==
  \A i, j \in Received :
    (i < j /\ j \in submitted /\ ~Independent(i, j)) => i \in cleared \cup dropped

(* The strengthening under which the three are inductive: where every        *)
(* received operation is, and that a queue is in arrival order, behind       *)
(* everything that already runs on its object.                               *)
Accounted ==
  \A i \in Received : LET d == request[i].doid IN
    \/ i \in cleared \cup dropped
    \/ i \in running[d]
    \/ \E k \in 1..Len(queue[d]) : queue[d][k] = i

QueueInArrivalOrder ==
  \A d \in Doid : \A k \in 1..Len(queue[d]) :
    /\ request[queue[d][k]].doid = d
    /\ \A m \in 1..(k-1) : queue[d][m] < queue[d][k]
    /\ \A r \in running[d] : r < queue[d][k]

SubmittedIsRunning ==
  /\ \A d \in Doid : \A r \in running[d] : request[r].doid = d /\ r \in submitted
  /\ \A i \in submitted : i \in running[request[i].doid]

IInv ==
  /\ TypeOK
  /\ Accounted
  /\ QueueInArrivalOrder
  /\ SubmittedIsRunning
  /\ RunningIndependent
  /\ NothingStuck

(* Every operation that is accepted is eventually completed, however the     *)
(* operations before it conflict: the queue never deadlocks or starves.      *)
EventuallyCleared ==
  \A i \in 1..MaxRequests : (i \in Received \ dropped) ~> (i \in cleared)
=============================================================================
