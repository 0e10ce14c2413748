--------------------------- MODULE SerialDatabase ---------------------------
(***************************************************************************)
(* What a database server promises (DBOperationQueue.h:7-10): any sequence *)
(* of operations completes as if they had run one at a time.  An operation *)
(* runs atomically, and not before every earlier operation that it is not  *)
(* independent of.  A backend may fail an operation, which then has no     *)
(* effect.                                                                 *)
(***************************************************************************)
EXTENDS DBOperation, Sequences

CONSTANTS
  Requests, Malformed, MaxRequests,
  NewObject  \* the fields every object is created with

VARIABLES
  request,  \* the operations received, in arrival order
  objects,  \* the stored objects
  outcome   \* what each operation was completed with, or Pending

vars == <<request, objects, outcome>>

Pending == [tag |-> "pending"]

Received == 1..Len(request)

Init ==
  /\ request = <<>>
  /\ objects \in [Doid -> {Missing, NewObject}]
  /\ outcome = [i \in 1..MaxRequests |-> Pending]

Receive(op) ==
  /\ Len(request) < MaxRequests
  /\ request' = Append(request, op)
  /\ UNCHANGED <<objects, outcome>>

Reject(op) ==
  /\ Len(request) < MaxRequests
  /\ request' = Append(request, op)
  /\ outcome' = [outcome EXCEPT ![Len(request) + 1] = Failure]
  /\ UNCHANGED objects

\* Operation i has its turn: no earlier operation it depends on is pending.
Turn(i) ==
  /\ outcome[i] = Pending
  /\ \A j \in 1..(i-1) : outcome[j] = Pending => IsIndependentOf(request[j], request[i])

Execute(i) ==
  LET op == request[i]
  IN  /\ Turn(i)
      /\ objects' = [objects EXCEPT ![op.doid] = Effect(op, @)]
      /\ outcome' = [outcome EXCEPT ![i] = Outcome(op, objects[op.doid])]
      /\ UNCHANGED request

Fail(i) ==
  /\ Turn(i)
  /\ outcome' = [outcome EXCEPT ![i] = Failure]
  /\ UNCHANGED <<request, objects>>

CreateObject(d) ==
  /\ objects[d] = Missing
  /\ objects' = [objects EXCEPT ![d] = NewObject]
  /\ UNCHANGED <<request, outcome>>

Next ==
  \/ \E op \in Requests : Receive(op)
  \/ \E op \in Malformed : Reject(op)
  \/ \E i \in Received : Execute(i) \/ Fail(i)
  \/ \E d \in Doid : CreateObject(d)

Spec == Init /\ [][Next]_vars
=============================================================================
