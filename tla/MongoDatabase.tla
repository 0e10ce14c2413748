---------------------------- MODULE MongoDatabase ----------------------------
(***************************************************************************)
(* The MongoDB backend (src/src/database/MongoDatabase.cpp) under the      *)
(* scheduler of DatabaseServer: worker threads take operations from a FIFO *)
(* and run each as a few database calls.  One call to MongoDB is atomic;   *)
(* anything can happen between two calls, and between the reply an         *)
(* operation routes and the clear_operation that ends it.                  *)
(***************************************************************************)
EXTENDS DatabaseServer

CONSTANTS
  Worker,      \* the backend's threads
  MinId,       \* the doids the backend may allocate are MinId..MaxId
  MaxId,
  Allocated,   \* how many were allocated when the server started
  NewObject,   \* the fields of a created object
  MaxCreates,  \* bound of the model: CREATE_OBJECT requests that arrive
  MaxErrors    \* bound of the model: database calls that throw

ASSUME MongoDatabaseAssumption ==
  /\ MinId \in Nat /\ MaxId \in Nat /\ Allocated \in Nat
  /\ MinId + Allocated <= MaxId + 1
  /\ Doid = MinId..MaxId
  /\ NewObject \in Object
  /\ MaxCreates \in Nat /\ MaxErrors \in Nat

VARIABLES
  m_operation_queue,  \* FIFO of ids; 0 stands for a CREATE_OBJECT
  worker,             \* what each thread is doing
  objects,            \* otp.objects
  monotonic,          \* otp.globals doid.monotonic
  free,               \* otp.globals doid.free
  creates,            \* CREATE_OBJECT requests received
  errors,             \* database calls that threw
  outcome,            \* history: what each operation did to the store
  answer              \* what each operation was answered (on_complete, ...)

mongoVars ==
  <<m_operation_queue, worker, objects, monotonic, free, creates, errors, outcome, answer>>
allVars == <<vars, mongoVars>>

Create == 0
Pending == [tag |-> "pending"]
NotAnswered == [tag |-> "not answered"]

Idle == [pc |-> "idle"]

MongoInit ==
  /\ Init
  /\ m_operation_queue = <<>>
  /\ worker = [w \in Worker |-> Idle]
  /\ objects = [d \in Doid |-> IF d < MinId + Allocated THEN NewObject ELSE Missing]
  /\ monotonic = MinId + Allocated
  /\ free = <<>>
  /\ creates = 0
  /\ errors = 0
  /\ outcome = [i \in 1..MaxRequests |-> Pending]
  /\ answer = [i \in 1..MaxRequests |-> NotAnswered]

-----------------------------------------------------------------------------
(* The front end, submitting to m_operation_queue.                         *)

\* Operations that clear_operation took off the queue of d, in order.
TakenFrom_FirstOnly(d) ==
  SubSeq(queue[d], 1, IF Len(queue'[d]) < Len(queue[d]) - 1 THEN 1 ELSE Len(queue[d]) - Len(queue'[d]))

TakenFrom(d) == SubSeq(queue[d], 1, Len(queue[d]) - Len(queue'[d]))

ReceiveOperation(op) ==
  /\ HandleOperation(op)
  /\ m_operation_queue' = IF submitted' = submitted THEN m_operation_queue
                          ELSE Append(m_operation_queue, Len(request) + 1)
  /\ UNCHANGED <<worker, objects, monotonic, free, creates, errors, outcome, answer>>

ReceiveMalformed(op) ==
  /\ RejectRequest(op)
  /\ m_operation_queue' = m_operation_queue \o TakenFrom(op.doid)
  /\ outcome' = [outcome EXCEPT ![Len(request) + 1] = Failure]
  /\ UNCHANGED <<worker, objects, monotonic, free, creates, errors, answer>>

\* CREATEs do not operate on a doid and are not queued.
ReceiveCreate ==
  /\ creates < MaxCreates
  /\ creates' = creates + 1
  /\ m_operation_queue' = Append(m_operation_queue, Create)
  /\ UNCHANGED <<vars, worker, objects, monotonic, free, errors, outcome, answer>>

-----------------------------------------------------------------------------
(* The worker threads.                                                     *)

At(w, pc) == worker[w].pc = pc
Goto(w, rec) == worker' = [worker EXCEPT ![w] = rec]
Holding(w) == request[worker[w].id]

\* handle_operation: the handler an operation is dispatched to.
Handler(op) ==
  IF op.type = "DELETE_OBJECT" THEN "delete" ELSE IF Gets(op) THEN "get" ELSE "modify"

\* run_thread: take the next operation and dispatch it.
TakeOperation(w) ==
  /\ At(w, "idle")
  /\ m_operation_queue # <<>>
  /\ m_operation_queue' = Tail(m_operation_queue)
  /\ LET i == Head(m_operation_queue)
     IN  Goto(w, IF i = Create THEN [pc |-> "assign"] ELSE [pc |-> Handler(request[i]), id |-> i])
  /\ UNCHANGED <<vars, objects, monotonic, free, creates, errors, outcome, answer>>

\* The worker goes on to call on_complete / on_failure / on_criteria_mismatch.
Finish(w, result) == Goto(w, [pc |-> "answer", id |-> worker[w].id, result |-> result])
Decide(w, result) == outcome' = [outcome EXCEPT ![worker[w].id] = result]

\* handle_get: find_one.
GetObject(w) ==
  LET op == Holding(w)
      result == Outcome(op, objects[op.doid])
  IN  /\ At(w, "get")
      /\ Finish(w, result)
      /\ Decide(w, result)
      /\ UNCHANGED <<vars, m_operation_queue, objects, monotonic, free, creates, errors, answer>>

\* Only a delete that deleted something returns its doid.
FreesDoid_Always(result) == TRUE

FreesDoid(result) == result = Success

\* handle_delete: delete_one, then free_doid when something was deleted.
DeleteObject(w) ==
  LET op == Holding(w)
      result == Outcome(op, objects[op.doid])
  IN  /\ At(w, "delete")
      /\ objects' = [objects EXCEPT ![op.doid] = Missing]
      /\ Decide(w, result)
      /\ IF FreesDoid(result) THEN Goto(w, [pc |-> "free", id |-> worker[w].id])
                             ELSE Finish(w, result)
      /\ UNCHANGED <<vars, m_operation_queue, monotonic, free, creates, errors, answer>>

FreeDoid(w) ==
  /\ At(w, "free")
  /\ free' = Append(free, Holding(w).doid)
  /\ Finish(w, Success)
  /\ UNCHANGED <<vars, m_operation_queue, objects, monotonic, creates, errors, outcome, answer>>

\* handle_modify: find_one_and_update, which writes before the class of the
\* object is verified and returns the object as it was.
FindOneAndUpdate(w) ==
  LET op == Holding(w)
      x == objects[op.doid]
  IN  /\ At(w, "modify")
      /\ IF Matches(op, x)
         THEN /\ objects' = [objects EXCEPT ![op.doid] = Modified(op, x)]
              /\ IF VerifyClass(op) THEN Finish(w, Success)
                 ELSE Goto(w, [pc |-> "revert", id |-> worker[w].id, was |-> x])
         ELSE /\ IF Criteria(op) # {} THEN Goto(w, [pc |-> "recheck", id |-> worker[w].id])
                 ELSE Finish(w, Failure)
              /\ UNCHANGED objects
      /\ Decide(w, Outcome(op, x))
      /\ UNCHANGED <<vars, m_operation_queue, monotonic, free, creates, errors, answer>>

\* handle_modify: find_one, to tell a criteria mismatch from a missing object.
FindUnmatched(w) ==
  LET op == Holding(w)
      x == objects[op.doid]
  IN  /\ At(w, "recheck")
      /\ Finish(w, IF x # Missing /\ VerifyClass(op) THEN Mismatch(Criteria(op), x) ELSE Failure)
      /\ UNCHANGED <<vars, m_operation_queue, objects, monotonic, free, creates, errors, outcome, answer>>

\* handle_modify: replace_one puts the whole object back as it was found.
RevertModify(w) ==
  LET d == Holding(w).doid
  IN  /\ At(w, "revert")
      /\ objects' = [objects EXCEPT ![d] = IF @ = Missing THEN Missing ELSE worker[w].was]
      /\ Finish(w, Failure)
      /\ UNCHANGED <<vars, m_operation_queue, monotonic, free, creates, errors, outcome, answer>>

MonotonicLeft == monotonic \in MinId..MaxId

\* assign_doid_monotonic.
AssignMonotonic(w) ==
  /\ At(w, "assign")
  /\ IF MonotonicLeft
     THEN /\ monotonic' = monotonic + 1
          /\ Goto(w, [pc |-> "insert", doid |-> monotonic])
     ELSE /\ Goto(w, [pc |-> "reuse"])
          /\ UNCHANGED monotonic
  /\ UNCHANGED <<vars, m_operation_queue, objects, free, creates, errors, outcome, answer>>

\* assign_doid_reuse; a CREATE that gets no doid is answered with failure.
AssignReuse(w) ==
  /\ At(w, "reuse")
  /\ IF free # <<>>
     THEN /\ free' = Tail(free)
          /\ Goto(w, [pc |-> "insert", doid |-> Head(free)])
     ELSE /\ Goto(w, Idle)
          /\ UNCHANGED free
  /\ UNCHANGED <<vars, m_operation_queue, objects, monotonic, creates, errors, outcome, answer>>

\* handle_create: insert_one, which throws when the _id is taken.
InsertObject(w) ==
  LET d == worker[w].doid
  IN  /\ At(w, "insert")
      /\ objects' = [objects EXCEPT ![d] = IF @ = Missing THEN NewObject ELSE @]
      /\ Goto(w, Idle)
      /\ UNCHANGED <<vars, m_operation_queue, monotonic, free, creates, errors, outcome, answer>>

\* A database call throws operation_exception.  The operation fails; free_doid
\* swallows the exception and the delete still completes.
DatabaseError(w) ==
  /\ errors < MaxErrors
  /\ errors' = errors + 1
  /\ \/ /\ worker[w].pc \in {"get", "delete", "modify"}
        /\ Finish(w, Failure)
        /\ Decide(w, Failure)
     \/ /\ worker[w].pc \in {"recheck", "revert"}
        /\ Finish(w, Failure)
        /\ UNCHANGED outcome
     \/ /\ At(w, "free")
        /\ Finish(w, Success)
        /\ UNCHANGED outcome
     \/ /\ worker[w].pc \in {"assign", "reuse", "insert"}
        /\ Goto(w, Idle)
        /\ UNCHANGED outcome
  /\ UNCHANGED <<vars, m_operation_queue, objects, monotonic, free, creates, answer>>

\* on_complete, on_failure, on_criteria_mismatch: first the reply is routed...
Answer(w) ==
  /\ At(w, "answer")
  /\ answer' = [answer EXCEPT ![worker[w].id] = worker[w].result]
  /\ Goto(w, [pc |-> "cleanup", id |-> worker[w].id])
  /\ UNCHANGED <<vars, m_operation_queue, objects, monotonic, free, creates, errors, outcome>>

\* ... then cleanup() ends the operation.
Cleanup(w) ==
  /\ At(w, "cleanup")
  /\ Complete(worker[w].id)
  /\ m_operation_queue' = m_operation_queue \o TakenFrom(Holding(w).doid)
  /\ Goto(w, Idle)
  /\ UNCHANGED <<objects, monotonic, free, creates, errors, outcome, answer>>

Work(w) ==
  \/ TakeOperation(w)
  \/ GetObject(w) \/ DeleteObject(w) \/ FreeDoid(w)
  \/ FindOneAndUpdate(w) \/ FindUnmatched(w) \/ RevertModify(w)
  \/ AssignMonotonic(w) \/ AssignReuse(w) \/ InsertObject(w)
  \/ Answer(w) \/ Cleanup(w)

MongoNext ==
  \/ \E op \in Requests : ReceiveOperation(op)
  \/ \E op \in Malformed : ReceiveMalformed(op)
  \/ ReceiveCreate
  \/ \E w \in Worker : Work(w) \/ DatabaseError(w)

MongoSpec == MongoInit /\ [][MongoNext]_allVars

\* A thread that has something to do does it.
MongoFairSpec == MongoSpec /\ \A w \in Worker : WF_allVars(Work(w))

-----------------------------------------------------------------------------
(* The server is a serial database: the store and what every operation did  *)
(* to it are those of one operation at a time.  A modification that is about *)
(* to be undone has not happened.                                            *)
Undone(d) ==
  LET undoing == {w \in Worker : At(w, "revert") /\ Holding(w).doid = d}
  IN  IF undoing # {} /\ objects[d] # Missing THEN worker[CHOOSE w \in undoing : TRUE].was ELSE objects[d]

Serial == INSTANCE SerialDatabase WITH
  request <- request, objects <- [d \in Doid |-> Undone(d)], outcome <- outcome

SerialSpec == Serial!Spec

(* What a requester is told is what happened: success is reported for the    *)
(* operations that took effect, and a snapshot or mismatch holds the values  *)
(* the operation found, even where they are read by a second database call.  *)
AnswersAreTrue ==
  \A i \in Received : answer[i] # NotAnswered =>
    \/ answer[i] = outcome[i]
    \/ answer[i] = Failure /\ outcome[i] # Success

\* The doid a thread is about to insert with.
Assigned == {w \in Worker : At(w, "insert")}

(* A doid is never handed out twice while it is in use: the one a thread     *)
(* holds has no object, is not in the free list, is not held by another      *)
(* thread and is below the counter; the free list repeats nothing and holds  *)
(* no live object.  Otherwise two objects would share an id.                 *)
FreshDoids ==
  /\ \A w \in Assigned : LET d == worker[w].doid IN
       /\ objects[d] = Missing
       /\ d < monotonic
       /\ \A k \in 1..Len(free) : free[k] # d
       /\ \A v \in Assigned : worker[v].doid = d => v = w
  /\ \A k \in 1..Len(free) :
       /\ objects[free[k]] = Missing
       /\ free[k] < monotonic
       /\ \A m \in 1..Len(free) : free[m] = free[k] => m = k

(* Every accepted operation is answered.                                     *)
EventuallyAnswered ==
  \A i \in 1..MaxRequests : (i \in Received \ dropped) ~>
     (i \in cleared /\ (answer[i] # NotAnswered \/ outcome[i] = Failure))

(* on_criteria_mismatch is for updates whose criteria were not satisfied     *)
(* (DBOperation.h:163-164).                                                  *)
MismatchIsAMismatch ==
  \A i \in Received : answer[i].tag = "mismatch" =>
    \E f \in Criteria(request[i]) :
      answer[i].fields[f] # request[i].criteria_fields[f]
=============================================================================
