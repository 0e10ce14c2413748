---------------------------- MODULE StoredObject ----------------------------
(***************************************************************************)
(* What a database state server promises about the objects of its ranges:  *)
(* a datagram takes effect when it arrives, on the loaded object if there  *)
(* is one and on the database, as if loading an object and asking the      *)
(* database took no time.  Answers come later, but say what was the case   *)
(* when the question arrived.                                              *)
(*                                                                         *)
(* Two liberties are taken by the code and therefore granted here: an      *)
(* object is loaded as an open GET_ALL of it will report it, even if it    *)
(* was changed since, and what is asked of a loading object may also be    *)
(* answered as if it were not loaded.                                      *)
(***************************************************************************)
EXTENDS ObjectAnswers, Naturals, Sequences

CONSTANTS
  Doid,
  Requests  \* the datagrams that may be sent to the objects

VARIABLES
  request,  \* the datagrams received, in order
  disk,     \* the stored objects
  ram,      \* the loaded objects
  loading,  \* those whose loading has not ended
  due,      \* what each open question may be answered
  told      \* what it was answered

vars == <<request, disk, ram, loading, due, told>>

Answers(op) ==
  IF ~Asks(op) THEN {}
  ELSE IF ram[op.doid] = Missing THEN {DiskAnswer(op, disk[op.doid])}
  ELSE {RamAnswer(op, ram[op.doid])}
         \cup (IF op.doid \in loading THEN {DiskAnswer(op, disk[op.doid])} ELSE {})

\* What the open GET_ALLs of d will report.
Reported(d) ==
  {p[2] : p \in {q \in due : request[q[1]].kind = "get_all" /\ request[q[1]].doid = d}}

\* What a loader of d may find.
Readable(d) ==
  {disk[d]} \cup
  {IF a = Silence THEN Missing ELSE [f \in DbField |-> a.fields[f]] : a \in Reported(d)}

Activate(op) ==
  LET d == op.doid
  IN  /\ op.kind = "activate"
      /\ IF d \in loading \/ ram[d] # Missing
         THEN UNCHANGED <<ram, loading>>
         ELSE \E x \in Readable(d) :
                /\ ram' = [ram EXCEPT ![d] =
                             IF x = Missing THEN Missing ELSE Updated(Complete(x), op.fields)]
                /\ loading' = loading \cup {d}
      /\ UNCHANGED disk

SetFields(op) ==
  LET d == op.doid
  IN  /\ op.kind = "set"
      /\ ram' = [ram EXCEPT ![d] = IF @ = Missing THEN Missing ELSE Updated(@, op.fields)]
      /\ disk' = [disk EXCEPT ![d] = IF @ = Missing THEN Missing ELSE Updated(@, op.fields)]
      /\ UNCHANGED loading

DeleteRam(op) ==
  /\ op.kind = "delete_ram"
  /\ ram' = [ram EXCEPT ![op.doid] = Missing]
  /\ UNCHANGED <<disk, loading>>

DeleteDisk(op) ==
  /\ op.kind = "delete_disk"
  /\ disk' = [disk EXCEPT ![op.doid] = Missing]
  /\ UNCHANGED <<ram, loading>>

Ask(op) ==
  /\ Asks(op)
  /\ UNCHANGED <<disk, ram, loading>>

Init ==
  /\ request = <<>>
  /\ disk \in [Doid -> {Missing} \cup {[f \in DbField |-> Default[f]]}]
  /\ ram = [d \in Doid |-> Missing]
  /\ loading = {}
  /\ due = {}
  /\ told = {}

\* A question may be answered at once.
Receive(op) ==
  LET now == {<<Len(request) + 1, a>> : a \in Answers(op)}
  IN  /\ Activate(op) \/ SetFields(op) \/ DeleteRam(op) \/ DeleteDisk(op) \/ Ask(op)
      /\ request' = Append(request, op)
      /\ \/ due' = due \cup now /\ told' = told
         \/ due' = due /\ told' = told \cup now /\ op.doid \notin loading

\* Questions are answered, and loading ends.  No question is given up but
\* those that silence answers.
Answer ==
  /\ UNCHANGED <<request, disk, ram>>
  /\ loading' \subseteq loading
  /\ due' \subseteq due
  /\ told \subseteq told'
  /\ told' \subseteq told \cup due
  /\ \A p \in due \ due' : p[2] = Silence \/ \E q \in told' : q[1] = p[1]

Next == (\E op \in Requests : Receive(op)) \/ Answer

Spec == Init /\ [][Next]_vars
=============================================================================
