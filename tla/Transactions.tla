---------------------------- MODULE Transactions ----------------------------
(***************************************************************************)
(* The transactional producer (src/producer/transaction.rs and gate.rs)    *)
(* against its coordinator: begin, send, prepare, commit, abort and        *)
(* recovery, over requests that may be lost, answered late or applied long *)
(* after the producer gave them up, dropped futures, coordinator timeouts  *)
(* and a crash of the process.                                             *)
(*                                                                         *)
(* A call that ends the transaction is `call`; concurrent sends are        *)
(* `send`.  Each of them (an owner: the call is 0, a send its record) has  *)
(* at most one coordinator RPC under way, `rpc`, whose attempts are        *)
(* messages in `net`.  An answer reaches its owner only while that attempt *)
(* is still awaited; a message that stays in `net` is lost.  The send      *)
(* engine is reduced to what a transaction sees of it: a record is queued, *)
(* stamped and on the wire, waits for a retry, or has its outcome.         *)
(***************************************************************************)
EXTENDS TxnCoordinator, Sequences

CONSTANTS
    Partitions,
    Versions,       \* protocol versions the cluster may support
    Disciplined,    \* the application follows the rules of MayContinue, MayEnd
    MaxRecords,     \* bound: records sent
    MaxTxns,        \* bound: transactions begun
    MaxEpoch,       \* bound: epochs the coordinator gives out
    MaxFaults       \* bound: attempts given up, records expired, futures dropped,
                    \* coordinator timeouts and crashes, together

ASSUME TransactionsAssumption ==
    /\ Versions \subseteq {"TV1", "TV2", "TV3"}
    /\ Disciplined \in BOOLEAN
    /\ \A n \in {MaxRecords, MaxTxns, MaxEpoch, MaxFaults} : n \in Nat

Records == 1..MaxRecords
Txns == 1..MaxTxns
TheCall == 0
Owners == {TheCall} \cup Records

VARIABLES
    tv,                 \* TransactionVersion; TV3 with two_phase_commit
    state, pending, failed,             \* TxnGate's Inner
    epoch,              \* the producer's identity
    ongoing,            \* ongoing_prepared_txn, -1 for none
    end_txn_unanswered, reinit_required,
    txn_partitions,     \* TransactionPartitions, by partition
    call,               \* the init, prepare, commit or abort under way
    send,               \* by record: its send
    next_seq,           \* the engine's next sequence, by partition
    rpc,                \* by owner: its coordinator RPC
    net,                \* requests written and not yet handled
    coord, leaders,     \* the coordinator's transaction; the leaders' entries
    fate,               \* history: what became of each record in the log
    txn,                \* history: transactions begun
    asked, told,        \* history: calls made, answers returned, by transaction
    stored,             \* the prepared state the external coordinator stored
    decided,            \* history: transactions it decided to commit
    fenced,             \* history: the coordinator took the producer's place away
    faults

gate == <<state, pending, failed>>
flags == <<end_txn_unanswered, reinit_required>>
broker == <<coord, leaders, fate, fenced>>
history == <<txn, asked, told, stored, decided>>
vars == <<tv, state, pending, failed, epoch, ongoing, end_txn_unanswered,
          reinit_required, txn_partitions, call, send, next_seq, rpc, net,
          coord, leaders, fate, fenced, txn, asked, told, stored, decided, faults>>

IsV2 == tv \in {"TV2", "TV3"}
TwoPhase == tv = "TV3"

NoPartition == 0
NoCall == [op |-> "none", entered |-> "Ready", phase |-> "none",
           send_failed |-> FALSE, unanswered |-> FALSE]
NoSend == [pc |-> "idle", part |-> NoPartition,
           txn |-> 0, epoch |-> -1, seq |-> 0]
NoReply == [code |-> "pending", epoch |-> -1, ongoing |-> -1]
NoRpc == [kind |-> "none", sent |-> FALSE, reply |-> NoReply]
Rpc(kind) == [NoRpc EXCEPT !.kind = kind]

Live == {"queued", "sent", "retry"}     \* sends that hold a ticket
Entering == {"reinit", "register", "admit"}     \* sends inside `enqueue`

TypeOK ==
    /\ state \in {"Uninitialized", "Initializing", "Ready", "Open", "Prepared",
                  "Committing", "Aborting", "CommitUnknown", "Fatal"}
    /\ pending \in Nat /\ failed \in BOOLEAN
    /\ epoch \in Nat \cup {-1} /\ ongoing \in Nat \cup {-1}
    /\ end_txn_unanswered \in BOOLEAN /\ reinit_required \in BOOLEAN
    /\ txn_partitions \in [Partitions -> {"absent", "pending", "added", "failed"}]
    /\ \A r \in Records : send[r].pc \in Live \cup Entering \cup
                            {"idle", "ok", "failed", "cut", "refused", "lost"}
    /\ \A o \in Owners : rpc[o].kind \in {"none", "Init", "Add", "End"}
    /\ \A r \in Records : fate[r] \in {"none", "open", "committed", "aborted"}
    /\ coord.status \in TxnStatus

Init ==
    /\ tv \in Versions
    /\ state = "Uninitialized" /\ pending = 0 /\ failed = FALSE
    /\ epoch = -1 /\ ongoing = -1
    /\ end_txn_unanswered = FALSE /\ reinit_required = FALSE
    /\ txn_partitions = [p \in Partitions |-> "absent"]
    /\ call = NoCall
    /\ send = [r \in Records |-> NoSend]
    /\ next_seq = [p \in Partitions |-> 0]
    /\ rpc = [o \in Owners |-> NoRpc]
    /\ net = {}
    /\ coord = NoTransaction
    /\ leaders = [p \in Partitions |-> NoEntry]
    /\ fate = [r \in Records |-> "none"] /\ fenced = FALSE
    /\ txn = 0
    /\ asked = [t \in Txns |-> {}] /\ told = [t \in Txns |-> "nothing"]
    /\ stored = -1 /\ decided = {}
    /\ faults = 0

Fault == faults < MaxFaults /\ faults' = faults + 1

-----------------------------------------------------------------------------
(* Coordinator RPCs: `with_coordinator`, `until_deadline`. *)

(* One attempt is written; it carries the identity of this moment. *)
Attempt(o) ==
    /\ rpc[o].kind # "none" /\ ~rpc[o].sent
    /\ rpc[o].kind = "Init" => coord.epoch < MaxEpoch
    /\ rpc' = [rpc EXCEPT ![o].sent = TRUE]
    /\ net' = net \cup {[kind |-> rpc[o].kind, owner |-> o, awaited |-> TRUE,
                         epoch |-> epoch, commit |-> call.op = "commit", seq |-> 0]}
    /\ UNCHANGED <<tv, gate, epoch, ongoing, flags, txn_partitions, call, send,
                   next_seq, broker, history, faults>>

(* What owner o wrote may still be handled, but nobody waits for it. *)
Abandon(o) ==
    net' = {IF m.owner = o THEN [m EXCEPT !.awaited = FALSE] ELSE m : m \in net}

(* The attempt is given up without an answer: the connection broke or the  *)
(* request timed out.  An EndTxn is then unanswered (`Unanswered`).        *)
NoAnswer(o) ==
    /\ rpc[o].sent /\ Fault
    /\ Abandon(o)
    /\ rpc' = [rpc EXCEPT ![o].sent = FALSE, ![o].reply = NoReply]
    /\ call' = IF rpc[o].kind = "End" THEN [call EXCEPT !.unanswered = TRUE] ELSE call
    /\ UNCHANGED <<tv, gate, epoch, ongoing, flags, txn_partitions, send, next_seq,
                   broker, history>>

IsRetriable(code) == code = "ConcurrentTransactions"

(* A retriable answer is backed off and tried again. *)
RetryRpc(o) ==
    /\ rpc[o].sent /\ IsRetriable(rpc[o].reply.code)
    /\ rpc' = [rpc EXCEPT ![o].sent = FALSE, ![o].reply = NoReply]
    /\ UNCHANGED <<tv, gate, epoch, ongoing, flags, txn_partitions, call, send,
                   next_seq, net, broker, history, faults>>

(* How an RPC may end now: at its deadline (max_block) between attempts,   *)
(* or with an answer that is not retried.                                  *)
Results(o) ==
    IF ~rpc[o].sent THEN {"Timeout"}
    ELSE {rpc[o].reply.code} \ {"pending", "ConcurrentTransactions"}

(* `is_fatal_transaction_error`, `is_abortable_transaction_error` and      *)
(* `classify_transaction_result`.                                          *)
IsFatal(code) ==
    code \in {"ProducerFenced", "InvalidTxnState"}
    \/ (code = "InvalidProducerIdMapping" /\ IsV2)
IsAbortable(code) == code = "InvalidProducerIdMapping" /\ ~IsV2
StateAfter(code) == IF IsFatal(code) THEN "Fatal" ELSE state
FailedAfter(code) == failed \/ IsAbortable(code)

(* `adopt_identity`: a new epoch starts every partition's sequence anew. *)
Adopt(e) ==
    /\ epoch' = e
    /\ next_seq' = IF e = epoch THEN next_seq ELSE [p \in Partitions |-> 0]

-----------------------------------------------------------------------------
(* Initialisation and the epoch bump of TV1. *)

init_transactions ==
    /\ state = "Uninitialized" /\ call.op = "none"
    /\ state' = "Initializing"
    /\ call' = [NoCall EXCEPT !.op = "init", !.phase = "init"]
    /\ rpc' = [rpc EXCEPT ![TheCall] = Rpc("Init")]
    /\ UNCHANGED <<tv, pending, failed, epoch, ongoing, flags, txn_partitions, send,
                   next_seq, net, broker, history, faults>>

(* `init_producer_id` with its answer: the identity is adopted and the     *)
(* doubts of the old epoch are gone.                                       *)
InitAnswered(o, code) ==
    IF code = "None"
    THEN /\ Adopt(rpc[o].reply.epoch)
         /\ ongoing' = rpc[o].reply.ongoing
         /\ reinit_required' = FALSE /\ end_txn_unanswered' = FALSE
    ELSE UNCHANGED <<epoch, next_seq, ongoing, flags>>

InitEnds(code) ==
    /\ call.op = "init" /\ code \in Results(TheCall)
    /\ InitAnswered(TheCall, code)
    /\ state' = IF code = "None" THEN "Ready" ELSE "Uninitialized"
    /\ failed' = FailedAfter(code)
    /\ call' = NoCall
    /\ rpc' = [rpc EXCEPT ![TheCall] = NoRpc]
    /\ UNCHANGED <<tv, pending, txn_partitions, send, net, broker, history,
                   faults>>

(* `ensure_reinitialised`: one bump at a time (reinit_lock). *)
LockFree == \A o \in Owners : rpc[o].kind # "Init"
Reinitialising(o) ==
    IF o = TheCall THEN call.phase \in {"reinit", "finish"} ELSE send[o].pc = "reinit"

StartReinit(o) ==
    /\ Reinitialising(o) /\ reinit_required
    /\ LockFree
    /\ rpc' = [rpc EXCEPT ![o] = Rpc("Init")]
    /\ UNCHANGED <<tv, gate, epoch, ongoing, flags, txn_partitions, call, send,
                   next_seq, net, broker, history, faults>>

(* Where a send is once the epoch is settled: TV1 registers its partition. *)
Settled == IF IsV2 THEN "admit" ELSE "register"

(* A send's bump ends, or it finds that another one did it. *)
SendReinitEnds(r, code) ==
    /\ send[r].pc = "reinit"
    /\ \/ /\ rpc[r].kind = "Init" /\ code \in Results(r)
          /\ InitAnswered(r, code)
       \/ /\ rpc[r].kind = "none" /\ ~reinit_required /\ code = "None"
          /\ UNCHANGED <<epoch, next_seq, ongoing, flags>>
    /\ send' = [send EXCEPT ![r].pc = IF code = "None" THEN Settled ELSE "refused"]
    /\ state' = StateAfter(code) /\ failed' = FailedAfter(code)
    /\ rpc' = [rpc EXCEPT ![r] = NoRpc]
    /\ UNCHANGED <<tv, pending, txn_partitions, call, net, broker, history,
                   faults>>

-----------------------------------------------------------------------------
(* Transactions and their sends. *)

begin ==
    /\ state = "Ready" /\ call.op = "none"
    /\ ongoing # -1 => told[txn] # "nothing"
    /\ txn < MaxTxns
    /\ txn' = txn + 1
    /\ state' = "Open" /\ failed' = FALSE
    /\ UNCHANGED <<tv, pending, epoch, ongoing, flags, txn_partitions, call, send,
                   next_seq, rpc, net, broker, asked, told, stored, decided, faults>>

(* A disciplined application awaits its `enqueue` calls before it ends the *)
(* transaction, and after an abort that failed only aborts again.          *)
MayEnd == Disciplined => \A r \in Records : send[r].pc \notin Entering
MayContinue == Disciplined => "abort" \notin asked[txn]

(* `enqueue`: check_open, then `ensure_reinitialised`, which only yields   *)
(* when there is a bump to make.                                           *)
enqueue(r, p) ==
    /\ send[r].pc = "idle" /\ \A s \in 1..(r - 1) : send[s].pc # "idle"
    /\ state = "Open" /\ ~failed /\ MayContinue
    /\ send' = [send EXCEPT ![r] = [NoSend EXCEPT !.part = p,
                  !.pc = IF reinit_required THEN "reinit" ELSE Settled]]
    /\ UNCHANGED <<tv, gate, epoch, ongoing, flags, txn_partitions, call, next_seq,
                   rpc, net, broker, history, faults>>

(* `add_partition_to_txn_if_needed`: begin_add.  A send that finds the add *)
(* pending waits for it.                                                   *)
BeginAdd(r) ==
    LET p == send[r].part IN
    /\ send[r].pc = "register" /\ rpc[r].kind = "none"
    /\ \/ /\ txn_partitions[p] = "added"
          /\ send' = [send EXCEPT ![r].pc = "admit"]
          /\ UNCHANGED <<txn_partitions, rpc>>
       \/ /\ txn_partitions[p] = "failed"
          /\ send' = [send EXCEPT ![r].pc = "refused"]
          /\ UNCHANGED <<txn_partitions, rpc>>
       \/ /\ txn_partitions[p] = "absent"
          /\ txn_partitions' = [txn_partitions EXCEPT ![p] = "pending"]
          /\ rpc' = [rpc EXCEPT ![r] = Rpc("Add")]
          /\ UNCHANGED send
    /\ UNCHANGED <<tv, gate, epoch, ongoing, flags, call, next_seq, net, broker,
                   history, faults>>

(* What an add leaves: confirmed, cancelled so that another send repeats   *)
(* it, or failed for the rest of the transaction.                          *)
AddResult(code) ==
    CASE code = "None" -> "added"
      [] code = "Timeout" -> "absent"
      [] OTHER -> "failed"

AddEnds(r, code) ==
    /\ rpc[r].kind = "Add" /\ code \in Results(r)
    /\ txn_partitions' = [txn_partitions EXCEPT ![send[r].part] = AddResult(code)]
    /\ send' = [send EXCEPT ![r].pc = IF code = "None" THEN "admit" ELSE "refused"]
    /\ state' = StateAfter(code) /\ failed' = FailedAfter(code)
    /\ rpc' = [rpc EXCEPT ![r] = NoRpc]
    /\ UNCHANGED <<tv, pending, epoch, ongoing, flags, call, next_seq, net, broker,
                   history, faults>>

(* `admit`: the ticket is taken when the record is queued, and the record  *)
(* belongs to whatever transaction is open at that moment.                 *)
admit(r) ==
    /\ send[r].pc = "admit"
    /\ IF state = "Open" /\ ~failed
       THEN /\ send' = [send EXCEPT ![r].pc = "queued", ![r].txn = txn]
            /\ pending' = pending + 1
       ELSE /\ send' = [send EXCEPT ![r].pc = "refused"]
            /\ UNCHANGED pending
    /\ UNCHANGED <<tv, state, failed, epoch, ongoing, flags, txn_partitions, call,
                   next_seq, rpc, net, broker, history, faults>>

(* The application drops `enqueue`: nothing was queued; the add it owned   *)
(* is rolled back (PendingAddGuard).                                       *)
DropEnqueue(r) ==
    /\ Fault
    /\ send[r].pc \in Entering
    /\ send' = [send EXCEPT ![r].pc = "refused"]
    /\ txn_partitions' = IF rpc[r].kind = "Add"
                         THEN [txn_partitions EXCEPT ![send[r].part] = "absent"]
                         ELSE txn_partitions
    /\ rpc' = [rpc EXCEPT ![r] = NoRpc]
    /\ Abandon(r)
    /\ UNCHANGED <<tv, gate, epoch, ongoing, flags, call, next_seq, broker,
                   history>>

(* The engine sends a partition's records one at a time, in order, and     *)
(* stamps a record with the identity of the moment; a retry keeps it.      *)
Produce(r) ==
    LET p == send[r].part
        stamp == IF send[r].pc = "queued"
                 THEN [epoch |-> epoch, seq |-> next_seq[p]]
                 ELSE [epoch |-> send[r].epoch, seq |-> send[r].seq]
    IN /\ send[r].pc \in {"queued", "retry"}
       /\ \A s \in Records : send[s].part = p /\ send[s].pc \in Live /\ s # r =>
            s > r /\ send[s].pc = "queued"
       /\ send' = [send EXCEPT ![r].pc = "sent", ![r].epoch = stamp.epoch,
                               ![r].seq = stamp.seq]
       /\ next_seq' = IF send[r].pc = "queued"
                      THEN [next_seq EXCEPT ![p] = @ + 1] ELSE next_seq
       /\ net' = net \cup {[kind |-> "Produce", owner |-> r, awaited |-> TRUE,
                            epoch |-> stamp.epoch, commit |-> FALSE, seq |-> stamp.seq]}
       /\ UNCHANGED <<tv, gate, epoch, ongoing, flags, txn_partitions, call, rpc,
                      broker, history, faults>>

(* `TxnTicket::complete` for the sends S, all with the same result.  A     *)
(* stamped record that fails inside an abort that owes no bump is told     *)
(* apart ("cut"): its sequence range is spent and its epoch goes on.       *)
Cut(r) == call.op = "abort" /\ ~call.send_failed /\ send[r].epoch # -1
Resolved(S, ok) ==
    /\ send' = [s \in Records |->
                  IF s \notin S THEN send[s]
                  ELSE [send[s] EXCEPT !.pc = IF ok THEN "ok"
                                              ELSE IF Cut(s) THEN "cut" ELSE "failed"]]
    /\ failed' = (failed \/ (~ok /\ S # {}))
    /\ rpc' = [o \in Owners |-> IF o \in S THEN NoRpc ELSE rpc[o]]
(* Mutant: a failed send keeps its ticket. *)
Resolve_leak(S, ok) == Resolved(S, ok) /\ pending' = IF ok THEN pending - Cardinality(S) ELSE pending
Resolve(S, ok) == Resolved(S, ok) /\ pending' = pending - Cardinality(S)

(* A stamped record waits for its retry: no answer, or a retriable one. *)
ProduceRetries(r) ==
    /\ send[r].pc = "sent"
    /\ IF IsRetriable(rpc[r].reply.code) THEN UNCHANGED faults ELSE Fault
    /\ send' = [send EXCEPT ![r].pc = "retry"]
    /\ Abandon(r)
    /\ rpc' = [rpc EXCEPT ![r] = NoRpc]
    /\ UNCHANGED <<tv, gate, epoch, ongoing, flags, txn_partitions, call, next_seq,
                   broker, history>>

(* The leader's answer.  Under TV1 a fenced epoch ends the producer, and   *)
(* with it every record not on the wire (`fatal`).                         *)
ProduceAnswered(r) ==
    LET code == rpc[r].reply.code
        fatal == IF IsV2 THEN code = "InvalidProducerIdMapping"
                 ELSE code = "InvalidProducerEpoch"
    IN /\ send[r].pc = "sent" /\ code \notin {"pending", "ConcurrentTransactions"}
       /\ Resolve({r} \cup (IF fatal THEN {s \in Records : send[s].pc \in {"queued", "retry"}}
                            ELSE {}),
                  code = "None")
       /\ state' = IF fatal THEN "Fatal" ELSE state
       /\ UNCHANGED <<tv, epoch, ongoing, flags, txn_partitions, call, next_seq, net,
                      broker, history, faults>>

(* delivery.timeout.ms passes for a record that is not on the wire.  One   *)
(* on the wire is answered at its deadline too and keeps its partition's   *)
(* slot until its request fails: here ProduceRetries, then this.           *)
ProduceExpires(r) ==
    /\ send[r].pc \in {"queued", "retry"} /\ Fault
    /\ Resolve({r}, FALSE)
    /\ UNCHANGED <<tv, state, epoch, ongoing, flags, txn_partitions, call, next_seq,
                   net, broker, history>>

-----------------------------------------------------------------------------
(* Ending a transaction. *)

Ask(op) == asked' = [asked EXCEPT ![txn] = @ \cup {op}]

commit ==
    /\ call.op = "none"
    /\ state \in {"Open", "Prepared", "CommitUnknown"}
    /\ state = "Open" => ~failed
    /\ MayContinue /\ MayEnd
    /\ TwoPhase => state # "Open" /\ stored = epoch
    /\ call' = [NoCall EXCEPT !.op = "commit", !.entered = state,
                  !.phase = IF state = "CommitUnknown" THEN "send" ELSE "drain"]
    /\ rpc' = IF state = "CommitUnknown" THEN [rpc EXCEPT ![TheCall] = Rpc("End")] ELSE rpc
    /\ state' = "Committing"
    /\ Ask("commit")
    /\ UNCHANGED <<tv, pending, failed, epoch, ongoing, flags, txn_partitions, send,
                   next_seq, net, broker, txn, told, stored, decided, faults>>

(* Whether an abort owes an epoch bump is read before the records it fails *)
(* are failed.                                                             *)
SendFailed == failed

abort ==
    /\ call.op = "none"
    /\ state \in {"Open", "Prepared"}
    /\ TwoPhase => ~(stored = epoch)
    /\ MayEnd
    /\ call' = [NoCall EXCEPT !.op = "abort", !.entered = state, !.phase = "unsent",
                              !.send_failed = SendFailed]
    /\ state' = "Aborting"
    /\ Ask("abort")
    /\ UNCHANGED <<tv, pending, failed, epoch, ongoing, flags, txn_partitions, send,
                   next_seq, rpc, net, broker, txn, told, stored, decided, faults>>

(* `fail_unsent`: the engine fails every record that is not on the wire,   *)
(* the ones waiting for a retry included.                                  *)
fail_unsent ==
    /\ call.phase = "unsent"
    /\ Resolve({r \in Records : send[r].pc \in {"queued", "retry"}}, FALSE)
    /\ call' = [call EXCEPT !.phase = "drain"]
    /\ UNCHANGED <<tv, state, epoch, ongoing, flags, txn_partitions, next_seq, net,
                   broker, history, faults>>

prepare ==
    /\ TwoPhase /\ call.op = "none" /\ state = "Open" /\ ~failed /\ MayContinue /\ MayEnd
    /\ state' = "Prepared"
    /\ call' = [NoCall EXCEPT !.op = "prepare", !.phase = "drain"]
    /\ UNCHANGED <<tv, pending, failed, epoch, ongoing, flags, txn_partitions, send,
                   next_seq, rpc, net, broker, history, faults>>

(* `transition`: the call's own state is left only if it still stands. *)
Back(to) == IF state \in {"Committing", "Aborting"} THEN to ELSE state

(* `TxnGate::drained`. *)
(* Mutant: it counts the records that are not on the wire. *)
drained_early == \A r \in Records : send[r].pc \notin {"queued", "retry"}
drained == pending = 0

(* `drained` returns and the call goes on: a commit with a failure in it   *)
(* returns to where it was.                                                *)
Drained ==
    /\ call.phase = "drain" /\ drained
    /\ asked' = IF call.op = "prepare" /\ ~failed
                THEN [asked EXCEPT ![txn] = @ \cup {"prepared"}] ELSE asked
    /\ CASE call.op = "prepare" ->
              /\ state' = IF failed /\ state = "Prepared" THEN "Open" ELSE state
              /\ call' = NoCall /\ rpc' = rpc
         [] call.op = "commit" /\ failed ->
              /\ state' = Back(call.entered)
              /\ call' = NoCall /\ rpc' = rpc
         [] call.op = "commit" /\ ~failed /\ reinit_required ->
              /\ call' = [call EXCEPT !.phase = "reinit"]
              /\ UNCHANGED <<state, rpc>>
         [] OTHER ->
              /\ call' = [call EXCEPT !.phase = "send"]
              /\ rpc' = [rpc EXCEPT ![TheCall] = Rpc("End")]
              /\ UNCHANGED state
    /\ UNCHANGED <<tv, pending, failed, epoch, ongoing, flags, txn_partitions, send,
                   next_seq, net, broker, txn, told, stored, decided, faults>>

(* The bump before a commit's EndTxn. *)
CommitReinitEnds(code) ==
    /\ call.phase = "reinit"
    /\ \/ /\ rpc[TheCall].kind = "Init" /\ code \in Results(TheCall)
          /\ InitAnswered(TheCall, code)
       \/ /\ rpc[TheCall].kind = "none" /\ ~reinit_required /\ code = "None"
          /\ UNCHANGED <<epoch, next_seq, ongoing, flags>>
    /\ failed' = FailedAfter(code)
    /\ IF code = "None"
       THEN /\ call' = [call EXCEPT !.phase = "send"]
            /\ rpc' = [rpc EXCEPT ![TheCall] = Rpc("End")]
            /\ UNCHANGED state
       ELSE /\ call' = NoCall
            /\ rpc' = [rpc EXCEPT ![TheCall] = NoRpc]
            /\ state' = IF IsFatal(code) THEN "Fatal" ELSE Back(call.entered)
    /\ UNCHANGED <<tv, pending, txn_partitions, send, net, broker, history,
                   faults>>

Outcome(op) == IF op = "commit" THEN "committed" ELSE "aborted"

(* What a successful call leaves to do under TV1 (`finish_transaction`). *)
needs_bump(unanswered) == ~IsV2 /\ (unanswered \/ call.send_failed)

(* EndTxn succeeded.  Under TV2 the answer's epoch is adopted. *)
EndSucceeds ==
    LET unanswered == end_txn_unanswered \/ call.unanswered IN
    /\ call.phase = "send" /\ "None" \in Results(TheCall)
    /\ IF IsV2 THEN Adopt(rpc[TheCall].reply.epoch) ELSE UNCHANGED <<epoch, next_seq>>
    /\ end_txn_unanswered' = unanswered
    /\ txn_partitions' = [p \in Partitions |-> "absent"]
    /\ rpc' = [rpc EXCEPT ![TheCall] = NoRpc]
    /\ IF needs_bump(unanswered)
       THEN /\ reinit_required' = TRUE
            /\ call' = [call EXCEPT !.phase = "finish"]
            /\ UNCHANGED <<state, told>>
       ELSE /\ state' = "Ready"
            /\ call' = NoCall
            /\ told' = [told EXCEPT ![txn] = Outcome(call.op)]
            /\ UNCHANGED reinit_required
    /\ UNCHANGED <<tv, pending, failed, ongoing, send, net, broker, txn, asked, stored, decided,
                   faults>>

(* `finish_transaction` after the bump, whatever came of it. *)
FinishEnds(code) ==
    /\ call.phase = "finish"
    /\ \/ /\ rpc[TheCall].kind = "Init" /\ code \in Results(TheCall)
          /\ InitAnswered(TheCall, code)
       \/ /\ rpc[TheCall].kind = "none" /\ ~reinit_required /\ code = "None"
          /\ UNCHANGED <<epoch, next_seq, ongoing, flags>>
    /\ failed' = FailedAfter(code)
    /\ state' = "Ready"
    /\ call' = NoCall
    /\ rpc' = [rpc EXCEPT ![TheCall] = NoRpc]
    /\ told' = [told EXCEPT ![txn] = Outcome(call.op)]
    /\ UNCHANGED <<tv, pending, txn_partitions, send, net, broker, txn, asked, stored, decided,
                   faults>>

(* Where a failed EndTxn leaves the producer: a commit that may have been  *)
(* applied can only be committed again.                                    *)
(* Mutant: it is as if nothing had been sent. *)
AfterFailure_entered == call.entered
AfterFailure ==
    IF call.op = "commit" /\ (call.unanswered \/ call.entered = "CommitUnknown")
    THEN "CommitUnknown" ELSE call.entered

EndFails(code) ==
    /\ call.phase = "send" /\ code \in Results(TheCall) \ {"None"}
    /\ end_txn_unanswered' = (end_txn_unanswered \/ call.unanswered)
    /\ failed' = FailedAfter(code)
    /\ state' = IF IsFatal(code) THEN "Fatal" ELSE Back(AfterFailure)
    /\ call' = NoCall
    /\ rpc' = [rpc EXCEPT ![TheCall] = NoRpc]
    /\ UNCHANGED <<tv, pending, epoch, ongoing, reinit_required, txn_partitions, send,
                   next_seq, net, broker, history, faults>>

(* The application drops commit() or abort(): `Ending` leaves a state to   *)
(* continue from.  A dropped prepare() stays prepared.                     *)
DropCall ==
    /\ Fault
    /\ call.op \in {"prepare", "commit", "abort"}
    /\ end_txn_unanswered' = (end_txn_unanswered \/ call.phase = "send")
    /\ IF call.phase = "finish"
       THEN /\ reinit_required' = TRUE
            /\ txn_partitions' = [p \in Partitions |-> "absent"]
       ELSE UNCHANGED <<reinit_required, txn_partitions>>
    /\ state' = IF call.phase = "finish" THEN Back("Ready")
                ELSE IF call.phase = "send" /\ call.op = "commit" THEN Back("CommitUnknown")
                ELSE Back(call.entered)
    /\ call' = NoCall
    /\ rpc' = [rpc EXCEPT ![TheCall] = NoRpc]
    /\ Abandon(TheCall)
    /\ UNCHANGED <<tv, pending, failed, epoch, ongoing, send, next_seq, broker,
                   history>>

-----------------------------------------------------------------------------
(* Two-phase commit (KIP-939). *)

(* The application stores the state prepare() returned: from here on the   *)
(* external transaction commits.                                           *)
Store ==
    /\ TwoPhase /\ state = "Prepared" /\ call.op = "none"
    /\ stored # epoch /\ "prepared" \in asked[txn] /\ "abort" \notin asked[txn]
    /\ stored' = epoch /\ decided' = decided \cup {txn}
    /\ UNCHANGED <<tv, gate, epoch, ongoing, flags, txn_partitions, call, send,
                   next_seq, rpc, net, broker, txn, asked, told, faults>>

(* Is the transaction that was recovered the one whose state was stored? *)
(* Mutant: any stored state will do. *)
Matches_any == stored # -1
Matches == stored = ongoing

(* `complete`: the recovered transaction is adopted, then committed if it  *)
(* is the stored one and aborted if not.                                   *)
complete ==
    /\ call.op = "none" /\ state = "Ready" /\ ongoing # -1 /\ told[txn] = "nothing"
    /\ epoch' = ongoing
    /\ LET op == IF Matches THEN "commit" ELSE "abort" IN
       /\ call' = [NoCall EXCEPT !.op = op, !.entered = "Prepared",
                                 !.phase = IF op = "commit" THEN "drain" ELSE "unsent",
                                 !.send_failed = SendFailed]
       /\ state' = IF op = "commit" THEN "Committing" ELSE "Aborting"
       /\ Ask(op)
    /\ UNCHANGED <<tv, pending, failed, ongoing, flags, txn_partitions, send, next_seq,
                   rpc, net, broker, txn, told, stored, decided, faults>>

-----------------------------------------------------------------------------
(* The brokers, the network and the process. *)

(* The answer reaches its owner only if it still waits for this attempt. *)
Answer(m, done) ==
    rpc' = IF m.awaited
           THEN [rpc EXCEPT ![m.owner].reply =
                   [code |-> done.code, epoch |-> done.epoch, ongoing |-> done.ongoing]]
           ELSE rpc

HandleRequest(m) ==
    /\ m \in net /\ m.kind # "Produce"
    /\ net' = net \ {m}
    /\ LET done ==
             CASE m.kind = "Init" ->
                    init_transactional_producer(coord, m.epoch, TwoPhase)
               [] m.kind = "Add" ->
                    add_partitions_to_txn(coord, m.epoch, send[m.owner].part)
               [] m.kind = "End" -> end_txn_outcome(coord, m.epoch, m.commit, IsV2)
       IN /\ coord' = done.txn
          /\ fenced' = (fenced \/ (m.kind = "Init" /\ ~m.awaited /\ coord' # coord))
          /\ Answer(m, done)
    /\ UNCHANGED <<tv, gate, epoch, ongoing, flags, txn_partitions, call, send,
                   next_seq, leaders, fate, history, faults>>

HandleProduce(m) ==
    LET r == m.owner
        p == send[r].part
        code == append_produce_partition(coord, leaders[p], m.epoch, p, m.seq, IsV2)
    IN /\ m \in net /\ m.kind = "Produce"
       /\ net' = net \ {m}
       /\ IF code = "Append"
          THEN /\ leaders' = [leaders EXCEPT ![p] = record_batch(m.epoch, m.seq)]
               /\ fate' = [fate EXCEPT ![r] = "open"]
               /\ coord' = Join(coord, p)
               /\ UNCHANGED fenced
          ELSE UNCHANGED broker
       /\ Answer(m, Refused(coord, IF code \in {"Append", "Duplicate"} THEN "None" ELSE code))
       /\ UNCHANGED <<tv, gate, epoch, ongoing, flags, txn_partitions, call, send,
                      next_seq, history, faults>>

(* `write_transaction_markers`: what is open in the transaction's          *)
(* partitions is settled.                                                  *)
write_transaction_markers ==
    /\ coord.status \in Preparing
    /\ LET commits == coord.status = "PrepareCommit" IN
       /\ coord' = [coord EXCEPT !.status = IF commits THEN "CompleteCommit" ELSE "CompleteAbort",
                                 !.parts = {}]
       /\ fate' = [r \in Records |->
                     IF fate[r] = "open" /\ send[r].part \in coord.parts
                     THEN IF commits THEN "committed" ELSE "aborted" ELSE fate[r]]
    /\ leaders' = [p \in Partitions |-> IF p \in coord.parts
                                        THEN append_marker(leaders[p], coord.epoch)
                                        ELSE leaders[p]]
    /\ UNCHANGED <<tv, gate, epoch, ongoing, flags, txn_partitions, call, send,
                   next_seq, rpc, net, fenced, history, faults>>

(* transaction.timeout.ms passes at the coordinator; a producer with two-  *)
(* phase commit has none.                                                  *)
TimeOut ==
    /\ Fault
    /\ ~TwoPhase /\ coord.status = "Ongoing"
    /\ coord' = fence_transaction(coord)
    /\ fenced' = TRUE
    /\ UNCHANGED <<tv, gate, epoch, ongoing, flags, txn_partitions, call, send,
                   next_seq, rpc, net, leaders, fate, history>>

(* The process dies; what it wrote may still arrive. *)
Crash ==
    /\ Fault
    /\ state # "Uninitialized"
    /\ state' = "Uninitialized" /\ pending' = 0 /\ failed' = FALSE
    /\ epoch' = -1 /\ ongoing' = -1
    /\ end_txn_unanswered' = FALSE /\ reinit_required' = FALSE
    /\ txn_partitions' = [p \in Partitions |-> "absent"]
    /\ call' = NoCall
    /\ send' = [r \in Records |-> IF send[r].pc \in Live \cup Entering
                                  THEN [send[r] EXCEPT !.pc = "lost"] ELSE send[r]]
    /\ next_seq' = [p \in Partitions |-> 0]
    /\ rpc' = [o \in Owners |-> NoRpc]
    /\ net' = {[m EXCEPT !.awaited = FALSE] : m \in net}
    /\ fenced' = TRUE
    /\ UNCHANGED <<tv, coord, leaders, fate, history>>

Brokers ==
    \/ \E m \in net : HandleRequest(m) \/ HandleProduce(m)
    \/ write_transaction_markers \/ TimeOut

Codes == {"None", "Timeout", "ProducerFenced", "InvalidTxnState", "InvalidProducerIdMapping"}

Sending ==
    \/ \E r \in Records :
         \/ \E p \in Partitions : enqueue(r, p)
         \/ BeginAdd(r) \/ admit(r) \/ DropEnqueue(r) \/ Produce(r)
         \/ ProduceRetries(r) \/ ProduceAnswered(r) \/ ProduceExpires(r)
         \/ \E c \in Codes : SendReinitEnds(r, c) \/ AddEnds(r, c)

Calling ==
    \/ init_transactions \/ begin \/ commit \/ abort \/ fail_unsent \/ prepare
    \/ Drained \/ EndSucceeds \/ DropCall \/ Store \/ complete
    \/ \E c \in Codes : InitEnds(c) \/ CommitReinitEnds(c) \/ FinishEnds(c) \/ EndFails(c)

Rpcs == \E o \in Owners : Attempt(o) \/ NoAnswer(o) \/ RetryRpc(o) \/ StartReinit(o)

Next == Sending \/ Calling \/ Rpcs \/ Brokers \/ Crash

Spec == Init /\ [][Next]_vars

-----------------------------------------------------------------------------

Of(t) == {r \in Records : send[r].txn = t}

(* The commit's drain waits for exactly the sends that hold a ticket       *)
(* (TxnGate::admit, resolve): none is forgotten and none counted twice.    *)
PendingExact == pending = Cardinality({r \in Records : send[r].pc \in Live})

(* A committed transaction is whole: once commit() has returned Ok, every  *)
(* record it acknowledged is committed, or is about to be.                 *)
CommitIsWhole ==
    \A t \in Txns : told[t] = "committed" =>
        \A r \in Of(t) :
            \/ fate[r] = "committed"
            \/ fate[r] = "open" /\ coord.status = "PrepareCommit"

(* No record becomes visible unless its own transaction was committed,     *)
(* however late its requests and the transaction's are handled.  Under TV1 *)
(* a record an abort cut off after it was stamped is the exception: see    *)
(* AbortIsFinal.                                                           *)
CommittedOnRequest ==
    \A r \in Records :
        fate[r] = "committed" /\ (IsV2 \/ send[r].pc # "cut") =>
            "commit" \in asked[send[r].txn]

(* Once abort() has returned Ok, nothing of the transaction is ever        *)
(* committed ("no aborted read").                                          *)
AbortIsFinal ==
    \A t \in Txns : told[t] = "aborted" => \A r \in Of(t) : fate[r] # "committed"

(* Of one transaction no two records meet different ends (KAFKA-17754).    *)
NoTornTransaction ==
    \A r, s \in Records :
        /\ send[r].txn = send[s].txn
        /\ IsV2 \/ (send[r].pc # "cut" /\ send[s].pc # "cut")
        => ~(fate[r] = "committed" /\ fate[s] = "aborted")

(* Lost and late answers alone never end the producer: it becomes Fatal    *)
(* only when the coordinator has given its place away, or when it ends a   *)
(* transaction of which no record was acknowledged.                        *)
FatalIsEarned ==
    [][state' = "Fatal" /\ state # "Fatal" =>
         fenced \/ \A r \in Of(txn) : send[r].pc # "ok"]_vars

(* The external coordinator's word stands over a crash: what was stored as *)
(* prepared is never aborted, what was not is never committed (KIP-939).   *)
StoredDecides ==
    TwoPhase => \A r \in Records :
        /\ fate[r] = "committed" => send[r].txn \in decided
        /\ fate[r] = "aborted" => send[r].txn \notin decided

(* A transaction ends as its producer asked, as a whole: nothing is        *)
(* committed unasked, nothing is torn, and a stored decision stands.       *)
EndsAsAsked == TypeOK /\ CommittedOnRequest /\ NoTornTransaction /\ StoredDecides
=============================================================================
