------------------------- MODULE TransactionsProofs --------------------------
(***************************************************************************)
(* The transactional producer's gate (gate.rs), for any numbers of         *)
(* records, transactions, epochs and faults: its count of pending sends is *)
(* exact, and what waits for it to drain ends a transaction no send of     *)
(* which is still under way.                                               *)
(***************************************************************************)
EXTENDS Transactions, FiniteSetTheorems, TLAPS

(* The gate's states, and a call's. *)
States == {"Uninitialized", "Initializing", "Ready", "Open", "Prepared", "Committing",
           "Aborting", "CommitUnknown", "Fatal"}
Calls == [op : {"none", "init", "prepare", "commit", "abort"}, entered : States,
          phase : {"none", "init", "unsent", "drain", "reinit", "send", "finish"},
          send_failed : BOOLEAN, unanswered : BOOLEAN]

(* Sends and RPCs are the records they were made as; what an answer says in *)
(* them is left open.                                                       *)
IsSend(s) == s = [pc |-> s.pc, part |-> s.part, txn |-> s.txn, epoch |-> s.epoch, seq |-> s.seq]
IsRpc(c) == c = [kind |-> c.kind, sent |-> c.sent, reply |-> c.reply]

SendShape == send = [r \in Records |-> send[r]] /\ \A r \in Records : IsSend(send[r])
RpcShape == rpc = [o \in Owners |-> rpc[o]] /\ \A o \in Owners : IsRpc(rpc[o])
GateShape == call \in Calls /\ state \in States /\ failed \in BOOLEAN

(* Only a send that registers its partition has an add under way. *)
Adding == \A r \in Records : rpc[r].kind = "Add" => send[r].pc = "register"

Ticketed == {r \in Records : send[r].pc \in Live}

(* Once the call has drained, and while a commit is in doubt, no send holds *)
(* a ticket; and none gets one, because the gate is not open.               *)
PastDrain == {"reinit", "send", "finish"}
Emptied == call.phase \in PastDrain \/ call.entered = "CommitUnknown" \/ state = "CommitUnknown"
Closing ==
    /\ call.op \in {"commit", "abort"} => state \in {"Committing", "Aborting", "Fatal"}
    /\ call.phase \in {"unsent"} \cup PastDrain \/ call.entered = "CommitUnknown"
         => call.op \in {"commit", "abort"}
    /\ call.phase = "drain" => call.op \in {"prepare", "commit", "abort"}
    /\ Emptied => pending = 0

Counted == pending = Cardinality(Ticketed)

TInv == SendShape /\ RpcShape /\ GateShape /\ Adding /\ Closing /\ Counted

-----------------------------------------------------------------------------
(* Records and their fields. *)

(* A send goes to another place. *)
LEMMA SendGoes ==
    ASSUME SendShape, NEW r \in Records, NEW v, send' = [send EXCEPT ![r].pc = v]
    PROVE  SendShape' /\ \A s \in Records : send'[s].pc = IF s = r THEN v ELSE send[s].pc
<1>1. PICK new : new = [send[r] EXCEPT !.pc = v] OBVIOUS
<1>2. send' = [send EXCEPT ![r] = new] BY <1>1
<1>3. send[r] = [pc |-> send[r].pc, part |-> send[r].part, txn |-> send[r].txn,
                 epoch |-> send[r].epoch, seq |-> send[r].seq]
  BY DEF SendShape, IsSend
<1>4. new = [pc |-> v, part |-> send[r].part, txn |-> send[r].txn,
             epoch |-> send[r].epoch, seq |-> send[r].seq]
  BY <1>1, <1>3
<1>5. new.pc = v /\ IsSend(new) BY <1>4 DEF IsSend
<1>6. /\ send' = [s \in Records |-> send'[s]]
      /\ \A s \in Records : send'[s] = IF s = r THEN new ELSE send[s]
  BY <1>2 DEF SendShape
<1> QED BY <1>5, <1>6 DEF SendShape

(* An RPC is begun or over. *)
LEMMA RpcSet ==
    ASSUME RpcShape, NEW o \in Owners, NEW c, IsRpc(c), rpc' = [rpc EXCEPT ![o] = c]
    PROVE  /\ RpcShape' /\ rpc'[o].kind = c.kind
           /\ \A p \in Owners \ {o} : rpc'[p].kind = rpc[p].kind
<1>1. /\ rpc' = [p \in Owners |-> rpc'[p]]
      /\ \A p \in Owners : rpc'[p] = IF p = o THEN c ELSE rpc[p]
  BY DEF RpcShape
<1> QED BY <1>1 DEF RpcShape

LEMMA RpcForms ==
    ASSUME NEW k PROVE IsRpc(Rpc(k)) /\ Rpc(k).kind = k
<1>1. PICK f : f = FALSE OBVIOUS
<1>2. NoRpc = [kind |-> "none", sent |-> f, reply |-> NoReply] BY <1>1, Zenon DEF NoRpc
<1>3. [NoRpc EXCEPT !.kind = k] = [kind |-> k, sent |-> f, reply |-> NoReply] BY <1>2
<1>4. Rpc(k) = [kind |-> k, sent |-> f, reply |-> NoReply] BY <1>3 DEF Rpc
<1> QED BY <1>4 DEF IsRpc

LEMMA NoRpcForm == IsRpc(NoRpc) /\ NoRpc.kind = "none"
BY DEF IsRpc, NoRpc

(* Its attempts and answers leave it what it is. *)
LEMMA RpcFields ==
    ASSUME RpcShape, NEW o, NEW x, NEW y,
           \/ rpc' = [rpc EXCEPT ![o].reply = y]
           \/ rpc' = [rpc EXCEPT ![o].sent = x]
           \/ rpc' = [rpc EXCEPT ![o].sent = x, ![o].reply = y]
    PROVE  RpcShape' /\ \A p \in Owners : rpc'[p].kind = rpc[p].kind
<1>1. CASE o \in Owners
  <2>1. rpc[o] = [kind |-> rpc[o].kind, sent |-> rpc[o].sent, reply |-> rpc[o].reply]
    BY <1>1 DEF RpcShape, IsRpc
  <2>2. \E s, t : rpc' = [rpc EXCEPT ![o] = [kind |-> rpc[o].kind, sent |-> s, reply |-> t]]
    <3>1. CASE rpc' = [rpc EXCEPT ![o].sent = x]
      <4>1. [rpc[o] EXCEPT !.sent = x] = [kind |-> rpc[o].kind, sent |-> x, reply |-> rpc[o].reply]
        BY <2>1
      <4> QED BY <3>1, <4>1, Zenon
    <3>2. CASE rpc' = [rpc EXCEPT ![o].reply = y]
      <4>1. [rpc[o] EXCEPT !.reply = y] = [kind |-> rpc[o].kind, sent |-> rpc[o].sent, reply |-> y]
        BY <2>1
      <4> QED BY <3>2, <4>1, Zenon
    <3>3. CASE rpc' = [rpc EXCEPT ![o].sent = x, ![o].reply = y]
      <4>1. PICK one : one = [rpc[o] EXCEPT !.sent = x] OBVIOUS
      <4>2. one = [kind |-> rpc[o].kind, sent |-> x, reply |-> rpc[o].reply] BY <2>1, <4>1
      <4>3. PICK two : two = [one EXCEPT !.reply = y] OBVIOUS
      <4>4. two = [kind |-> rpc[o].kind, sent |-> x, reply |-> y] BY <4>2, <4>3
      <4>5. PICK mid : mid = [rpc EXCEPT ![o].sent = x] OBVIOUS
      <4>6. mid = [rpc EXCEPT ![o] = one] BY <4>1, <4>5
      <4>7. rpc' = [mid EXCEPT ![o].reply = y] BY <3>3, <4>5, Zenon
      <4>8. mid[o] = one BY <1>1, <4>6 DEF RpcShape
      <4>9. rpc' = [mid EXCEPT ![o] = two] BY <4>3, <4>7, <4>8
      <4>10. rpc' = [rpc EXCEPT ![o] = two] BY <4>6, <4>9 DEF RpcShape
      <4> QED BY <4>4, <4>10, Zenon
    <3> QED BY <3>1, <3>2, <3>3
  <2>3. PICK s, t : rpc' = [rpc EXCEPT ![o] = [kind |-> rpc[o].kind, sent |-> s, reply |-> t]]
    BY <2>2
  <2>4. PICK c : c = [kind |-> rpc[o].kind, sent |-> s, reply |-> t] OBVIOUS
  <2>5. IsRpc(c) /\ c.kind = rpc[o].kind BY <2>4 DEF IsRpc
  <2>6. rpc' = [rpc EXCEPT ![o] = c] BY <2>3, <2>4
  <2>7. /\ RpcShape' /\ rpc'[o].kind = c.kind
        /\ \A p \in Owners \ {o} : rpc'[p].kind = rpc[p].kind
    BY <1>1, <2>5, <2>6, RpcSet, Zenon
  <2> QED BY <2>5, <2>7
<1>2. CASE o \notin Owners
  <2>1. rpc' = rpc BY <1>2 DEF RpcShape
  <2> QED BY <2>1 DEF RpcShape
<1> QED BY <1>1, <1>2

-----------------------------------------------------------------------------
(* Tickets. *)

LEMMA TicketsFinite == IsFiniteSet(Ticketed) /\ Cardinality(Ticketed) \in Nat
<1>1. MaxRecords \in Int BY TransactionsAssumption
<1>2. IsFiniteSet(Records) BY <1>1, FS_Interval DEF Records
<1>3. IsFiniteSet(Ticketed) BY <1>2, FS_Subset DEF Ticketed
<1> QED BY <1>3, FS_CardinalityType

(* Nobody waits exactly when nobody holds a ticket. *)
LEMMA NoTickets ==
    ASSUME Counted PROVE pending \in Nat /\ (pending = 0 <=> Ticketed = {})
BY TicketsFinite, FS_EmptySet DEF Counted

(* No ticket is taken or given back. *)
LEMMA TicketsKept ==
    ASSUME Counted, pending' = pending,
           \A r \in Records : send'[r].pc \in Live <=> send[r].pc \in Live
    PROVE  Counted'
<1>1. Ticketed' = Ticketed BY DEF Ticketed
<1> QED BY <1>1 DEF Counted

(* One is taken. *)
LEMMA TicketTaken ==
    ASSUME Counted, pending' = pending + 1, NEW r \in Records, send[r].pc \notin Live,
           \A s \in Records : send'[s].pc = IF s = r THEN "queued" ELSE send[s].pc
    PROVE  Counted'
<1>1. Ticketed' = Ticketed \cup {r} BY DEF Ticketed, Live
<1>2. r \notin Ticketed BY DEF Ticketed
<1> QED BY <1>1, <1>2, TicketsFinite, FS_AddElement DEF Counted

(* The holders S give theirs back. *)
LEMMA TicketsReturned ==
    ASSUME Counted, NEW S, S \subseteq Ticketed, pending' = pending - Cardinality(S),
           \A s \in S : send'[s].pc \notin Live,
           \A s \in Records \ S : send'[s].pc = send[s].pc
    PROVE  Counted'
<1>1. Ticketed' = Ticketed \ S BY DEF Ticketed
<1>2. IsFiniteSet(S) /\ Cardinality(S) \in Nat BY TicketsFinite, FS_Subset, FS_CardinalityType
<1>3. Cardinality(Ticketed \ S) = Cardinality(Ticketed) - Cardinality(Ticketed \cap S)
  BY TicketsFinite, FS_Difference
<1>4. Ticketed \cap S = S OBVIOUS
<1> QED BY <1>1, <1>3, <1>4 DEF Counted

-----------------------------------------------------------------------------
(* The call that ends a transaction. *)

(* A step of the call leaves sends and tickets alone, and begins or ends at *)
(* most its own RPC.                                                        *)
LEMMA CallKeeps ==
    ASSUME TInv, send' = send, pending' = pending, GateShape', Closing',
           rpc' = rpc \/ \E c : IsRpc(c) /\ rpc' = [rpc EXCEPT ![TheCall] = c]
    PROVE  TInv'
<1> USE DEF TInv
<1>1. SendShape' /\ Counted' BY TicketsKept DEF SendShape
<1>2. RpcShape' /\ \A r \in Records : rpc'[r].kind = rpc[r].kind
  <2>1. CASE rpc' = rpc BY <2>1 DEF RpcShape
  <2>2. ASSUME NEW c, IsRpc(c), rpc' = [rpc EXCEPT ![TheCall] = c]
        PROVE  RpcShape' /\ \A r \in Records : rpc'[r].kind = rpc[r].kind
    <3>1. TheCall \in Owners /\ TheCall \notin Records
      BY TransactionsAssumption DEF Owners, Records, TheCall
    <3>2. RpcShape' /\ \A p \in Owners \ {TheCall} : rpc'[p].kind = rpc[p].kind
      BY <2>2, <3>1, RpcSet, Zenon DEF TInv
    <3> QED BY <3>1, <3>2 DEF Owners
  <2> QED BY <2>1, <2>2
<1>3. Adding' BY <1>2 DEF Adding
<1> QED BY <1>1, <1>2, <1>3

(* What the call's own steps do to the gate. *)
LEMMA AfterCall ==
    ASSUME NEW code, GateShape
    PROVE  FailedAfter(code) \in BOOLEAN /\ StateAfter(code) \in States
BY DEF FailedAfter, IsAbortable, StateAfter, GateShape, States

LEMMA NoCallForm ==
    /\ NoCall \in Calls /\ NoCall.op = "none" /\ NoCall.phase = "none" /\ NoCall.entered = "Ready"
BY DEF NoCall, Calls, States

LEMMA BackForm ==
    ASSUME NEW to \in States, GateShape
    PROVE  Back(to) \in States /\ (Back(to) = "CommitUnknown" => to = "CommitUnknown" \/ state = "CommitUnknown")
BY DEF Back, GateShape

(* The call is over. *)
LEMMA CallOver ==
    ASSUME TInv, call' = NoCall, pending' = pending, state' \in States, failed' \in BOOLEAN,
           state' = "CommitUnknown" => pending = 0
    PROVE  GateShape' /\ Closing'
BY NoCallForm DEF GateShape, Closing, Emptied, PastDrain

LEMMA init_transactionsKeeps ==
    ASSUME TInv, init_transactions PROVE TInv'
<1>1. GateShape' /\ Closing'
  <2>1. /\ call' \in Calls
        /\ call'.op = "init" /\ call'.phase = "init" /\ call'.entered = "Ready"
    BY NoCallForm DEF init_transactions, Calls
  <2> QED BY <2>1 DEF init_transactions, TInv, GateShape, Closing, Emptied, PastDrain, Calls, States
<1> QED BY <1>1, CallKeeps, RpcForms DEF init_transactions

LEMMA InitEndsKeeps ==
    ASSUME TInv, NEW code, InitEnds(code) PROVE TInv'
<1>1. GateShape' /\ Closing'
  <2>1. state' \in States /\ state' # "CommitUnknown" BY DEF InitEnds, States
  <2>2. failed' \in BOOLEAN BY AfterCall DEF InitEnds, TInv
  <2> QED BY <2>1, <2>2, CallOver DEF InitEnds
<1> QED BY <1>1, CallKeeps, NoRpcForm DEF InitEnds

LEMMA beginKeeps ==
    ASSUME TInv, begin PROVE TInv'
<1>1. GateShape' /\ Closing'
  BY DEF begin, TInv, GateShape, Closing, Emptied, PastDrain, States
<1> QED BY <1>1, CallKeeps DEF begin

LEMMA commitKeeps ==
    ASSUME TInv, commit PROVE TInv'
<1>1. PICK ph : ph = IF state = "CommitUnknown" THEN "send" ELSE "drain" OBVIOUS
<1>2. /\ call' \in Calls
      /\ call'.op = "commit" /\ call'.phase = ph /\ call'.entered = state
  BY <1>1, NoCallForm DEF commit, Calls, TInv, GateShape
<1>3. GateShape'
  BY <1>1, <1>2 DEF commit, TInv, GateShape, Calls, States
<1>4. Closing'
  BY <1>1, <1>2 DEF commit, TInv, Closing, Emptied, PastDrain
<1> QED BY <1>3, <1>4, CallKeeps, RpcForms DEF commit

LEMMA abortKeeps ==
    ASSUME TInv, abort PROVE TInv'
<1>1. SendFailed \in BOOLEAN BY DEF SendFailed, TInv, GateShape
<1>2. /\ call' \in Calls
      /\ call'.op = "abort" /\ call'.phase = "unsent" /\ call'.entered = state
  BY <1>1, NoCallForm DEF abort, Calls, TInv, GateShape
<1>3. GateShape'
  BY <1>1, <1>2 DEF abort, TInv, GateShape, Calls, States
<1>4. Closing'
  BY <1>1, <1>2 DEF abort, TInv, Closing, Emptied, PastDrain
<1> QED BY <1>3, <1>4, CallKeeps DEF abort

LEMMA prepareKeeps ==
    ASSUME TInv, prepare PROVE TInv'
<1>1. /\ call' \in Calls
      /\ call'.op = "prepare" /\ call'.phase = "drain" /\ call'.entered = "Ready"
  BY NoCallForm DEF prepare, Calls
<1>2. GateShape' /\ Closing'
  BY <1>1 DEF prepare, TInv, GateShape, Calls, States, Closing, Emptied, PastDrain
<1> QED BY <1>2, CallKeeps DEF prepare

LEMMA completeKeeps ==
    ASSUME TInv, complete PROVE TInv'
<1>1. PICK op : op = IF Matches THEN "commit" ELSE "abort" OBVIOUS
<1>2. PICK ph : ph = IF op = "commit" THEN "drain" ELSE "unsent" OBVIOUS
<1>3. SendFailed \in BOOLEAN BY DEF SendFailed, TInv, GateShape
<1>4. /\ call' \in Calls
      /\ call'.op = op /\ call'.phase = ph /\ call'.entered = "Prepared"
  <2>1. call' = [NoCall EXCEPT !.op = op, !.entered = "Prepared", !.phase = ph,
                               !.send_failed = SendFailed]
    BY <1>1, <1>2, Zenon DEF complete
  <2> QED BY <1>1, <1>2, <1>3, <2>1, NoCallForm DEF Calls, States
<1>5. GateShape'
  BY <1>1, <1>2, <1>3, <1>4 DEF complete, TInv, GateShape, Calls, States
<1>6. Closing'
  BY <1>1, <1>2, <1>4 DEF complete, TInv, Closing, Emptied, PastDrain
<1> QED BY <1>5, <1>6, CallKeeps DEF complete

(* The call goes on to another phase. *)
LEMMA CallGoes ==
    ASSUME TInv, NEW ph \in {"drain", "reinit", "send", "finish"},
           call' = [call EXCEPT !.phase = ph],
           state' = state, failed' \in BOOLEAN, pending' \in Nat,
           pending = 0 => pending' = 0,
           call.op \in {"prepare", "commit", "abort"},
           ph # "drain" => pending = 0 /\ call.op \in {"commit", "abort"}
    PROVE  GateShape' /\ Closing'
<1>1. /\ call' \in Calls /\ call'.phase = ph
      /\ call'.op = call.op /\ call'.entered = call.entered
  BY DEF TInv, GateShape, Calls
<1>2. GateShape' BY <1>1 DEF TInv, GateShape
<1>3. Closing' BY <1>1 DEF TInv, Closing, Emptied, PastDrain
<1> QED BY <1>2, <1>3

LEMMA DrainedKeeps ==
    ASSUME TInv, Drained PROVE TInv'
<1> DEFINE Mine == rpc' = rpc \/ \E c : IsRpc(c) /\ rpc' = [rpc EXCEPT ![TheCall] = c]
<1>1. /\ pending = 0 /\ send' = send /\ pending' = pending /\ failed' = failed
      /\ call.phase = "drain"
  BY DEF Drained, drained
<1>2. state \in States /\ failed \in BOOLEAN /\ call.entered \in States
  BY DEF TInv, GateShape, Calls
<1>3. call.op \in {"none", "init", "prepare", "commit", "abort"} BY DEF TInv, GateShape, Calls
<1>4. CASE call.op = "prepare"
  <2>1. /\ state' = IF failed /\ state = "Prepared" THEN "Open" ELSE state
        /\ call' = NoCall /\ rpc' = rpc
    BY <1>4 DEF Drained
  <2>2. state' \in States BY <1>2, <2>1 DEF States
  <2>3. GateShape' /\ Closing' BY <1>1, <1>2, <2>1, <2>2, CallOver
  <2> QED BY <1>1, <2>1, <2>3, CallKeeps
<1>5. CASE call.op = "commit" /\ failed
  <2>1. state' = Back(call.entered) /\ call' = NoCall /\ rpc' = rpc
    BY <1>5 DEF Drained
  <2>2. state' \in States BY <1>2, <2>1, BackForm DEF TInv
  <2>3. GateShape' /\ Closing' BY <1>1, <1>2, <2>1, <2>2, CallOver
  <2> QED BY <1>1, <2>1, <2>3, CallKeeps
<1>6. CASE call.op = "commit" /\ ~failed /\ reinit_required
  <2>1. call' = [call EXCEPT !.phase = "reinit"] /\ state' = state /\ rpc' = rpc
    BY <1>6 DEF Drained
  <2>2. GateShape' /\ Closing' BY <1>1, <1>2, <1>6, <2>1, CallGoes
  <2> QED BY <1>1, <2>1, <2>2, CallKeeps
<1>7. CASE call.op = "abort" \/ (call.op = "commit" /\ ~failed /\ ~reinit_required)
  <2>1. /\ call' = [call EXCEPT !.phase = "send"] /\ state' = state
        /\ rpc' = [rpc EXCEPT ![TheCall] = Rpc("End")]
    BY <1>7 DEF Drained
  <2>2. GateShape' /\ Closing' BY <1>1, <1>2, <1>7, <2>1, CallGoes
  <2> QED BY <1>1, <2>1, <2>2, CallKeeps, RpcForms
<1>8. call.op \in {"prepare", "commit", "abort"}
  BY <1>1, <1>3 DEF TInv, Closing
<1> QED BY <1>4, <1>5, <1>6, <1>7, <1>8

(* How a call past its drain may leave the gate. *)
LEMMA PastDrainFacts ==
    ASSUME TInv, call.phase \in PastDrain
    PROVE  /\ pending = 0 /\ call.op \in {"commit", "abort"}
           /\ call.entered \in States /\ state \in States
BY DEF TInv, Closing, Emptied, GateShape, Calls

LEMMA CommitReinitEndsKeeps ==
    ASSUME TInv, NEW code, CommitReinitEnds(code) PROVE TInv'
<1>1. pending = 0 /\ call.op \in {"commit", "abort"} /\ call.entered \in States
  BY PastDrainFacts DEF CommitReinitEnds, PastDrain
<1>2. send' = send /\ pending' = pending /\ failed' \in BOOLEAN
  BY AfterCall DEF CommitReinitEnds, TInv
<1>3. CASE code = "None"
  <2>1. /\ call' = [call EXCEPT !.phase = "send"] /\ state' = state
        /\ rpc' = [rpc EXCEPT ![TheCall] = Rpc("End")]
    BY <1>3 DEF CommitReinitEnds
  <2>2. GateShape' /\ Closing' BY <1>1, <1>2, <2>1, CallGoes
  <2> QED BY <1>2, <2>1, <2>2, CallKeeps, RpcForms
<1>4. CASE code # "None"
  <2>1. /\ call' = NoCall /\ rpc' = [rpc EXCEPT ![TheCall] = NoRpc]
        /\ state' = IF IsFatal(code) THEN "Fatal" ELSE Back(call.entered)
    BY <1>4 DEF CommitReinitEnds
  <2>2. Back(call.entered) \in States BY <1>1, BackForm DEF TInv
  <2>3. state' \in States BY <2>1, <2>2 DEF States
  <2>4. GateShape' /\ Closing' BY <1>1, <1>2, <2>1, <2>3, CallOver
  <2> QED BY <1>2, <2>1, <2>4, CallKeeps, NoRpcForm
<1> QED BY <1>3, <1>4

LEMMA EndSucceedsKeeps ==
    ASSUME TInv, EndSucceeds PROVE TInv'
<1>1. pending = 0 /\ call.op \in {"commit", "abort"}
  BY PastDrainFacts DEF EndSucceeds, PastDrain
<1>2. send' = send /\ pending' = pending /\ failed' = failed /\ failed \in BOOLEAN
  BY DEF EndSucceeds, TInv, GateShape
<1>3. rpc' = [rpc EXCEPT ![TheCall] = NoRpc] BY DEF EndSucceeds
<1>4. \/ call' = [call EXCEPT !.phase = "finish"] /\ state' = state
      \/ call' = NoCall /\ state' = "Ready"
  BY DEF EndSucceeds
<1>5. GateShape' /\ Closing'
  <2>1. CASE call' = [call EXCEPT !.phase = "finish"] /\ state' = state
    BY <1>1, <1>2, <2>1, CallGoes
  <2>2. CASE call' = NoCall /\ state' = "Ready"
    <3>1. state' \in States BY <2>2 DEF States
    <3> QED BY <1>1, <1>2, <2>2, <3>1, CallOver
  <2> QED BY <1>4, <2>1, <2>2
<1> QED BY <1>2, <1>3, <1>5, CallKeeps, NoRpcForm

LEMMA FinishEndsKeeps ==
    ASSUME TInv, NEW code, FinishEnds(code) PROVE TInv'
<1>1. GateShape' /\ Closing'
  <2>1. state' \in States /\ state' # "CommitUnknown" BY DEF FinishEnds, States
  <2>2. failed' \in BOOLEAN BY AfterCall DEF FinishEnds, TInv
  <2> QED BY <2>1, <2>2, CallOver DEF FinishEnds
<1> QED BY <1>1, CallKeeps, NoRpcForm DEF FinishEnds

LEMMA EndFailsKeeps ==
    ASSUME TInv, NEW code, EndFails(code) PROVE TInv'
<1>1. pending = 0 /\ call.entered \in States
  BY PastDrainFacts DEF EndFails, PastDrain
<1>2. GateShape' /\ Closing'
  <2>1. AfterFailure \in States BY <1>1 DEF AfterFailure, States
  <2>2. Back(AfterFailure) \in States BY <2>1, BackForm DEF TInv
  <2>3. state' \in States BY <2>2 DEF EndFails, States
  <2>4. failed' \in BOOLEAN BY AfterCall DEF EndFails, TInv
  <2> QED BY <1>1, <2>3, <2>4, CallOver DEF EndFails
<1> QED BY <1>2, CallKeeps, NoRpcForm DEF EndFails

(* The future is dropped: in doubt is left only what was drained. *)
LEMMA DropCallKeeps ==
    ASSUME TInv, DropCall PROVE TInv'
<1>1. /\ send' = send /\ pending' = pending /\ failed' = failed /\ call' = NoCall
      /\ rpc' = [rpc EXCEPT ![TheCall] = NoRpc]
  BY DEF DropCall
<1>2. call.entered \in States /\ state \in States /\ failed \in BOOLEAN
  BY DEF TInv, GateShape, Calls
<1>3. PICK to : to = IF call.phase = "finish" THEN "Ready"
                     ELSE IF call.phase = "send" /\ call.op = "commit" THEN "CommitUnknown"
                     ELSE call.entered
  OBVIOUS
<1>4. to \in States BY <1>2, <1>3 DEF States
<1>5. state' = Back(to) BY <1>3 DEF DropCall
<1>6. state' \in States /\ (state' = "CommitUnknown" => to = "CommitUnknown" \/ state = "CommitUnknown")
  BY <1>4, <1>5, BackForm DEF TInv
<1>7. to = "CommitUnknown" => call.phase = "send" \/ call.entered = "CommitUnknown"
  BY <1>3
<1>8. state' = "CommitUnknown" => pending = 0
  BY <1>6, <1>7 DEF TInv, Closing, Emptied, PastDrain
<1>9. GateShape' /\ Closing' BY <1>1, <1>2, <1>6, <1>8, CallOver
<1> QED BY <1>1, <1>9, CallKeeps, NoRpcForm

LEMMA StoreKeeps ==
    ASSUME TInv, Store PROVE TInv'
<1>1. GateShape' /\ Closing' BY DEF Store, gate, TInv, GateShape, Closing, Emptied
<1> QED BY <1>1, CallKeeps DEF Store, gate

-----------------------------------------------------------------------------
(* RPCs and their answers. *)

(* A step that leaves the sends where they are and lets no RPC become an   *)
(* add.                                                                    *)
LEMMA RpcKeeps ==
    ASSUME TInv, send' = send, UNCHANGED gate, RpcShape',
           \A r \in Records : rpc'[r].kind = "Add" => rpc[r].kind = "Add",
           call' \in Calls, call'.op = call.op, call'.phase = call.phase,
           call'.entered = call.entered
    PROVE  TInv'
<1>1. SendShape' /\ Counted' /\ Adding' BY TicketsKept DEF TInv, SendShape, Adding, gate
<1>2. GateShape' BY DEF TInv, GateShape, gate
<1>3. Closing' BY DEF TInv, Closing, Emptied, gate
<1> QED BY <1>1, <1>2, <1>3 DEF TInv

(* The fields of RPCs change. *)
LEMMA FieldsKeep ==
    ASSUME TInv, send' = send, UNCHANGED gate, call' = call, NEW o, NEW x, NEW y,
           \/ rpc' = [rpc EXCEPT ![o].reply = y]
           \/ rpc' = [rpc EXCEPT ![o].sent = x]
           \/ rpc' = [rpc EXCEPT ![o].sent = x, ![o].reply = y]
           \/ rpc' = rpc
    PROVE  TInv'
<1>1. RpcShape' /\ \A p \in Owners : rpc'[p].kind = rpc[p].kind
  <2>1. CASE rpc' = rpc BY <2>1 DEF TInv, RpcShape
  <2>2. CASE rpc' # rpc BY <2>2, RpcFields, Zenon DEF TInv
  <2> QED BY <2>1, <2>2
<1>2. call \in Calls BY DEF TInv, GateShape
<1> QED BY <1>1, <1>2, RpcKeeps DEF Owners

LEMMA AttemptKeeps ==
    ASSUME TInv, NEW o \in Owners, Attempt(o) PROVE TInv'
<1>1. /\ rpc' = [rpc EXCEPT ![o].sent = TRUE] /\ send' = send /\ UNCHANGED gate /\ call' = call
  BY Zenon DEF Attempt
<1> QED BY <1>1, FieldsKeep, Zenon

LEMMA RetryRpcKeeps ==
    ASSUME TInv, NEW o \in Owners, RetryRpc(o) PROVE TInv'
<1>1. /\ rpc' = [rpc EXCEPT ![o].sent = FALSE, ![o].reply = NoReply]
      /\ send' = send /\ UNCHANGED gate /\ call' = call
  BY Zenon DEF RetryRpc
<1> QED BY <1>1, FieldsKeep, Zenon

LEMMA NoAnswerKeeps ==
    ASSUME TInv, NEW o \in Owners, NoAnswer(o) PROVE TInv'
<1>1. /\ rpc' = [rpc EXCEPT ![o].sent = FALSE, ![o].reply = NoReply]
      /\ send' = send /\ UNCHANGED gate
  BY Zenon DEF NoAnswer
<1>2. RpcShape' /\ \A p \in Owners : rpc'[p].kind = rpc[p].kind
  BY <1>1, RpcFields, Zenon DEF TInv
<1>3. call' = call \/ call' = [call EXCEPT !.unanswered = TRUE] BY DEF NoAnswer
<1>4. /\ call' \in Calls /\ call'.op = call.op /\ call'.phase = call.phase
      /\ call'.entered = call.entered
  BY <1>3 DEF TInv, GateShape, Calls
<1> QED BY <1>1, <1>2, <1>4, RpcKeeps DEF Owners

LEMMA StartReinitKeeps ==
    ASSUME TInv, NEW o \in Owners, StartReinit(o) PROVE TInv'
<1>1. rpc' = [rpc EXCEPT ![o] = Rpc("Init")] /\ send' = send /\ UNCHANGED gate /\ call' = call
  BY Zenon DEF StartReinit
<1>2. IsRpc(Rpc("Init")) /\ Rpc("Init").kind = "Init" BY RpcForms
<1>3. /\ RpcShape' /\ rpc'[o].kind = "Init"
      /\ \A p \in Owners \ {o} : rpc'[p].kind = rpc[p].kind
  BY <1>1, <1>2, RpcSet, Zenon DEF TInv
<1>4. call \in Calls BY DEF TInv, GateShape
<1> QED BY <1>1, <1>3, <1>4, RpcKeeps DEF Owners

(* An answer arrives, or comes too late. *)
LEMMA HandleRequestKeeps ==
    ASSUME TInv, NEW m \in net, HandleRequest(m) PROVE TInv'
<1>1. send' = send /\ UNCHANGED gate /\ call' = call BY Zenon DEF HandleRequest
<1>2. \E done : Answer(m, done) BY Zenon DEF HandleRequest
<1>3. rpc' = rpc \/ \E y : rpc' = [rpc EXCEPT ![m.owner].reply = y] BY <1>2, Zenon DEF Answer
<1> QED BY <1>1, <1>3, FieldsKeep, Zenon

LEMMA HandleProduceKeeps ==
    ASSUME TInv, NEW m \in net, HandleProduce(m) PROVE TInv'
<1>1. send' = send /\ UNCHANGED gate /\ call' = call BY Zenon DEF HandleProduce
<1>2. \E done : Answer(m, done) BY Zenon DEF HandleProduce
<1>3. rpc' = rpc \/ \E y : rpc' = [rpc EXCEPT ![m.owner].reply = y] BY <1>2, Zenon DEF Answer
<1> QED BY <1>1, <1>3, FieldsKeep, Zenon

LEMMA BrokersKeep ==
    ASSUME TInv, Brokers PROVE TInv'
<1>1. ASSUME NEW m \in net, HandleRequest(m) PROVE TInv' BY <1>1, HandleRequestKeeps
<1>2. ASSUME NEW m \in net, HandleProduce(m) PROVE TInv' BY <1>2, HandleProduceKeeps
<1>3. CASE write_transaction_markers
  <2>1. send' = send /\ UNCHANGED gate /\ call' = call /\ rpc' = rpc
    BY <1>3, Zenon DEF write_transaction_markers
  <2> QED BY <2>1, FieldsKeep, Zenon
<1>4. CASE TimeOut
  <2>1. send' = send /\ UNCHANGED gate /\ call' = call /\ rpc' = rpc BY <1>4, Zenon DEF TimeOut
  <2> QED BY <2>1, FieldsKeep, Zenon
<1> QED BY <1>1, <1>2, <1>3, <1>4 DEF Brokers

-----------------------------------------------------------------------------
(* Sends. *)

(* A send that holds no ticket takes a step and takes none. *)
LEMMA SendKeeps ==
    ASSUME TInv, SendShape', RpcShape', pending' = pending, call' = call,
           state' \in {state, "Fatal"}, failed' \in BOOLEAN, Adding',
           \A r \in Records : send'[r].pc \in Live <=> send[r].pc \in Live
    PROVE  TInv'
<1>1. Counted' BY TicketsKept DEF TInv
<1>2. GateShape' BY DEF TInv, GateShape, States
<1>3. Closing' BY DEF TInv, Closing, Emptied
<1> QED BY <1>1, <1>2, <1>3 DEF TInv

(* Its RPC is over. *)
LEMMA OwnRpcOver ==
    ASSUME RpcShape, NEW r \in Records, rpc' = [rpc EXCEPT ![r] = NoRpc]
    PROVE  /\ RpcShape' /\ rpc'[r].kind = "none"
           /\ \A s \in Records \ {r} : rpc'[s].kind = rpc[s].kind
<1>1. r \in Owners BY DEF Owners
<1>2. /\ RpcShape' /\ rpc'[r].kind = NoRpc.kind
      /\ \A p \in Owners \ {r} : rpc'[p].kind = rpc[p].kind
  BY <1>1, RpcSet, NoRpcForm, Zenon
<1> QED BY <1>2, NoRpcForm DEF Owners

LEMMA NotLive ==
    /\ {"idle", "refused", "admit", "register", "reinit", "ok", "cut", "failed", "lost"} \cap Live = {}
    /\ {"queued", "sent", "retry"} = Live
BY DEF Live

LEMMA enqueueKeeps ==
    ASSUME TInv, NEW r \in Records, NEW p \in Partitions, enqueue(r, p) PROVE TInv'
<1>1. PICK v : v = IF reinit_required THEN "reinit" ELSE Settled OBVIOUS
<1>2. v \in {"reinit", "admit", "register"} BY <1>1 DEF Settled
<1>3. PICK new : new = [NoSend EXCEPT !.part = p, !.pc = v] OBVIOUS
<1>4. new = [pc |-> v, part |-> p, txn |-> 0, epoch |-> -1, seq |-> 0] BY <1>3 DEF NoSend
<1>5. IsSend(new) /\ new.pc = v BY <1>4 DEF IsSend
<1>6. /\ send[r].pc = "idle" /\ send' = [send EXCEPT ![r] = new] /\ rpc' = rpc
      /\ UNCHANGED gate /\ call' = call
  BY <1>1, <1>3, Zenon DEF enqueue
<1>7. SendShape' /\ \A s \in Records : send'[s] = IF s = r THEN new ELSE send[s]
  BY <1>5, <1>6 DEF TInv, SendShape
<1>8. \A s \in Records : send'[s].pc \in Live <=> send[s].pc \in Live
  BY <1>2, <1>5, <1>6, <1>7 DEF Live
<1>9. Adding'
  BY <1>2, <1>5, <1>6, <1>7 DEF TInv, Adding
<1>10. RpcShape' /\ state' = state /\ pending' = pending /\ failed' \in BOOLEAN
  BY <1>6 DEF TInv, RpcShape, GateShape, gate
<1> QED BY <1>6, <1>7, <1>8, <1>9, <1>10, SendKeeps

(* A send without a ticket goes on, and its RPC, if it had one, is over. *)
LEMMA StepsOn ==
    ASSUME TInv, NEW r \in Records, NEW v \in {"admit", "register", "refused"},
           send[r].pc \notin Live, send' = [send EXCEPT ![r].pc = v],
           rpc' = [rpc EXCEPT ![r] = NoRpc] \/ (rpc' = rpc /\ rpc[r].kind # "Add"),
           pending' = pending, call' = call, state' \in {state, "Fatal"}, failed' \in BOOLEAN
    PROVE  TInv'
<1>1. SendShape' /\ \A s \in Records : send'[s].pc = IF s = r THEN v ELSE send[s].pc
  BY SendGoes DEF TInv
<1>2. /\ RpcShape' /\ rpc'[r].kind # "Add"
      /\ \A s \in Records \ {r} : rpc'[s].kind = rpc[s].kind
  <2>1. CASE rpc' = rpc /\ rpc[r].kind # "Add" BY <2>1 DEF TInv, RpcShape
  <2>2. CASE rpc' = [rpc EXCEPT ![r] = NoRpc] BY <2>2, OwnRpcOver DEF TInv
  <2> QED BY <2>1, <2>2
<1>3. Adding' BY <1>1, <1>2 DEF TInv, Adding
<1>4. \A s \in Records : send'[s].pc \in Live <=> send[s].pc \in Live BY <1>1 DEF Live
<1> QED BY <1>1, <1>2, <1>3, <1>4, SendKeeps

LEMMA SendReinitEndsKeeps ==
    ASSUME TInv, NEW r \in Records, NEW code, SendReinitEnds(r, code) PROVE TInv'
<1>1. PICK v : v = IF code = "None" THEN Settled ELSE "refused" OBVIOUS
<1>2. v \in {"admit", "register", "refused"} BY <1>1 DEF Settled
<1>3. /\ send[r].pc = "reinit" /\ send' = [send EXCEPT ![r].pc = v]
      /\ rpc' = [rpc EXCEPT ![r] = NoRpc] /\ pending' = pending /\ call' = call
      /\ state' = StateAfter(code) /\ failed' = FailedAfter(code)
  BY <1>1, Zenon DEF SendReinitEnds
<1>4. state' \in {state, "Fatal"} BY <1>3 DEF StateAfter
<1>5. failed' \in BOOLEAN BY <1>3, AfterCall DEF TInv
<1>6. send[r].pc \notin Live BY <1>3 DEF Live
<1> QED BY <1>2, <1>3, <1>4, <1>5, <1>6, StepsOn

LEMMA AddEndsKeeps ==
    ASSUME TInv, NEW r \in Records, NEW code, AddEnds(r, code) PROVE TInv'
<1>1. PICK v : v = IF code = "None" THEN "admit" ELSE "refused" OBVIOUS
<1>2. v \in {"admit", "register", "refused"} BY <1>1
<1>3. /\ rpc[r].kind = "Add" /\ send' = [send EXCEPT ![r].pc = v]
      /\ rpc' = [rpc EXCEPT ![r] = NoRpc] /\ pending' = pending /\ call' = call
      /\ state' = StateAfter(code) /\ failed' = FailedAfter(code)
  BY <1>1, Zenon DEF AddEnds
<1>4. state' \in {state, "Fatal"} BY <1>3 DEF StateAfter
<1>5. failed' \in BOOLEAN BY <1>3, AfterCall DEF TInv
<1>6. send[r].pc \notin Live BY <1>3 DEF Live, TInv, Adding
<1> QED BY <1>2, <1>3, <1>4, <1>5, <1>6, StepsOn

LEMMA DropEnqueueKeeps ==
    ASSUME TInv, NEW r \in Records, DropEnqueue(r) PROVE TInv'
<1>1. /\ send[r].pc \in Entering /\ send' = [send EXCEPT ![r].pc = "refused"]
      /\ rpc' = [rpc EXCEPT ![r] = NoRpc] /\ UNCHANGED gate /\ call' = call
  BY Zenon DEF DropEnqueue
<1>2. state' \in {state, "Fatal"} /\ pending' = pending /\ failed' \in BOOLEAN
  BY <1>1 DEF gate, TInv, GateShape
<1>3. send[r].pc \notin Live BY <1>1 DEF Live, Entering
<1> QED BY <1>1, <1>2, <1>3, StepsOn

LEMMA BeginAddKeeps ==
    ASSUME TInv, NEW r \in Records, BeginAdd(r) PROVE TInv'
<1>1. /\ send[r].pc = "register" /\ rpc[r].kind = "none" /\ UNCHANGED gate /\ call' = call
      /\ \/ send' = [send EXCEPT ![r].pc = "admit"] /\ rpc' = rpc
         \/ send' = [send EXCEPT ![r].pc = "refused"] /\ rpc' = rpc
         \/ send' = send /\ rpc' = [rpc EXCEPT ![r] = Rpc("Add")]
  BY Zenon DEF BeginAdd
<1>2. state' \in {state, "Fatal"} /\ pending' = pending /\ failed' \in BOOLEAN
  BY <1>1 DEF gate, TInv, GateShape
<1>3. send[r].pc \notin Live BY <1>1 DEF Live
<1>4. CASE send' = [send EXCEPT ![r].pc = "admit"] /\ rpc' = rpc
  BY <1>1, <1>2, <1>3, <1>4, StepsOn
<1>5. CASE send' = [send EXCEPT ![r].pc = "refused"] /\ rpc' = rpc
  BY <1>1, <1>2, <1>3, <1>5, StepsOn
<1>6. CASE send' = send /\ rpc' = [rpc EXCEPT ![r] = Rpc("Add")]
  <2>1. r \in Owners BY DEF Owners
  <2>2. IsRpc(Rpc("Add")) BY RpcForms
  <2>3. RpcShape' /\ \A p \in Owners \ {r} : rpc'[p].kind = rpc[p].kind
    BY <1>6, <2>1, <2>2, RpcSet, Zenon DEF TInv
  <2>4. Adding' BY <1>1, <1>6, <2>3 DEF TInv, Adding, Owners
  <2>5. SendShape' BY <1>6 DEF TInv, SendShape
  <2> QED BY <1>1, <1>2, <1>6, <2>3, <2>4, <2>5, SendKeeps
<1> QED BY <1>1, <1>4, <1>5, <1>6

(* A ticket is taken only while the gate is open, so never once the call   *)
(* has drained.                                                            *)
LEMMA admitKeeps ==
    ASSUME TInv, NEW r \in Records, admit(r) PROVE TInv'
<1>1. /\ send[r].pc = "admit" /\ rpc' = rpc /\ state' = state /\ failed' = failed /\ call' = call
      /\ \/ /\ state = "Open" /\ pending' = pending + 1
            /\ send' = [send EXCEPT ![r].pc = "queued", ![r].txn = txn]
         \/ send' = [send EXCEPT ![r].pc = "refused"] /\ pending' = pending
  BY Zenon DEF admit
<1>2. send[r].pc \notin Live /\ rpc[r].kind # "Add" BY <1>1 DEF Live, TInv, Adding
<1>3. failed' \in BOOLEAN BY <1>1 DEF TInv, GateShape
<1>4. CASE send' = [send EXCEPT ![r].pc = "refused"] /\ pending' = pending
  BY <1>1, <1>2, <1>3, <1>4, StepsOn
<1>5. CASE /\ state = "Open" /\ pending' = pending + 1
           /\ send' = [send EXCEPT ![r].pc = "queued", ![r].txn = txn]
  <2>1. SendShape' /\ \A s \in Records : send'[s].pc = IF s = r THEN "queued" ELSE send[s].pc
    <3>1. send[r] = [pc |-> send[r].pc, part |-> send[r].part, txn |-> send[r].txn,
                     epoch |-> send[r].epoch, seq |-> send[r].seq]
      BY DEF TInv, SendShape, IsSend
    <3>2. PICK one : one = [send[r] EXCEPT !.pc = "queued"] OBVIOUS
    <3>3. PICK two : two = [one EXCEPT !.txn = txn] OBVIOUS
    <3>4. two = [pc |-> "queued", part |-> send[r].part, txn |-> txn,
                 epoch |-> send[r].epoch, seq |-> send[r].seq]
      BY <3>1, <3>2, <3>3
    <3>5. PICK mid : mid = [send EXCEPT ![r].pc = "queued"] OBVIOUS
    <3>6. mid = [send EXCEPT ![r] = one] BY <3>2, <3>5
    <3>7. send' = [mid EXCEPT ![r].txn = txn] BY <1>5, <3>5, Zenon
    <3>8. mid[r] = one BY <3>6 DEF TInv, SendShape
    <3>9. send' = [mid EXCEPT ![r] = two] BY <3>3, <3>7, <3>8
    <3>10. send' = [send EXCEPT ![r] = two] BY <3>6, <3>9 DEF TInv, SendShape
    <3>11. IsSend(two) /\ two.pc = "queued" BY <3>4 DEF IsSend
    <3>12. /\ send' = [s \in Records |-> send'[s]]
           /\ \A s \in Records : send'[s] = IF s = r THEN two ELSE send[s]
      BY <3>10 DEF TInv, SendShape
    <3> QED BY <3>11, <3>12 DEF TInv, SendShape
  <2>2. Counted' BY <1>2, <1>5, <2>1, TicketTaken DEF TInv
  <2>3. RpcShape' /\ Adding' BY <1>1, <1>2, <2>1 DEF TInv, RpcShape, Adding
  <2>4. GateShape' BY <1>1 DEF TInv, GateShape
  <2>5. Closing' BY <1>1, <1>5 DEF TInv, Closing, Emptied
  <2> QED BY <2>1, <2>2, <2>3, <2>4, <2>5 DEF TInv
<1> QED BY <1>1, <1>4, <1>5

(* A send that holds a ticket keeps it on its way to the leader and back. *)
LEMMA KeepsTicket ==
    ASSUME TInv, NEW r \in Records, NEW v \in Live, send[r].pc \in Live, SendShape', RpcShape',
           \A s \in Records : send'[s].pc = IF s = r THEN v ELSE send[s].pc,
           \A s \in Records : rpc'[s].kind = "Add" => rpc[s].kind = "Add",
           UNCHANGED gate, call' = call
    PROVE  TInv'
<1>1. state' \in {state, "Fatal"} /\ pending' = pending /\ failed' \in BOOLEAN
  BY DEF gate, TInv, GateShape
<1>2. rpc[r].kind # "Add" BY DEF TInv, Adding, Live
<1>3. Adding' BY <1>2 DEF TInv, Adding
<1> QED BY <1>1, <1>3, SendKeeps

LEMMA ProduceKeeps ==
    ASSUME TInv, NEW r \in Records, Produce(r) PROVE TInv'
<1>1. PICK stamp : stamp = IF send[r].pc = "queued"
                           THEN [epoch |-> epoch, seq |-> next_seq[send[r].part]]
                           ELSE [epoch |-> send[r].epoch, seq |-> send[r].seq]
  OBVIOUS
<1>2. PICK e, q : e = stamp.epoch /\ q = stamp.seq OBVIOUS
<1>3. /\ send[r].pc \in {"queued", "retry"} /\ rpc' = rpc /\ UNCHANGED gate /\ call' = call
      /\ send' = [send EXCEPT ![r].pc = "sent", ![r].epoch = e, ![r].seq = q]
  BY <1>1, <1>2, Zenon DEF Produce
<1>4. SendShape' /\ \A s \in Records : send'[s].pc = IF s = r THEN "sent" ELSE send[s].pc
  <2>1. send[r] = [pc |-> send[r].pc, part |-> send[r].part, txn |-> send[r].txn,
                   epoch |-> send[r].epoch, seq |-> send[r].seq]
    BY DEF TInv, SendShape, IsSend
  <2>2. PICK one : one = [send[r] EXCEPT !.pc = "sent"] OBVIOUS
  <2>3. PICK two : two = [one EXCEPT !.epoch = e] OBVIOUS
  <2>4. PICK new : new = [two EXCEPT !.seq = q] OBVIOUS
  <2>5. two = [pc |-> "sent", part |-> send[r].part, txn |-> send[r].txn,
               epoch |-> e, seq |-> send[r].seq]
    BY <2>1, <2>2, <2>3
  <2>6. new = [pc |-> "sent", part |-> send[r].part, txn |-> send[r].txn,
               epoch |-> e, seq |-> q]
    BY <2>4, <2>5
  <2>7. PICK first : first = [send EXCEPT ![r].pc = "sent"] OBVIOUS
  <2>8. PICK second : second = [first EXCEPT ![r].epoch = e] OBVIOUS
  <2>9. send' = [second EXCEPT ![r].seq = q] BY <1>3, <2>7, <2>8, Zenon
  <2>10. first = [send EXCEPT ![r] = one] BY <2>2, <2>7
  <2>11. first[r] = one BY <2>10 DEF TInv, SendShape
  <2>12. second = [first EXCEPT ![r] = two] BY <2>3, <2>8, <2>11
  <2>13. second = [send EXCEPT ![r] = two] BY <2>10, <2>12 DEF TInv, SendShape
  <2>14. second[r] = two BY <2>13 DEF TInv, SendShape
  <2>15. send' = [second EXCEPT ![r] = new] BY <2>4, <2>9, <2>14
  <2>16. send' = [send EXCEPT ![r] = new] BY <2>13, <2>15 DEF TInv, SendShape
  <2>17. IsSend(new) /\ new.pc = "sent" BY <2>6 DEF IsSend
  <2>18. /\ send' = [s \in Records |-> send'[s]]
         /\ \A s \in Records : send'[s] = IF s = r THEN new ELSE send[s]
    BY <2>16 DEF TInv, SendShape
  <2> QED BY <2>17, <2>18 DEF TInv, SendShape
<1>5. RpcShape' BY <1>3 DEF TInv, RpcShape
<1>6. send[r].pc \in Live /\ "sent" \in Live BY <1>3 DEF Live
<1> QED BY <1>3, <1>4, <1>5, <1>6, KeepsTicket

LEMMA ProduceRetriesKeeps ==
    ASSUME TInv, NEW r \in Records, ProduceRetries(r) PROVE TInv'
<1>1. /\ send[r].pc = "sent" /\ send' = [send EXCEPT ![r].pc = "retry"]
      /\ rpc' = [rpc EXCEPT ![r] = NoRpc] /\ UNCHANGED gate /\ call' = call
  BY Zenon DEF ProduceRetries
<1>2. SendShape' /\ \A s \in Records : send'[s].pc = IF s = r THEN "retry" ELSE send[s].pc
  <2>1. send' = [send EXCEPT ![r].pc = "retry"] BY <1>1
  <2> QED BY <2>1, SendGoes DEF TInv
<1>3. RpcShape' /\ rpc'[r].kind = "none" /\ \A s \in Records \ {r} : rpc'[s].kind = rpc[s].kind
  BY <1>1, OwnRpcOver DEF TInv
<1>4. \A s \in Records : rpc'[s].kind = "Add" => rpc[s].kind = "Add" BY <1>3
<1>5. send[r].pc \in Live /\ "retry" \in Live BY <1>1 DEF Live
<1> QED BY <1>1, <1>2, <1>3, <1>4, <1>5, KeepsTicket

(* The sends S, which hold tickets, get their result. *)
LEMMA ResolveKeeps ==
    ASSUME TInv, NEW S, S \subseteq Ticketed, NEW ok \in BOOLEAN, Resolve(S, ok)
    PROVE  /\ SendShape' /\ RpcShape' /\ Adding' /\ Counted'
           /\ failed' \in BOOLEAN /\ pending' \in Nat /\ (pending = 0 => pending' = 0)
<1>1. /\ \A s \in Records \ S : send'[s] = send[s]
      /\ \A s \in S : \E v \in {"ok", "cut", "failed"} : send'[s] = [send[s] EXCEPT !.pc = v]
  <2>1. S \subseteq Records BY DEF Ticketed
  <2>2. \A s \in Records : send'[s] = IF s \notin S THEN send[s]
                                    ELSE [send[s] EXCEPT !.pc = IF ok THEN "ok"
                                                ELSE IF Cut(s) THEN "cut" ELSE "failed"]
    BY Zenon DEF Resolve, Resolved
  <2>3. ASSUME NEW s \in S
        PROVE  \E v \in {"ok", "cut", "failed"} : send'[s] = [send[s] EXCEPT !.pc = v]
    <3>1. PICK v : v = IF ok THEN "ok" ELSE IF Cut(s) THEN "cut" ELSE "failed" OBVIOUS
    <3>2. v \in {"ok", "cut", "failed"} BY <3>1
    <3>3. send'[s] = [send[s] EXCEPT !.pc = v] BY <2>1, <2>2, <2>3, <3>1, Zenon
    <3> QED BY <3>2, <3>3
  <2> QED BY <2>2, <2>3
<1>2. \A s \in S : IsSend(send'[s]) /\ send'[s].pc \in {"ok", "cut", "failed"}
  <2> SUFFICES ASSUME NEW s \in S
               PROVE  IsSend(send'[s]) /\ send'[s].pc \in {"ok", "cut", "failed"}
    OBVIOUS
  <2>1. PICK v \in {"ok", "cut", "failed"} : send'[s] = [send[s] EXCEPT !.pc = v] BY <1>1
  <2>2. send[s] = [pc |-> send[s].pc, part |-> send[s].part, txn |-> send[s].txn,
                   epoch |-> send[s].epoch, seq |-> send[s].seq]
    BY DEF TInv, SendShape, IsSend, Ticketed
  <2>3. send'[s] = [pc |-> v, part |-> send[s].part, txn |-> send[s].txn,
                    epoch |-> send[s].epoch, seq |-> send[s].seq]
    BY <2>1, <2>2
  <2> QED BY <2>3 DEF IsSend
<1>3. SendShape'
  <2>1. send' = [s \in Records |-> send'[s]] BY DEF Resolve, Resolved
  <2> QED BY <1>1, <1>2, <2>1 DEF TInv, SendShape
<1>4. /\ rpc' = [o \in Owners |-> rpc'[o]]
      /\ \A o \in Owners : rpc'[o] = IF o \in S THEN NoRpc ELSE rpc[o]
  BY DEF Resolve, Resolved
<1>5. RpcShape' BY <1>4, NoRpcForm DEF TInv, RpcShape
<1>6. Adding'
  <2> SUFFICES ASSUME NEW s \in Records, rpc'[s].kind = "Add" PROVE send'[s].pc = "register"
    BY DEF Adding
  <2>1. s \notin S /\ rpc[s].kind = "Add" BY <1>4, NoRpcForm DEF Owners
  <2> QED BY <1>1, <2>1 DEF TInv, Adding
<1>7. pending' = pending - Cardinality(S) BY DEF Resolve
<1>8. Counted'
  <2>1. \A s \in S : send'[s].pc \notin Live BY <1>2 DEF Live
  <2> QED BY <1>1, <1>7, <2>1, TicketsReturned DEF TInv
<1>9. failed' \in BOOLEAN BY DEF Resolve, Resolved
<1>10. pending' \in Nat
  <2>1. Cardinality(S) <= Cardinality(Ticketed) /\ Cardinality(S) \in Nat
    BY TicketsFinite, FS_Subset, FS_CardinalityType
  <2> QED BY <1>7, <2>1, TicketsFinite DEF TInv, Counted
<1>11. pending = 0 => pending' = 0
  <2>1. Cardinality(S) \in Nat /\ pending \in Nat
    BY TicketsFinite, FS_Subset, FS_CardinalityType, NoTickets DEF TInv
  <2> QED BY <1>7, <1>10, <2>1
<1> QED BY <1>3, <1>5, <1>6, <1>8, <1>9, <1>10, <1>11

LEMMA ResolvedKeeps ==
    ASSUME TInv, SendShape', RpcShape', Adding', Counted', failed' \in BOOLEAN,
           pending = 0 => pending' = 0, call' = call, state' \in {state, "Fatal"}
    PROVE  TInv'
<1>1. GateShape' BY DEF TInv, GateShape, States
<1>2. Closing' BY DEF TInv, Closing, Emptied
<1> QED BY <1>1, <1>2 DEF TInv

LEMMA ProduceAnsweredKeeps ==
    ASSUME TInv, NEW r \in Records, ProduceAnswered(r) PROVE TInv'
<1> DEFINE code == rpc[r].reply.code
           fatal == IF IsV2 THEN code = "InvalidProducerIdMapping"
                    ELSE code = "InvalidProducerEpoch"
           S == {r} \cup (IF fatal THEN {s \in Records : send[s].pc \in {"queued", "retry"}}
                          ELSE {})
<1>1. send[r].pc = "sent" /\ Resolve(S, code = "None") /\ call' = call
  BY Zenon DEF ProduceAnswered
<1>2. state' \in {state, "Fatal"} BY DEF ProduceAnswered
<1>3. S \subseteq Ticketed BY <1>1 DEF Ticketed, Live
<1>4. (code = "None") \in BOOLEAN OBVIOUS
<1> HIDE DEF S, code
<1>5. /\ SendShape' /\ RpcShape' /\ Adding' /\ Counted'
      /\ failed' \in BOOLEAN /\ (pending = 0 => pending' = 0)
  BY <1>1, <1>3, <1>4, ResolveKeeps, Zenon
<1> QED BY <1>1, <1>2, <1>5, ResolvedKeeps

LEMMA ProduceExpiresKeeps ==
    ASSUME TInv, NEW r \in Records, ProduceExpires(r) PROVE TInv'
<1>1. /\ send[r].pc \in {"queued", "retry"} /\ Resolve({r}, FALSE) /\ call' = call
      /\ state' = state
  BY Zenon DEF ProduceExpires
<1>2. {r} \subseteq Ticketed BY <1>1 DEF Ticketed, Live
<1>3. /\ SendShape' /\ RpcShape' /\ Adding' /\ Counted'
      /\ failed' \in BOOLEAN /\ (pending = 0 => pending' = 0)
  <2>1. FALSE \in BOOLEAN OBVIOUS
  <2> QED BY <1>1, <1>2, <2>1, ResolveKeeps, Zenon
<1> QED BY <1>1, <1>3, ResolvedKeeps

LEMMA fail_unsentKeeps ==
    ASSUME TInv, fail_unsent PROVE TInv'
<1> DEFINE S == {r \in Records : send[r].pc \in {"queued", "retry"}}
<1>1. /\ call.phase = "unsent" /\ Resolve(S, FALSE) /\ call' = [call EXCEPT !.phase = "drain"]
      /\ state' = state
  BY Zenon DEF fail_unsent
<1>2. S \subseteq Ticketed BY DEF Ticketed, Live
<1> HIDE DEF S
<1>3. /\ SendShape' /\ RpcShape' /\ Adding' /\ Counted'
      /\ failed' \in BOOLEAN /\ pending' \in Nat /\ (pending = 0 => pending' = 0)
  <2>1. FALSE \in BOOLEAN OBVIOUS
  <2> QED BY <1>1, <1>2, <2>1, ResolveKeeps, Zenon
<1>4. call.op \in {"commit", "abort"} BY <1>1 DEF TInv, Closing
<1>5. GateShape' /\ Closing' BY <1>1, <1>3, <1>4, CallGoes
<1> QED BY <1>3, <1>5 DEF TInv

-----------------------------------------------------------------------------
(* The process and the whole. *)

LEMMA CrashKeeps ==
    ASSUME TInv, Crash PROVE TInv'
<1>1. /\ send' = [s \in Records |-> send'[s]]
      /\ \A s \in Records : send'[s] = IF send[s].pc \in Live \cup Entering
                                       THEN [send[s] EXCEPT !.pc = "lost"] ELSE send[s]
  BY DEF Crash
<1>2. \A s \in Records : IsSend(send'[s]) /\ send'[s].pc \notin Live
  <2> SUFFICES ASSUME NEW s \in Records PROVE IsSend(send'[s]) /\ send'[s].pc \notin Live
    OBVIOUS
  <2>1. CASE send[s].pc \notin Live \cup Entering BY <1>1, <2>1 DEF TInv, SendShape
  <2>2. CASE send[s].pc \in Live \cup Entering
    <3>1. send[s] = [pc |-> send[s].pc, part |-> send[s].part, txn |-> send[s].txn,
                     epoch |-> send[s].epoch, seq |-> send[s].seq]
      BY DEF TInv, SendShape, IsSend
    <3>2. send'[s] = [pc |-> "lost", part |-> send[s].part, txn |-> send[s].txn,
                      epoch |-> send[s].epoch, seq |-> send[s].seq]
      BY <1>1, <2>2, <3>1
    <3> QED BY <3>2 DEF IsSend, Live
  <2> QED BY <2>1, <2>2
<1>3. SendShape' BY <1>1, <1>2 DEF SendShape
<1>4. rpc' = [o \in Owners |-> rpc'[o]] /\ \A o \in Owners : rpc'[o] = NoRpc BY DEF Crash
<1>5. RpcShape' /\ Adding' BY <1>4, NoRpcForm DEF RpcShape, Adding, Owners
<1>6. pending' = 0 /\ failed' = FALSE /\ state' = "Uninitialized" /\ call' = NoCall BY DEF Crash
<1>7. Ticketed' = {} BY <1>2 DEF Ticketed
<1>8. Counted' BY <1>6, <1>7, FS_EmptySet DEF Counted
<1>9. GateShape' BY <1>6, NoCallForm DEF GateShape, States
<1>10. Closing' BY <1>6, NoCallForm DEF Closing, Emptied, PastDrain
<1> QED BY <1>3, <1>5, <1>8, <1>9, <1>10 DEF TInv

LEMMA InitHolds == Init => TInv
<1> SUFFICES ASSUME Init PROVE TInv OBVIOUS
<1>1. send = [r \in Records |-> NoSend] /\ rpc = [o \in Owners |-> NoRpc] BY DEF Init
<1>2. IsSend(NoSend) /\ NoSend.pc = "idle" BY DEF IsSend, NoSend
<1>3. SendShape BY <1>1, <1>2 DEF SendShape
<1>4. RpcShape /\ Adding BY <1>1, NoRpcForm DEF RpcShape, Adding, Owners
<1>5. Ticketed = {} BY <1>1, <1>2 DEF Ticketed, Live
<1>6. Counted BY <1>5, FS_EmptySet DEF Counted, Init
<1>7. GateShape BY NoCallForm DEF GateShape, Init, States
<1>8. Closing BY NoCallForm DEF Closing, Emptied, PastDrain, Init
<1> QED BY <1>3, <1>4, <1>6, <1>7, <1>8 DEF TInv

LEMMA StutterKeeps ==
    ASSUME TInv, UNCHANGED vars PROVE TInv'
<1>1. send' = send /\ UNCHANGED gate /\ call' = call /\ rpc' = rpc BY DEF vars, gate
<1> QED BY <1>1, FieldsKeep, Zenon

LEMMA NextKeeps == TInv /\ [Next]_vars => TInv'
<1> SUFFICES ASSUME TInv, [Next]_vars PROVE TInv' OBVIOUS
<1>1. CASE Sending
  <2>1. PICK r \in Records :
          \/ \E p \in Partitions : enqueue(r, p)
          \/ BeginAdd(r) \/ admit(r) \/ DropEnqueue(r) \/ Produce(r)
          \/ ProduceRetries(r) \/ ProduceAnswered(r) \/ ProduceExpires(r)
          \/ \E c \in Codes : SendReinitEnds(r, c) \/ AddEnds(r, c)
    BY <1>1, Zenon DEF Sending
  <2> QED
    BY <2>1, enqueueKeeps, BeginAddKeeps, admitKeeps, DropEnqueueKeeps, ProduceKeeps,
       ProduceRetriesKeeps, ProduceAnsweredKeeps, ProduceExpiresKeeps, SendReinitEndsKeeps,
       AddEndsKeeps, Zenon
<1>2. CASE Calling
  <2>1. ASSUME NEW c \in Codes, InitEnds(c) \/ CommitReinitEnds(c) \/ FinishEnds(c) \/ EndFails(c)
        PROVE  TInv'
    BY <2>1, InitEndsKeeps, CommitReinitEndsKeeps, FinishEndsKeeps, EndFailsKeeps
  <2> QED
    BY <1>2, <2>1, init_transactionsKeeps, beginKeeps, commitKeeps, abortKeeps, fail_unsentKeeps,
       prepareKeeps, DrainedKeeps, EndSucceedsKeeps, DropCallKeeps, StoreKeeps, completeKeeps, Zenon
       DEF Calling
<1>3. CASE Rpcs
  BY <1>3, AttemptKeeps, NoAnswerKeeps, RetryRpcKeeps, StartReinitKeeps, Zenon DEF Rpcs
<1>4. CASE Brokers BY <1>4, BrokersKeep
<1>5. CASE Crash BY <1>5, CrashKeeps
<1>6. CASE UNCHANGED vars BY <1>6, StutterKeeps
<1> QED BY <1>1, <1>2, <1>3, <1>4, <1>5, <1>6 DEF Next

-----------------------------------------------------------------------------

(* The gate's invariant holds for any partitions, versions, disciplined or *)
(* not, and any numbers of records, transactions, epochs and faults.       *)
THEOREM GateInvariant == Spec => []TInv
BY InitHolds, NextKeeps, PTL DEF Spec

(* The count of pending sends is the number of tickets held, whoever       *)
(* resolves, drops, fails or kills what (gate.rs, TxnGate::admit and       *)
(* resolve), so the `saturating_sub` there never saturates.                *)
THEOREM PendingAlwaysExact == Spec => []PendingExact
<1>1. TInv => PendingExact BY DEF TInv, Counted, Ticketed, PendingExact
<1> QED BY <1>1, GateInvariant, PTL

(* An EndTxn never overtakes a record of the transaction it ends: from the *)
(* end of its drain to its last answer, and while a commit is in doubt, no *)
(* send has a ticket, so the engine has nothing more to write for it.      *)
NothingOvertaken ==
    call.phase \in PastDrain \/ state = "CommitUnknown" =>
        \A r \in Records : send[r].pc \notin Live

THEOREM EndsAfterItsSends == Spec => []NothingOvertaken
<1>1. ASSUME TInv PROVE NothingOvertaken
  <2> SUFFICES ASSUME call.phase \in PastDrain \/ state = "CommitUnknown"
               PROVE  \A r \in Records : send[r].pc \notin Live
    BY DEF NothingOvertaken
  <2>1. pending = 0 BY <1>1 DEF TInv, Closing, Emptied
  <2>2. Ticketed = {} BY <1>1, <2>1, NoTickets DEF TInv
  <2> QED BY <2>2 DEF Ticketed
<1>2. TInv => NothingOvertaken BY <1>1
<1> QED BY <1>2, GateInvariant, PTL
=============================================================================
