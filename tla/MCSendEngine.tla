---------------------------- MODULE MCSendEngine ----------------------------
(* A small instance of SendEngine: the outcomes a batch may have in it.    *)
EXTENDS SendEngine

Answer(code, base, start) ==
    [kind |-> "Answer", code |-> code, base |-> base, start |-> start]
Plainly(kind) == [kind |-> kind, code |-> "None", base |-> -1, start |-> -1]

(* Written at some offset or already written at one no longer known;       *)
(* refused in the ways the modes tell apart; not acknowledged on purpose   *)
(* (acks = 0), lost, not sent, too large for the client.                   *)
AllOutcomes ==
    {Answer("None", 0, 0), Answer("DuplicateSequenceNumber", -1, 0)}
    \cup {Answer("UnknownProducerId", -1, s) : s \in {0, 1}}
    \cup {Answer(c, -1, 0) : c \in {"MessageTooLarge", "OutOfOrderSequenceNumber",
                                    "InvalidProducerEpoch", "ProducerFenced",
                                    "InvalidProducerIdMapping", "TransactionAbortable"}}
    \cup {Plainly(k) : k \in {"Unacknowledged", "NoAnswer", "NotWritten", "TooLarge"}}
=============================================================================
