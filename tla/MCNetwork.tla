----------------------------- MODULE MCNetwork -----------------------------
(* Three parts of the client that share no state, checked one in each scene:  *)
(* the handshake and framing of a connection, the pool, and the reporter. A   *)
(* part that is not on stage stays in one of its initial states.              *)
EXTENDS Wire, ConnectionPool, Telemetry

VARIABLE scene

Symmetry == Permutations(Tasks)

offstage == CHOOSE w \in Apis : w \in DOMAIN supported_versions

MCInit ==
    /\ scene \in {"wire", "pool", "telemetry"}
    /\ Init
    /\ scene # "wire" => testing /\ api = offstage
    /\ PoolInit
    /\ TelemetryInit

MCNext ==
    /\ \/ scene = "wire" /\ Next /\ UNCHANGED <<poolVars, telemetryVars>>
       \/ scene = "pool" /\ PoolNext /\ UNCHANGED <<vars, telemetryVars>>
       \/ scene = "telemetry" /\ TelemetryNext /\ UNCHANGED <<vars, poolVars>>
    /\ UNCHANGED scene

MCSpec == MCInit /\ [][MCNext]_<<vars, poolVars, telemetryVars, scene>>
=============================================================================
