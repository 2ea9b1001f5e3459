------------------------------ MODULE Clients -------------------------------
(***************************************************************************)
(* The accept loop of src/src/server.rs and the life of a connection's     *)
(* task around handle(): the permit it takes from client_slots, the        *)
(* ClientGuard that counts it, and the two steps in which the guard is     *)
(* dropped.  What the task does in between is PubSub's business.           *)
(***************************************************************************)
EXTENDS Integers, FiniteSets

CONSTANTS
    Client,      \* the connections that are ever attempted
    MaxClients   \* MAX_CLIENTS

ASSUME ClientsAssumption == MaxClients \in Nat

VARIABLES
    stage,       \* where each connection is in its life
    permits,     \* client_slots: the permits left
    connected,   \* state.connected_clients
    total        \* state.total_connections

clientVars == <<stage, permits, connected, total>>

Stages == {"away", "accepted", "served", "leaving", "uncounted", "gone"}

ClientsTypeOK ==
    /\ stage \in [Client -> Stages]
    /\ permits \in 0 .. MaxClients
    /\ connected \in 0 .. MaxClients
    /\ total \in Nat

ClientsInit ==
    /\ stage = [c \in Client |-> "away"]
    /\ permits = MaxClients
    /\ connected = 0
    /\ total = 0

Move(c, from, to) ==
    /\ stage[c] = from
    /\ stage' = [stage EXCEPT ![c] = to]

\* Mutant of Accept: a connection is admitted without a permit of its own.
AcceptUncounted(c) ==
    /\ permits > 0
    /\ Move(c, "away", "accepted")
    /\ total' = total + 1
    /\ UNCHANGED <<permits, connected>>

\* accept_loop: a permit is taken and the connection's task is spawned.
Accept(c) ==
    /\ permits > 0
    /\ Move(c, "away", "accepted")
    /\ permits' = permits - 1
    /\ total' = total + 1
    /\ UNCHANGED connected

\* accept_loop: try_acquire_owned fails, the socket is dropped.
RejectClient(c) ==
    /\ permits = 0
    /\ Move(c, "away", "gone")
    /\ UNCHANGED <<permits, connected, total>>

\* The spawned task runs for the first time: ClientGuard::new, then handle().
Serve(c) ==
    /\ Move(c, "accepted", "served")
    /\ connected' = connected + 1
    /\ UNCHANGED <<permits, total>>

\* handle() returns, in whichever way.
HandleReturns(c) ==
    /\ Move(c, "served", "leaving")
    /\ UNCHANGED <<permits, connected, total>>

\* ClientGuard::drop ...
DropGuard(c) ==
    /\ Move(c, "leaving", "uncounted")
    /\ connected' = connected - 1
    /\ UNCHANGED <<permits, total>>

\* ... and after it the guard's fields are dropped, the permit among them.
ReleasePermit(c) ==
    /\ Move(c, "uncounted", "gone")
    /\ permits' = permits + 1
    /\ UNCHANGED <<connected, total>>

=============================================================================
