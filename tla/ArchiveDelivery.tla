-------------------------- MODULE ArchiveDelivery ---------------------------
(***************************************************************************)
(* What archiving candidate memories promises, without queues, workers or  *)
(* retries: a batch of encrypted memories is held in the database until it *)
(* is in durable storage, and a memory only ever refers to a stored batch  *)
(* that contains it.                                                       *)
(***************************************************************************)
EXTENDS Naturals

CONSTANTS
    B,      \* batches are 1..B
    Cands   \* candidate memories

VARIABLES
    contents,   \* the memories of a batch; {} before it is held
    stored,     \* the batches in durable storage
    point       \* the batch a memory's statement is read from; 0: none

dvars == <<contents, stored, point>>

Init ==
    /\ contents = [b \in 1..B |-> {}]
    /\ stored = {}
    /\ point = [c \in Cands |-> 0]

\* A new batch is written to the database.
Hold(b, ids) ==
    /\ contents[b] = {}
    /\ ids # {}
    /\ contents' = [contents EXCEPT ![b] = ids]
    /\ UNCHANGED <<stored, point>>

\* A held batch reaches durable storage.
Store(b) ==
    /\ contents[b] # {}
    /\ b \notin stored
    /\ stored' = stored \cup {b}
    /\ UNCHANGED <<contents, point>>

\* A memory is read from a stored batch that contains it.
Point(c, b) ==
    /\ b \in stored
    /\ c \in contents[b]
    /\ point' = [point EXCEPT ![c] = b]
    /\ UNCHANGED <<contents, stored>>

\* A memory that is extracted again waits for its new batch.
Unpoint(c) ==
    /\ point' = [point EXCEPT ![c] = 0]
    /\ UNCHANGED <<contents, stored>>

Next ==
    \/ \E b \in 1..B, ids \in SUBSET Cands : Hold(b, ids)
    \/ \E b \in 1..B : Store(b)
    \/ \E c \in Cands, b \in 1..B : Point(c, b)
    \/ \E c \in Cands : Unpoint(c)

Safe == Init /\ [][Next]_dvars

\* Every batch that is held is eventually stored.
Delivers == Safe /\ \A b \in 1..B : WF_dvars(Store(b))

=============================================================================
