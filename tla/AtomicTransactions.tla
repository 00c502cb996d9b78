------------------------- MODULE AtomicTransactions -------------------------
(***************************************************************************)
(* What the @Transactional decorator promises of a database, without its   *)
(* frames, its connections and the ways in which they fail: whatever is    *)
(* written inside a transaction reaches the store in one step, when the    *)
(* transaction commits, or never; and a transaction that has ended takes   *)
(* no further write.                                                       *)
(***************************************************************************)
CONSTANTS Transactions, Writes

VARIABLES
    status,   \* each transaction: "fresh", "open" or "ended"
    written,  \* what was written in it
    store     \* the writes that everybody sees

atomicVars == <<status, written, store>>

AtomicInit ==
    /\ status = [t \in Transactions |-> "fresh"]
    /\ written = [t \in Transactions |-> {}]
    /\ store = {}

Become(t, s) == status' = [status EXCEPT ![t] = s]

Begin(t) ==
    /\ status[t] = "fresh"
    /\ Become(t, "open")
    /\ UNCHANGED <<written, store>>

\* A write is made once, in one transaction, and waits there.
Write(t, w) ==
    /\ status[t] = "open"
    /\ \A u \in Transactions : w \notin written[u]
    /\ written' = [written EXCEPT ![t] = @ \cup {w}]
    /\ UNCHANGED <<status, store>>

Commit(t) ==
    /\ status[t] = "open"
    /\ store' = store \cup written[t]
    /\ Become(t, "ended")
    /\ UNCHANGED written

\* It is rolled back, or never came to its BEGIN.
Abort(t) ==
    /\ status[t] # "ended"
    /\ Become(t, "ended")
    /\ UNCHANGED <<written, store>>

AtomicNext ==
    \E t \in Transactions :
        Begin(t) \/ Commit(t) \/ Abort(t) \/ \E w \in Writes : Write(t, w)

AtomicSpec == AtomicInit /\ [][AtomicNext]_atomicVars
=============================================================================
