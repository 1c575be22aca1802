--------------------------- MODULE SubmitPromise ---------------------------
(***************************************************************************)
(* What a caller of Outbox.Submit may rely on, with no breaker, file or    *)
(* drain goroutine in sight: an accepted entry has been applied by the     *)
(* upstream or is held by the outbox, a held entry is let go only after it *)
(* was applied, and a rejected entry is never held.                        *)
(***************************************************************************)
CONSTANT Entries

VARIABLES
    verdict,  \* what Submit told the caller about each entry
    held,     \* entries the outbox keeps for the upstream
    applied   \* entries the upstream has applied

promiseVars == <<verdict, held, applied>>

PromiseInit ==
    /\ verdict = [e \in Entries |-> "pending"]
    /\ held = {}
    /\ applied = {}

\* The upstream applies an entry whose Submit is running or that is held.
Apply(e) ==
    /\ verdict[e] = "pending" \/ e \in held
    /\ applied' = applied \union {e}
    /\ UNCHANGED <<verdict, held>>

Accept(e) ==
    /\ verdict[e] = "pending"
    /\ verdict' = [verdict EXCEPT ![e] = "accepted"]
    /\ \/ e \in applied /\ UNCHANGED held
       \/ held' = held \union {e}
    /\ UNCHANGED applied

Reject(e) ==
    /\ verdict[e] = "pending"
    /\ verdict' = [verdict EXCEPT ![e] = "rejected"]
    /\ UNCHANGED <<held, applied>>

\* Several at once when what held them is gone.
Release(es) ==
    /\ es \subseteq held \intersect applied
    /\ held' = held \ es
    /\ UNCHANGED <<verdict, applied>>

PromiseNext ==
    \/ \E e \in Entries : Apply(e) \/ Accept(e) \/ Reject(e)
    \/ \E es \in SUBSET held : Release(es)

PromiseSpec == PromiseInit /\ [][PromiseNext]_promiseVars
=============================================================================
