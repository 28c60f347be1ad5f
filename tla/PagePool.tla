------------------------------ MODULE PagePool ------------------------------
(***************************************************************************)
(* What the physical memory manager promises its clients: a pool of pages  *)
(* that is filled once at boot, from which a page is handed to one client  *)
(* at a time and which refuses a request only when it is empty.  Which     *)
(* page is handed out is left open.  Pmm implements this specification.    *)
(***************************************************************************)
CONSTANTS Pages,      \* the page numbers
          AddrOf(_),  \* the address a client receives for a page
          NULL,       \* the refusal
          NoResult    \* the last call returned nothing

VARIABLES free,   \* pages the pool may hand out
          held,   \* pages the clients hold
          result  \* what the last call returned

poolVars == <<free, held, result>>

PoolInit == free = {} /\ held = {} /\ result = NoResult

(* Boot makes a set of pages available, none of which is the refusal. *)
Fill == /\ free = {} /\ held = {}
        /\ free' \in SUBSET {p \in Pages : AddrOf(p) # NULL}
        /\ result' = NoResult
        /\ UNCHANGED held

Acquire(p) == /\ p \in free
              /\ free' = free \ {p}
              /\ held' = held \cup {p}
              /\ result' = AddrOf(p)

Refuse == /\ free = {}
          /\ result' = NULL
          /\ UNCHANGED <<free, held>>

Release(p) == /\ p \in held
              /\ free' = free \cup {p}
              /\ held' = held \ {p}
              /\ result' = NoResult

(* A release the pool rejects, or any step that leaves the pool alone. *)
Ignore == result' = NoResult /\ UNCHANGED <<free, held>>

PoolNext == \/ Fill \/ Refuse \/ Ignore
            \/ \E p \in Pages : Acquire(p) \/ Release(p)

PoolSpec == PoolInit /\ [][PoolNext]_poolVars
=============================================================================
