----------------------------- MODULE Allocator -----------------------------
(***************************************************************************)
(* What malloc, realloc and free promise their callers: the blocks a       *)
(* client holds never overlap, a call changes no block but the one it      *)
(* names, and a call that fails changes none.                              *)
(***************************************************************************)
EXTENDS Integers

CONSTANT Requests    \* the sizes clients ask for
VARIABLE blocks      \* pointer |-> size asked for

Holds(f, p, n) ==
    /\ DOMAIN f = DOMAIN blocks \cup {p}
    /\ f[p] = n
    /\ \A q \in DOMAIN blocks \ {p} : f[q] = blocks[q]

\* A zero-sized block still has an address of its own.
Apart(f, p) ==
    \A q \in DOMAIN f \ {p} : \/ p < q /\ p + f[p] <= q
                              \/ q < p /\ q + f[q] <= p

Init == blocks = [y \in {} |-> 0]

Alloc(n) ==
    \E p \in DOMAIN blocks' \ DOMAIN blocks :
        p # 0 /\ Holds(blocks', p, n) /\ Apart(blocks', p)

\* The block keeps its address, or moves to a new one.
Resize(p, n) ==
    \/ Holds(blocks', p, n) /\ Apart(blocks', p)
    \/ \E q \in DOMAIN blocks' \ DOMAIN blocks :
         /\ q # 0
         /\ DOMAIN blocks' = (DOMAIN blocks \ {p}) \cup {q}
         /\ blocks'[q] = n
         /\ \A r \in DOMAIN blocks \ {p} : blocks'[r] = blocks[r]
         /\ Apart(blocks', q)

Release(p) == blocks' = [q \in DOMAIN blocks \ {p} |-> blocks[q]]

Next ==
    \/ \E n \in Requests : Alloc(n)
    \/ \E p \in DOMAIN blocks, n \in Requests : Resize(p, n)
    \/ \E p \in DOMAIN blocks : Release(p)

Spec == Init /\ [][Next]_blocks
=============================================================================
