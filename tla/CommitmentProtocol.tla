------------------------- MODULE CommitmentProtocol -------------------------
(***************************************************************************)
(* Cross-shard commitments: CommitmentProtocol.  A commitment names the    *)
(* commitments it depends on and is final once they all are; finalizing    *)
(* one cascades to the commitments that wait for it, by a recursion that   *)
(* works off a list read from `pending` while deeper calls change it.      *)
(*                                                                         *)
(* The calls are synchronous and run on one event loop: no call starts     *)
(* while `stack`, the recursion in progress, is not empty.                 *)
(***************************************************************************)
EXTENDS Naturals, Sequences

CONSTANTS
    Hashes,      \* the commitments that are created, by commitment_hash
    ShardOf,     \* commitment -> shard_id
    NeedOf,      \* commitment -> need_id
    Deps         \* commitment -> commitment hashes it depends on

Needs == {NeedOf[h] : h \in Hashes}

\* A commitment's hash covers its dependencies, so it is none of them.  A
\* dependency may be a hash that no commitment of this process has.
ASSUME CommitmentAssumption == \A h \in Hashes : h \notin Deps[h]

VARIABLES
    published,   \* commitments, and commitment_by_hash
    finalized,   \* finalized
    pending,     \* pending: hash -> dependencies it still waits for
    rank,        \* when each hash last became a key of pending: the dict's order
    stack,       \* the _cascade_finalize calls in progress, innermost last
    failed,      \* history variable: some call ended with a KeyError
    cleared      \* history variable: the commitments clear_need removed

commitVars == <<published, finalized, pending, rank, stack, failed, cleared>>

Key(h) == <<ShardOf[h], NeedOf[h]>>

Idle == stack = <<>>

CommitInit ==
    /\ published = {}
    /\ finalized = {}
    /\ pending = [h \in {} |-> {}]
    /\ rank = [h \in Hashes |-> 0]
    /\ stack = <<>>
    /\ failed = FALSE
    /\ cleared = {}

\* The rank of the newest key of pending.
LastRank ==
    CHOOSE n \in {0} \cup {rank[w] : w \in DOMAIN pending} :
        \A w \in DOMAIN pending : rank[w] <= n

Without(f, S) == [h \in DOMAIN f \ S |-> f[h]]

-----------------------------------------------------------------------------
(***************************************************************************)
(* finalize_commitment after its checks: h is final and leaves pending,    *)
(* and _cascade_finalize, called by the calls in `callers`, reads from     *)
(* pending what waits for h.                                               *)
(***************************************************************************)
Finalize(h, pend, callers) ==
    /\ finalized' = finalized \cup {h}
    /\ pending' = Without(pend, {h})
    /\ stack' = Append(callers, [hash |-> h,
                                 waiting |-> {w \in DOMAIN pending' : h \in pending'[w]}])

\* All dependencies are final: the test of _try_finalize and finalize_commitment.
Ready_Published(h) == Deps[h] \subseteq published

Ready(h) == Deps[h] \subseteq finalized

(***************************************************************************)
(* publish_commitment: refused while the key is taken.  What is missing is *)
(* recorded in pending; nothing missing means final at once.               *)
(***************************************************************************)
publish_commitment(h) ==
    /\ Idle
    /\ \A p \in published : Key(p) # Key(h)
    /\ published' = published \cup {h}
    /\ \/ /\ Ready(h)
          /\ Finalize(h, pending, stack)
          /\ UNCHANGED rank
       \/ /\ ~Ready(h)
          /\ pending' = [w \in DOMAIN pending \cup {h} |->
                            IF w = h THEN Deps[h] \ finalized ELSE pending[w]]
          /\ rank' = [rank EXCEPT ![h] = LastRank + 1]
          /\ UNCHANGED <<finalized, stack>>
    /\ UNCHANGED <<failed, cleared>>

finalize_commitment(h) ==
    /\ Idle
    /\ h \in published \ finalized
    /\ Ready(h)
    /\ Finalize(h, pending, stack)
    /\ UNCHANGED <<published, rank, failed, cleared>>

(***************************************************************************)
(* The loop of the innermost _cascade_finalize takes the entries of its    *)
(* list in the order of the dict.  The entry loses the dependency, and     *)
(* _try_finalize may start a deeper cascade.  An entry that a deeper       *)
(* cascade has removed meanwhile raises KeyError, which unwinds every call *)
(* in progress up to the handler that catches it.                          *)
(***************************************************************************)
Top == stack[Len(stack)]

IsNext(w) == w \in Top.waiting /\ \A x \in Top.waiting : rank[w] <= rank[x]

cascade_finalize_NoTry(w) ==
    /\ ~Idle
    /\ IsNext(w)
    /\ w \in DOMAIN pending
    /\ pending' = [pending EXCEPT ![w] = @ \ {Top.hash}]
    /\ stack' = [stack EXCEPT ![Len(stack)].waiting = @ \ {w}]
    /\ UNCHANGED <<published, finalized, rank, failed, cleared>>

cascade_finalize(w) ==
    LET loop == [stack EXCEPT ![Len(stack)].waiting = @ \ {w}]
        pend == [pending EXCEPT ![w] = @ \ {Top.hash}]
        try == w \in published \ finalized /\ Ready(w)
    IN /\ ~Idle
       /\ IsNext(w)
       /\ w \in DOMAIN pending
       /\ \/ try /\ Finalize(w, pend, loop)
          \/ ~try /\ pending' = pend /\ stack' = loop /\ UNCHANGED finalized
       /\ UNCHANGED <<published, rank, failed, cleared>>

CascadeKeyError(w) ==
    /\ ~Idle
    /\ IsNext(w)
    /\ w \notin DOMAIN pending
    /\ stack' = <<>>
    /\ failed' = TRUE
    /\ UNCHANGED <<published, finalized, pending, rank, cleared>>

CascadeReturn ==
    /\ ~Idle
    /\ Top.waiting = {}
    /\ stack' = SubSeq(stack, 1, Len(stack) - 1)
    /\ UNCHANGED <<published, finalized, pending, rank, failed, cleared>>

\* clear_need: forgets every commitment of the need.
clear_need(n) ==
    LET gone == {h \in published : NeedOf[h] = n} IN
    /\ Idle
    /\ gone # {}
    /\ published' = published \ gone
    /\ finalized' = finalized \ gone
    /\ pending' = Without(pending, gone)
    /\ cleared' = cleared \cup gone
    /\ UNCHANGED <<rank, stack, failed>>

\* The calls others make, and the steps inside a call.
CommitCall ==
    \/ \E h \in Hashes : publish_commitment(h) \/ finalize_commitment(h)
    \/ \E n \in Needs : clear_need(n)

CascadeStep ==
    \/ \E w \in Hashes : cascade_finalize(w) \/ CascadeKeyError(w)
    \/ CascadeReturn

CommitNext == CommitCall \/ CascadeStep

-----------------------------------------------------------------------------
Frame == [hash : Hashes, waiting : SUBSET Hashes]

CommitTypeOK ==
    /\ published \subseteq Hashes
    /\ finalized \subseteq published
    /\ DOMAIN pending \subseteq published
    /\ \A h \in DOMAIN pending : pending[h] \subseteq Deps[h]
    /\ rank \in [Hashes -> Nat]
    /\ stack \in Seq(Frame)
    /\ failed \in BOOLEAN
    /\ cleared \subseteq Hashes

\* No commitment is final before what it depends on (commitment.py 255-262,
\* 296-299): through any nesting of cascades, a dependency of a final
\* commitment is final itself, unless clear_need has removed it since.
FinalAfterDeps ==
    \A h \in finalized : Deps[h] \subseteq finalized \cup cleared

\* When the outermost call returns, the cascade has left nobody behind
\* (commitment.py 301-316): what a commitment is recorded as waiting for is
\* exactly what is not final, and it waits for something.  Calls that ended in a
\* KeyError, and commitments a dependency of which was cleared, are excepted.
CascadeSettles ==
    Idle /\ ~failed =>
        \A h \in published \ finalized :
            Deps[h] \cap cleared = {} =>
                /\ h \in DOMAIN pending
                /\ pending[h] = Deps[h] \ finalized
                /\ pending[h] # {}

\* What the docstring of _cascade_finalize says of every call (commitment.py
\* 303): finalizing a commitment reaches those waiting for it, so between calls
\* no published commitment has only final dependencies and is not final.
CascadeReachesWaiters ==
    Idle => \A h \in published \ finalized :
                Deps[h] \cap cleared = {} => ~Ready(h)
=============================================================================
