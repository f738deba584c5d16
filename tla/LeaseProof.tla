----------------------------- MODULE LeaseProof -----------------------------
(***************************************************************************)
(* Proofs about Lease, for any leases, workers, callers and threads.       *)
(***************************************************************************)
EXTENDS Lease, TLAPS

USE DEF LeaseAssumption

(* Init establishes the inductive invariant.                               *)
LEMMA InitInd == Init => IndInv
<1> SUFFICES ASSUME Init PROVE IndInv OBVIOUS
<1> USE LeaseAssumption DEF Init
<1>1. TypeOK
  BY DEF TypeOK, CallState, MonState, IdleCall, OffMonitor, Reasons
<1>2. NamesKnown /\ ListsOverdue /\ DropsAnnounced
  BY DEF NamesKnown, ListsOverdue, DropsAnnounced, IdleCall, OffMonitor
<1> QED BY <1>1, <1>2 DEF IndInv

(* The expectation of a lease is left alone, or it is dropped once a       *)
(* release of the lease has been announced.                                *)
ExpectationKept(l) ==
    IF l \in DOMAIN expect' THEN l \in DOMAIN expect /\ expect'[l] = expect[l]
    ELSE l \in DOMAIN expect => \E m \in published' : m.lease = l

(* Entries stay overdue.  A step that reads no list keeps ListsOverdue when *)
(* the rows and expectations that it gives new time to are put into         *)
(* refreshed, no row comes back, and expectations go only after a RELEASE.  *)
LEMMA ListsKept ==
    ASSUME IndInv, TypeOK', clock' >= clock, published \subseteq published',
           \A u \in Threads : mon'[u].now <= clock',
           \A u \in Threads : \/ mon'[u].todo = {}
                             \/ /\ mon'[u].todo \subseteq mon[u].todo
                                /\ mon'[u].reason = mon[u].reason
                                /\ refreshed[u] \subseteq refreshed'[u],
           \A l \in DOMAIN leases' : l \in DOMAIN leases \/ l \notin DOMAIN history,
           \A u \in Threads : \A l \in mon'[u].todo : l \in DOMAIN leases' =>
               \/ l \in refreshed'[u]
               \/ mon[u].reason = "timeout" /\ leases'[l] = leases[l]
               \/ mon[u].reason # "timeout" /\ ExpectationKept(l)
    PROVE  ListsOverdue'
<1> SUFFICES ASSUME NEW u \in Threads, NEW l \in mon'[u].todo,
                    l \notin refreshed'[u], l \in DOMAIN leases'
             PROVE  Overdue(l, mon[u].reason)'
  <2>1. ASSUME NEW u \in Threads, NEW l \in mon'[u].todo
        PROVE  l \in refreshed'[u] \/ ~Held(l)' \/ Overdue(l, mon[u].reason)'
    <3>1. l \in refreshed'[u] \/ l \notin DOMAIN leases' \/ Overdue(l, mon[u].reason)'
      BY <2>1
    <3> QED  BY <3>1 DEF Held
  <2> QED  BY <2>1 DEF ListsOverdue
<1>1. l \in mon[u].todo /\ mon'[u].reason = mon[u].reason /\ l \notin refreshed[u]
  OBVIOUS
<1>2. l \in DOMAIN history /\ l \in DOMAIN leases
  BY <1>1 DEF IndInv, NamesKnown
<1>3. Overdue(l, mon[u].reason)
  BY <1>1, <1>2 DEF IndInv, ListsOverdue, Held
<1>4. /\ clock \in Nat /\ clock' \in Nat
      /\ leases[l].created \in Nat /\ leases[l].ttl \in Nat
      /\ \A k \in DOMAIN expect : expect[k] \in Nat
  BY <1>2, LeaseAssumption DEF IndInv, TypeOK, LeaseRow
<1>5. CASE mon[u].reason = "timeout" /\ leases'[l] = leases[l]
  BY <1>1, <1>3, <1>4, <1>5 DEF Overdue, TtlPassed
<1>6. CASE mon[u].reason # "timeout" /\ ExpectationKept(l)
  <2>1. CASE l \in DOMAIN expect'
    BY <1>1, <1>3, <1>4, <1>6, <2>1 DEF Overdue, HeartbeatMissed, ExpectationKept
  <2>2. CASE l \notin DOMAIN expect'
    <3>1. \E m \in published' : m.lease = l
      BY <1>3, <1>6, <2>2 DEF Overdue, HeartbeatMissed, ExpectationKept
    <3> QED  BY <1>1, <1>6, <2>2, <3>1 DEF Overdue, HeartbeatMissed
  <2> QED  BY <2>1, <2>2
<1> QED  BY <1>5, <1>6

(* The same when no monitor thread moves and no list entry is given time.  *)
LEMMA QuietLists ==
    ASSUME IndInv, TypeOK', clock' >= clock, UNCHANGED <<mon, published, refreshed>>,
           \A l \in DOMAIN leases' : l \in DOMAIN leases \/ l \notin DOMAIN history,
           \A l \in DOMAIN leases' \cap DOMAIN leases : leases'[l] = leases[l],
           \A l \in DOMAIN leases' \cap DOMAIN leases : ExpectationKept(l)
    PROVE  ListsOverdue' /\ DropsAnnounced'
<1>1. /\ \A u \in Threads : mon[u].now <= clock /\ mon[u].now \in Nat
      /\ clock \in Nat /\ clock' \in Nat
  BY DEF IndInv, TypeOK, MonState, ListsOverdue
<1>2. \A u \in Threads : mon'[u].now <= clock'
  BY <1>1
<1>3. \A u \in Threads : \A l \in mon'[u].todo : l \in DOMAIN history
  BY DEF IndInv, NamesKnown
<1>4. ListsOverdue'
  BY <1>2, <1>3, ListsKept
<1> QED  BY <1>4 DEF DropsAnnounced, IndInv

(* Every action preserves the inductive invariant.                         *)
LEMMA StepInd == IndInv /\ [Next]_vars => IndInv'
<1> SUFFICES ASSUME IndInv, [Next]_vars PROVE IndInv'
  OBVIOUS
<1> USE LeaseAssumption DEF IndInv, monVars, histVars, Calls, Goes, Held
<1>m. /\ mon \in [Threads -> MonState] /\ \A u \in Threads : mon[u] \in MonState
      /\ \A u \in Threads : mon[u].now \in Nat /\ mon[u].now <= clock
      /\ OffMonitor \in MonState
      /\ clock \in Nat
  BY DEF TypeOK, ListsOverdue, MonState, OffMonitor, Reasons
<1>c. /\ call \in [Callers -> CallState] /\ \A d \in Callers : call[d] \in CallState
      /\ IdleCall \in CallState
  BY DEF TypeOK, CallState, IdleCall
<1>1. ASSUME Tick PROVE IndInv'
  <2> USE <1>1 DEF Tick
  <2>1. TypeOK'
    BY <1>c, <1>m DEF TypeOK
  <2>2. NamesKnown'
    BY DEF NamesKnown
  <2>3. ListsOverdue' /\ DropsAnnounced'
    BY <2>1, QuietLists DEF ExpectationKept, TypeOK
  <2> QED  BY <2>1, <2>2, <2>3
<1>2. ASSUME NEW c \in Callers, CreateBegin(c) PROVE IndInv'
  <2> USE <1>2 DEF CreateBegin
  <2>1. TypeOK'
    <3>1. [IdleCall EXCEPT !.pc = "create", !.at = clock] \in CallState
      BY <1>c DEF TypeOK, CallState, IdleCall, LeaseRow
    <3>2. call' \in [Callers -> CallState]
      BY <1>c, <3>1
    <3> QED  BY <3>2 DEF TypeOK
  <2>2. NamesKnown'
    BY <1>c DEF TypeOK, NamesKnown, IdleCall, CallState
  <2>3. ListsOverdue' /\ DropsAnnounced'
    BY <2>1, QuietLists DEF ExpectationKept, TypeOK
  <2> QED  BY <2>1, <2>2, <2>3
<1>3. ASSUME NEW c \in Callers, CreateCommit(c) PROVE IndInv'
  <2> USE <1>3 DEF CreateCommit
  <2>1. TypeOK'
    <3>1. PICK l \in LeaseIds \ DOMAIN history, w \in Workers, t \in TTLs, i \in Intervals :
            LET row == [worker |-> w, ttl |-> t, interval |-> i, created |-> call[c].at]
            IN  leases' = Put(leases, l, row) /\ history' = Put(history, l, row)
      OBVIOUS
    <3>2. call[c].at \in Nat
      BY <1>c DEF CallState
    <3> DEFINE row == [worker |-> w, ttl |-> t, interval |-> i, created |-> call[c].at]
    <3>3. row \in LeaseRow
      BY <3>2 DEF LeaseRow
    <3> HIDE DEF row
    <3>4. /\ DOMAIN leases' \subseteq LeaseIds /\ DOMAIN history' \subseteq LeaseIds
          /\ \A k \in DOMAIN leases' : leases'[k] \in LeaseRow
          /\ \A k \in DOMAIN history' : history'[k] \in LeaseRow
      BY <3>1, <3>3 DEF TypeOK, Put, row
    <3> QED  BY <1>c, <3>4 DEF TypeOK
  <2>2. NamesKnown'
    BY <1>c DEF NamesKnown, Put, IdleCall
  <2>3. ListsOverdue' /\ DropsAnnounced'
    <3>1. PICK l \in LeaseIds \ DOMAIN history :
            /\ DOMAIN leases' = DOMAIN leases \cup {l}
            /\ \A k \in DOMAIN leases : k # l => leases'[k] = leases[k]
      BY DEF Put
    <3>2. l \notin DOMAIN leases
      BY <3>1 DEF NamesKnown
    <3> QED  BY <1>m, <2>1, <3>1, <3>2, QuietLists DEF ExpectationKept
  <2> QED  BY <2>1, <2>2, <2>3
<1>4. ASSUME NEW c \in Callers, RenewBegin(c) PROVE IndInv'
  <2> USE <1>4 DEF RenewBegin
  <2>1. TypeOK'
    <3>1. \A l \in DOMAIN history : [IdleCall EXCEPT !.pc = "renew", !.lease = l, !.at = clock] \in CallState
      BY <1>c DEF TypeOK, CallState, IdleCall, LeaseRow
    <3>2. call' \in [Callers -> CallState]
      BY <1>c, <3>1
    <3> QED  BY <3>2 DEF TypeOK
  <2>2. NamesKnown'
    <3>1. PICK l \in DOMAIN history :
            call' = [call EXCEPT ![c] = [IdleCall EXCEPT !.pc = "renew", !.lease = l, !.at = clock]]
      OBVIOUS
    <3>2. call'[c].lease = l /\ \A d \in Callers : d # c => call'[d] = call[d]
      BY <1>c, <3>1 DEF IdleCall
    <3> QED  BY <3>1, <3>2 DEF NamesKnown
  <2>3. ListsOverdue' /\ DropsAnnounced'
    BY <2>1, QuietLists DEF ExpectationKept, TypeOK
  <2> QED  BY <2>1, <2>2, <2>3
<1>5. ASSUME NEW c \in Callers, RenewCommit(c) PROVE IndInv'
  <2> USE <1>5 DEF RenewCommit
  <2>1. TypeOK'
    <3>1. call[c].at \in Nat
      BY <1>c DEF CallState
    <3>2. DOMAIN leases' = DOMAIN leases /\ \A l \in DOMAIN leases' : leases'[l] \in LeaseRow
      BY <3>1 DEF TypeOK, LeaseRow
    <3>3. refreshed' \in [Threads -> SUBSET LeaseIds]
      BY DEF TypeOK, Refreshes
    <3> QED  BY <1>c, <3>2, <3>3 DEF TypeOK
  <2>2. NamesKnown'
    BY <1>c DEF NamesKnown, IdleCall
  <2>3. ListsOverdue' /\ DropsAnnounced'
    <3>1. /\ DOMAIN leases' = DOMAIN leases
          /\ \A u \in Threads : refreshed[u] \subseteq refreshed'[u]
          /\ \A k \in DOMAIN leases : k # call[c].lease => leases'[k] = leases[k]
          /\ \A u \in Threads : call[c].lease \in mon[u].todo /\ call[c].lease \in DOMAIN leases
                                /\ mon[u].reason = "timeout" => call[c].lease \in refreshed'[u]
      BY DEF TypeOK, Refreshes
    <3>2. \A l : ExpectationKept(l)
      BY DEF ExpectationKept
    <3>3. ListsOverdue'
      BY <1>m, <2>1, <3>1, <3>2, ListsKept
    <3> QED  BY <3>3 DEF DropsAnnounced
  <2> QED  BY <2>1, <2>2, <2>3
<1>6. ASSUME NEW l \in LeaseIds, DeleteLease(l) PROVE IndInv'
  <2> USE <1>6 DEF DeleteLease, Drop
  <2>1. TypeOK'
    BY DEF TypeOK
  <2>2. NamesKnown'
    BY DEF NamesKnown
  <2>3. ListsOverdue' /\ DropsAnnounced'
    BY <2>1, QuietLists DEF ExpectationKept, TypeOK
  <2> QED  BY <2>1, <2>2, <2>3
<1>7. ASSUME NEW l \in LeaseIds, NEW i \in Intervals, ExpectHeartbeat(l, i) PROVE IndInv'
  <2> USE <1>7 DEF ExpectHeartbeat
  <2>1. TypeOK'
    <3>1. DOMAIN expect' \subseteq LeaseIds /\ \A k \in DOMAIN expect' : expect'[k] \in Nat
      BY DEF TypeOK, Put
    <3>2. refreshed' \in [Threads -> SUBSET LeaseIds]
      BY DEF TypeOK, Refreshes
    <3> QED  BY <3>1, <3>2 DEF TypeOK
  <2>2. NamesKnown'
    BY DEF NamesKnown, Put
  <2>3. ListsOverdue' /\ DropsAnnounced'
    <3>1. /\ \A u \in Threads : refreshed[u] \subseteq refreshed'[u]
          /\ \A k \in DOMAIN expect' : k # l => k \in DOMAIN expect /\ expect'[k] = expect[k]
          /\ DOMAIN expect \subseteq DOMAIN expect'
          /\ \A u \in Threads : l \in mon[u].todo /\ mon[u].reason = "heartbeat_miss"
                                => l \in refreshed'[u]
      BY DEF TypeOK, Refreshes, Put
    <3>2. \A k : k # l => ExpectationKept(k)
      BY <3>1 DEF ExpectationKept
    <3>3. \A u \in Threads : mon[u].reason \in {"timeout", "heartbeat_miss"}
      BY <1>m DEF MonState, Reasons
    <3>4. ListsOverdue'
      BY <1>m, <2>1, <3>1, <3>2, <3>3, ListsKept
    <3> QED  BY <3>4 DEF DropsAnnounced
  <2> QED  BY <2>1, <2>2, <2>3
<1>8. ASSUME NEW c \in Callers, NEW l \in LeaseIds, NEW w \in Workers, HeartbeatLookup(c, l, w) PROVE IndInv'
  <2> USE <1>8 DEF HeartbeatLookup
  <2>1. TypeOK'
    <3>1. [IdleCall EXCEPT !.pc = "touch", !.lease = l] \in CallState
      BY <1>c DEF TypeOK, CallState, IdleCall, LeaseRow
    <3>2. call' \in [Callers -> CallState]
      BY <1>c, <3>1
    <3> QED  BY <3>2 DEF TypeOK
  <2>2. NamesKnown'
    <3>2. call'[c].lease = l /\ \A d \in Callers : d # c => call'[d] = call[d]
      BY <1>c DEF IdleCall
    <3> QED  BY <3>2 DEF NamesKnown
  <2>3. ListsOverdue' /\ DropsAnnounced'
    BY <2>1, QuietLists DEF ExpectationKept, TypeOK
  <2> QED  BY <2>1, <2>2, <2>3
<1>9. ASSUME NEW c \in Callers, HeartbeatTouch(c) PROVE IndInv'
  <2> USE <1>9 DEF HeartbeatTouch
  <2>1. TypeOK'
    <3>1. [call[c] EXCEPT !.pc = "recv"] \in CallState
      BY <1>c DEF TypeOK, CallState, IdleCall, LeaseRow
    <3>2. call' \in [Callers -> CallState]
      BY <1>c, <3>1
    <3> QED  BY <3>2 DEF TypeOK
  <2>2. NamesKnown'
    <3>1. call'[c].pc = "idle" \/ call'[c].lease = call[c].lease
      <4>1. call'[c] = [call[c] EXCEPT !.pc = "recv"] \/ call'[c] = IdleCall
        BY <1>c
      <4> QED  BY <1>c, <4>1 DEF CallState, IdleCall
    <3>2. \A d \in Callers : d # c => call'[d] = call[d]
      BY <1>c
    <3> QED  BY <3>1, <3>2 DEF NamesKnown
  <2>3. ListsOverdue' /\ DropsAnnounced'
    BY <2>1, QuietLists DEF ExpectationKept, TypeOK
  <2> QED  BY <2>1, <2>2, <2>3
<1>10. ASSUME NEW c \in Callers, ReceiveHeartbeat(c) PROVE IndInv'
  <2> USE <1>10 DEF ReceiveHeartbeat
  <2>1. TypeOK'
    <3>1. Held(call[c].lease) => [call[c] EXCEPT !.pc = "expect", !.interval = leases[call[c].lease].interval] \in CallState
      BY <1>c DEF TypeOK, CallState, IdleCall, LeaseRow
    <3>2. call' \in [Callers -> CallState]
      BY <1>c, <3>1
    <3> QED  BY <3>2 DEF TypeOK, Drop
  <2>2. NamesKnown'
    <3>1. call'[c].pc = "idle" \/ call'[c].lease = call[c].lease
      <4>1. \/ call'[c] = [call[c] EXCEPT !.pc = "expect", !.interval = leases[call[c].lease].interval]
            \/ call'[c] = IdleCall
        BY <1>c
      <4> QED  BY <1>c, <4>1 DEF CallState, IdleCall
    <3>2. \A d \in Callers : d # c => call'[d] = call[d]
      BY <1>c
    <3>3. DOMAIN expect' \subseteq DOMAIN expect
      BY DEF Drop
    <3> QED  BY <3>1, <3>2, <3>3 DEF NamesKnown
  <2>3. ListsOverdue' /\ DropsAnnounced'
    <3>1. \A l \in DOMAIN leases : ExpectationKept(l)
      BY DEF ExpectationKept, Drop
    <3> QED  BY <1>m, <2>1, <3>1, QuietLists
  <2> QED  BY <2>1, <2>2, <2>3
<1>11. ASSUME NEW c \in Callers, ReceiveHeartbeatStore(c) PROVE IndInv'
  <2> USE <1>11 DEF ReceiveHeartbeatStore
  <2>1. TypeOK'
    <3>0. call[c].interval \in Nat /\ call[c].lease \in LeaseIds
      BY <1>c DEF CallState, NamesKnown, TypeOK
    <3>1. DOMAIN expect' \subseteq LeaseIds /\ \A k \in DOMAIN expect' : expect'[k] \in Nat
      BY <3>0 DEF TypeOK, Put
    <3>2. refreshed' \in [Threads -> SUBSET LeaseIds]
      BY <3>0 DEF TypeOK, Refreshes
    <3> QED  BY <1>c, <3>1, <3>2 DEF TypeOK
  <2>2. NamesKnown'
    BY <1>c DEF NamesKnown, Put, IdleCall
  <2>3. ListsOverdue' /\ DropsAnnounced'
    <3>1. /\ \A u \in Threads : refreshed[u] \subseteq refreshed'[u]
          /\ \A k \in DOMAIN expect' : k # call[c].lease => k \in DOMAIN expect /\ expect'[k] = expect[k]
          /\ DOMAIN expect \subseteq DOMAIN expect'
          /\ \A u \in Threads : call[c].lease \in mon[u].todo /\ mon[u].reason = "heartbeat_miss"
                                => call[c].lease \in refreshed'[u]
      BY DEF TypeOK, Refreshes, Put
    <3>2. \A k : k # call[c].lease => ExpectationKept(k)
      BY <3>1 DEF ExpectationKept
    <3>3. \A u \in Threads : mon[u].reason \in {"timeout", "heartbeat_miss"}
      BY <1>m DEF MonState, Reasons
    <3>4. ListsOverdue'
      BY <1>m, <2>1, <3>1, <3>2, <3>3, ListsKept
    <3> QED  BY <3>4 DEF DropsAnnounced
  <2> QED  BY <2>1, <2>2, <2>3
<1>12. ASSUME NEW t \in Threads, MonitorStart(t) PROVE IndInv'
  <2> USE <1>12 DEF MonitorStart
  <2>1. TypeOK'
    <3>1. [OffMonitor EXCEPT !.pc = "loop"] \in MonState
      BY DEF MonState, OffMonitor, Reasons
    <3>2. mon' \in [Threads -> MonState]
      BY <1>m, <3>1
    <3> QED  BY <3>2 DEF TypeOK
  <2>2. NamesKnown'
    BY <1>m DEF NamesKnown, OffMonitor
  <2>3. ListsOverdue' /\ DropsAnnounced'
    <3>1. \A u \in Threads : u # t => mon'[u] = mon[u]
      BY <1>m
    <3>2. mon'[t].todo = {} /\ mon'[t].now = 0 /\ mon'[t].pc = "loop"
      BY <1>m DEF OffMonitor
    <3>3. \A l : ExpectationKept(l)
      BY DEF ExpectationKept
    <3>4. ListsOverdue'
      BY <1>m, <2>1, <3>1, <3>2, <3>3, ListsKept
    <3> QED  BY <3>1, <3>2, <3>4 DEF DropsAnnounced
  <2> QED  BY <2>1, <2>2, <2>3
<1>13. ASSUME MonitorStop PROVE IndInv'
  <2> USE <1>13 DEF MonitorStop
  <2>1. TypeOK'
    BY DEF TypeOK
  <2>2. NamesKnown'
    BY DEF NamesKnown
  <2>3. ListsOverdue' /\ DropsAnnounced'
    BY <2>1, QuietLists DEF ExpectationKept, TypeOK
  <2> QED  BY <2>1, <2>2, <2>3
<1>14. ASSUME MonitorStopReturns PROVE IndInv'
  <2> USE <1>14 DEF MonitorStopReturns
  <2>1. TypeOK'
    BY DEF TypeOK
  <2>2. NamesKnown'
    BY DEF NamesKnown
  <2>3. ListsOverdue' /\ DropsAnnounced'
    BY <2>1, QuietLists DEF ExpectationKept, TypeOK
  <2> QED  BY <2>1, <2>2, <2>3
<1>15. ASSUME NEW t \in Threads, MonitorLoop(t) PROVE IndInv'
  <2> USE <1>15 DEF MonitorLoop
  <2>0. /\ mon'[t].now = 0 /\ mon'[t].reason = "timeout" /\ mon'[t].pc # "unexpect"
        /\ mon'[t].todo \subseteq check_expiry
        /\ \A u \in Threads : u # t => mon'[u] = mon[u]
    <3>1. CASE running
      BY <1>m, <3>1 DEF OffMonitor
    <3>2. CASE ~running
      BY <1>m, <3>2 DEF OffMonitor
    <3> QED  BY <3>1, <3>2
  <2>1. TypeOK'
    <3>1. [OffMonitor EXCEPT !.pc = "handle", !.todo = check_expiry] \in MonState
      BY <1>m DEF check_expiry, TypeOK, MonState, OffMonitor, Reasons
    <3>2. mon' \in [Threads -> MonState]
      BY <1>m, <3>1
    <3>3. refreshed' \in [Threads -> SUBSET LeaseIds]
      BY DEF TypeOK, ForgetsRefreshed
    <3> QED  BY <3>2, <3>3 DEF TypeOK
  <2>2. NamesKnown'
    BY <2>0 DEF NamesKnown, check_expiry
  <2>3. ListsOverdue'
    <3>2. /\ mon'[t].now = 0 /\ mon'[t].reason = "timeout"
          /\ mon'[t].todo \subseteq check_expiry
      BY <2>0
    <3>1. \A l \in mon'[t].todo : Overdue(l, mon[t].reason)'
      BY <3>2 DEF check_expiry, Expired, Overdue, TtlPassed
    <3>3. \A u \in Threads : u # t => mon'[u] = mon[u] /\ refreshed'[u] = refreshed[u]
      BY <1>m DEF TypeOK, ForgetsRefreshed
    <3>4. \A u \in Threads, l \in LeaseIds : u # t /\ l \in mon'[u].todo =>
            l \in refreshed'[u] \/ ~Held(l)' \/ Overdue(l, mon[u].reason)'
      BY <3>3 DEF ListsOverdue, Overdue, TtlPassed, HeartbeatMissed
    <3>5. \A u \in Threads : mon'[u].todo \subseteq LeaseIds /\ mon'[u].now <= clock
      BY <1>m, <2>1, <3>2, <3>3 DEF TypeOK, MonState
    <3> QED  BY <2>1, <3>1, <3>2, <3>3, <3>4, <3>5 DEF ListsOverdue
  <2>4. DropsAnnounced'
    BY <2>0 DEF DropsAnnounced
  <2> QED  BY <2>1, <2>2, <2>3, <2>4
<1>16. ASSUME NEW t \in Threads, MonitorScan(t) PROVE IndInv'
  <2> USE <1>16 DEF MonitorScan
  <2>1. TypeOK'
    <3>1. [mon[t] EXCEPT !.pc = "iter", !.now = clock, !.keys = DOMAIN expect] \in MonState
      BY <1>m DEF TypeOK, MonState, OffMonitor, Reasons
    <3>2. mon' \in [Threads -> MonState]
      BY <1>m, <3>1
    <3> QED  BY <3>2 DEF TypeOK
  <2>2. NamesKnown'
    <3>1. mon'[t].todo = mon[t].todo /\ \A u \in Threads : u # t => mon'[u] = mon[u]
      BY <1>m DEF MonState
    <3> QED  BY <3>1 DEF NamesKnown
  <2>3. ListsOverdue' /\ DropsAnnounced'
    <3>1. \A u \in Threads : u # t => mon'[u] = mon[u]
      BY <1>m
    <3>2. /\ mon'[t].todo = mon[t].todo /\ mon'[t].reason = mon[t].reason
          /\ mon'[t].now = clock /\ mon'[t].pc = "iter"
      <4>1. mon'[t] = [mon[t] EXCEPT !.pc = "iter", !.now = clock, !.keys = DOMAIN expect]
        BY <1>m
      <4> QED  BY <1>m, <4>1 DEF MonState
    <3>3. \A l : ExpectationKept(l)
      BY DEF ExpectationKept
    <3>4. ListsOverdue'
      BY <1>m, <2>1, <3>1, <3>2, <3>3, ListsKept
    <3> QED  BY <3>1, <3>2, <3>4 DEF DropsAnnounced
  <2> QED  BY <2>1, <2>2, <2>3
<1>17. ASSUME NEW t \in Threads, MonitorIter(t) PROVE IndInv'
  <2> USE <1>17 DEF MonitorIter
  <2>0. /\ mon'[t].now = 0 /\ mon'[t].pc # "unexpect"
        /\ \/ mon'[t].todo = {}
           \/ /\ mon'[t].reason = "heartbeat_miss"
              /\ mon'[t].todo = {l \in DOMAIN expect : mon[t].now > expect[l]}
        /\ \A u \in Threads : u # t => mon'[u] = mon[u]
    <3>1. CASE Cardinality(DOMAIN expect) = Cardinality(mon[t].keys)
      <4>1. mon'[t] = [mon[t] EXCEPT !.pc = "handle", !.reason = "heartbeat_miss",
                         !.todo = {l \in DOMAIN expect : mon[t].now > expect[l]},
                         !.now = 0, !.keys = {}]
        BY <1>m, <3>1
      <4> QED  BY <1>m, <4>1 DEF MonState
    <3>2. CASE Cardinality(DOMAIN expect) # Cardinality(mon[t].keys)
      BY <1>m, <3>2 DEF OffMonitor
    <3> QED  BY <3>1, <3>2
  <2>1. TypeOK'
    <3>1. /\ [mon[t] EXCEPT !.pc = "handle", !.reason = "heartbeat_miss",
                    !.todo = {l \in DOMAIN expect : mon[t].now > expect[l]}, !.now = 0, !.keys = {}] \in MonState
          /\ [OffMonitor EXCEPT !.pc = "loop"] \in MonState
      BY <1>m DEF TypeOK, MonState, OffMonitor, Reasons
    <3>2. mon' \in [Threads -> MonState]
      BY <1>m, <3>1
    <3>3. refreshed' \in [Threads -> SUBSET LeaseIds]
      BY DEF TypeOK, ForgetsRefreshed
    <3> QED  BY <3>2, <3>3 DEF TypeOK
  <2>2. NamesKnown'
    BY <2>0 DEF NamesKnown
  <2>3. ListsOverdue'
    <3>2. /\ mon'[t].now = 0
          /\ \/ mon'[t].todo = {}
             \/ /\ mon'[t].reason = "heartbeat_miss"
                /\ mon'[t].todo = {l \in DOMAIN expect : mon[t].now > expect[l]}
      BY <2>0
    <3>0. \A l \in DOMAIN expect : expect[l] \in Nat
      BY DEF TypeOK
    <3>1. \A l \in mon'[t].todo : Overdue(l, mon[t].reason)'
      BY <1>m, <3>0, <3>2 DEF Overdue, HeartbeatMissed
    <3>3. \A u \in Threads : u # t => mon'[u] = mon[u] /\ refreshed'[u] = refreshed[u]
      BY <1>m DEF TypeOK, ForgetsRefreshed
    <3>4. \A u \in Threads, l \in LeaseIds : u # t /\ l \in mon'[u].todo =>
            l \in refreshed'[u] \/ ~Held(l)' \/ Overdue(l, mon[u].reason)'
      BY <3>3 DEF ListsOverdue, Overdue, TtlPassed, HeartbeatMissed
    <3>5. \A u \in Threads : mon'[u].todo \subseteq LeaseIds /\ mon'[u].now <= clock
      BY <1>m, <2>1, <3>2, <3>3 DEF TypeOK, MonState
    <3> QED  BY <2>1, <3>1, <3>2, <3>3, <3>4, <3>5 DEF ListsOverdue
  <2>4. DropsAnnounced'
    BY <2>0 DEF DropsAnnounced
  <2> QED  BY <2>1, <2>2, <2>3, <2>4
<1>18. ASSUME NEW t \in Threads, NEW l \in LeaseIds, MonitorHandle(t, l) PROVE IndInv'
  <2> USE <1>18 DEF MonitorHandle
  <2>0. /\ mon'[t].todo \subseteq mon[t].todo /\ mon'[t].reason = mon[t].reason
        /\ mon'[t].now = mon[t].now
        /\ Held(l) => mon'[t].cur = l
        /\ ~Held(l) => mon'[t].pc = "handle"
        /\ \A u \in Threads : u # t => mon'[u] = mon[u]
    <3>1. CASE Held(l)
      <4>1. mon'[t] = [mon[t] EXCEPT !.pc = "unexpect", !.cur = l]
        BY <1>m, <3>1
      <4> QED  BY <1>m, <3>1, <4>1 DEF MonState
    <3>2. CASE ~Held(l)
      <4>1. mon'[t] = [mon[t] EXCEPT !.todo = @ \ {l}]
        BY <1>m, <3>2
      <4> QED  BY <1>m, <3>2, <4>1 DEF MonState
    <3> QED  BY <3>1, <3>2
  <2>1. TypeOK'
    <3>1. /\ [mon[t] EXCEPT !.pc = "unexpect", !.cur = l] \in MonState
          /\ [mon[t] EXCEPT !.todo = @ \ {l}] \in MonState
          /\ mon[t].reason \in Reasons
      BY <1>m DEF MonState
    <3>2. mon' \in [Threads -> MonState]
      BY <1>m, <3>1
    <3>3. published' \subseteq [lease : LeaseIds, reason : Reasons, by : Threads]
      BY <3>1 DEF TypeOK
    <3> QED  BY <3>2, <3>3 DEF TypeOK, Drop
  <2>2. NamesKnown'
    <3>2. DOMAIN expect' \subseteq DOMAIN expect
      BY DEF Drop
    <3> QED  BY <2>0, <3>2 DEF NamesKnown
  <2>3. ListsOverdue'
    <3>1. \A u \in Threads : u # t => mon'[u] = mon[u]
      BY <1>m
    <3>2. /\ mon'[t].todo \subseteq mon[t].todo /\ mon'[t].reason = mon[t].reason
          /\ mon'[t].now = mon[t].now
      BY <2>0
    <3>3. \A k \in DOMAIN leases : ExpectationKept(k)
      BY DEF ExpectationKept, Drop
    <3> QED  BY <1>m, <2>1, <3>1, <3>2, <3>3, ListsKept
  <2>4. DropsAnnounced'
    <3>1. \A u \in Threads : u # t => mon'[u] = mon[u]
      BY <1>m
    <3>2. CASE Held(l)
      <4> DEFINE n == [lease |-> l, reason |-> mon[t].reason, by |-> t]
      <4>1. published' = published \cup {n} /\ n.lease = l /\ mon'[t].cur = l
        BY <2>0, <3>2
      <4> HIDE DEF n
      <4> QED  BY <3>1, <4>1 DEF DropsAnnounced
    <3>3. CASE ~Held(l)
      BY <2>0, <3>1, <3>3 DEF DropsAnnounced
    <3> QED  BY <3>2, <3>3
  <2> QED  BY <2>1, <2>2, <2>3, <2>4
<1>19. ASSUME NEW t \in Threads, MonitorUnexpect(t) PROVE IndInv'
  <2> USE <1>19 DEF MonitorUnexpect
  <2>1. TypeOK'
    <3>1. [mon[t] EXCEPT !.pc = "delete"] \in MonState
      BY <1>m DEF MonState
    <3>2. mon' \in [Threads -> MonState]
      BY <1>m, <3>1
    <3> QED  BY <3>2 DEF TypeOK, Drop
  <2>2. NamesKnown'
    <3>1. mon'[t].todo = mon[t].todo /\ \A u \in Threads : u # t => mon'[u] = mon[u]
      BY <1>m DEF MonState
    <3> QED  BY <3>1 DEF NamesKnown, Drop
  <2>3. ListsOverdue' /\ DropsAnnounced'
    <3>1. \A u \in Threads : u # t => mon'[u] = mon[u]
      BY <1>m
    <3>2. /\ mon'[t].todo = mon[t].todo /\ mon'[t].reason = mon[t].reason
          /\ mon'[t].now = mon[t].now /\ mon'[t].pc = "delete"
      BY <1>m DEF MonState
    <3>3. \A k : ExpectationKept(k)
      BY DEF ExpectationKept, Drop, DropsAnnounced
    <3>4. ListsOverdue'
      BY <1>m, <2>1, <3>1, <3>2, <3>3, ListsKept
    <3> QED  BY <3>1, <3>2, <3>4 DEF DropsAnnounced
  <2> QED  BY <2>1, <2>2, <2>3
<1>20. ASSUME NEW t \in Threads, MonitorDelete(t) PROVE IndInv'
  <2> USE <1>20 DEF MonitorDelete
  <2>1. TypeOK'
    <3>1. [mon[t] EXCEPT !.pc = "handle", !.todo = @ \ {mon[t].cur}, !.cur = Nobody] \in MonState
      BY <1>m DEF MonState
    <3>2. mon' \in [Threads -> MonState]
      BY <1>m, <3>1
    <3> QED  BY <3>2 DEF TypeOK, Drop
  <2>2. NamesKnown'
    <3>1. mon'[t].todo \subseteq mon[t].todo /\ \A u \in Threads : u # t => mon'[u] = mon[u]
      BY <1>m DEF MonState
    <3> QED  BY <3>1 DEF NamesKnown, Drop
  <2>3. ListsOverdue' /\ DropsAnnounced'
    <3>1. \A u \in Threads : u # t => mon'[u] = mon[u]
      BY <1>m
    <3>2. /\ mon'[t].todo \subseteq mon[t].todo /\ mon'[t].reason = mon[t].reason
          /\ mon'[t].now = mon[t].now /\ mon'[t].pc = "handle"
      BY <1>m DEF MonState
    <3>3. \A k : ExpectationKept(k)
      BY DEF ExpectationKept
    <3>5. \A k \in DOMAIN leases' : k \in DOMAIN leases /\ leases'[k] = leases[k]
      BY DEF Drop
    <3>4. ListsOverdue'
      BY <1>m, <2>1, <3>1, <3>2, <3>3, <3>5, ListsKept
    <3> QED  BY <3>1, <3>2, <3>4 DEF DropsAnnounced
  <2> QED  BY <2>1, <2>2, <2>3
<1>21. ASSUME NEW t \in Threads, MonitorListDone(t) PROVE IndInv'
  <2> USE <1>21 DEF MonitorListDone
  <2>1. TypeOK'
    <3>1. /\ [OffMonitor EXCEPT !.pc = "scan"] \in MonState
          /\ [OffMonitor EXCEPT !.pc = "loop"] \in MonState
          /\ mon' = [mon EXCEPT ![t] = [OffMonitor EXCEPT !.pc = "scan"]]
               \/ mon' = [mon EXCEPT ![t] = [OffMonitor EXCEPT !.pc = "loop"]]
      BY <1>m DEF TypeOK, MonState, OffMonitor, Reasons
    <3>2. mon' \in [Threads -> MonState]
      BY <1>m, <3>1
    <3>3. refreshed' \in [Threads -> SUBSET LeaseIds]
      BY DEF TypeOK, ForgetsRefreshed
    <3> QED  BY <3>2, <3>3 DEF TypeOK
  <2>2. NamesKnown'
    BY <1>m DEF NamesKnown, OffMonitor
  <2>3. ListsOverdue'
    <3>2. mon'[t].todo = {} /\ mon'[t].now = 0
      BY <1>m DEF OffMonitor
    <3>1. \A l \in mon'[t].todo : Overdue(l, mon[t].reason)'
      BY <3>2
    <3>3. \A u \in Threads : u # t => mon'[u] = mon[u] /\ refreshed'[u] = refreshed[u]
      BY <1>m DEF TypeOK, ForgetsRefreshed
    <3>4. \A u \in Threads, l \in LeaseIds : u # t /\ l \in mon'[u].todo =>
            l \in refreshed'[u] \/ ~Held(l)' \/ Overdue(l, mon[u].reason)'
      BY <3>3 DEF ListsOverdue, Overdue, TtlPassed, HeartbeatMissed
    <3>5. \A u \in Threads : mon'[u].todo \subseteq LeaseIds /\ mon'[u].now <= clock
      BY <1>m, <2>1, <3>2, <3>3 DEF TypeOK, MonState
    <3> QED  BY <2>1, <3>1, <3>2, <3>3, <3>4, <3>5 DEF ListsOverdue
  <2>4. DropsAnnounced'
    BY <1>m DEF DropsAnnounced, OffMonitor
  <2> QED  BY <2>1, <2>2, <2>3, <2>4
<1>22. ASSUME ScavengeCheck PROVE IndInv'
  <2> USE <1>22 DEF ScavengeCheck
  <2>1. TypeOK'
    BY DEF TypeOK, check_expiry
  <2>2. NamesKnown'
    BY DEF NamesKnown
  <2>3. ListsOverdue' /\ DropsAnnounced'
    BY <2>1, QuietLists DEF ExpectationKept, TypeOK
  <2> QED  BY <2>1, <2>2, <2>3
<1>23. ASSUME NEW l \in LeaseIds, ScavengeDelete(l) PROVE IndInv'
  <2> USE <1>23 DEF ScavengeDelete, Drop
  <2>1. TypeOK'
    BY DEF TypeOK
  <2>2. NamesKnown'
    BY DEF NamesKnown
  <2>3. ListsOverdue' /\ DropsAnnounced'
    BY <2>1, QuietLists DEF ExpectationKept, TypeOK
  <2> QED  BY <2>1, <2>2, <2>3
<1>24. ASSUME UNCHANGED vars PROVE IndInv'
  <2> USE <1>24 DEF vars
  <2>1. TypeOK'
    BY DEF TypeOK
  <2>2. NamesKnown'
    BY DEF NamesKnown
  <2>3. ListsOverdue' /\ DropsAnnounced'
    BY <2>1, QuietLists DEF ExpectationKept, TypeOK
  <2> QED  BY <2>1, <2>2, <2>3
<1> QED
  BY <1>1, <1>2, <1>3, <1>4, <1>5, <1>6, <1>7, <1>8, <1>9, <1>10, <1>11, <1>12, <1>13, <1>14, <1>15, <1>16, <1>17, <1>18, <1>19, <1>20, <1>21, <1>22, <1>23, <1>24 DEF Next, CallerStep, MonitorStep

(* Type correctness of the lease tables and of every thread's position.    *)
THEOREM TypeCorrect == Spec => []TypeOK
<1>1. IndInv => TypeOK
  BY DEF IndInv
<1> QED BY <1>1, InitInd, StepInd, PTL DEF Spec

(* When LeaseMonitor announces a release, the row has outlived its ttl at   *)
(* that moment or the heartbeat expected at that moment is late, unless the *)
(* lease was given new time after the thread had read its list: for any     *)
(* number of leases, callers and monitor threads, and unbounded time.       *)
THEOREM ReleaseNeverEarly == Spec => NoPrematureRelease
<1>1. ASSUME IndInv, [Next]_vars
      PROVE  [\A m \in published' \ published :
                m.lease \in refreshed[m.by] \/ Overdue(m.lease, m.reason)]_vars
  <2> SUFFICES ASSUME Next, NEW m \in published', m \notin published
               PROVE  m.lease \in refreshed[m.by] \/ Overdue(m.lease, m.reason)
    BY <1>1 DEF vars
  <2>1. PICK t \in Threads, l \in LeaseIds : MonitorHandle(t, l)
    BY DEF Next, CallerStep, MonitorStep, Tick, CreateBegin, CreateCommit, RenewBegin,
           RenewCommit, DeleteLease, ExpectHeartbeat, HeartbeatLookup, HeartbeatTouch,
           ReceiveHeartbeat, ReceiveHeartbeatStore, MonitorStart, MonitorStop,
           MonitorStopReturns, MonitorLoop, MonitorScan, MonitorIter, MonitorUnexpect,
           MonitorDelete, MonitorListDone, ScavengeCheck, ScavengeDelete
  <2>2. /\ m.lease = l /\ m.reason = mon[t].reason /\ m.by = t
        /\ l \in mon[t].todo /\ Held(l)
    BY <2>1 DEF MonitorHandle
  <2> QED BY <1>1, <2>2 DEF IndInv, ListsOverdue
<1> QED BY <1>1, InitInd, StepInd, PTL DEF Spec, NoPrematureRelease

-----------------------------------------------------------------------------
(* The inductive strengthening of AtMostOneRelease.  As long as every join *)
(* in stop() has waited the thread out, at most one thread is at work, and *)
(* none between stop() and start().                                        *)
Busy(t) == mon[t].pc # "off"

OneMonitor ==
    /\ \A t, u \in Threads : Busy(t) /\ Busy(u) => t = u
    /\ ~running /\ ~joining => \A t \in Threads : ~Busy(t)

(* A thread that has announced a release and not yet deleted the row.      *)
Releasing(t, l) == mon[t].pc \in {"unexpect", "delete"} /\ mon[t].cur = l

(* A lease that was announced and is still held is being released.         *)
AnnouncedOnce ==
    /\ \A m \in published : Held(m.lease) => \E t \in Threads : Releasing(t, m.lease)
    /\ \A m1, m2 \in published : m1.lease = m2.lease => m1 = m2

OnceInv ==
    /\ \A m \in published : m.lease \in DOMAIN history
    /\ ~lateStop => OneMonitor /\ AnnouncedOnce

(* A step that starts no thread, and announces and creates nothing, keeps  *)
(* the invariant when a thread that was releasing still is or has deleted. *)
LEMMA QuietStep ==
    ASSUME OnceInv, published' = published, DOMAIN history \subseteq DOMAIN history',
           lateStop' = lateStop, running' = running, joining' = joining,
           \A t \in Threads : Busy(t)' => Busy(t),
           \A m \in published : Held(m.lease)' => Held(m.lease),
           \A t \in Threads, l \in DOMAIN leases' : Releasing(t, l) => Releasing(t, l)'
    PROVE  OnceInv'
<1> USE DEF OnceInv
<1>1. \A m \in published' : m.lease \in DOMAIN history'
  OBVIOUS
<1>2. ASSUME ~lateStop PROVE OneMonitor'
  BY <1>2 DEF OneMonitor
<1>3. ASSUME ~lateStop PROVE AnnouncedOnce'
  <2>1. ASSUME NEW m \in published, Held(m.lease)'
        PROVE  \E t \in Threads : Releasing(t, m.lease)'
    <3>1. PICK t \in Threads : Releasing(t, m.lease)
      BY <1>3, <2>1 DEF AnnouncedOnce
    <3>2. m.lease \in DOMAIN leases'
      BY <2>1 DEF Held
    <3> QED  BY <3>1, <3>2
  <2> QED  BY <1>1, <1>3, <2>1 DEF AnnouncedOnce
<1> QED  BY <1>1, <1>2, <1>3

(* Every action preserves the invariant.                                   *)
LEMMA OnceKept == IndInv /\ OnceInv /\ [Next]_vars => OnceInv'
<1> SUFFICES ASSUME IndInv, OnceInv, [Next]_vars PROVE OnceInv'
  OBVIOUS
<1> USE DEF IndInv, monVars, histVars, Calls, Goes
<1>m. /\ mon \in [Threads -> MonState]
      /\ \A t \in Threads : mon[t] \in MonState
  BY DEF TypeOK
<1>q. ASSUME UNCHANGED <<published, monVars>>, DOMAIN history \subseteq DOMAIN history',
             \A m \in published : Held(m.lease)' => Held(m.lease)
      PROVE  OnceInv'
  BY <1>q, QuietStep DEF Busy, Releasing
<1>1. ASSUME \/ Tick
             \/ \E c \in Callers : \/ CreateBegin(c) \/ RenewBegin(c) \/ HeartbeatTouch(c)
                                   \/ ReceiveHeartbeat(c) \/ ReceiveHeartbeatStore(c)
                                   \/ \E l \in LeaseIds, w \in Workers : HeartbeatLookup(c, l, w)
             \/ \E l \in LeaseIds, i \in Intervals : ExpectHeartbeat(l, i)
             \/ ScavengeCheck
             \/ UNCHANGED vars
      PROVE  OnceInv'
  <2>1. UNCHANGED <<published, monVars, leases, history>>
    BY <1>1 DEF Tick, CreateBegin, RenewBegin, HeartbeatTouch, ReceiveHeartbeat,
            ReceiveHeartbeatStore, HeartbeatLookup, ExpectHeartbeat, ScavengeCheck, vars
  <2> QED  BY <1>q, <2>1 DEF Held
<1>2. ASSUME NEW c \in Callers, CreateCommit(c) PROVE OnceInv'
  <2>1. PICK l \in LeaseIds \ DOMAIN history :
          DOMAIN leases' = DOMAIN leases \cup {l} /\ DOMAIN history' = DOMAIN history \cup {l}
    BY <1>2 DEF CreateCommit, Put
  <2>2. UNCHANGED <<published, monVars>>
    BY <1>2 DEF CreateCommit
  <2>3. \A m \in published : Held(m.lease)' => Held(m.lease)
    BY <2>1 DEF Held, OnceInv
  <2> QED  BY <1>q, <2>1, <2>2, <2>3
<1>3. ASSUME NEW c \in Callers, RenewCommit(c) PROVE OnceInv'
  <2>1. UNCHANGED <<published, monVars, history>> /\ DOMAIN leases' = DOMAIN leases
    BY <1>3 DEF RenewCommit
  <2> QED  BY <1>q, <2>1 DEF Held
<1>4. ASSUME NEW l \in LeaseIds, DeleteLease(l) \/ ScavengeDelete(l) PROVE OnceInv'
  <2>1. UNCHANGED <<published, monVars, history>> /\ DOMAIN leases' \subseteq DOMAIN leases
    BY <1>4 DEF DeleteLease, ScavengeDelete, Drop
  <2> QED  BY <1>q, <2>1 DEF Held
<1>5. ASSUME NEW t \in Threads, MonitorStart(t) PROVE OnceInv'
  <2>1. /\ UNCHANGED <<published, leases, history, lateStop>> /\ running' = TRUE
        /\ ~running /\ ~joining
        /\ \A u \in Threads : u # t => mon'[u] = mon[u]
        /\ mon[t].pc = "off"
    BY <1>5, <1>m DEF MonitorStart
  <2>2. ~lateStop => OneMonitor'
    BY <2>1 DEF OnceInv, OneMonitor, Busy
  <2>3. \A u \in Threads, l \in DOMAIN leases' : Releasing(u, l) => Releasing(u, l)'
    BY <2>1 DEF Releasing
  <2> QED  BY <2>1, <2>2, <2>3 DEF OnceInv, AnnouncedOnce, Held
<1>6. ASSUME MonitorStop PROVE OnceInv'
  BY <1>6 DEF MonitorStop, OnceInv, OneMonitor, AnnouncedOnce, Busy, Releasing, Held
<1>7. ASSUME MonitorStopReturns PROVE OnceInv'
  BY <1>7 DEF MonitorStopReturns, OnceInv, OneMonitor, AnnouncedOnce, Busy, Releasing, Held
<1>8. ASSUME NEW t \in Threads, MonitorLoop(t) \/ MonitorScan(t) \/ MonitorIter(t)
                                \/ MonitorListDone(t) \/ MonitorUnexpect(t)
      PROVE  OnceInv'
  <2>1. /\ UNCHANGED <<published, leases, history, lateStop, running, joining>>
        /\ \A u \in Threads : u # t => mon'[u] = mon[u]
        /\ mon[t].pc # "off"
    BY <1>8, <1>m DEF MonitorLoop, MonitorScan, MonitorIter, MonitorListDone, MonitorUnexpect
  <2>2. \A l : Releasing(t, l) => Releasing(t, l)'
    <3>1. CASE MonitorUnexpect(t)
      BY <1>m, <3>1 DEF MonitorUnexpect, MonState, Releasing
    <3>2. CASE ~MonitorUnexpect(t)
      BY <1>8, <3>2 DEF MonitorLoop, MonitorScan, MonitorIter, MonitorListDone, Releasing
    <3> QED  BY <3>1, <3>2
  <2> QED  BY <2>1, <2>2, QuietStep DEF Busy, Releasing, Held
<1>9. ASSUME NEW t \in Threads, MonitorDelete(t) PROVE OnceInv'
  <2>1. /\ UNCHANGED <<published, history, lateStop, running, joining>>
        /\ \A u \in Threads : u # t => mon'[u] = mon[u]
        /\ mon[t].pc = "delete"
        /\ DOMAIN leases' = DOMAIN leases \ {mon[t].cur}
    BY <1>9, <1>m DEF MonitorDelete, Drop
  <2>2. \A u \in Threads, l \in DOMAIN leases' : Releasing(u, l) => Releasing(u, l)'
    BY <2>1 DEF Releasing
  <2> QED  BY <2>1, <2>2, QuietStep DEF Busy, Held
<1>10. ASSUME NEW t \in Threads, NEW l \in LeaseIds, MonitorHandle(t, l) PROVE OnceInv'
  <2>1. /\ UNCHANGED <<leases, history, lateStop, running, joining>>
        /\ \A u \in Threads : u # t => mon'[u] = mon[u]
        /\ mon[t].pc = "handle"
    BY <1>10, <1>m DEF MonitorHandle
  <2>2. CASE ~Held(l)
    <3>1. published' = published
      BY <1>10, <2>2 DEF MonitorHandle
    <3> QED  BY <2>1, <3>1, QuietStep DEF Busy, Releasing, Held
  <2>3. CASE Held(l)
    <3> DEFINE n == [lease |-> l, reason |-> mon[t].reason, by |-> t]
    <3>0. mon'[t].pc = "unexpect" /\ mon'[t].cur = l
      <4>1. mon'[t] = [mon[t] EXCEPT !.pc = "unexpect", !.cur = l] /\ mon[t] \in MonState
        BY <1>10, <1>m, <2>3 DEF MonitorHandle
      <4> QED  BY <4>1 DEF MonState
    <3>1. published' = published \cup {n} /\ Releasing(t, l)'
      BY <1>10, <2>3, <3>0 DEF MonitorHandle, Releasing
    <3>2. l \in DOMAIN history
      BY <2>3 DEF NamesKnown, Held
    <3>3. ~lateStop => OneMonitor'
      BY <2>1 DEF OnceInv, OneMonitor, Busy
    <3>4. ASSUME ~lateStop, NEW m \in published PROVE m.lease # l
      <4>1. SUFFICES ASSUME m.lease = l PROVE FALSE
        OBVIOUS
      <4>2. PICK u \in Threads : Releasing(u, l)
        BY <2>3, <3>4, <4>1 DEF OnceInv, AnnouncedOnce
      <4>3. u = t
        BY <2>1, <3>4, <4>2 DEF OnceInv, OneMonitor, Busy, Releasing
      <4> QED  BY <2>1, <4>2, <4>3 DEF Releasing
    <3>5. \A u \in Threads : \A k : Releasing(u, k) => Releasing(u, k)'
      BY <2>1 DEF Releasing
    <3>6. n.lease = l
      OBVIOUS
    <3> HIDE DEF n
    <3>7. \A m \in published' : m.lease \in DOMAIN history'
      BY <2>1, <3>1, <3>2, <3>6 DEF OnceInv
    <3>8. ASSUME ~lateStop PROVE AnnouncedOnce'
      <4>1. ASSUME NEW m \in published', Held(m.lease)'
            PROVE  \E u \in Threads : Releasing(u, m.lease)'
        <5>1. CASE m = n
          BY <3>1, <3>6, <5>1
        <5>2. CASE m \in published
          BY <2>1, <3>5, <3>8, <4>1, <5>2 DEF OnceInv, AnnouncedOnce, Held
        <5> QED  BY <3>1, <5>1, <5>2
      <4>2. ASSUME NEW m1 \in published', NEW m2 \in published', m1.lease = m2.lease
            PROVE  m1 = m2
        BY <3>1, <3>4, <3>6, <3>8, <4>2 DEF OnceInv, AnnouncedOnce
      <4> QED  BY <3>7, <4>1, <4>2 DEF AnnouncedOnce
    <3> QED  BY <2>1, <3>3, <3>7, <3>8 DEF OnceInv
  <2> QED  BY <2>2, <2>3
<1> QED
  BY <1>1, <1>2, <1>3, <1>4, <1>5, <1>6, <1>7, <1>8, <1>9, <1>10 DEF Next, CallerStep, MonitorStep

(* For any number of leases, callers and monitor threads: while no join in *)
(* LeaseMonitor.stop() has timed out, the bus carries at most one RELEASE  *)
(* for a lease, although both lists of one pass can hold it.               *)
THEOREM ReleasedAtMostOnce == Spec => []AtMostOneRelease
<1>1. Init => OnceInv
  BY DEF Init, OnceInv, OneMonitor, AnnouncedOnce, Busy, OffMonitor
<1>2. OnceInv => AtMostOneRelease
  BY DEF OnceInv, AnnouncedOnce, AtMostOneRelease
<1> QED  BY <1>1, <1>2, InitInd, StepInd, OnceKept, PTL DEF Spec

=============================================================================
