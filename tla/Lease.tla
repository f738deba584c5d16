------------------------------- MODULE Lease -------------------------------
(***************************************************************************)
(* Task leases: LeaseManager (the leases table behind a threading.Lock),   *)
(* HeartbeatProtocol (an unlocked dict of expected heartbeat times), the   *)
(* HEARTBEAT verb handler and the LeaseMonitor daemon that publishes       *)
(* RELEASE for the leases that timed out or missed a heartbeat.            *)
(*                                                                         *)
(* Three kinds of threads run over the two tables: callers (the event loop *)
(* running handlers), monitor threads, and a scavenger.  Every call that   *)
(* reads the time before it takes the lock, and every list that is read    *)
(* and then worked off entry by entry, is split where the code lets        *)
(* another thread in.                                                      *)
(***************************************************************************)
EXTENDS Naturals, FiniteSets

CONSTANTS
    LeaseIds,    \* the uuids create_lease can draw
    Workers,     \* worker identities
    TTLs,        \* ttl arguments, in clock units
    Intervals,   \* heartbeat_interval arguments, in clock units
    Callers,     \* threads that call LeaseManager / run handle_heartbeat
    Threads,     \* monitor threads that may exist at the same time
    Horizon,     \* bound: callers start no call from this time on
    MaxTime,     \* bound: the clock stops here
    Nobody       \* "no lease id"

ASSUME LeaseAssumption ==
    /\ TTLs \subseteq Nat
    /\ Intervals \subseteq Nat
    /\ Horizon \in Nat
    /\ MaxTime \in Nat
    /\ Nobody \notin LeaseIds

VARIABLES
    clock,       \* time.time_ns()
    leases,      \* the leases table: lease_id -> row
    expect,      \* HeartbeatProtocol._expectations: lease_id -> time
    call,        \* per caller: the call in progress
    mon,         \* per monitor thread: its position in check_expired_leases
    running,     \* LeaseMonitor._running
    joining,     \* stop() is waiting for the thread it asked to leave
    scav,        \* the lease ids scavenge_expired has still to delete
    published,   \* the RELEASE messages on the bus, with the thread
    history,     \* history variable: each row as it was first inserted
    refreshed,   \* history variable: per monitor thread, the entries of its
                 \* list that were renewed or re-expected after it was read
    lateStop     \* history variable: some join in stop() timed out

vars == <<clock, leases, expect, call, mon, running, joining, scav, published,
          history, refreshed, lateStop>>

histVars == <<history, refreshed>>

monVars == <<mon, running, joining, lateStop>>

LeaseRow == [worker : Workers, ttl : TTLs, interval : Intervals,
             created : Nat]

Reasons == {"timeout", "heartbeat_miss"}

CallState == [pc : {"idle", "create", "renew", "touch", "recv", "expect"},
              lease : LeaseIds \cup {Nobody},
              at : Nat,                 \* time read before taking the lock
              interval : Nat]           \* interval of the row receive_heartbeat read

MonState == [pc : {"off", "loop", "scan", "iter", "handle", "unexpect", "delete"},
             reason : Reasons,          \* which of the two lists is worked off
             todo : SUBSET LeaseIds,    \* the rest of that list
             cur : LeaseIds \cup {Nobody},
             now : Nat,                 \* time check_missed_heartbeats read
             keys : SUBSET LeaseIds]    \* _expectations when iteration began

IdleCall == [pc |-> "idle", lease |-> Nobody, at |-> 0, interval |-> 0]

OffMonitor == [pc |-> "off", reason |-> "timeout", todo |-> {}, cur |-> Nobody,
               now |-> 0, keys |-> {}]

(***************************************************************************)
(* Dictionary and table updates.                                           *)
(***************************************************************************)
Put(f, k, v) == [x \in DOMAIN f \cup {k} |-> IF x = k THEN v ELSE f[x]]

Drop(f, k) == [x \in DOMAIN f \ {k} |-> f[x]]

Held(l) == l \in DOMAIN leases

(* Faulty variant: a lease expires one unit early.                         *)
Expired_OffByOne(l) == clock >= leases[l].created + leases[l].ttl

(* check_expiry: strictly later than created_at + ttl. *)
Expired(l) == clock > leases[l].created + leases[l].ttl

check_expiry == {l \in DOMAIN leases : Expired(l)}

-----------------------------------------------------------------------------
Init ==
    /\ clock = 0
    /\ leases = [x \in {} |-> 0]
    /\ expect = [x \in {} |-> 0]
    /\ call = [c \in Callers |-> IdleCall]
    /\ mon = [t \in Threads |-> OffMonitor]
    /\ running = FALSE
    /\ joining = FALSE
    /\ scav = {}
    /\ published = {}
    /\ history = [x \in {} |-> 0]
    /\ refreshed = [t \in Threads |-> {}]
    /\ lateStop = FALSE

(* Calls take bounded time: the clock passes Horizon only between calls.   *)
Tick ==
    /\ clock < MaxTime
    /\ clock < Horizon \/ \A c \in Callers : call[c].pc = "idle"
    /\ clock' = clock + 1
    /\ UNCHANGED <<leases, expect, call, monVars, scav, published, histVars>>

-----------------------------------------------------------------------------
(* LeaseManager, called by workers and handlers.                           *)

Calls(c, s) == call' = [call EXCEPT ![c] = s]

(* The lease is given new time while it is on a list of that kind.         *)
Refreshes(l, reason) ==
    refreshed' = [t \in Threads |-> IF mon[t].reason = reason /\ l \in mon[t].todo
                                     THEN refreshed[t] \cup {l} ELSE refreshed[t]]

(* A thread reads a new list, or is done with the old one.                 *)
ForgetsRefreshed(t) == refreshed' = [refreshed EXCEPT ![t] = {}]

(* Bound: as many leases are created as there are ids. *)
FreshIdLeft ==
    \E l \in LeaseIds \ DOMAIN history : \A c \in Callers : call[c].pc # "create"

(* create_lease / renew_lease: current_time is read before the lock. *)
CreateBegin(c) ==
    /\ call[c].pc = "idle" /\ clock < Horizon /\ FreshIdLeft
    /\ Calls(c, [IdleCall EXCEPT !.pc = "create", !.at = clock])
    /\ UNCHANGED <<clock, leases, expect, monVars, scav, published, histVars>>

CreateCommit(c) ==
    /\ call[c].pc = "create"
    /\ \E l \in LeaseIds \ DOMAIN history, w \in Workers, t \in TTLs, i \in Intervals :
         LET row == [worker |-> w, ttl |-> t, interval |-> i,
                     created |-> call[c].at]
         IN  /\ leases' = Put(leases, l, row)
             /\ history' = Put(history, l, row)
    /\ Calls(c, IdleCall)
    /\ UNCHANGED <<clock, expect, monVars, scav, published, refreshed>>

RenewBegin(c) ==
    /\ call[c].pc = "idle" /\ clock < Horizon
    /\ \E l \in DOMAIN history :
         Calls(c, [IdleCall EXCEPT !.pc = "renew", !.lease = l, !.at = clock])
    /\ UNCHANGED <<clock, leases, expect, monVars, scav, published, histVars>>

RenewCommit(c) ==
    LET l == call[c].lease IN
    /\ call[c].pc = "renew"
    /\ IF Held(l)
       THEN /\ leases' = [leases EXCEPT ![l].created = call[c].at]
            /\ Refreshes(l, "timeout")
       ELSE UNCHANGED <<leases, refreshed>>
    /\ Calls(c, IdleCall)
    /\ UNCHANGED <<clock, expect, monVars, scav, published, history>>

(* delete_lease, as the holder calls it when the task is done. *)
DeleteLease(l) ==
    /\ Held(l) /\ clock < Horizon
    /\ leases' = Drop(leases, l)
    /\ UNCHANGED <<clock, expect, call, monVars, scav, published, histVars>>

-----------------------------------------------------------------------------
(* HeartbeatProtocol.expect_heartbeat, with the interval the caller gives. *)
ExpectHeartbeat(l, i) ==
    /\ l \in DOMAIN history /\ clock < Horizon
    /\ expect' = Put(expect, l, clock + i)
    /\ Refreshes(l, "heartbeat_miss")
    /\ UNCHANGED <<clock, leases, call, monVars, scav, published, history>>

(* handle_heartbeat: look the lease up and compare the claimed worker ...  *)
HeartbeatLookup(c, l, w) ==
    /\ call[c].pc = "idle" /\ clock < Horizon
    /\ Held(l) /\ leases[l].worker = w
    /\ Calls(c, [IdleCall EXCEPT !.pc = "touch", !.lease = l])
    /\ UNCHANGED <<clock, leases, expect, monVars, scav, published, histVars>>

(* ... LeaseManager.heartbeat: last_heartbeat moves and created_at does     *)
(* not, so nothing that is ever read changes; False ends the handler ...    *)
HeartbeatTouch(c) ==
    /\ call[c].pc = "touch"
    /\ Calls(c, IF Held(call[c].lease) THEN [call[c] EXCEPT !.pc = "recv"] ELSE IdleCall)
    /\ UNCHANGED <<clock, leases, expect, monVars, scav, published, histVars>>

(* ... receive_heartbeat reads the row, unlocked ... *)
ReceiveHeartbeat(c) ==
    LET l == call[c].lease IN
    /\ call[c].pc = "recv"
    /\ IF Held(l)
       THEN /\ Calls(c, [call[c] EXCEPT !.pc = "expect", !.interval = leases[l].interval])
            /\ UNCHANGED expect
       ELSE /\ expect' = Drop(expect, l)
            /\ Calls(c, IdleCall)
    /\ UNCHANGED <<clock, leases, monVars, scav, published, histVars>>

(* ... and stores the next expected time, whatever happened meanwhile.     *)
(* (The ANNOTATE op the handler then appends goes to the plan store.)      *)
ReceiveHeartbeatStore(c) ==
    /\ call[c].pc = "expect"
    /\ expect' = Put(expect, call[c].lease, clock + call[c].interval)
    /\ Refreshes(call[c].lease, "heartbeat_miss")
    /\ Calls(c, IdleCall)
    /\ UNCHANGED <<clock, leases, monVars, scav, published, history>>

CallerStep(c) ==
    \/ CreateCommit(c)
    \/ RenewCommit(c)
    \/ HeartbeatTouch(c)
    \/ ReceiveHeartbeat(c)
    \/ ReceiveHeartbeatStore(c)

-----------------------------------------------------------------------------
(* LeaseMonitor.                                                           *)

Goes(t, s) == mon' = [mon EXCEPT ![t] = s]

MonitorStart(t) ==
    /\ ~running /\ ~joining /\ mon[t].pc = "off"
    /\ running' = TRUE
    /\ Goes(t, [OffMonitor EXCEPT !.pc = "loop"])
    /\ UNCHANGED <<clock, leases, expect, call, joining, scav, published,
                   histVars, lateStop>>

(* stop() clears the flag, then joins the thread for at most 5 seconds. *)
MonitorStop ==
    /\ running /\ ~joining
    /\ running' = FALSE
    /\ joining' = TRUE
    /\ UNCHANGED <<clock, leases, expect, call, mon, scav, published,
                   histVars, lateStop>>

MonitorStopReturns ==
    /\ joining
    /\ joining' = FALSE
    /\ lateStop' = (lateStop \/ \E t \in Threads : mon[t].pc # "off")
    /\ UNCHANGED <<clock, leases, expect, call, mon, running, scav, published,
                   histVars>>

(* _monitoring_loop: leave, or begin a pass with the list of expired leases. *)
MonitorLoop(t) ==
    /\ mon[t].pc = "loop"
    /\ IF running
       THEN Goes(t, [OffMonitor EXCEPT !.pc = "handle", !.todo = check_expiry])
       ELSE Goes(t, OffMonitor)
    /\ ForgetsRefreshed(t)
    /\ UNCHANGED <<clock, leases, expect, call, running, joining, scav, published,
                   history, lateStop>>

(* check_missed_heartbeats iterates the live dict; a change of its size by *)
(* another thread raises RuntimeError, which ends the pass.                *)
MonitorScan(t) ==
    /\ mon[t].pc = "scan"
    /\ Goes(t, [mon[t] EXCEPT !.pc = "iter", !.now = clock, !.keys = DOMAIN expect])
    /\ UNCHANGED <<clock, leases, expect, call, running, joining, scav, published,
                   histVars, lateStop>>

(* Faulty variant: the RuntimeError is not caught and ends the thread.     *)
MonitorIter_Uncaught(t) ==
    /\ mon[t].pc = "iter"
    /\ IF Cardinality(DOMAIN expect) = Cardinality(mon[t].keys)
       THEN Goes(t, [mon[t] EXCEPT !.pc = "handle", !.reason = "heartbeat_miss",
                        !.todo = {l \in DOMAIN expect : mon[t].now > expect[l]},
                        !.now = 0, !.keys = {}])
       ELSE Goes(t, OffMonitor)
    /\ ForgetsRefreshed(t)
    /\ UNCHANGED <<clock, leases, expect, call, running, joining, scav, published,
                   history, lateStop>>

MonitorIter(t) ==
    /\ mon[t].pc = "iter"
    /\ IF Cardinality(DOMAIN expect) = Cardinality(mon[t].keys)
       THEN Goes(t, [mon[t] EXCEPT !.pc = "handle", !.reason = "heartbeat_miss",
                        !.todo = {l \in DOMAIN expect : mon[t].now > expect[l]},
                        !.now = 0, !.keys = {}])
       ELSE Goes(t, [OffMonitor EXCEPT !.pc = "loop"])
    /\ ForgetsRefreshed(t)
    /\ UNCHANGED <<clock, leases, expect, call, running, joining, scav, published,
                   history, lateStop>>

(* Faulty variant: the lease is not looked up again before the RELEASE.    *)
MonitorHandle_NoLookup(t, l) ==
    /\ mon[t].pc = "handle" /\ l \in mon[t].todo
    /\ published' = published \cup {[lease |-> l, reason |-> mon[t].reason, by |-> t]}
    /\ Goes(t, [mon[t] EXCEPT !.pc = "unexpect", !.cur = l])
    /\ UNCHANGED <<clock, leases, expect, call, running, joining, scav, histVars, lateStop>>

(* handle_expired / handle_missed_heartbeat: a lease already gone is       *)
(* skipped (the second also drops its expectation); any other is released. *)
MonitorHandle(t, l) ==
    /\ mon[t].pc = "handle" /\ l \in mon[t].todo
    /\ IF Held(l)
       THEN /\ published' = published \cup
                 {[lease |-> l, reason |-> mon[t].reason, by |-> t]}
            /\ Goes(t, [mon[t] EXCEPT !.pc = "unexpect", !.cur = l])
            /\ UNCHANGED expect
       ELSE /\ expect' = IF mon[t].reason = "heartbeat_miss" THEN Drop(expect, l)
                                                             ELSE expect
            /\ Goes(t, [mon[t] EXCEPT !.todo = @ \ {l}])
            /\ UNCHANGED published
    /\ UNCHANGED <<clock, leases, call, running, joining, scav, histVars, lateStop>>

(* Faulty variant: a thread that was told to stop leaves before deleting.  *)
MonitorUnexpect_LeavesEarly(t) ==
    /\ mon[t].pc = "unexpect"
    /\ expect' = Drop(expect, mon[t].cur)
    /\ Goes(t, IF running THEN [mon[t] EXCEPT !.pc = "delete"] ELSE OffMonitor)
    /\ UNCHANGED <<clock, leases, call, running, joining, scav, published,
                   histVars, lateStop>>

MonitorUnexpect(t) ==
    /\ mon[t].pc = "unexpect"
    /\ expect' = Drop(expect, mon[t].cur)
    /\ Goes(t, [mon[t] EXCEPT !.pc = "delete"])
    /\ UNCHANGED <<clock, leases, call, running, joining, scav, published,
                   histVars, lateStop>>

(* The row is deleted without looking at it again. *)
MonitorDelete(t) ==
    /\ mon[t].pc = "delete"
    /\ leases' = Drop(leases, mon[t].cur)
    /\ Goes(t, [mon[t] EXCEPT !.pc = "handle", !.todo = @ \ {mon[t].cur},
                              !.cur = Nobody])
    /\ UNCHANGED <<clock, expect, call, running, joining, scav, published,
                   histVars, lateStop>>

(* The first list is done: go on to the heartbeats; the second: next pass. *)
MonitorListDone(t) ==
    /\ mon[t].pc = "handle" /\ mon[t].todo = {}
    /\ Goes(t, [OffMonitor EXCEPT
                  !.pc = IF mon[t].reason = "timeout" THEN "scan" ELSE "loop"])
    /\ ForgetsRefreshed(t)
    /\ UNCHANGED <<clock, leases, expect, call, running, joining, scav, published,
                   history, lateStop>>

MonitorStep(t) ==
    \/ MonitorLoop(t)
    \/ MonitorScan(t)
    \/ MonitorIter(t)
    \/ \E l \in LeaseIds : MonitorHandle(t, l)
    \/ MonitorUnexpect(t)
    \/ MonitorDelete(t)
    \/ MonitorListDone(t)

-----------------------------------------------------------------------------
(* LeaseManager.scavenge_expired: list first, then one delete per entry.   *)
ScavengeCheck ==
    /\ scav = {}
    /\ check_expiry # {}
    /\ scav' = check_expiry
    /\ UNCHANGED <<clock, leases, expect, call, monVars, published, histVars>>

ScavengeDelete(l) ==
    /\ l \in scav
    /\ scav' = scav \ {l}
    /\ leases' = Drop(leases, l)
    /\ UNCHANGED <<clock, expect, call, monVars, published, histVars>>

-----------------------------------------------------------------------------
Next ==
    \/ Tick
    \/ \E c \in Callers :
         \/ CreateBegin(c)
         \/ RenewBegin(c)
         \/ \E l \in LeaseIds, w \in Workers : HeartbeatLookup(c, l, w)
         \/ CallerStep(c)
    \/ \E l \in LeaseIds :
         \/ DeleteLease(l)
         \/ \E i \in Intervals : ExpectHeartbeat(l, i)
         \/ ScavengeDelete(l)
    \/ ScavengeCheck
    \/ MonitorStop
    \/ MonitorStopReturns
    \/ \E t \in Threads : MonitorStart(t) \/ MonitorStep(t)

(* Time passes, a started call finishes, and a monitor thread keeps        *)
(* running; nothing obliges anybody to start a call or the daemon.         *)
Fairness ==
    /\ WF_vars(Tick)
    /\ \A c \in Callers : WF_vars(CallerStep(c))
    /\ \A t \in Threads : WF_vars(MonitorStep(t))

Spec == Init /\ [][Next]_vars

FairSpec == Spec /\ Fairness

-----------------------------------------------------------------------------
(* Types of the tables, the dict, the threads and the history variables.   *)
TypeOK ==
    /\ clock \in Nat
    /\ DOMAIN leases \subseteq LeaseIds
    /\ \A l \in DOMAIN leases : leases[l] \in LeaseRow
    /\ DOMAIN expect \subseteq LeaseIds
    /\ \A l \in DOMAIN expect : expect[l] \in Nat
    /\ call \in [Callers -> CallState]
    /\ mon \in [Threads -> MonState]
    /\ running \in BOOLEAN
    /\ joining \in BOOLEAN
    /\ scav \subseteq LeaseIds
    /\ published \subseteq [lease : LeaseIds, reason : Reasons, by : Threads]
    /\ DOMAIN history \subseteq LeaseIds
    /\ \A l \in DOMAIN history : history[l] \in LeaseRow
    /\ refreshed \in [Threads -> SUBSET LeaseIds]
    /\ lateStop \in BOOLEAN

(* The row, as it is now, has outlived its ttl.                            *)
TtlPassed(l) == clock > leases[l].created + leases[l].ttl

(* The heartbeat that is expected now is late.  An expectation can only be *)
(* missing because another thread has already announced the release.       *)
HeartbeatMissed(l) ==
    IF l \in DOMAIN expect THEN clock > expect[l]
                           ELSE \E m \in published : m.lease = l

Overdue(l, reason) == IF reason = "timeout" THEN TtlPassed(l) ELSE HeartbeatMissed(l)

(* The monitor takes no lease away early.  When a RELEASE is published the  *)
(* row of now is past created_at plus ttl, or the heartbeat expected now is *)
(* late, however renewals with stale times, heartbeats, the scavenger and a *)
(* second monitor thread interleave with the two scans of                   *)
(* check_expired_leases.  The one exception is a lease that was renewed, or *)
(* whose heartbeat arrived, after the thread had read the list it works off *)
(* (ExpireUnlessRenewed shows that case).                                   *)
NoPrematureRelease ==
    [][\A m \in published' \ published :
         m.lease \in refreshed[m.by] \/ Overdue(m.lease, m.reason)]_vars

(* Leases "expire unless renewed": a lease whose RELEASE gives the reason   *)
(* "timeout" has outlived its ttl at that moment.  The code does not keep   *)
(* this: check_expired_leases works off a list, and handle_expired releases *)
(* a lease that was renewed after the list was read.                        *)
ExpireUnlessRenewed ==
    [][\A m \in published' \ published : m.reason = "timeout" => TtlPassed(m.lease)]_vars

(* A lease is announced as released at most once, although it can be on    *)
(* the list of expired leases and on the list of missed heartbeats of the  *)
(* same pass: handle_missed_heartbeat looks the row up again.  Two threads *)
(* can announce it twice, and only after a join in stop() has timed out.   *)
AtMostOneRelease ==
    ~lateStop => \A m1, m2 \in published : m1.lease = m2.lease => m1 = m2

(* While the daemon stays up nothing is left behind.  Every row is removed  *)
(* once nobody renews it any more (calls stop at Horizon), even if scans    *)
(* die of a dict that changed size; and an expectation that                 *)
(* receive_heartbeat stored for a lease the monitor had just deleted does   *)
(* not stay in the dict for ever.                                           *)
EveryLeaseEnds ==
    <>[]running => \A l \in LeaseIds :
        /\ Held(l) ~> ~Held(l)
        /\ (l \in DOMAIN expect /\ ~Held(l)) ~> (l \notin DOMAIN expect)

(* A RELEASE that was announced is carried out, even when the daemon is    *)
(* asked to stop between the announcement and the deletion.                *)
ReleaseDeletes ==
    \A l \in LeaseIds :
      (\E m \in published : m.lease = l) ~> ~Held(l)

-----------------------------------------------------------------------------
(* The inductive strengthening of NoPrematureRelease.                      *)

(* Every lease that a table, a call or a list names was created once; ids  *)
(* are not used again, so a row that is gone does not come back.           *)
NamesKnown ==
    /\ DOMAIN leases \subseteq DOMAIN history
    /\ DOMAIN expect \subseteq DOMAIN history
    /\ \A c \in Callers :
         call[c].pc \notin {"idle", "create"} => call[c].lease \in DOMAIN history
    /\ \A t \in Threads : mon[t].todo \subseteq DOMAIN history

(* An entry a thread still has to work off is overdue, unless it was given  *)
(* new time since, or its row is gone.                                      *)
ListsOverdue ==
    \A t \in Threads :
      /\ mon[t].now <= clock
      /\ \A l \in mon[t].todo :
           l \in refreshed[t] \/ ~Held(l) \/ Overdue(l, mon[t].reason)

(* A thread that is about to drop an expectation has announced the release. *)
DropsAnnounced ==
    \A t \in Threads :
      mon[t].pc = "unexpect" => \E m \in published : m.lease = mon[t].cur

IndInv == TypeOK /\ NamesKnown /\ ListsOverdue /\ DropsAnnounced

=============================================================================
