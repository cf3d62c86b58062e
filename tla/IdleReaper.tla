----------------------------- MODULE IdleReaper -----------------------------
(***************************************************************************)
(* timer_manager.cpp, check_idle_connections: what the periodic scan does  *)
(* to one connection, composed with that connection.                       *)
(*                                                                         *)
(* The scan runs on an io thread and holds TimerManager::mutex_, which no  *)
(* connection takes; is_processing_ (relaxed) and last_active_time_ (not   *)
(* atomic) are read one after the other while other threads write them,    *)
(* and the cancel comes after both.  Each of these accesses is a step.     *)
(***************************************************************************)
EXTENDS Connection

VARIABLES
    scan,      \* where check_idle_connections is with this connection;
               \* "asleep": async_wait is pending, or it is at other ones
    through    \* not in the code: a request has been in progress ever since
               \* the scan locked the connection

reaperVars == <<vars, scan, through>>

ReaperInit == Init /\ scan = "asleep" /\ through = FALSE

Old(a) == a > kIdleTimeout

\* A request is in progress, whatever is_processing_ says of it.
Busy == \E t \in Tasks : BusyTask(task[t])

\* The history of a visit: it starts over when the connection is locked.
Note(fresh) == through' = ((through \/ fresh) /\ Busy')

\* The timer expires, every interval_ seconds.
scan_expires ==
    /\ scan = "asleep" /\ reg
    /\ scan' = "visit"
    /\ UNCHANGED vars /\ Note(FALSE)

\* weak_ptr::lock.
scan_lock ==
    /\ scan = "visit" /\ sock # "destroyed"
    /\ Pin
    /\ scan' = "flag" /\ Note(TRUE)

\* The weak_ptr has expired: the entry goes.
scan_erase ==
    /\ scan = "visit" /\ sock = "destroyed"
    /\ Erase
    /\ scan' = "asleep" /\ Note(FALSE)

\* !conn->is_processing()
scan_flag ==
    /\ scan = "flag"
    /\ scan' = IF proc THEN "release" ELSE "time"
    /\ UNCHANGED vars /\ Note(FALSE)

\* conn->is_idle()
scan_time ==
    /\ scan = "time"
    /\ scan' = IF Old(age) THEN "cancel" ELSE "release"
    /\ UNCHANGED vars /\ Note(FALSE)

scan_cancel ==
    /\ scan = "cancel"
    /\ cancel
    /\ scan' = "release" /\ Note(FALSE)

\* Mutant: the scan does not arm the timer again.
scan_release_unarmed ==
    /\ scan = "release"
    /\ Unpin
    /\ scan' = "stopped" /\ Note(FALSE)

\* conn goes out of scope, and start() arms the timer again.
scan_release ==
    /\ scan = "release"
    /\ Unpin
    /\ scan' = "asleep" /\ Note(FALSE)

Scan == \/ scan_expires \/ scan_lock \/ scan_erase \/ scan_flag \/ scan_time
        \/ scan_cancel \/ scan_release

\* The connection, its client and the clock run on meanwhile.
Others ==
    /\ \/ \E t \in Tasks : Server(t) \/ Environment(t)
       \/ HalfClose \/ Reset \/ Tick
    /\ UNCHANGED scan
    /\ Note(FALSE)

ReaperNext == Scan \/ Others

ReaperSpec == ReaperInit /\ [][ReaperNext]_reaperVars

\* Threads run, the clock advances and the timer fires; the client need not
\* do anything at all.
ReaperFairSpec ==
    /\ ReaperSpec
    /\ \A t \in Tasks : WF_reaperVars(Server(t) /\ UNCHANGED scan /\ Note(FALSE))
    /\ WF_reaperVars(Tick /\ UNCHANGED scan /\ Note(FALSE))
    /\ WF_reaperVars(Scan)

-----------------------------------------------------------------------------
(* Properties.                                                             *)

\* A request that takes longer than kIdleTimeout is not cut by the scan: a
\* connection is never cancelled that has had a request in progress, from its
\* header to the end of its response, ever since the scan locked it,
\* whichever io or pool thread serves it.  (One that begins or ends during
\* the visit may be cut: the scan's two reads and its cancel are not one.)
CutsNoRequest == scan = "cancel" => ~through

\* A client that opens a connection, or has its response, and then stays
\* silent does not keep the connection: no read of a request waits forever,
\* although a cancel may come too early or hit no pending operation.
SilentReaped == []<>(\A t \in Tasks : task[t] # Async("header", "wait"))
=============================================================================
