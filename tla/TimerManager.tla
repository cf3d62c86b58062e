---------------------------- MODULE TimerManager ----------------------------
(***************************************************************************)
(* timer_manager.cpp and server_status.h: the map of connections, the      *)
(* mutex that guards it, and the figures published about both.             *)
(*                                                                         *)
(* A connection is named by its address (Connection::id).  HttpServer      *)
(* makes connections with make_shared, so the weak_ptr in connections_     *)
(* keeps the block of a dead connection: an address comes back only when   *)
(* its entry is gone.  Accepting threads add entries, the scan removes     *)
(* them, other threads drop the last reference of a connection at any      *)
(* time, also while the scan holds one.  Whether the scan cancels what it  *)
(* holds is IdleReaper's subject, when it runs HttpServer's.               *)
(***************************************************************************)
EXTENDS Naturals, FiniteSets

CONSTANTS Addrs,    \* addresses a Connection can have (bound)
          Scan,     \* the scan, as holder of the mutex
          Nobody    \* no holder, no connection

ASSUME AddrsAssumption ==
    IsFiniteSet(Addrs) /\ Scan \notin Addrs /\ Nobody \notin Addrs \cup {Scan}

VARIABLES
    life,         \* the connection at an address, see Life
    connections,  \* the keys of connections_
    mutex,        \* who holds mutex_: a connection's accept handler, Scan, Nobody
    todo,         \* entries the scan has still to visit
    pin,          \* the connection whose shared_ptr the scan holds
    connection_count, max_connection_count,
    connection_object_count, max_connection_object_count

status == <<connection_count, max_connection_count,
            connection_object_count, max_connection_object_count>>
vars   == <<life, connections, mutex, todo, pin, status>>

\* "raw": no object.  "new": constructed for an accept.  "adding": in
\* add_connection.  "started": the chain of its handlers holds it.
\* "dropped": only the scan's shared_ptr holds it.
Life == {"raw", "new", "adding", "started", "dropped"}

Alive == {a \in Addrs : life[a] # "raw"}

Init ==
    /\ life = [a \in Addrs |-> "raw"]
    /\ connections = {} /\ mutex = Nobody /\ todo = {} /\ pin = Nobody
    /\ connection_count = 0 /\ max_connection_count = 0
    /\ connection_object_count = 0 /\ max_connection_object_count = 0

-----------------------------------------------------------------------------
(* ServerStatus: each call locks the status's own mutex and is atomic.     *)

increment_connection_count ==
    /\ connection_count' = connection_count + 1
    /\ max_connection_count' = IF connection_count + 1 > max_connection_count
                               THEN connection_count + 1 ELSE max_connection_count
    /\ UNCHANGED <<connection_object_count, max_connection_object_count>>

decrement_connection_count ==
    /\ connection_count' = connection_count - 1
    /\ UNCHANGED <<max_connection_count, connection_object_count,
                   max_connection_object_count>>

set_connection_object_count(n) ==
    /\ connection_object_count' = n
    /\ max_connection_object_count' = IF n > max_connection_object_count
                                      THEN n ELSE max_connection_object_count
    /\ UNCHANGED <<connection_count, max_connection_count>>

-----------------------------------------------------------------------------
(* Connections.                                                            *)

\* accept(): make_shared<Connection> finds a free block.
construct(a) ==
    /\ life[a] = "raw" /\ a \notin connections
    /\ life' = [life EXCEPT ![a] = "new"]
    /\ increment_connection_count
    /\ UNCHANGED <<connections, mutex, todo, pin>>

\* ~Connection.
destroy(a) ==
    /\ life' = [life EXCEPT ![a] = "raw"]
    /\ decrement_connection_count

\* The accept failed.
accept_failed(a) ==
    /\ life[a] = "new"
    /\ destroy(a)
    /\ UNCHANGED <<connections, mutex, todo, pin>>

\* The chain of handlers lets go of the connection; the scan may hold it.
release(a) ==
    /\ life[a] = "started"
    /\ IF pin = a THEN life' = [life EXCEPT ![a] = "dropped"] /\ UNCHANGED status
                  ELSE destroy(a)
    /\ UNCHANGED <<connections, mutex, todo, pin>>

-----------------------------------------------------------------------------
(* add_connection, by the handler of a successful accept.                  *)

add_insert(a) ==
    /\ life[a] = "new" /\ mutex = Nobody
    /\ mutex' = a
    /\ connections' = connections \cup {a}
    /\ life' = [life EXCEPT ![a] = "adding"]
    /\ UNCHANGED <<todo, pin, status>>

\* Unlocks; conn->start() follows.
add_publish(a) ==
    /\ life[a] = "adding" /\ mutex = a
    /\ set_connection_object_count(Cardinality(connections))
    /\ mutex' = Nobody
    /\ life' = [life EXCEPT ![a] = "started"]
    /\ UNCHANGED <<connections, todo, pin>>

-----------------------------------------------------------------------------
(* check_idle_connections.                                                 *)

scan_begin ==
    /\ mutex = Nobody
    /\ mutex' = Scan /\ todo' = connections
    /\ UNCHANGED <<life, connections, pin, status>>

\* Mutant: the connection is looked up without lock().
scan_lock_raw(a) ==
    /\ mutex = Scan /\ pin = Nobody /\ a \in todo
    /\ pin' = a /\ todo' = todo \ {a}
    /\ UNCHANGED <<life, connections, mutex, status>>

scan_lock(a) ==
    /\ mutex = Scan /\ pin = Nobody /\ a \in todo /\ life[a] # "raw"
    /\ pin' = a /\ todo' = todo \ {a}
    /\ UNCHANGED <<life, connections, mutex, status>>

\* Mutant: an expired entry is passed over.
scan_erase_skips(a) ==
    /\ mutex = Scan /\ pin = Nobody /\ a \in todo /\ life[a] = "raw"
    /\ todo' = todo \ {a}
    /\ UNCHANGED <<life, connections, mutex, pin, status>>

\* Mutant: the iterator is not replaced by what erase() returns.
scan_erase_dangles(a) ==
    /\ mutex = Scan /\ pin = Nobody /\ a \in todo /\ life[a] = "raw"
    /\ connections' = connections \ {a}
    /\ UNCHANGED <<life, mutex, todo, pin, status>>

scan_erase(a) ==
    /\ mutex = Scan /\ pin = Nobody /\ a \in todo /\ life[a] = "raw"
    /\ connections' = connections \ {a} /\ todo' = todo \ {a}
    /\ UNCHANGED <<life, mutex, pin, status>>

\* Mutant: a connection that was cancelled is taken for gone.
scan_unlock_erases(a) ==
    /\ pin = a /\ a \in Addrs
    /\ pin' = Nobody
    /\ connections' \in {connections, connections \ {a}}
    /\ IF life[a] = "dropped" THEN destroy(a) ELSE UNCHANGED <<life, status>>
    /\ UNCHANGED <<mutex, todo>>

\* Mutant: the destructor calls remove_connection, which waits for the
\* mutex its own thread holds.
scan_unlock_removes(a) ==
    /\ pin = a /\ a \in Addrs /\ life[a] # "dropped"
    /\ pin' = Nobody
    /\ UNCHANGED <<life, connections, mutex, todo, status>>

\* conn goes out of scope: the destructor may run here, under mutex_.
scan_unlock(a) ==
    /\ pin = a /\ a \in Addrs
    /\ pin' = Nobody
    /\ IF life[a] = "dropped" THEN destroy(a) ELSE UNCHANGED <<life, status>>
    /\ UNCHANGED <<connections, mutex, todo>>

\* Mutant: the figures are not brought up to date.
scan_end_silent ==
    /\ mutex = Scan /\ pin = Nobody /\ todo = {}
    /\ mutex' = Nobody
    /\ UNCHANGED <<life, connections, todo, pin, status>>

scan_end ==
    /\ mutex = Scan /\ pin = Nobody /\ todo = {}
    /\ set_connection_object_count(Cardinality(connections))
    /\ mutex' = Nobody
    /\ UNCHANGED <<life, connections, todo, pin>>

-----------------------------------------------------------------------------
ScanStep ==
    \/ \E a \in Addrs : scan_lock(a) \/ scan_erase(a) \/ scan_unlock(a)
    \/ scan_end

Next ==
    \/ \E a \in Addrs : \/ construct(a) \/ accept_failed(a) \/ release(a)
                        \/ add_insert(a) \/ add_publish(a)
    \/ scan_begin \/ ScanStep

Spec == Init /\ [][Next]_vars

\* Threads run; the timer fires again and again and the mutex is handed
\* to the scan sooner or later.  Nothing is assumed of clients.
FairSpec ==
    /\ Spec
    /\ WF_vars(ScanStep) /\ SF_vars(scan_begin)
    /\ \A a \in Addrs : WF_vars(add_publish(a))

-----------------------------------------------------------------------------
(* Properties.                                                             *)

\* Variables keep their types; the scan's iterator points into the map.
TypeOK ==
    /\ life \in [Addrs -> Life]
    /\ connections \subseteq Addrs /\ todo \subseteq connections
    /\ mutex \in Addrs \cup {Scan, Nobody} /\ pin \in Addrs \cup {Nobody}
    /\ connection_count \in Nat /\ max_connection_count \in Nat
    /\ connection_object_count \in Nat /\ max_connection_object_count \in Nat

\* What ServerStatus reports: the number of Connection objects, exactly and
\* always; the number of entries, whenever nobody holds mutex_; and no
\* figure above its peak.  ("Internal server statistics: connection counts,
\* timeouts, peaks", server_status.h:8.)
StatusExact ==
    /\ connection_count = Cardinality(Alive)
    /\ mutex = Nobody => connection_object_count = Cardinality(connections)
    /\ connection_count <= max_connection_count
    /\ connection_object_count <= max_connection_object_count

\* Every connection that was started is in the map: one that is missing
\* would never be found idle, whatever its client does.
Registered == \A a \in Addrs : life[a] \in {"started", "dropped"} => a \in connections

\* The scan never has a connection in its hands that another thread has
\* destroyed, and one that only the scan keeps is really held by it (it
\* would leak otherwise).
PinHolds ==
    /\ pin # Nobody => life[pin] \in {"started", "dropped"}
    /\ \A a \in Addrs : life[a] = "dropped" => pin = a

\* The mutex is always given back, although destructors run under it.
MutexFreed == mutex # Nobody ~> mutex = Nobody

\* The entry of a dead connection, and with it its memory, does not stay.
Swept == \A a \in Addrs : (life[a] = "raw" /\ a \in connections) ~> a \notin connections
=============================================================================
