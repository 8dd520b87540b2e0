---------------------------- MODULE SocketMutexSet ----------------------------
(***************************************************************************)
(* What the threads expect of Mutex_Socket_Queue: a map from sockets to    *)
(* nodes, each with a mutex.  A communication thread inserts a node for    *)
(* its socket, takes it out again and frees it.  The one worker that holds *)
(* mutex_files_queue asks for a socket and gets exactly its node, which    *)
(* stays until the worker is through.  Only a node that is freed during a  *)
(* search may disturb it; then what the search returns, if it ever does,   *)
(* may be anything.                                                        *)
(***************************************************************************)
CONSTANTS Socket, Addr, NULL, None
VARIABLES members, removed, asked, disturbed, found

search == <<asked, disturbed, found>>

Insert(s) ==
  /\ members[s] = NULL
  /\ \E a \in Addr \ ({members[t] : t \in Socket} \cup removed) :
       members' = [members EXCEPT ![s] = a]
  /\ UNCHANGED <<removed, search>>

Delete(s) ==
  /\ members[s] # NULL /\ s # asked
  /\ members' = [members EXCEPT ![s] = NULL]
  /\ removed' = removed \cup {members[s]}
  /\ UNCHANGED search

Free(a) ==
  /\ a \in removed
  /\ removed' = removed \ {a}
  /\ \/ UNCHANGED disturbed
     \/ asked # None /\ found = NULL /\ disturbed' = TRUE
  /\ UNCHANGED <<members, asked, found>>

Ask(s) ==
  /\ asked = None /\ members[s] # NULL
  /\ asked' = s
  /\ UNCHANGED <<members, removed, disturbed, found>>

Find ==
  /\ asked # None /\ found = NULL
  /\ found' # NULL
  /\ ~disturbed => found' = members[asked]
  /\ UNCHANGED <<members, removed, asked, disturbed>>

Release ==
  /\ found # NULL
  /\ asked' = None /\ found' = NULL /\ disturbed' = FALSE
  /\ UNCHANGED <<members, removed>>

Init ==
  /\ members = [s \in Socket |-> NULL] /\ removed = {}
  /\ asked = None /\ disturbed = FALSE /\ found = NULL

Next ==
  \/ Find \/ Release
  \/ \E s \in Socket : Insert(s) \/ Delete(s) \/ Ask(s)
  \/ \E a \in Addr : Free(a)

Spec == Init /\ [][Next]_<<members, removed, search>>
=============================================================================
