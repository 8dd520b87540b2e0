-------------------------- MODULE SocketMutexesProofs --------------------------
(***************************************************************************)
(* The list of Mutex_Socket_Queue keeps its order, and the walk that does  *)
(* not lock it finds its node unless that is freed under it, for any       *)
(* number of threads and any memory.                                       *)
(*                                                                         *)
(* The proof carries the list as a function q from positions to addresses; *)
(* that the nodes found by following next are the same is by induction on  *)
(* the position.  A walk whose node is not freed under it has the node it  *)
(* is after before it, also when it stands on a node just taken out.       *)
(***************************************************************************)
EXTENDS SocketMutexes, NumberSets

Serving == {s \in Socket : pc[s] = "serve"}
InList(q) == {q[i] : i \in 1 .. size}

Types ==
  /\ {first, last} \subseteq Addr \cup {NULL} /\ size \in Nat
  /\ heap \in [Addr -> Nodes] /\ live \subseteq Addr
  /\ pc \in [Socket -> {"new", "link", "serve", "free"}]
  /\ node \in [Socket -> Addr \cup {NULL}]
  /\ wpc \in {"idle", "test", "next", "found", "lost"} /\ pulled \in BOOLEAN
  /\ target \in Socket \cup {None} /\ q_node \in Addr \cup {NULL, Wild}
  /\ \A s \in Socket : pc[s] \in {"link", "free"} <=> mutex_socket_queue = s

\* The memory in use is the nodes of the threads, one each.
NodesOwned ==
  /\ \A s \in Socket : IF pc[s] = "new" THEN node[s] = NULL
                       ELSE node[s] \in live /\ heap[node[s]].socket = s
  /\ \A a \in live : \E s \in Socket : pc[s] # "new" /\ node[s] = a
  /\ \A s \in Socket : pc[s] = "link" => heap[node[s]].next = NULL

\* q is the list: following next visits its places in order, and they are the
\* nodes of the threads that serve a client.
IsList(q) ==
  /\ q \in [1 .. size -> Addr]
  /\ \A i, j \in 1 .. size : q[i] = q[j] => i = j
  /\ \A i \in 1 .. size : heap[q[i]].next = IF i = size THEN NULL ELSE q[i + 1]
  /\ first = IF size = 0 THEN NULL ELSE q[1]
  /\ last = IF size = 0 THEN NULL ELSE q[size]
  /\ \A i \in 1 .. size : \E s \in Serving : node[s] = q[i]
  /\ \A s \in Serving : \E i \in 1 .. size : q[i] = node[s]

\* A walk that stands on a node that is not freed has its target before it,
\* also when the node is just being taken out.
Behind(q) ==
  Walking /\ ~pulled =>
    \E j \in 1 .. size :
      /\ \E t \in j .. size : q[t] = node[target]
      /\ \/ q_node = q[j]
         \/ \E s \in Socket : pc[s] = "free" /\ q_node = node[s] /\ heap[q_node].next = q[j]

ListInv == \E q : IsList(q) /\ Behind(q)

WalkInv ==
  /\ wpc = "idle" => target = None
  /\ wpc # "idle" => target \in Socket /\ pc[target] = "serve"
  /\ wpc = "found" => q_node # NULL
  /\ ~pulled => /\ wpc = "next" => q_node # node[target]
                /\ wpc = "found" => q_node = node[target]

SocketMutexesInv == Types /\ NodesOwned /\ ListInv /\ WalkInv /\ LostOnlyWhenPulled

-----------------------------------------------------------------------------
(* The list and the nodes reached by next.                                  *)

\* A list has no more places than there is memory and than there are threads.
LEMMA ListFits ==
  ASSUME Types, NodesOwned, NEW q, IsList(q)
  PROVE  /\ Cardinality(Addr) \in Nat /\ size <= Cardinality(Addr)
         /\ Cardinality(Socket) \in Nat /\ size <= Cardinality(Socket)
<1>1. IsFiniteSet(1 .. size) /\ Cardinality(1 .. size) = size
  BY FS_Interval DEF Types
<1>2. Cardinality(Addr) \in Nat /\ Cardinality(Socket) \in Nat
  BY ListAssumption, FS_CardinalityType
<1>3. q \in Injection(1 .. size, Addr)
  BY DEF IsList, Injection, IsInjective
<1>4. size <= Cardinality(Addr)
  BY <1>1, <1>3, FS_Injection, ListAssumption
<1> DEFINE owner == [i \in 1 .. size |-> CHOOSE s \in Serving : node[s] = q[i]]
<1>5. \A i \in 1 .. size : owner[i] \in Serving /\ node[owner[i]] = q[i]
  BY DEF IsList
<1>6. owner \in Injection(1 .. size, Socket)
  <2>1. owner \in [1 .. size -> Socket]
    BY <1>5 DEF Serving
  <2>2. \A i, j \in 1 .. size : owner[i] = owner[j] => i = j
    <3>1. \A i, j \in 1 .. size : q[i] = q[j] => i = j
      BY DEF IsList
    <3> HIDE DEF owner
    <3>2. QED BY <1>5, <3>1
  <2> HIDE DEF owner
  <2> QED BY <2>1, <2>2 DEF Injection, IsInjective
<1>7. size <= Cardinality(Socket)
  <2> HIDE DEF owner
  <2> QED BY <1>1, <1>6, FS_Injection, ListAssumption
<1>8. QED
  BY <1>2, <1>4, <1>7

\* Nth visits the places of the list and then NULL.
LEMMA NthOfList ==
  ASSUME Types, NodesOwned, NEW q, IsList(q)
  PROVE  Nth = [n \in 0 .. Cardinality(Addr) |-> IF n < size THEN q[n + 1] ELSE NULL]
<1> DEFINE D == 0 .. Cardinality(Addr)
           Along(f) == [n \in D |-> IF n = 0 THEN first
                                    ELSE IF f[n - 1] = NULL THEN NULL
                                    ELSE heap[f[n - 1]].next]
           g == [n \in D |-> IF n < size THEN q[n + 1] ELSE NULL]
<1>0. /\ \A i \in 1 .. size : heap[q[i]].next = IF i = size THEN NULL ELSE q[i + 1]
      /\ \A i \in 1 .. size : q[i] \in Addr
  BY DEF IsList
<1>1. Cardinality(Addr) \in Nat /\ size \in Nat /\ size <= Cardinality(Addr)
  BY ListFits DEF Types
<1>2. \A n \in D : g[n] = IF n = 0 THEN first
                          ELSE IF g[n - 1] = NULL THEN NULL ELSE heap[g[n - 1]].next
  <2>1. g[0] = first
    BY <1>1 DEF IsList
  <2>2. ASSUME NEW n \in D, n # 0
        PROVE  g[n] = IF g[n - 1] = NULL THEN NULL ELSE heap[g[n - 1]].next
    <3>1. CASE n < size
      <4>1. n \in 1 .. size /\ n # size /\ n + 1 \in 1 .. size /\ n - 1 < size /\ n - 1 \in D
        BY <1>1, <2>2, <3>1
      <4>2. g[n - 1] = q[n] /\ q[n] \in Addr /\ g[n] = q[n + 1]
        BY <1>0, <4>1, <3>1
      <4>3. heap[q[n]].next = q[n + 1]
        BY <1>0, <4>1
      <4>4. QED BY <4>2, <4>3, ListAssumption
    <3>2. CASE n = size
      <4>1. n \in 1 .. size /\ n - 1 < size /\ n - 1 \in D
        BY <1>1, <2>2, <3>2
      <4>2. g[n - 1] = q[n] /\ q[n] \in Addr /\ g[n] = NULL
        BY <1>0, <4>1, <3>2
      <4>3. heap[q[n]].next = NULL
        BY <1>0, <3>2, <4>1
      <4>4. QED BY <2>2, <4>2, <4>3, ListAssumption
    <3>3. CASE n > size
      <4>1. ~(n < size) /\ ~(n - 1 < size) /\ n - 1 \in D
        BY <1>1, <2>2, <3>3
      <4>2. QED BY <4>1
    <3>4. QED BY <1>1, <2>2, <3>1, <3>2, <3>3
  <2>3. QED BY <2>1, <2>2
<1>3. g = Along(g)
  BY <1>2
<1>4. Nth = CHOOSE f : f = Along(f)
  BY DEF Nth
<1>5. Nth = Along(Nth)
  <2> HIDE DEF Along, g
  <2> QED BY <1>3, <1>4
<1>6. \A n \in D : Nth[n] = g[n]
  <2> DEFINE S == {n \in Nat : n \in D => Nth[n] = g[n]}
  <2>1. \A n \in D : Nth[n] = IF n = 0 THEN first
                              ELSE IF Nth[n - 1] = NULL THEN NULL ELSE heap[Nth[n - 1]].next
    BY <1>5
  <2> HIDE DEF g
  <2>2. 0 \in S
    BY <1>1, <1>2, <2>1
  <2>3. \A n \in Nat : n \in S => n + 1 \in S
    <3> SUFFICES ASSUME NEW n \in Nat, n \in S, n + 1 \in D PROVE Nth[n + 1] = g[n + 1]
      OBVIOUS
    <3>1. n \in D /\ n + 1 # 0 /\ n + 1 - 1 = n
      BY <1>1
    <3>2. QED BY <1>2, <2>1, <3>1
  <2> HIDE DEF S
  <2>4. Nat \subseteq S
    BY <2>2, <2>3, NatSetInduction
  <2>5. QED BY <2>4, <1>1 DEF S
<1>7. QED
  <2>1. Nth = [n \in D |-> Nth[n]]
    BY <1>5
  <2>2. QED BY <2>1, <1>6

LEMMA OnListOfList ==
  ASSUME Types, NodesOwned, NEW q, IsList(q)
  PROVE  OnList = InList(q)
<1>1. Cardinality(Addr) \in Nat /\ size \in Nat /\ size <= Cardinality(Addr)
  BY ListFits DEF Types
<1>2. /\ DOMAIN Nth = 0 .. Cardinality(Addr)
      /\ \A n \in 0 .. Cardinality(Addr) : Nth[n] = IF n < size THEN q[n + 1] ELSE NULL
  BY NthOfList
<1>3. ASSUME NEW i \in 1 .. size PROVE q[i] \in OnList
  <2>1. i - 1 \in 0 .. Cardinality(Addr) /\ i - 1 < size /\ i - 1 + 1 = i
    BY <1>1
  <2>2. q[i] \in Addr
    BY DEF IsList
  <2>3. QED BY <1>2, <2>1, <2>2, ListAssumption DEF OnList
<1>4. ASSUME NEW a \in OnList PROVE a \in InList(q)
  <2>1. PICK n \in 0 .. Cardinality(Addr) : a = Nth[n] /\ a # NULL
    BY <1>2 DEF OnList
  <2>2. n + 1 \in 1 .. size /\ a = q[n + 1]
    BY <1>1, <1>2, <2>1
  <2>3. QED BY <2>2 DEF InList
<1>5. QED BY <1>3, <1>4 DEF InList

-----------------------------------------------------------------------------
(* The effect of insertion and deletion on the list.                        *)

\* Both deletions take the node at one place k out of the list.
TakesOut(s, q, k) ==
  /\ pc[s] = "serve" /\ mutex_socket_queue = None /\ (wpc # "idle" => target # s)
  /\ q[k] = node[s]
  /\ first' = IF k > 1 THEN first ELSE IF size = 1 THEN NULL ELSE q[2]
  /\ last' = IF k < size THEN last ELSE IF size = 1 THEN NULL ELSE q[size - 1]
  /\ size' = size - 1
  /\ heap' \in [Addr -> Nodes]
  /\ \A a \in Addr :
       /\ heap'[a].socket = heap[a].socket
       /\ heap'[a].next = IF k > 1 /\ a = q[k - 1] THEN heap[q[k]].next ELSE heap[a].next
  /\ pc' = [pc EXCEPT ![s] = "free"]
  /\ mutex_socket_queue' = s
  /\ UNCHANGED <<live, node, walkVars>>

LEMMA DeletionTakesOut ==
  ASSUME Types, NodesOwned, NEW q, IsList(q), NEW s \in Socket,
         UnlinkFirst(s) \/ UnlinkOther(s)
  PROVE  \E k \in 1 .. size : TakesOut(s, q, k)
<1>1. PICK k \in 1 .. size : q[k] = node[s]
  BY DEF IsList, Serving, UnlinkFirst, UnlinkOther, LocksToDelete
<1>2. size \in Nat \ {0} /\ 1 \in 1 .. size /\ q[k] \in Addr /\ q[1] \in Addr /\ first = q[1]
  BY <1>1 DEF IsList, Types
<1>0. \A i \in 1 .. size : heap[q[i]].next = IF i = size THEN NULL ELSE q[i + 1]
  BY DEF IsList
<1>3. CASE UnlinkFirst(s)
  <2>1. k = 1
    BY <1>1, <1>2, <1>3 DEF IsList, UnlinkFirst
  <2>2. heap[q[1]].next = IF size = 1 THEN NULL ELSE q[2]
    BY <1>0, <1>2
  <2>3. first' = IF size = 1 THEN NULL ELSE q[2]
    BY <1>2, <1>3, <2>2 DEF UnlinkFirst
  <2>4. last' = IF k < size THEN last ELSE IF size = 1 THEN NULL ELSE q[size - 1]
    <3>1. CASE size = 1
      BY <1>2, <1>3, <2>1, <2>3, <3>1 DEF UnlinkFirst
    <3>2. CASE size = 2
      BY <1>2, <1>3, <2>1, <2>3, <3>2 DEF UnlinkFirst, IsList
    <3>3. CASE size > 2
      BY <1>2, <1>3, <2>1, <3>3 DEF UnlinkFirst
    <3>4. QED BY <1>2, <3>1, <3>2, <3>3
  <2>5. QED
    BY <1>1, <1>3, <2>1, <2>3, <2>4 DEF TakesOut, UnlinkFirst, LocksToDelete, ThreadGoto, Types
<1>4. CASE UnlinkOther(s)
  <2>1. k > 1
    BY <1>1, <1>2, <1>4 DEF UnlinkOther
  <2>2. PICK prev_node \in OnList :
          /\ heap[prev_node].next = node[s]
          /\ IF node[s] = last
             THEN last' = prev_node /\ heap' = [heap EXCEPT ![prev_node].next = NULL]
             ELSE /\ heap' = [heap EXCEPT ![prev_node].next = heap[node[s]].next]
                  /\ UNCHANGED last
    BY <1>4 DEF UnlinkOther
  <2>3. PICK i \in 1 .. size : prev_node = q[i]
    BY OnListOfList DEF InList
  <2>4. i # size /\ i + 1 \in 1 .. size /\ q[i + 1] = q[k]
    <3>1. node[s] \in Addr /\ heap[q[i]].next = q[k]
      BY <1>1, <1>2, <2>2, <2>3
    <3>2. heap[q[i]].next = IF i = size THEN NULL ELSE q[i + 1]
      BY <1>0
    <3>3. QED BY <1>1, <1>2, <3>1, <3>2, ListAssumption
  <2>5. k = i + 1 /\ prev_node = q[k - 1] /\ prev_node \in Addr
    <3>1. q[i + 1] = q[k] => i + 1 = k
      BY <2>4 DEF IsList
    <3>2. i \in Nat /\ q[i] \in Addr
      BY <1>2, <2>3 DEF IsList
    <3>3. QED BY <2>3, <2>4, <3>1, <3>2
  <2>6. node[s] = last <=> k = size
    BY <1>1, <1>2 DEF IsList
  <2>7. heap[q[k]].next \in Addr \cup {NULL} /\ (k = size => heap[q[k]].next = NULL)
    BY <1>1, <1>2 DEF IsList, Types, Nodes
  <2>8. heap' = [heap EXCEPT ![prev_node].next = heap[q[k]].next]
    BY <1>1, <2>2, <2>6, <2>7
  <2>9. /\ heap' \in [Addr -> Nodes]
        /\ \A c \in Addr : /\ heap'[c].socket = heap[c].socket
                           /\ heap'[c].next = IF c = prev_node THEN heap[q[k]].next ELSE heap[c].next
    <3>1. heap \in [Addr -> Nodes]
      BY DEF Types
    <3>2. PICK b \in Addr \cup {NULL} : b = heap[q[k]].next
      BY <2>7
    <3>3. heap' = [heap EXCEPT ![prev_node].next = b]
      BY <2>8, <3>2
    <3>4. /\ heap' \in [Addr -> Nodes]
          /\ \A c \in Addr : /\ heap'[c].socket = heap[c].socket
                             /\ heap'[c].next = IF c = prev_node THEN b ELSE heap[c].next
      BY <2>5, <3>1, <3>3 DEF Nodes
    <3>5. QED BY <3>2, <3>4
  <2>10. last' = IF k < size THEN last ELSE IF size = 1 THEN NULL ELSE q[size - 1]
    BY <1>1, <1>2, <2>1, <2>2, <2>5, <2>6
  <2>11. QED
    BY <1>1, <1>4, <2>1, <2>5, <2>9, <2>10 DEF TakesOut, UnlinkOther, LocksToDelete, ThreadGoto, Types
<1>5. QED
  BY <1>3, <1>4

\* The list without its place k.
Without(q, n, k) == [i \in 1 .. n - 1 |-> IF i < k THEN q[i] ELSE q[i + 1]]

LEMMA ListAfterDeletion ==
  ASSUME Types, NodesOwned, NEW q, IsList(q), NEW s \in Socket, NEW k \in 1 .. size,
         TakesOut(s, q, k), NEW r, r = Without(q, size, k)
  PROVE  IsList(r)'
<1>0. /\ \A i, j \in 1 .. size : q[i] = q[j] => i = j
      /\ \A i \in 1 .. size : heap[q[i]].next = IF i = size THEN NULL ELSE q[i + 1]
  BY DEF IsList
<1>1. size \in Nat \ {0} /\ size' = size - 1 /\ q \in [1 .. size -> Addr]
  BY DEF Types, IsList, TakesOut
<1>2. \A i \in 1 .. size - 1 : r[i] = IF i < k THEN q[i] ELSE q[i + 1]
  BY DEF Without
<1>3. r \in [1 .. size' -> Addr]
  BY <1>1 DEF Without
<1>4. \A i, j \in 1 .. size' : r[i] = r[j] => i = j
  <2>1. SUFFICES ASSUME NEW i \in 1 .. size - 1, NEW j \in 1 .. size - 1, r[i] = r[j] PROVE i = j
    BY <1>1
  <2>2. PICK x \in 1 .. size : r[i] = q[x] /\ x = IF i < k THEN i ELSE i + 1
    BY <1>1, <1>2
  <2>3. PICK y \in 1 .. size : r[j] = q[y] /\ y = IF j < k THEN j ELSE j + 1
    BY <1>1, <1>2
  <2>4. x = y
    BY <1>0, <2>1, <2>2, <2>3
  <2>5. QED BY <2>2, <2>3, <2>4
<1>5. \A i \in 1 .. size' : heap'[r[i]].next = IF i = size' THEN NULL ELSE r[i + 1]
  <2>1. SUFFICES ASSUME NEW i \in 1 .. size - 1
                 PROVE  heap'[r[i]].next = IF i = size - 1 THEN NULL ELSE r[i + 1]
    BY <1>1
  <2>2. CASE i < k - 1
    <3>1. r[i] = q[i] /\ r[i + 1] = q[i + 1] /\ i \in 1 .. size /\ i # size - 1
      BY <1>1, <1>2, <2>1, <2>2
    <3>2. q[i] # q[k - 1] \/ k = 1
      BY <1>1, <2>1, <2>2 DEF IsList
    <3>3. heap'[q[i]].next = heap[q[i]].next
      BY <1>1, <2>1, <3>1, <3>2 DEF TakesOut
    <3>4. QED BY <1>1, <2>1, <3>1, <3>3 DEF IsList
  <2>3. CASE i = k - 1
    <3>1. r[i] = q[k - 1] /\ k > 1 /\ (i # size - 1 => r[i + 1] = q[k + 1])
      BY <1>1, <1>2, <2>1, <2>3
    <3>2. heap'[q[k - 1]].next = heap[q[k]].next
      BY <1>1, <2>1, <2>3, <3>1 DEF TakesOut
    <3>3. k = size <=> i = size - 1
      BY <1>1, <2>1, <2>3
    <3>4. QED BY <1>0, <3>1, <3>2, <3>3
  <2>4. CASE i >= k
    <3>1. r[i] = q[i + 1] /\ (i # size - 1 => r[i + 1] = q[i + 2]) /\ i + 1 \in 1 .. size
      BY <1>1, <1>2, <2>1, <2>4
    <3>2. k > 1 => k - 1 \in 1 .. size /\ q[i + 1] # q[k - 1]
      <4>1. k > 1 => k - 1 \in 1 .. size /\ k - 1 # i + 1
        BY <1>1, <2>1, <2>4
      <4>2. QED BY <1>0, <3>1, <4>1
    <3>3. heap'[q[i + 1]].next = heap[q[i + 1]].next
      BY <1>1, <2>1, <3>1, <3>2 DEF TakesOut
    <3>4. i + 1 = size <=> i = size - 1
      BY <1>1, <2>1
    <3>5. i + 1 + 1 = i + 2
      BY <2>1
    <3>6. QED BY <1>0, <3>1, <3>3, <3>4, <3>5
  <2>5. QED BY <1>1, <2>1, <2>2, <2>3, <2>4
<1>6. first' = IF size' = 0 THEN NULL ELSE r[1]
  <2>1. CASE size = 1
    BY <1>1, <2>1 DEF TakesOut
  <2>2. CASE size > 1
    <3>1. r[1] = IF k > 1 THEN q[1] ELSE q[2]
      BY <1>1, <1>2, <2>2
    <3>2. first = q[1]
      BY <1>1 DEF IsList
    <3>3. QED BY <1>1, <2>2, <3>1, <3>2 DEF TakesOut
  <2>3. QED BY <1>1, <2>1, <2>2
<1>7. last' = IF size' = 0 THEN NULL ELSE r[size']
  <2>1. CASE size = 1
    BY <1>1, <2>1 DEF TakesOut
  <2>2. CASE size > 1 /\ k = size
    BY <1>1, <1>2, <2>2 DEF TakesOut
  <2>3. CASE k < size
    <3>1. last' = q[size] /\ size # 1 /\ size - 1 \in 1 .. size - 1 /\ ~(size - 1 < k)
      BY <1>1, <2>3 DEF TakesOut, IsList
    <3>2. r[size - 1] = q[size - 1 + 1] /\ size - 1 + 1 = size
      BY <1>1, <1>2, <3>1
    <3>3. QED BY <1>1, <3>1, <3>2
  <2>4. QED BY <1>1, <2>1, <2>2, <2>3
<1>8. Serving' = Serving \ {s} /\ s \in Serving /\ node' = node
  BY DEF Serving, TakesOut, Types
<1>9. \A i \in 1 .. size' : \E t \in Serving' : node'[t] = r[i]
  <2>1. ASSUME NEW j \in 1 .. size, j # k PROVE \E t \in Serving \ {s} : node[t] = q[j]
    BY <2>1 DEF IsList, TakesOut
  <2>2. QED BY <1>1, <1>2, <1>8, <2>1
<1>10. \A t \in Serving' : \E i \in 1 .. size' : r[i] = node'[t]
  <2>1. SUFFICES ASSUME NEW t \in Serving, t # s PROVE \E i \in 1 .. size - 1 : r[i] = node[t]
    BY <1>1, <1>8
  <2>2. PICK j \in 1 .. size : q[j] = node[t]
    BY DEF IsList
  <2>3. j # k
    BY <2>1, <2>2, <1>8 DEF TakesOut, NodesOwned, Serving
  <2>4. CASE j < k
    BY <1>1, <1>2, <2>2, <2>4
  <2>5. CASE j > k
    <3>1. j - 1 \in 1 .. size - 1 /\ ~(j - 1 < k) /\ j - 1 + 1 = j
      BY <1>1, <2>5
    <3>2. QED BY <1>2, <2>2, <3>1
  <2>6. QED BY <2>3, <2>4, <2>5
<1>11. QED
  BY <1>3, <1>4, <1>5, <1>6, <1>7, <1>9, <1>10 DEF IsList

\* Queue_Insert puts the node behind the last place.
PutsBehind(s, q) ==
  /\ pc[s] = "link" /\ mutex_socket_queue = s
  /\ first' = IF size = 0 THEN node[s] ELSE first
  /\ last' = node[s]
  /\ size' = size + 1
  /\ heap' \in [Addr -> Nodes]
  /\ \A a \in Addr :
       /\ heap'[a].socket = heap[a].socket
       /\ heap'[a].next = IF size > 0 /\ a = q[size] THEN node[s] ELSE heap[a].next
  /\ pc' = [pc EXCEPT ![s] = "serve"]
  /\ mutex_socket_queue' = None
  /\ UNCHANGED <<live, node, walkVars>>

LEMMA InsertionPutsBehind ==
  ASSUME Types, NodesOwned, NEW q, IsList(q), NEW s \in Socket, Link(s)
  PROVE  PutsBehind(s, q)
<1>1. node[s] \in Addr /\ mutex_socket_queue = s /\ heap \in [Addr -> Nodes] /\ size \in Nat
  BY DEF Types, NodesOwned, Link
<1>2. CASE size = 0
  BY <1>1, <1>2 DEF PutsBehind, Link, ThreadGoto
<1>3. CASE size # 0
  <2>1. last = q[size] /\ last \in Addr
    BY <1>1, <1>3 DEF IsList
  <2>2. heap' = [heap EXCEPT ![last].next = node[s]]
    BY <1>3 DEF Link
  <2>3. /\ heap' \in [Addr -> Nodes]
        /\ \A a \in Addr : /\ heap'[a].socket = heap[a].socket
                           /\ heap'[a].next = IF a = last THEN node[s] ELSE heap[a].next
    BY <1>1, <2>1, <2>2 DEF Nodes
  <2>4. QED BY <1>1, <1>3, <2>1, <2>3 DEF PutsBehind, Link, ThreadGoto
<1>4. QED
  BY <1>2, <1>3

With(q, n, a) == [i \in 1 .. n + 1 |-> IF i <= n THEN q[i] ELSE a]

LEMMA ListAfterInsertion ==
  ASSUME Types, NodesOwned, NEW q, IsList(q), NEW s \in Socket,
         PutsBehind(s, q), NEW r, r = With(q, size, node[s])
  PROVE  IsList(r)'
<1>0. /\ \A i, j \in 1 .. size : q[i] = q[j] => i = j
      /\ \A i \in 1 .. size : heap[q[i]].next = IF i = size THEN NULL ELSE q[i + 1]
      /\ \A i \in 1 .. size : q[i] \in Addr
  BY DEF IsList
<1>1. size \in Nat /\ size' = size + 1 /\ node[s] \in Addr /\ size + 1 \in 1 .. size + 1
  BY DEF Types, PutsBehind, NodesOwned
<1>2. \A i \in 1 .. size + 1 : r[i] = IF i <= size THEN q[i] ELSE node[s]
  BY DEF With
<1>3. r \in [1 .. size' -> Addr]
  BY <1>0, <1>1 DEF With
<1>4. \A i \in 1 .. size : q[i] # node[s]
  <2>1. \A t \in Serving : node[t] # node[s]
    BY DEF Serving, NodesOwned, PutsBehind
  <2>2. QED BY <2>1 DEF IsList
<1>5. \A i, j \in 1 .. size' : r[i] = r[j] => i = j
  BY <1>0, <1>1, <1>2, <1>4
<1>6. \A i \in 1 .. size' : heap'[r[i]].next = IF i = size' THEN NULL ELSE r[i + 1]
  <2>1. ASSUME NEW i \in 1 .. size PROVE heap'[r[i]].next = r[i + 1]
    <3>1. i \in 1 .. size + 1 /\ i <= size /\ r[i] = q[i]
      BY <1>1, <1>2
    <3>2. CASE i = size
      <4>1. heap'[q[size]].next = node[s]
        BY <1>0, <1>1, <3>2 DEF PutsBehind
      <4>2. r[size + 1] = node[s]
        BY <1>1, <1>2
      <4>3. QED BY <3>1, <3>2, <4>1, <4>2
    <3>3. CASE i # size
      <4>1. q[i] # q[size]
        BY <1>0, <1>1, <3>3
      <4>2. heap'[q[i]].next = heap[q[i]].next
        BY <1>0, <4>1 DEF PutsBehind
      <4>3. i + 1 \in 1 .. size + 1 /\ i + 1 <= size
        BY <1>1, <3>3
      <4>4. QED BY <1>0, <1>2, <3>1, <3>3, <4>2, <4>3
    <3>4. QED BY <3>2, <3>3
  <2>2. heap'[node[s]].next = NULL
    BY <1>0, <1>1, <1>4 DEF PutsBehind, NodesOwned
  <2>3. r[size + 1] = node[s]
    BY <1>1, <1>2
  <2>4. QED BY <1>1, <2>1, <2>2, <2>3
<1>7. first' = IF size' = 0 THEN NULL ELSE r[1]
  BY <1>1, <1>2 DEF PutsBehind, IsList
<1>8. last' = IF size' = 0 THEN NULL ELSE r[size']
  BY <1>1, <1>2 DEF PutsBehind
<1>9. Serving' = Serving \cup {s} /\ node' = node
  BY DEF Serving, PutsBehind, Types
<1>10. \A i \in 1 .. size' : \E t \in Serving' : node'[t] = r[i]
  <2>1. \A i \in 1 .. size : \E t \in Serving : node[t] = q[i]
    BY DEF IsList
  <2>2. QED BY <1>1, <1>2, <1>9, <2>1
<1>11. \A t \in Serving' : \E i \in 1 .. size' : r[i] = node'[t]
  <2>1. \A t \in Serving : \E i \in 1 .. size : q[i] = node[t]
    BY DEF IsList
  <2>2. QED BY <1>1, <1>2, <1>9, <2>1
<1>12. QED
  BY <1>3, <1>5, <1>6, <1>7, <1>8, <1>10, <1>11 DEF IsList

\* What a step that leaves the list alone may change of the memory.
LEMMA ListKept ==
  ASSUME NEW q, IsList(q), UNCHANGED <<first, last, size>>,
         Serving' = Serving, \A s \in Serving : node'[s] = node[s],
         \A i \in 1 .. size : heap'[q[i]].next = heap[q[i]].next
  PROVE  IsList(q)'
BY DEF IsList

-----------------------------------------------------------------------------
(* The invariant.                                                           *)

LEMMA InvInit == ASSUME Init PROVE SocketMutexesInv
<1>1. Types
  BY ListAssumption DEF Init, Types, Nodes
<1>2. NodesOwned /\ WalkInv /\ LostOnlyWhenPulled
  BY DEF Init, NodesOwned, WalkInv, LostOnlyWhenPulled
<1>3. ListInv
  <2>1. PICK q : q = [i \in 1 .. 0 |-> NULL]
    OBVIOUS
  <2>2. IsList(q)
    BY <2>1 DEF Init, IsList, Serving
  <2>3. Behind(q)
    BY DEF Init, Behind, Walking
  <2>4. QED BY <2>2, <2>3 DEF ListInv
<1>4. QED
  BY <1>1, <1>2, <1>3 DEF SocketMutexesInv

LEMMA TypesStep == ASSUME Types, NodesOwned, ListInv, WalkInv, Next PROVE Types'
<1>1. ASSUME CompareSocket \/ Advance \/ EndFind PROVE Types'
  <2>1. CASE CompareSocket
    BY <2>1 DEF Types, CompareSocket, listVars
  <2>2. CASE Advance
    <3>1. q_node \in live => heap[q_node].next \in Addr \cup {NULL}
      BY DEF Types, Nodes
    <3>2. q_node' \in Addr \cup {NULL, Wild}
      BY <2>2, <3>1 DEF Advance
    <3>3. QED BY <2>2, <3>2 DEF Types, Advance, listVars
  <2>3. CASE EndFind
    BY <2>3 DEF Types, EndFind, listVars
  <2>4. QED BY <1>1, <2>1, <2>2, <2>3
<1>2. ASSUME NEW s \in Socket, StartFind(s) PROVE Types'
  BY <1>2 DEF Types, StartFind, listVars
<1>3. ASSUME NEW s \in Socket, Create(s) PROVE Types'
  <2>1. PICK a \in Addr \ live :
          /\ live' = live \cup {a}
          /\ heap' = [heap EXCEPT ![a] = [socket |-> s, next |-> NULL]]
          /\ node' = [node EXCEPT ![s] = a]
    BY <1>3 DEF Create
  <2>2. heap' \in [Addr -> Nodes] /\ live' \subseteq Addr /\ node' \in [Socket -> Addr \cup {NULL}]
    BY <2>1 DEF Types, Nodes
  <2>3. QED
    BY <1>3, <2>2, ListAssumption DEF Types, Create, ThreadGoto, walkVars
<1>4. ASSUME NEW s \in Socket, Link(s) PROVE Types'
  <2>1. PICK q : PutsBehind(s, q)
    BY <1>4, InsertionPutsBehind DEF ListInv
  <2>2. node[s] \in Addr
    BY <1>4 DEF Types, NodesOwned, Link
  <2>3. QED
    BY <2>1, <2>2, ListAssumption DEF Types, PutsBehind, walkVars
<1>5. ASSUME NEW s \in Socket, UnlinkFirst(s) \/ UnlinkOther(s) PROVE Types'
  <2>1. PICK q : IsList(q)
    BY DEF ListInv
  <2>2. PICK k \in 1 .. size : TakesOut(s, q, k)
    BY <1>5, <2>1, DeletionTakesOut
  <2>3. {first', last'} \subseteq Addr \cup {NULL} /\ size' \in Nat
    <3>1. size \in Nat /\ 1 <= size
      BY DEF Types
    <3>2. \A i \in 1 .. size : q[i] \in Addr
      BY <2>1 DEF IsList
    <3>3. QED BY <2>2, <3>1, <3>2 DEF TakesOut, Types
  <2>4. QED
    BY <2>2, <2>3, ListAssumption DEF Types, TakesOut, walkVars
<1>6. ASSUME NEW s \in Socket, FreeNode(s) PROVE Types'
  BY <1>6, ListAssumption DEF Types, FreeNode, ThreadGoto
<1>7. QED
  BY <1>1, <1>2, <1>3, <1>4, <1>5, <1>6 DEF Next

LEMMA NodesOwnedStep ==
  ASSUME Types, NodesOwned, ListInv, Next PROVE NodesOwned'
<1>1. ASSUME UNCHANGED <<heap, live, pc, node>> PROVE NodesOwned'
  BY <1>1 DEF NodesOwned
<1>2. ASSUME NEW s \in Socket, Create(s) PROVE NodesOwned'
  <2>1. PICK a \in Addr \ live :
          /\ live' = live \cup {a}
          /\ heap' = [heap EXCEPT ![a] = [socket |-> s, next |-> NULL]]
          /\ node' = [node EXCEPT ![s] = a]
    BY <1>2 DEF Create
  <2>2. pc[s] = "new" /\ pc' = [pc EXCEPT ![s] = "link"]
    BY <1>2 DEF Create, ThreadGoto
  <2>3. heap'[a].socket = s /\ heap'[a].next = NULL /\ \A b \in live : heap'[b] = heap[b]
    BY <2>1 DEF Types
  <2>4. ASSUME NEW t \in Socket
        PROVE  /\ IF pc'[t] = "new" THEN node'[t] = NULL
                  ELSE node'[t] \in live' /\ heap'[node'[t]].socket = t
               /\ pc'[t] = "link" => heap'[node'[t]].next = NULL
    <3>1. CASE t = s
      BY <2>1, <2>2, <2>3, <3>1 DEF Types
    <3>2. CASE t # s
      <4>1. pc'[t] = pc[t] /\ node'[t] = node[t]
        BY <2>1, <2>2, <3>2 DEF Types
      <4>2. QED BY <2>1, <2>3, <4>1 DEF NodesOwned
    <3>3. QED BY <3>1, <3>2
  <2>5. ASSUME NEW b \in live' PROVE \E t \in Socket : pc'[t] # "new" /\ node'[t] = b
    BY <2>1, <2>2 DEF Types, NodesOwned
  <2>6. QED BY <2>4, <2>5 DEF NodesOwned
<1>3. ASSUME NEW s \in Socket, Link(s) PROVE NodesOwned'
  <2>1. PICK q : IsList(q)
    BY DEF ListInv
  <2>2. PutsBehind(s, q)
    BY <1>3, <2>1, InsertionPutsBehind
  <2>3. \A t \in Socket \ {s} : pc[t] # "link"
    BY <2>2 DEF Types, PutsBehind
  <2>4. QED
    BY <2>2, <2>3 DEF Types, NodesOwned, PutsBehind
<1>4. ASSUME NEW s \in Socket, UnlinkFirst(s) \/ UnlinkOther(s) PROVE NodesOwned'
  <2>1. PICK q : IsList(q)
    BY DEF ListInv
  <2>2. PICK k \in 1 .. size : TakesOut(s, q, k)
    BY <1>4, <2>1, DeletionTakesOut
  <2>3. \A t \in Socket : pc[t] # "link"
    BY <2>2, ListAssumption DEF Types, TakesOut
  <2>4. QED
    BY <2>2, <2>3 DEF Types, NodesOwned, TakesOut
<1>5. ASSUME NEW s \in Socket, FreeNode(s) PROVE NodesOwned'
  <2>1. \A t \in Socket \ {s} : pc[t] # "new" => node[t] # node[s]
    BY <1>5 DEF NodesOwned, FreeNode
  <2>2. QED
    BY <1>5, <2>1 DEF Types, NodesOwned, FreeNode, ThreadGoto
<1>6. QED
  BY <1>1, <1>2, <1>3, <1>4, <1>5
  DEF Next, CompareSocket, Advance, EndFind, StartFind, listVars

\* Behind depends on the list, the walk, and the node it stands on.
LEMMA BehindAfterDeletion ==
  ASSUME Types, NodesOwned, WalkInv, NEW q, IsList(q), Behind(q), NEW s \in Socket,
         NEW k \in 1 .. size, TakesOut(s, q, k), NEW r, r = Without(q, size, k)
  PROVE  Behind(r)'
<1>0. size \in Nat /\ size' = size - 1 /\ (\A i, j \in 1 .. size : q[i] = q[j] => i = j)
  BY DEF Types, IsList, TakesOut
<1>1. \A i \in 1 .. size - 1 : r[i] = IF i < k THEN q[i] ELSE q[i + 1]
  BY DEF Without
<1>2. SUFFICES ASSUME Walking, ~pulled
               PROVE  \E j \in 1 .. size - 1 :
                        /\ \E t \in j .. size - 1 : r[t] = node[target]
                        /\ \/ q_node = r[j]
                           \/ pc'[s] = "free" /\ q_node = node[s] /\ heap'[q_node].next = r[j]
  BY <1>0 DEF Behind, Walking, TakesOut, walkVars
<1>3. \A t \in Socket : pc[t] # "free"
  BY ListAssumption DEF Types, TakesOut
<1>4. PICK j \in 1 .. size : q_node = q[j] /\ \E t \in j .. size : q[t] = node[target]
  BY <1>2, <1>3 DEF Behind
<1>5. PICK t \in j .. size : q[t] = node[target]
  BY <1>4
<1>6. target \in Socket /\ pc[target] = "serve" /\ target # s /\ q[k] = node[s]
  BY <1>2 DEF WalkInv, Walking, TakesOut
<1>7. node[target] # node[s]
  BY <1>6 DEF NodesOwned, TakesOut
<1>8. t # k /\ t \in 1 .. size /\ t \in Nat /\ j \in Nat /\ j <= t
  BY <1>0, <1>5, <1>6, <1>7
<1>9. CASE j < k
  <2>1. j \in 1 .. size - 1 /\ r[j] = q[j]
    BY <1>0, <1>1, <1>9
  <2>2. \E u \in j .. size - 1 : r[u] = q[t]
    <3>1. CASE t < k
      BY <1>0, <1>1, <1>8, <3>1
    <3>2. CASE t > k
      <4>1. t - 1 \in j .. size - 1 /\ t - 1 \in 1 .. size - 1 /\ ~(t - 1 < k) /\ t - 1 + 1 = t
        BY <1>0, <1>8, <1>9, <3>2
      <4>2. QED BY <1>1, <4>1
    <3>3. QED BY <1>8, <3>1, <3>2
  <2>3. QED BY <1>4, <1>5, <2>1, <2>2
<1>10. CASE j > k
  <2>1. /\ j - 1 \in 1 .. size - 1 /\ ~(j - 1 < k) /\ j - 1 + 1 = j
        /\ t - 1 \in j - 1 .. size - 1 /\ t - 1 \in 1 .. size - 1 /\ ~(t - 1 < k) /\ t - 1 + 1 = t
    BY <1>0, <1>8, <1>10
  <2>2. r[j - 1] = q[j] /\ r[t - 1] = q[t]
    BY <1>1, <2>1
  <2>3. QED BY <1>4, <1>5, <2>1, <2>2
<1>11. CASE j = k
  <2>1. /\ k \in 1 .. size - 1 /\ k # size
        /\ t - 1 \in k .. size - 1 /\ t - 1 \in 1 .. size - 1 /\ ~(t - 1 < k) /\ t - 1 + 1 = t
    BY <1>0, <1>8, <1>11
  <2>2. r[k] = q[k + 1] /\ r[t - 1] = q[t]
    BY <1>1, <2>1
  <2>3. q_node = node[s] /\ pc'[s] = "free"
    BY <1>4, <1>6, <1>11 DEF TakesOut, Types
  <2>4. heap'[q_node].next = q[k + 1]
    <3>1. heap[q[k]].next = q[k + 1] /\ q[k] \in Addr
      BY <2>1 DEF IsList
    <3>2. QED BY <1>4, <1>11, <3>1 DEF TakesOut
  <2>5. QED BY <1>5, <2>1, <2>2, <2>3, <2>4
<1>12. QED
  BY <1>8, <1>9, <1>10, <1>11

LEMMA ListStep ==
  ASSUME Types, NodesOwned, ListInv, WalkInv, Next PROVE ListInv'
<1> PICK q : IsList(q) /\ Behind(q)
  BY DEF ListInv
<1>0. /\ size \in Nat /\ (\A i, j \in 1 .. size : q[i] = q[j] => i = j)
      /\ (\A i \in 1 .. size : q[i] \in Addr /\ q[i] \in live)
      /\ (\A i \in 1 .. size : heap[q[i]].next = IF i = size THEN NULL ELSE q[i + 1])
  BY DEF Types, IsList, NodesOwned, Serving
<1>1. ASSUME UNCHANGED <<first, last, size, heap, pc, node>> PROVE IsList(q)'
  BY <1>1 DEF IsList, Serving
<1>2. ASSUME CompareSocket \/ EndFind PROVE ListInv'
  <2>1. IsList(q)'
    BY <1>1, <1>2 DEF CompareSocket, EndFind, listVars
  <2>2. Behind(q)'
    <3>1. CASE EndFind
      BY <3>1 DEF EndFind, Behind, Walking
    <3>2. CASE CompareSocket
      <4>1. Walking /\ UNCHANGED <<heap, size, pc, node, target, q_node, pulled>>
        BY <3>2 DEF CompareSocket, Walking, listVars
      <4>2. QED BY <4>1 DEF Behind
    <3>3. QED BY <1>2, <3>1, <3>2
  <2>3. QED BY <2>1, <2>2 DEF ListInv
<1>3. ASSUME Advance PROVE ListInv'
  <2>1. IsList(q)'
    BY <1>1, <1>3 DEF Advance, listVars
  <2>2. UNCHANGED <<heap, size, pc, node, target, pulled>> /\ Walking /\ wpc = "next"
    BY <1>3 DEF Advance, Walking, listVars
  <2>3. ASSUME ~pulled
        PROVE  \E j \in 1 .. size : q_node' = q[j] /\ \E t \in j .. size : q[t] = node[target]
    <3>1. PICK j \in 1 .. size :
            /\ \E t \in j .. size : q[t] = node[target]
            /\ \/ q_node = q[j]
               \/ \E s \in Socket : pc[s] = "free" /\ q_node = node[s] /\ heap[q_node].next = q[j]
      BY <2>2, <2>3 DEF Behind
    <3>2. PICK t \in j .. size : q[t] = node[target]
      BY <3>1
    <3>3. CASE q_node = q[j]
      <4>1. q_node # node[target]
        BY <2>2, <2>3 DEF WalkInv
      <4>2. j # t
        BY <3>2, <3>3, <4>1
      <4>3. j + 1 \in 1 .. size /\ j # size /\ t \in j + 1 .. size
        BY <1>0, <3>2, <4>2
      <4>4. q_node' = q[j + 1]
        BY <1>0, <1>3, <3>1, <3>3, <4>3 DEF Advance
      <4>5. QED BY <3>2, <4>3, <4>4
    <3>4. CASE \E s \in Socket : pc[s] = "free" /\ q_node = node[s] /\ heap[q_node].next = q[j]
      <4>1. q_node \in live
        BY <3>4 DEF NodesOwned
      <4>2. q_node' = q[j]
        BY <1>3, <3>4, <4>1 DEF Advance
      <4>3. QED BY <3>1, <4>2
    <3>5. QED BY <3>1, <3>3, <3>4
  <2>4. Behind(q)'
    BY <2>2, <2>3 DEF Behind
  <2>5. QED BY <2>1, <2>4 DEF ListInv
<1>4. ASSUME NEW s \in Socket, StartFind(s) PROVE ListInv'
  <2>1. IsList(q)'
    BY <1>1, <1>4 DEF StartFind, listVars
  <2>2. pc[s] = "serve" /\ target' = s /\ q_node' = first /\ UNCHANGED <<size, node>>
    BY <1>4 DEF StartFind, listVars
  <2>3. PICK t \in 1 .. size : q[t] = node[s]
    BY <2>2 DEF IsList, Serving
  <2>4. 1 \in 1 .. size /\ first = q[1]
    BY <1>0, <2>3 DEF IsList
  <2>5. Behind(q)'
    BY <2>2, <2>3, <2>4 DEF Behind
  <2>6. QED BY <2>1, <2>5 DEF ListInv
<1>5. ASSUME NEW s \in Socket, Create(s) PROVE ListInv'
  <2>1. PICK a \in Addr \ live :
          /\ heap' = [heap EXCEPT ![a] = [socket |-> s, next |-> NULL]]
          /\ node' = [node EXCEPT ![s] = a]
    BY <1>5 DEF Create
  <2>2. pc[s] = "new" /\ pc' = [pc EXCEPT ![s] = "link"] /\ mutex_socket_queue = None
        /\ UNCHANGED <<first, last, size, walkVars>>
    BY <1>5 DEF Create, ThreadGoto
  <2>3. Serving' = Serving /\ s \notin Serving
    BY <2>2 DEF Serving, Types
  <2>4. \A i \in 1 .. size : heap'[q[i]].next = heap[q[i]].next
    BY <1>0, <2>1 DEF Types
  <2>5. \A t \in Socket : t # s => node'[t] = node[t]
    BY <2>1 DEF Types
  <2>6. IsList(q)'
    BY <2>2, <2>3, <2>4, <2>5, ListKept DEF Serving
  <2>7. Behind(q)'
    <3>1. \A t \in Socket : pc[t] # "free"
      BY <2>2, ListAssumption DEF Types
    <3>2. Walking => target \in Socket /\ target # s
      BY <2>2 DEF WalkInv, Walking
    <3>3. QED BY <2>2, <2>5, <3>1, <3>2 DEF Behind, Walking, walkVars
  <2>8. QED BY <2>6, <2>7 DEF ListInv
<1>6. ASSUME NEW s \in Socket, Link(s) PROVE ListInv'
  <2>1. PutsBehind(s, q)
    BY <1>6, InsertionPutsBehind
  <2>2. PICK r : r = With(q, size, node[s])
    OBVIOUS
  <2>3. IsList(r)'
    BY <2>1, <2>2, ListAfterInsertion
  <2>4. Behind(r)'
    <3>1. \A t \in Socket : pc[t] # "free"
      BY <2>1 DEF Types, PutsBehind
    <3>2. \A i \in 1 .. size : r[i] = q[i]
      BY <1>0, <2>2 DEF With
    <3>3. size' = size + 1 /\ UNCHANGED <<node, walkVars>>
      BY <2>1 DEF PutsBehind
    <3>4. ASSUME Walking, ~pulled
          PROVE  \E j \in 1 .. size + 1 : r[j] = q_node /\ \E t \in j .. size + 1 : r[t] = node[target]
      <4>1. PICK j \in 1 .. size : q[j] = q_node /\ \E t \in j .. size : q[t] = node[target]
        BY <3>1, <3>4 DEF Behind
      <4>2. PICK t \in j .. size : q[t] = node[target]
        BY <4>1
      <4>3. t \in 1 .. size /\ t \in j .. size + 1 /\ j \in 1 .. size + 1
        BY <1>0, <4>2
      <4>4. QED BY <3>2, <4>1, <4>2, <4>3
    <3>5. QED BY <3>3, <3>4 DEF Behind, Walking, walkVars
  <2>5. QED BY <2>3, <2>4 DEF ListInv
<1>7. ASSUME NEW s \in Socket, UnlinkFirst(s) \/ UnlinkOther(s) PROVE ListInv'
  <2>1. PICK k \in 1 .. size : TakesOut(s, q, k)
    BY <1>7, DeletionTakesOut
  <2>2. PICK r : r = Without(q, size, k)
    OBVIOUS
  <2>3. IsList(r)' /\ Behind(r)'
    BY <2>1, <2>2, ListAfterDeletion, BehindAfterDeletion
  <2>4. QED BY <2>3 DEF ListInv
<1>8. ASSUME NEW s \in Socket, FreeNode(s) PROVE ListInv'
  <2>1. pc[s] = "free" /\ pc' = [pc EXCEPT ![s] = "new"] /\ node' = [node EXCEPT ![s] = NULL]
        /\ pulled' = (pulled \/ (Walking /\ q_node = node[s]))
        /\ UNCHANGED <<first, last, size, heap, wpc, target, q_node>>
    BY <1>8 DEF FreeNode, ThreadGoto
  <2>2. Serving' = Serving /\ s \notin Serving /\ \A t \in Socket : t # s => node'[t] = node[t]
    BY <2>1 DEF Serving, Types
  <2>3. IsList(q)'
    BY <2>1, <2>2, ListKept DEF Serving
  <2>4. Behind(q)'
    <3>1. \A t \in Socket : pc[t] = "free" => t = s
      BY <2>1 DEF Types
    <3>2. Walking => target \in Socket /\ target # s
      BY <2>1 DEF WalkInv, Walking
    <3>3. QED BY <2>1, <2>2, <3>1, <3>2 DEF Behind, Walking
  <2>5. QED BY <2>3, <2>4 DEF ListInv
<1>9. QED
  BY <1>2, <1>3, <1>4, <1>5, <1>6, <1>7, <1>8 DEF Next

\* The walk that is not disturbed stands on a node that is not freed.
LEMMA StandsOnNode ==
  ASSUME Types, NodesOwned, ListInv, Walking, ~pulled
  PROVE  q_node \in live
<1>1. PICK q : IsList(q) /\ Behind(q)
  BY DEF ListInv
<1>2. PICK j \in 1 .. size :
        q_node = q[j] \/ \E s \in Socket : pc[s] = "free" /\ q_node = node[s]
  BY <1>1 DEF Behind
<1>3. q[j] \in live
  BY <1>1 DEF IsList, Serving, NodesOwned
<1>4. QED
  BY <1>2, <1>3 DEF NodesOwned

LEMMA WalkStep ==
  ASSUME Types, NodesOwned, ListInv, WalkInv, Next PROVE WalkInv'
<1>1. ASSUME CompareSocket PROVE WalkInv'
  <2>1. /\ wpc = "test" /\ wpc' # "idle" /\ Walking
        /\ UNCHANGED <<heap, pc, node, target, q_node, pulled>>
    BY <1>1 DEF CompareSocket, Walking, listVars
  <2>2. target \in Socket /\ pc[target] = "serve" /\ heap[node[target]].socket = target
    BY <2>1 DEF WalkInv, NodesOwned
  <2>3. wpc' = "found" => q_node # NULL
    BY <1>1, ListAssumption DEF CompareSocket, Types
  <2>4. ASSUME ~pulled
        PROVE  /\ wpc' = "next" => q_node # node[target]
               /\ wpc' = "found" => q_node = node[target]
    <3>1. q_node \in live
      BY <2>1, <2>4, StandsOnNode
    <3>2. wpc' = IF heap[q_node].socket = target THEN "found" ELSE "next"
      BY <1>1, <3>1, ListAssumption DEF CompareSocket, Types
    <3>3. PICK s \in Socket : pc[s] # "new" /\ node[s] = q_node /\ heap[q_node].socket = s
      BY <3>1 DEF NodesOwned
    <3>4. QED BY <2>2, <3>2, <3>3
  <2>5. QED BY <2>1, <2>2, <2>3, <2>4 DEF WalkInv
<1>2. ASSUME Advance PROVE WalkInv'
  BY <1>2 DEF Advance, WalkInv, listVars
<1>3. ASSUME EndFind PROVE WalkInv'
  BY <1>3 DEF EndFind, WalkInv
<1>4. ASSUME NEW s \in Socket, StartFind(s) PROVE WalkInv'
  BY <1>4 DEF StartFind, WalkInv, listVars
<1>5. ASSUME NEW s \in Socket, wpc # "idle" => s # target,
             UNCHANGED <<wpc, target, q_node>>, pulled => pulled',
             \A t \in Socket : t # s => pc'[t] = pc[t] /\ node'[t] = node[t]
      PROVE  WalkInv'
  BY <1>5 DEF WalkInv
<1>6. ASSUME NEW s \in Socket, Create(s) PROVE WalkInv'
  <2>1. wpc # "idle" => s # target
    BY <1>6 DEF WalkInv, Create
  <2>2. \A t \in Socket : t # s => pc'[t] = pc[t] /\ node'[t] = node[t]
    BY <1>6 DEF Types, Create, ThreadGoto
  <2>3. UNCHANGED walkVars
    BY <1>6 DEF Create
  <2>4. QED BY <1>5, <2>1, <2>2, <2>3 DEF walkVars
<1>7. ASSUME NEW s \in Socket, Link(s) PROVE WalkInv'
  <2>1. wpc # "idle" => s # target
    BY <1>7 DEF WalkInv, Link
  <2>2. \A t \in Socket : t # s => pc'[t] = pc[t] /\ node'[t] = node[t]
    BY <1>7 DEF Types, Link, ThreadGoto
  <2>3. UNCHANGED walkVars
    BY <1>7 DEF Link
  <2>4. QED BY <1>5, <2>1, <2>2, <2>3 DEF walkVars
<1>8. ASSUME NEW s \in Socket, UnlinkFirst(s) \/ UnlinkOther(s) PROVE WalkInv'
  <2>1. wpc # "idle" => s # target
    BY <1>8 DEF UnlinkFirst, UnlinkOther, LocksToDelete
  <2>2. \A t \in Socket : t # s => pc'[t] = pc[t] /\ node'[t] = node[t]
    BY <1>8 DEF Types, UnlinkFirst, UnlinkOther, ThreadGoto
  <2>3. UNCHANGED walkVars
    BY <1>8 DEF UnlinkFirst, UnlinkOther
  <2>4. QED BY <1>5, <2>1, <2>2, <2>3 DEF walkVars
<1>9. ASSUME NEW s \in Socket, FreeNode(s) PROVE WalkInv'
  <2>1. wpc # "idle" => s # target
    BY <1>9 DEF FreeNode, WalkInv
  <2>2. \A t \in Socket : t # s => pc'[t] = pc[t] /\ node'[t] = node[t]
    BY <1>9 DEF Types, FreeNode, ThreadGoto
  <2>3. UNCHANGED <<wpc, target, q_node>> /\ (pulled => pulled')
    BY <1>9 DEF FreeNode
  <2>4. QED BY <1>5, <2>1, <2>2, <2>3
<1>10. QED
  BY <1>1, <1>2, <1>3, <1>4, <1>6, <1>7, <1>8, <1>9 DEF Next

\* Only a comparison loses the walk, and it then stands on no node.
LEMMA LostStep ==
  ASSUME Types, NodesOwned, ListInv, WalkInv, LostOnlyWhenPulled, Next PROVE LostOnlyWhenPulled'
<1>1. CASE CompareSocket
  <2>1. SUFFICES ASSUME wpc' = "lost", ~pulled PROVE FALSE
    BY <1>1 DEF LostOnlyWhenPulled, CompareSocket
  <2>2. Walking /\ q_node \notin live
    BY <1>1, <2>1, ListAssumption DEF CompareSocket, Walking, Types
  <2>3. QED BY <2>1, <2>2, StandsOnNode
<1>2. CASE ~CompareSocket
  <2>1. wpc' = "lost" => wpc = "lost"
    BY <1>2 DEF Next, Advance, EndFind, StartFind, Create, Link, UnlinkFirst, UnlinkOther,
         FreeNode, walkVars
  <2>2. wpc = "lost" /\ pulled => pulled'
    BY <1>2 DEF Next, Advance, EndFind, StartFind, Create, Link, UnlinkFirst, UnlinkOther,
         FreeNode, walkVars
  <2>3. QED BY <2>1, <2>2 DEF LostOnlyWhenPulled
<1>3. QED BY <1>1, <1>2

\* The list is in order and the walk on its way, whoever inserts, deletes and
\* reuses memory and descriptors (Queue.c:101-206, Server.c:428).
THEOREM Invariance == Spec => []SocketMutexesInv
<1>1. Init => SocketMutexesInv
  BY InvInit
<1>2. SocketMutexesInv /\ [Next]_vars => SocketMutexesInv'
  <2>1. CASE Next
    BY <2>1, TypesStep, NodesOwnedStep, ListStep, WalkStep, LostStep DEF SocketMutexesInv
  <2>2. CASE UNCHANGED vars
    <3>1. SUFFICES ASSUME SocketMutexesInv PROVE SocketMutexesInv'
      OBVIOUS
    <3>2. UNCHANGED <<first, last, size, heap, live, mutex_socket_queue, pc, node,
                      wpc, target, q_node, pulled>>
      BY <2>2 DEF vars, listVars, walkVars
    <3>3. Types' /\ NodesOwned'
      BY <3>1, <3>2 DEF SocketMutexesInv, Types, NodesOwned
    <3>4. ListInv'
      <4>1. PICK q : IsList(q) /\ Behind(q)
        BY <3>1 DEF SocketMutexesInv, ListInv
      <4>2. IsList(q)'
        BY <3>2, <4>1 DEF IsList, Serving
      <4>3. Behind(q)'
        BY <3>2, <4>1 DEF Behind, Walking
      <4>4. QED BY <4>2, <4>3 DEF ListInv
    <3>5. WalkInv'
      BY <3>1, <3>2 DEF SocketMutexesInv, WalkInv
    <3>6. LostOnlyWhenPulled'
      BY <3>1, <3>2 DEF SocketMutexesInv, LostOnlyWhenPulled
    <3>7. QED BY <3>3, <3>4, <3>5, <3>6 DEF SocketMutexesInv
  <2>3. QED BY <2>1, <2>2
<1>3. QED
  BY <1>1, <1>2, PTL DEF Spec

\* Types, and one thread at most inside mutex_socket_queue (Server.c:29, 82).
THEOREM TypeCorrect == Spec => []TypeOK
<1>1. SocketMutexesInv => TypeOK
  <2>1. SUFFICES ASSUME SocketMutexesInv PROVE TypeOK
    OBVIOUS
  <2>2. PICK q : IsList(q)
    BY <2>1 DEF SocketMutexesInv, ListInv
  <2>3. size \in 0 .. Cardinality(Socket)
    BY <2>1, <2>2, ListFits DEF SocketMutexesInv, Types
  <2>4. QED BY <2>1, <2>3 DEF SocketMutexesInv, Types, TypeOK
<1>2. QED
  BY <1>1, Invariance, PTL

\* The list between two critical sections (Queue.c:131-206).
THEOREM ListStaysIntact == Spec => []ListIntact
<1>1. SocketMutexesInv => ListIntact
  <2>1. SUFFICES ASSUME SocketMutexesInv PROVE ListIntact
    OBVIOUS
  <2>2. PICK q : IsList(q)
    BY <2>1 DEF SocketMutexesInv, ListInv
  <2> USE <2>1, <2>2 DEF SocketMutexesInv
  <2>3. OnList = InList(q)
    BY OnListOfList
  <2>4. OnList = {node[s] : s \in {t \in Socket : pc[t] = "serve"}}
    <3>1. \A a \in OnList : \E s \in Serving : node[s] = a
      BY <2>3 DEF InList, IsList
    <3>2. \A s \in Serving : node[s] \in OnList
      BY <2>3 DEF InList, IsList
    <3>3. QED BY <3>1, <3>2 DEF Serving
  <2>5. OnList \subseteq live
    BY <2>4 DEF NodesOwned
  <2>6. size = Cardinality(OnList)
    <3>1. IsFiniteSet(1 .. size) /\ Cardinality(1 .. size) = size
      BY FS_Interval DEF Types
    <3>2. q \in Bijection(1 .. size, OnList)
      <4>1. q \in [1 .. size -> OnList]
        BY <2>3 DEF IsList, InList
      <4>2. IsInjective(q)
        BY DEF IsList, IsInjective
      <4>3. \A a \in OnList : \E i \in 1 .. size : q[i] = a
        BY <2>3 DEF InList
      <4>4. QED BY <4>1, <4>2, <4>3 DEF Bijection, Injection, Surjection
    <3>3. ExistsBijection(1 .. size, OnList)
      BY <3>2 DEF ExistsBijection
    <3>4. QED BY <3>1, <3>3, FS_Bijection
  <2>7. IF size = 0 THEN last = NULL ELSE last = Nth[size - 1] /\ heap[last].next = NULL
    <3>1. CASE size = 0
      BY <3>1 DEF IsList
    <3>2. CASE size # 0
      <4>1. size - 1 \in 0 .. Cardinality(Addr) /\ size - 1 < size /\ size - 1 + 1 = size /\ size \in 1 .. size
        BY <3>2, ListFits DEF Types
      <4>2. Nth[size - 1] = q[size]
        BY <4>1, NthOfList
      <4>3. QED BY <3>2, <4>1, <4>2 DEF IsList
    <3>3. QED BY <3>1, <3>2
  <2>8. QED BY <2>4, <2>5, <2>6, <2>7 DEF ListIntact
<1>2. QED
  BY <1>1, Invariance, PTL

\* A search is lost only when its node is freed under it (Server.c:82, 428).
THEOREM WalksLostOnlyWhenPulled == Spec => []LostOnlyWhenPulled
BY Invariance, PTL DEF SocketMutexesInv

\* A search under which no node is freed reads allocated memory only, and the
\* node it returns is the one of its socket (Server.c:428-429).
THEOREM WalksFindTheirNode == Spec => []FindsItsNode
<1>1. SocketMutexesInv => FindsItsNode
  <2>1. SUFFICES ASSUME SocketMutexesInv, ~pulled PROVE FindsItsNode
    BY DEF FindsItsNode
  <2>2. wpc \in {"test", "next"} => q_node \in live
    BY <2>1, StandsOnNode DEF SocketMutexesInv, Walking
  <2>3. wpc = "found" => q_node = node[target] /\ q_node \in live
    BY <2>1 DEF SocketMutexesInv, WalkInv, NodesOwned
  <2>4. QED BY <2>2, <2>3 DEF FindsItsNode
<1>2. QED
  BY <1>1, Invariance, PTL

-----------------------------------------------------------------------------
(* The list implements the map.                                             *)

\* The refinement mapping; Mapped says that the list is the nodes in service.
Members == [s \in Socket |-> IF node[s] \in OnList THEN node[s] ELSE NULL]
Removed == {node[s] : s \in {t \in Socket : pc[t] = "free"}}
Found   == IF wpc = "found" THEN q_node ELSE NULL
Mapped  == \A s \in Socket : Members[s] = IF pc[s] = "serve" THEN node[s] ELSE NULL

LEMMA MembersServe == ASSUME SocketMutexesInv PROVE Mapped
<1> PICK q : IsList(q)
  BY DEF SocketMutexesInv, ListInv
<1> USE DEF SocketMutexesInv
<1>0. OnList = InList(q)
  BY OnListOfList
<1>1. \A a \in OnList : \E s \in Serving : node[s] = a
  BY <1>0 DEF InList, IsList
<1>2. \A s \in Serving : node[s] \in OnList
  BY <1>0 DEF InList, IsList
<1>3. \A s, t \in Socket : pc[s] = "serve" /\ node[s] = node[t] => s = t
  BY ListAssumption DEF NodesOwned, Types
<1>4. QED
  BY <1>1, <1>2, <1>3 DEF Mapped, Members, Serving

\* What holds of the nodes of two threads, and of a thread that deletes.
LEMMA OwnNodes ==
  ASSUME SocketMutexesInv
  PROVE  /\ \A s \in Socket : pc[s] # "new" => node[s] \in Addr /\ node[s] # NULL
         /\ \A s, t \in Socket : pc[s] # "new" /\ pc[t] # "new" /\ node[s] = node[t] => s = t
         /\ \A s, t \in Socket : pc[s] \in {"link", "free"} /\ pc[t] = "free" => s = t
         /\ mutex_socket_queue = None => Removed = {}
<1> USE DEF SocketMutexesInv
<1>1. \A s \in Socket : pc[s] # "new" => node[s] \in Addr /\ node[s] # NULL
  BY ListAssumption DEF NodesOwned, Types
<1>2. \A s, t \in Socket : pc[s] # "new" /\ pc[t] # "new" /\ node[s] = node[t] => s = t
  BY DEF NodesOwned
<1>3. \A s, t \in Socket : pc[s] \in {"link", "free"} /\ pc[t] = "free" => s = t
  BY DEF Types
<1>4. mutex_socket_queue = None => Removed = {}
  BY ListAssumption DEF Types, Removed
<1>5. QED BY <1>1, <1>2, <1>3, <1>4

\* Insertion and deletion are one step of the map each.
LEMMA LinkInserts ==
  ASSUME SocketMutexesInv, Mapped, Mapped', NEW s \in Socket, Link(s)
  PROVE  Set!Insert(s)
<1>1. pc[s] = "link" /\ pc' = [pc EXCEPT ![s] = "serve"] /\ pc \in [Socket -> {"new", "link", "serve", "free"}]
      /\ UNCHANGED <<node, wpc, target, q_node, pulled>>
  BY DEF Link, ThreadGoto, walkVars, SocketMutexesInv, Types
<1>2. Removed = {} /\ Removed' = {}
  <2>1. \A t \in Socket : pc[t] # "free" /\ pc'[t] # "free"
    BY <1>1, OwnNodes
  <2>2. QED BY <2>1 DEF Removed
<1>3. Members[s] = NULL /\ node[s] \in Addr
  BY <1>1, OwnNodes DEF Mapped
<1>4. \A t \in Socket : Members[t] # node[s]
  BY <1>1, OwnNodes DEF Mapped
<1>5. Members' = [Members EXCEPT ![s] = node[s]]
  <2>1. \A t \in Socket : Members'[t] = IF t = s THEN node[s] ELSE Members[t]
    BY <1>1 DEF Mapped
  <2>2. QED BY <2>1 DEF Members
<1>6. UNCHANGED <<Removed, target, pulled, Found>>
  BY <1>1, <1>2 DEF Found
<1>7. node[s] \in Addr \ ({Members[t] : t \in Socket} \cup Removed)
  BY <1>2, <1>3, <1>4
<1>8. QED
  BY <1>3, <1>5, <1>6, <1>7 DEF Set!Insert, Set!search, Members, Removed, Found

LEMMA UnlinkDeletes ==
  ASSUME SocketMutexesInv, Mapped, Mapped', NEW s \in Socket, UnlinkFirst(s) \/ UnlinkOther(s)
  PROVE  Set!Delete(s)
<1>1. /\ pc[s] = "serve" /\ pc' = [pc EXCEPT ![s] = "free"] /\ mutex_socket_queue = None
      /\ pc \in [Socket -> {"new", "link", "serve", "free"}]
      /\ (wpc # "idle" => target # s) /\ UNCHANGED <<node, wpc, target, q_node, pulled>>
  BY DEF UnlinkFirst, UnlinkOther, LocksToDelete, ThreadGoto, walkVars, SocketMutexesInv, Types
<1>2. Members[s] # NULL /\ Members[s] = node[s]
  BY <1>1, OwnNodes DEF Mapped
<1>3. s # target
  BY <1>1, ListAssumption DEF SocketMutexesInv, WalkInv
<1>4. Members' = [Members EXCEPT ![s] = NULL]
  <2>1. \A t \in Socket : Members'[t] = IF t = s THEN NULL ELSE Members[t]
    BY <1>1 DEF Mapped
  <2>2. QED BY <2>1 DEF Members
<1>5. Removed' = Removed \cup {Members[s]}
  <2>1. Removed = {} /\ \A t \in Socket : pc[t] # "free"
    BY <1>1, OwnNodes, ListAssumption DEF SocketMutexesInv, Types
  <2>2. Removed' = {node[s]}
    BY <1>1, <2>1 DEF Removed
  <2>3. QED BY <1>2, <2>1, <2>2
<1>6. UNCHANGED <<target, pulled, Found>>
  BY <1>1 DEF Found
<1>7. QED
  BY <1>2, <1>3, <1>4, <1>5, <1>6 DEF Set!Delete, Set!search, Members, Removed, Found

LEMMA FreeFrees ==
  ASSUME SocketMutexesInv, Mapped, Mapped', NEW s \in Socket, FreeNode(s)
  PROVE  \E a \in Addr : Set!Free(a)
<1>1. /\ pc[s] = "free" /\ pc' = [pc EXCEPT ![s] = "new"] /\ node' = [node EXCEPT ![s] = NULL]
      /\ pulled' = (pulled \/ (Walking /\ q_node = node[s]))
      /\ pc \in [Socket -> {"new", "link", "serve", "free"}] /\ pulled \in BOOLEAN
      /\ node \in [Socket -> Addr \cup {NULL}]
      /\ UNCHANGED <<wpc, target, q_node>>
  BY DEF FreeNode, ThreadGoto, SocketMutexesInv, Types
<1>2. node[s] \in Addr /\ \A t \in Socket : pc[t] = "free" => t = s
  BY <1>1, OwnNodes
<1>3. Removed = {node[s]} /\ Removed' = {}
  BY <1>1, <1>2 DEF Removed
<1>4. Members' = Members
  <2>1. \A t \in Socket : Members'[t] = Members[t]
    BY <1>1 DEF Mapped
  <2>2. QED BY <2>1 DEF Members
<1>5. UNCHANGED <<target, Found>>
  BY <1>1 DEF Found
<1>6. pulled' = pulled \/ (target # None /\ Found = NULL /\ pulled' = TRUE)
  <2>1. Walking => target # None /\ Found = NULL
    BY ListAssumption DEF Walking, SocketMutexesInv, WalkInv, Found
  <2>2. CASE Walking /\ q_node = node[s]
    BY <1>1, <2>1, <2>2
  <2>3. CASE ~(Walking /\ q_node = node[s])
    BY <1>1, <2>3
  <2>4. QED BY <2>2, <2>3
<1>7. node[s] \in Removed /\ Removed' = Removed \ {node[s]}
  BY <1>3
<1>8. PICK a \in Addr : a = node[s]
  BY <1>2
<1>9. a \in Removed /\ Removed' = Removed \ {a}
  BY <1>7, <1>8
<1>10. Set!Free(a)
  BY <1>4, <1>5, <1>6, <1>9 DEF Set!Free, Members, Removed, Found
<1>11. QED BY <1>10

\* The steps of a search: it starts, it returns, and in between it is not seen.
LEMMA WalkAsks ==
  ASSUME SocketMutexesInv, Mapped, Mapped', NEW s \in Socket, StartFind(s)
  PROVE  Set!Ask(s)
<1>1. wpc = "idle" /\ wpc' = "test" /\ target' = s /\ pc[s] = "serve" /\ UNCHANGED <<pc, node, pulled>>
  BY DEF StartFind, listVars
<1>2. target = None /\ Members[s] # NULL
  BY <1>1, OwnNodes DEF SocketMutexesInv, WalkInv, Mapped
<1>3. UNCHANGED <<Members, Removed, pulled, Found>>
  BY <1>1 DEF StartFind, Members, OnList, Nth, listVars, Removed, Found
<1>4. QED
  BY <1>1, <1>2, <1>3 DEF Set!Ask, Members, Removed, Found

LEMMA WalkFinds ==
  ASSUME SocketMutexesInv, SocketMutexesInv', Mapped, CompareSocket
  PROVE  Set!Find \/ UNCHANGED <<Members, Removed, target, pulled, Found>>
<1>1. wpc = "test" /\ UNCHANGED <<listVars, pc, node, target, q_node, pulled>>
  BY DEF CompareSocket
<1>2. UNCHANGED <<Members, Removed, target, pulled>>
  BY <1>1 DEF Members, OnList, Nth, listVars, Removed
<1>3. CASE wpc' # "found"
  BY <1>1, <1>2, <1>3 DEF Found
<1>4. CASE wpc' = "found"
  <2>1. target \in Socket /\ pc[target] = "serve" /\ target # None
    BY <1>1, ListAssumption DEF SocketMutexesInv, WalkInv
  <2>2. Found = NULL /\ Found' = q_node /\ Found' # NULL
    BY <1>1, <1>4 DEF Found, SocketMutexesInv, WalkInv
  <2>3. ~pulled => Found' = Members[target]
    BY <1>1, <1>4, <2>1, <2>2 DEF SocketMutexesInv, WalkInv, Mapped
  <2>4. Set!Find
    BY <1>2, <2>1, <2>2, <2>3 DEF Set!Find, Members, Removed, Found
  <2>5. QED BY <2>4
<1>5. QED BY <1>3, <1>4

LEMMA StepsOfTheSet ==
  ASSUME SocketMutexesInv, SocketMutexesInv', Mapped, Mapped', [Next]_vars
  PROVE  Set!Next \/ UNCHANGED <<Members, Removed, target, pulled, Found>>
<1>1. CASE CompareSocket
  BY <1>1, WalkFinds DEF Set!Next
<1>2. CASE Advance
  BY <1>2 DEF Advance, Members, OnList, Nth, listVars, Removed, Found
<1>3. CASE EndFind
  <2>1. UNCHANGED <<Members, Removed>> /\ Found' = NULL /\ target' = None /\ pulled' = FALSE
    BY <1>3 DEF EndFind, Members, OnList, Nth, listVars, Removed, Found
  <2>2. Found # NULL
    BY <1>3 DEF EndFind, Found, SocketMutexesInv, WalkInv
  <2>3. Set!Release
    BY <2>1, <2>2 DEF Set!Release, Members, Removed, Found
  <2>4. QED BY <2>3 DEF Set!Next
<1>4. ASSUME NEW s \in Socket, StartFind(s) PROVE Set!Next
  BY <1>4, WalkAsks DEF Set!Next
<1>5. ASSUME NEW s \in Socket, Create(s)
      PROVE  UNCHANGED <<Members, Removed, target, pulled, Found>>
  <2>1. /\ pc[s] = "new" /\ pc' = [pc EXCEPT ![s] = "link"] /\ mutex_socket_queue = None
        /\ \E a \in Addr : node' = [node EXCEPT ![s] = a]
        /\ pc \in [Socket -> {"new", "link", "serve", "free"}]
        /\ node \in [Socket -> Addr \cup {NULL}]
        /\ UNCHANGED <<wpc, target, q_node, pulled>>
    BY <1>5 DEF Create, ThreadGoto, walkVars, SocketMutexesInv, Types
  <2>2. Members' = Members
    <3>1. \A t \in Socket : Members'[t] = Members[t]
      BY <2>1 DEF Mapped
    <3>2. QED BY <3>1 DEF Members
  <2>3. \A t \in Socket : pc[t] # "free" /\ pc'[t] # "free"
    BY <2>1, ListAssumption DEF SocketMutexesInv, Types
  <2>4. QED BY <2>1, <2>2, <2>3 DEF Removed, Found
<1>6. ASSUME NEW s \in Socket, Link(s) PROVE Set!Next
  BY <1>6, LinkInserts DEF Set!Next
<1>7. ASSUME NEW s \in Socket, UnlinkFirst(s) \/ UnlinkOther(s) PROVE Set!Next
  BY <1>7, UnlinkDeletes DEF Set!Next
<1>8. ASSUME NEW s \in Socket, FreeNode(s) PROVE Set!Next
  BY <1>8, FreeFrees DEF Set!Next
<1>9. CASE UNCHANGED vars
  BY <1>9 DEF vars, listVars, walkVars, Members, OnList, Nth, Removed, Found
<1>10. QED
  BY <1>1, <1>2, <1>3, <1>4, <1>5, <1>6, <1>7, <1>8, <1>9 DEF Next

\* As long as no node is freed under a walk, the list with its unlocked walks
\* is the map its users take it for (Server.c:29-35, 82-84, 428).
THEOREM ListImplementsSet == Spec => ImplementsSet
<1>1. Init => Set!Init
  <2>1. SUFFICES ASSUME Init PROVE Set!Init
    OBVIOUS
  <2>2. \A s \in Socket : node[s] = NULL /\ pc[s] = "new"
    BY <2>1 DEF Init
  <2>3. Members = [s \in Socket |-> NULL] /\ Removed = {}
    BY <2>2 DEF Members, Removed
  <2>4. target = None /\ pulled = FALSE /\ Found = NULL
    BY <2>1 DEF Init, Found
  <2>5. QED
    BY <2>3, <2>4 DEF Set!Init, Members, Removed, Found
<1>2. Mapped /\ Mapped' /\ SocketMutexesInv /\ SocketMutexesInv' /\ [Next]_vars
        => [Set!Next]_<<Members, Removed, Set!search>>
  <2>1. SUFFICES ASSUME Mapped, Mapped', SocketMutexesInv, SocketMutexesInv', [Next]_vars
                 PROVE  [Set!Next]_<<Members, Removed, Set!search>>
    OBVIOUS
  <2>2. Set!Next \/ UNCHANGED <<Members, Removed, target, pulled, Found>>
    BY <2>1, StepsOfTheSet
  <2>3. QED
    BY <2>2 DEF Set!search, Found
<1>3. Spec => []Mapped
  <2>1. SocketMutexesInv => Mapped
    BY MembersServe
  <2>2. QED
    BY <2>1, Invariance, PTL
<1>4. QED
  BY <1>1, <1>2, <1>3, Invariance, PTL
  DEF Spec, ImplementsSet, Set!Spec, Members, Removed
=============================================================================
