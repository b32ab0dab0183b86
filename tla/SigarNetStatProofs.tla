------------------------- MODULE SigarNetStatProofs -------------------------
(***************************************************************************)
(* The cache of listening addresses, the search for the process of a port, *)
(* and what the walks count, for every set of sockets, processes and       *)
(* calls, and any number of changes while the tables are read.             *)
(***************************************************************************)
EXTENDS SigarNetStat, FiniteSetTheorems, TLAPS

USE ZenonT(60)

Addr == {"inet", "inet6"} \X Nat

\* What the walk relies on, whatever the call.
Base ==
  /\ info \in [Inode -> Kind]
  /\ holds \subseteq Inode \X Pid
  /\ Alive \subseteq born
  /\ steady \subseteq Inode /\ present \subseteq Inode
  /\ net_listen \in [Port -> {NULL} \cup Addr]
  /\ k \in 1..7
  /\ pc = "idle" => k = 1 /\ shown = {} /\ target = NULL /\ conn = NULL
  /\ pc # "idle" =>
       /\ req.call \in Request /\ res = NULL
       /\ steady \subseteq Alive /\ Alive \subseteq present
       /\ kept \subseteq holds /\ holds \subseteq held
       /\ k \in {2, 4, 6} => Protocol[k] \in Flags(req.call)
       /\ Caches(req.call) => target = NULL
  /\ pc = "read" => k <= 6 /\ Protocol[k] \in Flags(req.call)
  /\ pc # "scan" => scanned = {}
  /\ pc = "scan" => target # NULL /\ conn # NULL /\ k = 7

\* The listener i is in the cache, or one preferred to it.
Seen(i) ==
  /\ net_listen[info[i].lport] # NULL
  /\ info[i].laddr[1] = "inet" => net_listen[info[i].lport][1] = "inet"

Sound ==
  \A p \in Port : net_listen[p] # NULL =>
    \E i \in born : Listens(i) /\ info[i].lport = p /\ info[i].laddr = net_listen[p]

Complete ==
  \A a \in known : /\ a[1] \in Port /\ net_listen[a[1]] # NULL
                   /\ a[2] = "inet" => net_listen[a[1]][1] = "inet"

\* A walk that reads the listeners has put those behind it into the cache.
ReadSoFar ==
  pc # "idle" /\ Caches(req.call) /\ {"TCP", "SERVER"} \subseteq Flags(req.call) =>
    \A i \in steady : Listens(i) /\ (info[i].file < k \/ i \in shown) => Seen(i)

Answer ==
  res # NULL /\ res.req.call.op = "address" =>
    LET p == res.req.call.port IN
    /\ res.status = "OK" =>
         /\ \E i \in born : Listens(i) /\ info[i].lport = p /\ info[i].laddr = res.val
         /\ <<p, "inet">> \in known => res.val[1] = "inet"
    /\ res.status = "ENOENT" => \A a \in known : a[1] # p

\* A server socket that is there all the time is found when its table is read.
Searching ==
  pc # "idle" /\ req.call.op = "pid" =>
    LET Mine(i) == Serves(i, req.call.port, req.call.flags) IN
    /\ target = req.call.port
    /\ conn # NULL => conn \in present /\ Mine(conn)
    /\ \A i \in steady : Mine(i) => i \notin shown /\ (info[i].file < k => conn # NULL)
    /\ \A p \in scanned : p \in Private \/ <<conn, p>> \notin kept

IInv == Base /\ Sound /\ Complete /\ ReadSoFar /\ Answer /\ Searching /\ PortPid

-----------------------------------------------------------------------------
(* Facts about the constants.                                              *)

\* A socket's fields.
LEMMA KindFacts ==
  ASSUME NEW s \in Kind
  PROVE  /\ s.file \in 1..6 /\ s.lport \in Port /\ s.laddr \in Addr
         /\ s.laddr[1] \in {"inet", "inet6"}
<1>1. s \in [file : 1..6, lport : Port, laddr : {"inet", "inet6"} \X Nat,
             rport : Port \cup {NULL}, raddr : {"inet", "inet6"} \X Nat]
  BY NetAssumption
<1> QED BY <1>1 DEF Addr

\* The two tables of each protocol.
LEMMA Protocols ==
  /\ Protocol[1] = "TCP" /\ Protocol[2] = "TCP" /\ Protocol[3] = "UDP"
  /\ Protocol[4] = "UDP" /\ Protocol[5] = "RAW" /\ Protocol[6] = "RAW"
BY DEF Protocol

\* No protocol is the flag that asks for servers.
LEMMA NotServer == \A t \in 1..6 : Protocol[t] # "SERVER"
BY Protocols, SMTT(60)

\* The six counters of a sigar_net_stat_t.
Counters(a, b, c, d, e, f) ==
  [listen |-> a, other |-> b, tcp_in |-> c, tcp_out |-> d, all_in |-> e, all_out |-> f]

Counting(n, a, b, c, d, e, f) == n = Counters(a, b, c, d, e, f)

\* The fields of a record that has these six.
LEMMA CountersIs ==
  ASSUME NEW a, NEW b, NEW c, NEW d, NEW e, NEW f, NEW n, Counting(n, a, b, c, d, e, f)
  PROVE  /\ n.listen = a /\ n.other = b /\ n.tcp_in = c /\ n.tcp_out = d
         /\ n.all_in = e /\ n.all_out = f
BY SMTT(60) DEF Counting, Counters

\* Counters with values in a set.
LEMMA CountersIn ==
  ASSUME NEW V, NEW a \in V, NEW b \in V, NEW c \in V, NEW d \in V, NEW e \in V, NEW f \in V
  PROVE  Counters(a, b, c, d, e, f) \in [DOMAIN NoStat -> V]
BY SMTT(60) DEF Counters, NoStat

\* The numbers up to one more.
LEMMA UpToNext == \A z \in Nat : \A n \in 1..z+1 : n \in 1..z \/ n = z+1
BY SMTT(60)

\* A count below its bound, with one more.
LEMMA BelowNext == \A m \in Nat : \A c \in 0..m : c < m => c + 1 \in 0..m
BY SMTT(60)

\* A sum with one more on either side.
LEMMA SumNext ==
  \A b, c \in Nat : /\ (b + c) + 1 = (b + 1) + c /\ (b + c) + 1 = b + (c + 1)
                    /\ (b + c) + 0 = (b + 0) + (c + 0) /\ b + 0 = b
BY SMTT(60)

\* The flags of the calls.
LEMMA FlagFacts ==
  ASSUME NEW r
  PROVE  /\ r.op = "address" => Flags(r) = {"SERVER", "TCP"}
         /\ r.op = "pid" => Flags(r) = {"SERVER"} \cup r.flags
BY DEF Flags

-----------------------------------------------------------------------------
(* The end of a call.                                                      *)

\* What a reply of sigar_proc_port_get with the pid x promises.
PidOK(x) ==
  LET Mine(i) == Serves(i, req.call.port, req.call.flags)
  IN  IF x = 0
      THEN \A i \in steady : Mine(i) /\ (\A j \in present \ {i} : ~Mine(j))
                               => \A p \in Pid \ Private : <<i, p>> \notin kept
      ELSE \E i \in present : Mine(i) /\ (<<i, x>> \in held \/ x \in Alike)

\* Any reply, if what it says of an address and of a pid is right.
LEMMA ReplyStep ==
  ASSUME IInv, pc # "idle", NEW s, NEW x, Reply(s, x), Rest,
         Complete', Answer', req.call.op = "pid" /\ s = "OK" => PidOK(x)
  PROVE  IInv'
<1>1. Base'
  <2>1. pc' = "idle" /\ k' = 1 /\ shown' = {} /\ target' = NULL /\ conn' = NULL /\ scanned' = {}
    BY DEF Reply, Clear
  <2>2. UNCHANGED <<info, holds, born, steady, present, net_listen, Alive>>
    BY DEF Rest, kernVars, ghostVars, Alive
  <2> QED BY <2>1, <2>2, SMTT(60) DEF IInv, Base
<1>2. Sound'
  BY DEF IInv, Sound, Rest, kernVars, Listens, IsTcp, IsServer
<1>3. ReadSoFar' /\ Searching'
  BY DEF ReadSoFar, Searching, Reply
<1>4. PortPid'
  BY DEF PortPid, Replied, PidOK, Reply, Rest, kernVars, ghostVars, Serves, IsServer
<1> QED BY <1>1, <1>2, <1>3, <1>4 DEF IInv

\* The end of sigar_proc_port_get, or the start of the next search.
LEMMA SearchStep ==
  ASSUME IInv, pc # "idle", NEW x, Search(x),
         req.call.op = "pid" /\ x # NULL => PidOK(x)
  PROVE  IInv'
<1>1. CASE req.call.op = "pid"
  <2>1. Reply(IF x = NULL THEN "ERR" ELSE "OK", x) /\ Rest /\ UNCHANGED known
    BY <1>1 DEF Search
  <2>2. Complete'
    BY <2>1 DEF IInv, Complete, Rest
  <2>3. Answer'
    BY <1>1, <2>1 DEF Answer, Reply
  <2> QED BY <1>1, <2>1, <2>2, <2>3, ReplyStep
<1>2. CASE req.call.op = "listeners"
  <2> DEFINE all == Append(pids, x)
  <2>1. Rest /\ UNCHANGED known
    BY DEF Search
  <2>2. Complete'
    BY <2>1 DEF IInv, Complete, Rest
  <2>3. CASE Reply("OK", [list |-> list, pids |-> all])
    <3>1. Answer'
      BY <1>2, <2>3 DEF Answer, Reply
    <3> QED BY <1>2, <2>1, <2>2, <2>3, <3>1, ReplyStep
  <2>4. CASE StartSearch(Len(all) + 1)
    <3>1. Base'
      <4>1. pc' = "open" /\ k' = 1 /\ scanned' = {} /\ UNCHANGED <<req, res>>
        BY <2>4 DEF StartSearch
      <4>2. UNCHANGED <<info, holds, born, steady, present, kept, held, net_listen, Alive>>
        BY <2>1 DEF Rest, kernVars, ghostVars, Alive
      <4>3. ~Caches(req.call)
        BY <1>2 DEF Caches
      <4> QED BY <4>1, <4>2, <4>3, SMTT(60) DEF IInv, Base
    <3>2. Sound'
      BY <2>1 DEF IInv, Sound, Rest, kernVars, Listens, IsTcp, IsServer
    <3>3. ReadSoFar' /\ Searching'
      BY <1>2, <2>4 DEF ReadSoFar, Searching, StartSearch, Caches
    <3>4. Answer' /\ PortPid'
      <4>1. res = NULL /\ pc' = "open" /\ UNCHANGED res
        BY <2>4 DEF IInv, Base, StartSearch
      <4> QED BY <4>1 DEF Answer, PortPid, Replied
    <3> QED BY <2>2, <3>1, <3>2, <3>3, <3>4 DEF IInv
  <2> QED BY <1>2, <2>3, <2>4 DEF Search
<1> QED BY <1>1, <1>2 DEF Search

\* A failing call.
LEMMA FailStep ==
  ASSUME IInv, pc # "idle", Fails PROVE IInv'
<1>1. CASE Search(NULL)
  BY <1>1, SearchStep
<1>2. CASE Reply("ERR", NULL) /\ UNCHANGED known /\ Rest
  <2>1. Complete'
    BY <1>2 DEF IInv, Complete, Rest
  <2>2. Answer'
    BY <1>2 DEF Answer, Reply
  <2> QED BY <1>2, <2>1, <2>2, ReplyStep
<1> QED BY <1>1, <1>2 DEF Fails

-----------------------------------------------------------------------------
(* The actions.                                                            *)

\* An open handle with an empty cache.
LEMMA InitStep == Init => IInv
<1> SUFFICES ASSUME Init PROVE IInv
  OBVIOUS
<1>1. pc = "idle" /\ res = NULL /\ known = {} /\ net_listen = [p \in Port |-> NULL]
  BY DEF Init
<1>2. Base
  <2>1. PICK up \in SUBSET Inode, own \in [Inode -> Pid] :
          born = up /\ holds = {<<i, own[i]>> : i \in up}
    BY DEF Init
  <2>2. holds \subseteq Inode \X Pid /\ Alive \subseteq born
    BY <2>1, SMTT(60) DEF Alive
  <2>3. net_listen \in [Port -> {NULL} \cup Addr]
    BY <1>1
  <2>4. /\ info \in [Inode -> Kind] /\ steady = {} /\ present = {} /\ k = 1 /\ shown = {}
        /\ target = NULL /\ conn = NULL /\ scanned = {}
    BY DEF Init
  <2> QED BY <1>1, <2>2, <2>3, <2>4, SMTT(60) DEF Base
<1>3. Sound /\ Complete /\ ReadSoFar /\ Searching
  BY <1>1 DEF Sound, Complete, ReadSoFar, Searching
<1>4. Answer /\ PortPid
  BY <1>1 DEF Answer, PortPid, Replied
<1> QED BY <1>2, <1>3, <1>4 DEF IInv

\* Sockets come and go, between the calls and during them.
LEMMA KernelStep ==
  ASSUME IInv, NEW i \in Inode, NEW p \in Pid,
         OpenSocket(i, p) \/ ShareSocket(i, p) \/ CloseSocket(i, p)
  PROVE  IInv'
<1>1. /\ UNCHANGED <<info, net_listen, req, pc, k, shown, target, conn, scanned, res, known>>
      /\ holds' \subseteq Inode \X Pid /\ born \subseteq born' /\ Alive' \subseteq born'
  <2>1. PICK h : Change(h) /\ h \subseteq holds \cup {<<i, p>>}
    BY DEF OpenSocket, ShareSocket, CloseSocket
  <2>2. /\ UNCHANGED <<info, net_listen, req, pc, k, shown, target, conn, scanned, res, known>>
        /\ holds' \subseteq Inode \X Pid
    BY <2>1, SMTT(60) DEF Change, IInv, Base, walkVars
  <2>3. Alive' \subseteq Alive \cup {i}
    BY <2>1 DEF Change, Alive
  <2>4. born \subseteq born' /\ (i \in Alive \/ i \in born')
    BY DEF OpenSocket, ShareSocket, CloseSocket, Alive
  <2> QED BY <2>2, <2>3, <2>4 DEF IInv, Base
<1>2. IF pc = "idle" THEN UNCHANGED ghostVars
      ELSE /\ steady' = steady \cap Alive' /\ present' = present \cup Alive'
           /\ kept' = kept \cap holds' /\ held' = held \cup holds'
  BY DEF OpenSocket, ShareSocket, CloseSocket, Change
<1>3. Base'
  <2>1. Alive' \subseteq Inode
    BY DEF Alive
  <2>2. CASE pc = "idle"
    BY <1>1, <1>2, <2>1, <2>2 DEF IInv, Base, ghostVars
  <2>3. CASE pc # "idle"
    BY <1>1, <1>2, <2>1, <2>3 DEF IInv, Base
  <2> QED BY <2>2, <2>3
<1>4. Sound'
  BY <1>1 DEF IInv, Sound, Listens, IsTcp, IsServer
<1>5. Complete'
  BY <1>1 DEF IInv, Complete
<1>6. ReadSoFar'
  BY <1>1, <1>2 DEF IInv, ReadSoFar, Seen, Listens, IsTcp, IsServer
<1>7. Answer'
  BY <1>1 DEF IInv, Answer, Listens, IsTcp, IsServer
<1>8. Searching'
  BY <1>1, <1>2 DEF IInv, Searching, Serves, IsServer
<1>9. PortPid'
  <2>1. CASE pc = "idle"
    <3>1. UNCHANGED <<pc, res, info, steady, present, kept, held>>
      BY <1>1, <1>2, <2>1 DEF ghostVars
    <3> QED BY <3>1 DEF IInv, PortPid, Replied, Serves, IsServer
  <2>2. CASE pc # "idle"
    BY <1>1, <2>2 DEF PortPid, Replied
  <2> QED BY <2>1, <2>2
<1> QED BY <1>3, <1>4, <1>5, <1>6, <1>7, <1>8, <1>9 DEF IInv

\* A call begins; a cached address is its reply.
LEMMA BeginStep ==
  ASSUME IInv, NEW r \in Request, Begin(r) PROVE IInv'
<1>1. /\ UNCHANGED <<info, holds, born, net_listen, known, Alive>>
      /\ steady' = Alive /\ present' = Alive /\ kept' = holds /\ held' = holds
      /\ pc = "idle" /\ UNCHANGED <<k, shown, conn, scanned>>
  BY DEF Begin, kernVars, walkVars, Alive
<1>2. Sound'
  BY <1>1 DEF IInv, Sound, Listens, IsTcp, IsServer
<1>3. Complete'
  BY <1>1 DEF IInv, Complete
<1>4. CASE r.op = "address" /\ net_listen[r.port] # NULL
  <2>1. /\ res' = [req |-> [call |-> r, knew |-> known], status |-> "OK",
                   val |-> net_listen[r.port]]
        /\ UNCHANGED <<pc, req, target>>
    BY <1>4 DEF Begin, walkVars
  <2>2. Base'
    <3>1. Alive \subseteq Inode
      BY DEF Alive
    <3> QED BY <1>1, <2>1, <3>1 DEF IInv, Base
  <2>3. ReadSoFar' /\ Searching'
    BY <1>1, <2>1 DEF ReadSoFar, Searching
  <2>4. Answer'
    <3>1. r.port \in Port
      BY <1>4, NetAssumption
    <3>2. \E i \in born : Listens(i) /\ info[i].lport = r.port /\ info[i].laddr = net_listen[r.port]
      BY <1>4, <3>1 DEF IInv, Sound
    <3>3. <<r.port, "inet">> \in known => net_listen[r.port][1] = "inet"
      BY DEF IInv, Complete
    <3> QED BY <1>1, <2>1, <3>2, <3>3 DEF Answer, Listens, IsTcp, IsServer
  <2>5. PortPid'
    BY <1>4, <2>1 DEF PortPid, Replied
  <2> QED BY <1>2, <1>3, <2>2, <2>3, <2>4, <2>5 DEF IInv
<1>5. CASE ~(r.op = "address" /\ net_listen[r.port] # NULL)
  <2>1. /\ res' = NULL /\ pc' = "open" /\ req'.call = r
        /\ target' = IF r.op = "pid" THEN r.port ELSE NULL
    BY <1>5, SMTT(60) DEF Begin
  <2>2. Base'
    <3>1. Alive \subseteq Inode
      BY DEF Alive
    <3>2. k' = 1 /\ scanned' = {} /\ (Caches(req'.call) => target' = NULL)
      BY <1>1, <2>1 DEF IInv, Base, Caches
    <3>3. /\ info' \in [Inode -> Kind] /\ holds' \subseteq Inode \X Pid /\ Alive' \subseteq born'
          /\ net_listen' \in [Port -> {NULL} \cup Addr]
      BY <1>1 DEF IInv, Base
    <3>4. /\ steady' \subseteq Inode /\ present' \subseteq Inode
          /\ steady' \subseteq Alive' /\ Alive' \subseteq present'
          /\ kept' \subseteq holds' /\ holds' \subseteq held'
      BY <1>1, <3>1
    <3> QED BY <2>1, <3>2, <3>3, <3>4, SMTT(60) DEF Base
  <2>3. k' = 1 /\ shown' = {} /\ conn' = NULL /\ scanned' = {}
    BY <1>1 DEF IInv, Base
  <2>4. \A i \in steady' : info'[i].file \in 1..6
    <3>1. steady' \subseteq Inode
      BY <1>1 DEF Alive
    <3> QED BY <1>1, <3>1, KindFacts DEF IInv, Base
  <2>5. ReadSoFar'
    BY <2>3, <2>4, SMTT(60) DEF ReadSoFar
  <2>6. Searching'
    BY <2>1, <2>3, <2>4, SMTT(60) DEF Searching
  <2>7. Answer' /\ PortPid'
    BY <2>1 DEF Answer, PortPid, Replied
  <2> QED BY <1>2, <1>3, <2>2, <2>5, <2>6, <2>7 DEF IInv
<1> QED BY <1>4, <1>5

\* A step from one table to the next passes no socket that is not read.
LEMMA WalkStep ==
  ASSUME IInv, pc \in {"open", "read"}, pc' \in {"open", "read"}, Walking,
         k' \in 1..7, shown' \subseteq shown,
         k' \in {2, 4, 6} => Protocol[k'] \in Flags(req.call),
         pc' = "read" => k' <= 6 /\ Protocol[k'] \in Flags(req.call),
         \A i \in steady : Protocol[info[i].file] \in Flags(req.call) =>
           ((info[i].file < k' \/ i \in shown') => (info[i].file < k \/ i \in shown))
  PROVE  IInv'
<1>1. /\ UNCHANGED <<info, holds, born, steady, present, kept, held, net_listen, Alive>>
      /\ UNCHANGED <<req, target, conn, scanned, res, known>>
  BY DEF Walking, Rest, kernVars, ghostVars, Alive
<1>2. Base'
  BY <1>1 DEF IInv, Base
<1>3. Sound' /\ Complete'
  BY <1>1 DEF IInv, Sound, Complete, Listens, IsTcp, IsServer
<1>4. ReadSoFar'
  BY <1>1 DEF IInv, ReadSoFar, Seen, Listens, IsTcp, IsServer
<1>5. Answer'
  BY <1>1 DEF IInv, Answer, Listens, IsTcp, IsServer
<1>6. Searching'
  BY <1>1, FlagFacts DEF IInv, Searching, Serves, IsServer
<1>7. PortPid'
  BY DEF PortPid, Replied
<1> QED BY <1>2, <1>3, <1>4, <1>5, <1>6, <1>7 DEF IInv

\* The sockets' tables.
LEMMA Files == ASSUME IInv PROVE \A i \in steady : info[i].file \in 1..6
BY KindFacts DEF IInv, Base

\* The tables of a protocol that is not asked for hold no socket of the call.
LEMMA SkipStep == ASSUME IInv, SkipTable PROVE IInv'
<1>1. k \in {1, 3, 5} /\ k' = k + 2 /\ Protocol[k + 1] = Protocol[k]
  BY Protocols, SMTT(60) DEF SkipTable, IInv, Base
<1>2. pc = "open" /\ pc' = "open" /\ shown' = shown /\ Walking /\ Protocol[k] \notin Flags(req.call)
  BY DEF SkipTable
<1>3. \A i \in steady : Protocol[info[i].file] \in Flags(req.call) =>
           ((info[i].file < k' \/ i \in shown') => (info[i].file < k \/ i \in shown))
  BY <1>1, <1>2, Files, SMTT(60)
<1> QED BY <1>1, <1>2, <1>3, WalkStep, SMTT(60)

\* A table is opened, is not there, or cannot be read.
LEMMA OpenStep == ASSUME IInv, OpenTable PROVE IInv'
<1>1. pc = "open" /\ k \in 1..6 /\ Protocol[k] \in Flags(req.call)
  BY SMTT(60) DEF OpenTable, IInv, Base
<1>2. CASE pc' = "read" /\ UNCHANGED <<k, shown>> /\ Walking
  <2>1. k' \in 1..7 /\ k' <= 6 /\ Protocol[k'] \in Flags(req.call) /\ shown' \subseteq shown
    BY <1>1, <1>2, SMTT(60)
  <2>2. \A i \in steady : (info[i].file < k' \/ i \in shown') => (info[i].file < k \/ i \in shown)
    BY <1>2
  <2> QED BY <1>1, <1>2, <2>1, <2>2, WalkStep
<1>3. CASE /\ Six(k) /\ \A i \in Inode : info[i].file # k
           /\ k' = k + 1 /\ UNCHANGED <<pc, shown>> /\ Walking
  <2>1. k' \in {3, 5, 7}
    BY <1>3, SMTT(60) DEF Six
  <2>2. \A i \in steady : info[i].file # k /\ info[i].file \in 1..6
    BY <1>3, Files DEF IInv, Base
  <2> QED BY <1>1, <1>3, <2>1, <2>2, WalkStep, SMTT(60)
<1>4. CASE Fails
  BY <1>1, <1>4, FailStep
<1> QED BY <1>2, <1>3, <1>4 DEF OpenTable

\* All that is there all the time has been read.
LEMMA CloseStep == ASSUME IInv, CloseTable PROVE IInv'
<1>1. /\ pc = "read" /\ pc' = "open" /\ k' = k + 1 /\ shown' = {} /\ Walking
      /\ \A i \in steady : info[i].file = k => i \in shown
  BY DEF CloseTable
<1>2. k \in 1..6 /\ Protocol[k] \in Flags(req.call)
  BY <1>1, SMTT(60) DEF IInv, Base
<1>3. k' \in {2, 4, 6} => Protocol[k'] \in Flags(req.call)
  BY <1>1, <1>2, Protocols, SMTT(60)
<1>4. \A i \in steady : (info[i].file < k' \/ i \in shown') => (info[i].file < k \/ i \in shown)
  BY <1>1, <1>2, Files, SMTT(60)
<1>5. k' \in 1..7 /\ shown' \subseteq shown
  BY <1>1, <1>2, SMTT(60)
<1> QED BY <1>1, <1>3, <1>4, <1>5, WalkStep, ZenonT(60)

\* sigar_net_listen_address_add: the entry is the listener's address or one
\* preferred to it, and no other listener loses its own.
LEMMA AddFacts ==
  ASSUME IInv, NEW i \in Inode, Listens(i), i \in born,
         net_listen' = listen_address_add(i), UNCHANGED <<info, born, known>>
  PROVE  /\ net_listen' \in [Port -> {NULL} \cup Addr]
         /\ Sound' /\ Complete' /\ Seen(i)'
         /\ \A j \in Inode : Seen(j) => Seen(j)'
<1> DEFINE q == info[i].lport
           a == info[i].laddr
<1>1. /\ q \in Port /\ a \in Addr /\ a[1] \in {"inet", "inet6"} /\ a # NULL
      /\ net_listen \in [Port -> {NULL} \cup Addr]
  <2>1. info[i] \in Kind /\ net_listen \in [Port -> {NULL} \cup Addr]
    BY DEF IInv, Base
  <2>2. NULL \notin Addr
    BY NetAssumption DEF Addr
  <2> QED BY <2>1, <2>2, KindFacts
<1>2. CASE net_listen[q] # NULL /\ a[1] = "inet6"
  <2>1. net_listen' = net_listen
    BY <1>2 DEF listen_address_add
  <2>2. Sound' /\ Complete'
    BY <2>1, SMTT(60) DEF IInv, Sound, Complete, Listens, IsTcp, IsServer
  <2>3. Seen(i)' /\ \A j \in Inode : Seen(j) => Seen(j)'
    BY <1>1, <1>2, <2>1 DEF Seen
  <2> QED BY <1>1, <2>1, <2>2, <2>3
<1>3. CASE ~(net_listen[q] # NULL /\ a[1] = "inet6")
  <2>1. net_listen' = [net_listen EXCEPT ![q] = a]
    BY <1>3 DEF listen_address_add
  <2>2. net_listen' \in [Port -> {NULL} \cup Addr]
    BY <1>1, <2>1
  <2>3. net_listen'[q] = a /\ \A p \in Port \ {q} : net_listen'[p] = net_listen[p]
    BY <1>1, <2>1
  <2>4. Sound'
    BY <1>1, <2>3, SMTT(60) DEF IInv, Sound, Listens, IsTcp, IsServer
  <2>5. net_listen[q] # NULL => a[1] = "inet"
    BY <1>1, <1>3
  <2>6. Complete'
    BY <1>1, <2>3, <2>5 DEF IInv, Complete
  <2>7. \A j \in Inode : info[j].lport \in Port
    BY KindFacts DEF IInv, Base
  <2>8. Seen(i)' /\ \A j \in Inode : Seen(j) => Seen(j)'
    BY <1>1, <2>3, <2>5, <2>7 DEF Seen
  <2> QED BY <2>2, <2>4, <2>6, <2>8
<1> QED BY <1>2, <1>3

\* A line is read.
LEMMA ReadStep ==
  ASSUME IInv, NEW i \in Inode, ReadLine(i) PROVE IInv'
<1>1. /\ UNCHANGED <<info, holds, born, steady, present, kept, held, Alive>>
      /\ UNCHANGED <<req, target, scanned, res, known>>
      /\ pc = "read" /\ i \in Alive /\ i \in born /\ info[i].file = k
  BY DEF ReadLine, kernVars, ghostVars, Alive, IInv, Base
<1>2. k \in 1..6 /\ Protocol[k] \in Flags(req.call) /\ res = NULL /\ steady \subseteq Inode
  BY <1>1, SMTT(60) DEF IInv, Base
<1>3. Answer'
  BY <1>1, <1>2 DEF Answer
<1>4. CASE ~Wanted(i)
  <2>1. shown' = shown \cup {i} /\ UNCHANGED <<pc, k, conn, net_listen>>
    BY <1>4 DEF ReadLine
  <2>2. Base'
    BY <1>1, <2>1 DEF IInv, Base
  <2>3. Sound' /\ Complete'
    BY <1>1, <2>1 DEF IInv, Sound, Complete, Listens, IsTcp, IsServer
  <2>4. ReadSoFar'
    BY <1>1, <1>4, <2>1 DEF IInv, ReadSoFar, Seen, Listens, IsTcp, IsServer, Wanted
  <2>5. Searching'
    BY <1>1, <1>4, <2>1, FlagFacts DEF IInv, Searching, Serves, IsServer, Wanted
  <2>6. PortPid'
    BY <1>1, <2>1, ZenonT(60) DEF PortPid, Replied
  <2> QED BY <1>3, <2>2, <2>3, <2>4, <2>5, <2>6 DEF IInv
<1>5. CASE Wanted(i) /\ Caches(req.call)
  <2>1. target = NULL /\ req.call.op \in {"stat", "address"}
    BY <1>1, <1>5 DEF IInv, Base, Caches
  <2>2. /\ net_listen' = (IF Listens(i) THEN listen_address_add(i) ELSE net_listen)
        /\ shown' = shown \cup {i} /\ UNCHANGED <<pc, k, conn>>
    BY <1>5, <2>1 DEF ReadLine, add_connection
  <2>3. /\ net_listen' \in [Port -> {NULL} \cup Addr] /\ Sound' /\ Complete'
        /\ (Listens(i) => Seen(i)') /\ \A j \in Inode : Seen(j) => Seen(j)'
    <3>1. CASE Listens(i)
      BY <1>1, <2>2, <3>1, AddFacts
    <3>2. CASE ~Listens(i)
      BY <1>1, <2>2, <3>2, ZenonT(60) DEF IInv, Base, Sound, Complete, Seen, Listens, IsTcp, IsServer
    <3> QED BY <3>1, <3>2
  <2>4. Base'
    BY <1>1, <2>2, <2>3 DEF IInv, Base
  <2>5. ReadSoFar'
    <3>1. \A j \in Inode : Listens(j)' <=> Listens(j)
      BY <1>1 DEF Listens, IsTcp, IsServer
    <3> QED BY <1>1, <1>2, <2>2, <2>3, <3>1, ZenonT(60) DEF IInv, ReadSoFar
  <2>6. Searching' /\ PortPid'
    BY <1>1, <2>1, <2>2 DEF Searching, PortPid, Replied
  <2> QED BY <1>3, <2>3, <2>4, <2>5, <2>6 DEF IInv
<1>6. CASE Wanted(i) /\ ~Caches(req.call)
  <2>1. /\ UNCHANGED net_listen /\ pc' \in {"open", "read"}
        /\ \/ shown' = shown \cup {i} /\ UNCHANGED <<pc, k, conn>>
           \/ Matches(i) /\ conn' = i /\ pc' = "open" /\ k' = k + 1 /\ shown' = {}
    BY <1>1, <1>6 DEF ReadLine, add_connection, Caches
  <2>2. Base'
    <3>1. k' \in 1..7 /\ (k' \in {2, 4, 6} => Protocol[k'] \in Flags(req.call))
      BY <1>1, <1>2, <2>1, Protocols, SMTT(60) DEF IInv, Base
    <3> QED BY <1>1, <1>2, <1>6, <2>1, <3>1 DEF IInv, Base
  <2>3. Sound' /\ Complete'
    BY <1>1, <2>1 DEF IInv, Sound, Complete, Listens, IsTcp, IsServer
  <2>4. ReadSoFar' /\ PortPid'
    BY <1>1, <1>6, <2>1, ZenonT(60) DEF ReadSoFar, PortPid, Replied
  <2>5. ASSUME req.call.op = "pid" PROVE Searching'
    <3> DEFINE Mine(j) == Serves(j, req.call.port, req.call.flags)
    <3>1. /\ target = req.call.port /\ target # NULL
          /\ \A j \in Inode : Mine(j)' <=> Mine(j)
      BY <1>1, <2>5, NetAssumption DEF IInv, Base, Searching, Serves, IsServer
    <3>2. Matches(i) <=> Mine(i)
      <4>1. Protocol[k] # "SERVER"
        BY <1>2, Protocols, SMTT(60)
      <4>2. Flags(req.call) = {"SERVER"} \cup req.call.flags
        BY <2>5, FlagFacts
      <4>3. Protocol[info[i].file] \in req.call.flags
        BY <1>1, <1>2, <4>1, <4>2
      <4> QED BY <3>1, <4>3 DEF Matches, Serves
    <3>3. \/ Mine(i) /\ conn' = i /\ k' = k + 1 /\ shown' = {}
          \/ ~Mine(i) /\ shown' = shown \cup {i} /\ UNCHANGED <<k, conn>>
      BY <1>6, <2>5, <3>1, <3>2, ZenonT(60) DEF ReadLine, add_connection
    <3>4. i \in present /\ scanned = {}
      BY <1>1 DEF IInv, Base
    <3>5. i # NULL
      BY NetAssumption
    <3>6. CASE Mine(i)
      BY <1>1, <1>2, <2>5, <3>1, <3>3, <3>4, <3>5, <3>6 DEF IInv, Searching, Serves, IsServer
    <3>7. CASE ~Mine(i)
      BY <1>1, <1>2, <2>5, <3>1, <3>3, <3>4, <3>7 DEF IInv, Searching, Serves, IsServer
    <3> QED BY <3>6, <3>7
  <2>6. Searching'
    BY <1>1, <2>5 DEF Searching
  <2> QED BY <1>3, <2>2, <2>3, <2>4, <2>6 DEF IInv
<1> QED BY <1>4, <1>5, <1>6

\* What is learnt at the end of a walk is in the cache.
LEMMA LearnFacts ==
  ASSUME IInv, pc = "open", k > 6, Caches(req.call),
         {"TCP", "SERVER"} \subseteq Flags(req.call), Learn, UNCHANGED net_listen
  PROVE  Complete'
<1>1. \A i \in steady : Listens(i) => Seen(i)
  <2>1. k = 7
    BY SMTT(60) DEF IInv, Base
  <2> QED BY <2>1, Files, SMTT(60) DEF IInv, ReadSoFar
<1>2. \A i \in steady : info[i].lport \in Port
  BY KindFacts DEF IInv, Base
<1>3. ASSUME NEW a \in known', a \notin known
      PROVE  /\ a[1] \in Port /\ net_listen[a[1]] # NULL
             /\ a[2] = "inet" => net_listen[a[1]][1] = "inet"
  <2>1. PICK i \in steady : Listens(i) /\ a = <<info[i].lport, info[i].laddr[1]>>
    BY <1>3 DEF Learn
  <2> QED BY <1>1, <1>2, <2>1 DEF Seen
<1> QED BY <1>3 DEF IInv, Complete

\* The end of the walk, for each call.
LEMMA EndWalkStep == ASSUME IInv, EndWalk PROVE IInv'
<1>1. pc = "open" /\ k > 6 /\ k = 7
  <2>1. pc = "open" /\ k > 6
    BY DEF EndWalk
  <2>2. k \in 1..7
    BY DEF IInv, Base
  <2> QED BY <2>1, <2>2, SMTT(60)
<1>2. CASE /\ req.call.op = "stat" /\ Reply("OK", netstat) /\ Rest
           /\ IF {"TCP", "SERVER"} \subseteq Flags(req.call) THEN Learn ELSE UNCHANGED known
  <2>1. Complete'
    <3>1. UNCHANGED net_listen
      BY <1>2 DEF Rest
    <3>2. CASE {"TCP", "SERVER"} \subseteq Flags(req.call)
      BY <1>1, <1>2, <3>1, <3>2, LearnFacts DEF Caches
    <3>3. CASE ~({"TCP", "SERVER"} \subseteq Flags(req.call))
      BY <1>2, <3>1, <3>3 DEF IInv, Complete
    <3> QED BY <3>2, <3>3
  <2>2. Answer'
    BY <1>2 DEF Answer, Reply
  <2> QED BY <1>1, <1>2, <2>1, <2>2, ReplyStep
<1>3. CASE /\ req.call.op = "address" /\ Learn /\ Rest
           /\ LET a == net_listen[req.call.port]
              IN  Reply(IF a = NULL THEN "ENOENT" ELSE "OK", a)
  <2> DEFINE a == net_listen[req.call.port]
  <2>1. UNCHANGED <<info, born, net_listen>> /\ req.call.port \in Port
    BY <1>1, <1>3, NetAssumption, ZenonT(60) DEF Rest, kernVars, IInv, Base
  <2>2. Complete'
    BY <1>1, <1>3, <2>1, LearnFacts, FlagFacts DEF Caches
  <2>3. Answer'
    <3>1. /\ res'.req = req /\ res'.val = a
          /\ res'.status = IF a = NULL THEN "ENOENT" ELSE "OK"
      BY <1>3 DEF Reply
    <3>2. CASE a = NULL
      <4>1. \A b \in known' : b[1] # req.call.port
        BY <2>1, <2>2, <3>2 DEF Complete
      <4> QED BY <3>1, <3>2, <4>1 DEF Answer
    <3>3. CASE a # NULL
      <4>1. \E i \in born : Listens(i) /\ info[i].lport = req.call.port /\ info[i].laddr = a
        BY <2>1, <3>3 DEF IInv, Sound
      <4>2. <<req.call.port, "inet">> \in known' => a[1] = "inet"
        BY <2>1, <2>2 DEF Complete
      <4> QED BY <2>1, <3>1, <3>3, <4>1, <4>2 DEF Answer, Listens, IsTcp, IsServer
    <3> QED BY <3>2, <3>3
  <2> QED BY <1>1, <1>3, <2>2, <2>3, ReplyStep
<1>4. ASSUME NEW x, Reply("OK", x), UNCHANGED known, Rest,
             req.call.op \in {"port", "list", "listeners"}
      PROVE  IInv'
  <2>1. Complete'
    BY <1>4 DEF IInv, Complete, Rest
  <2>2. Answer'
    BY <1>4 DEF Answer, Reply
  <2> QED BY <1>1, <1>4, <2>1, <2>2, ReplyStep
<1>5. CASE /\ target = NULL /\ req.call.op = "listeners" /\ list # << >>
           /\ StartSearch(1) /\ UNCHANGED <<pids, known>> /\ Rest
  <2>1. /\ pc' = "open" /\ k' = 1 /\ scanned' = {} /\ UNCHANGED <<req, res, known>>
        /\ UNCHANGED <<info, holds, born, steady, present, kept, held, net_listen, Alive>>
    BY <1>5 DEF StartSearch, Rest, kernVars, ghostVars, Alive
  <2>2. Base'
    <3>1. ~Caches(req.call)
      BY <1>5 DEF Caches
    <3>2. /\ info' \in [Inode -> Kind] /\ holds' \subseteq Inode \X Pid /\ Alive' \subseteq born'
          /\ net_listen' \in [Port -> {NULL} \cup Addr]
          /\ steady' \subseteq Inode /\ present' \subseteq Inode
      BY <2>1 DEF IInv, Base
    <3>3. /\ req'.call \in Request /\ res' = NULL
          /\ steady' \subseteq Alive' /\ Alive' \subseteq present'
          /\ kept' \subseteq holds' /\ holds' \subseteq held'
      BY <1>1, <2>1 DEF IInv, Base
    <3> QED BY <2>1, <3>1, <3>2, <3>3, SMTT(60) DEF Base
  <2>3. Sound' /\ Complete'
    BY <2>1, ZenonT(60) DEF IInv, Sound, Complete, Listens, IsTcp, IsServer
  <2>4. ReadSoFar' /\ Searching' /\ PortPid'
    BY <1>5, <2>1 DEF ReadSoFar, Searching, PortPid, Replied, Caches
  <2>5. Answer'
    BY <1>1, <2>1 DEF IInv, Base, Answer
  <2> QED BY <2>2, <2>3, <2>4, <2>5 DEF IInv
<1>6. CASE target # NULL /\ conn = NULL /\ Search(0)
  <2>1. ASSUME req.call.op = "pid", NEW i \in steady
        PROVE  ~Serves(i, req.call.port, req.call.flags)
    <3>1. info[i].file < k
      BY <1>1, Files, SMTT(60)
    <3> QED BY <1>1, <1>6, <2>1, <3>1 DEF IInv, Searching
  <2>2. req.call.op = "pid" => PidOK(0)
    BY <2>1, ZenonT(60) DEF PidOK
  <2> QED BY <1>1, <1>6, <2>2, SearchStep
<1>7. CASE target # NULL /\ conn # NULL /\ Fails
  BY <1>1, <1>7, FailStep
<1>8. CASE /\ target # NULL /\ conn # NULL
           /\ pc' = "scan" /\ UNCHANGED <<req, walkVars, res, known>> /\ Rest
  <2>1. /\ UNCHANGED <<req, k, shown, target, conn, scanned, res, known>>
        /\ UNCHANGED <<info, holds, born, steady, present, kept, held, net_listen, Alive>>
    BY <1>8 DEF walkVars, Rest, kernVars, ghostVars, Alive
  <2>2. Base'
    BY <1>1, <1>8, <2>1 DEF IInv, Base
  <2>3. Sound' /\ Complete'
    BY <2>1, ZenonT(60) DEF IInv, Sound, Complete, Listens, IsTcp, IsServer
  <2>4. ReadSoFar'
    BY <1>1, <1>8, <2>1 DEF IInv, ReadSoFar, Seen, Listens, IsTcp, IsServer
  <2>5. Answer' /\ PortPid'
    BY <1>1, <1>8, <2>1, ZenonT(60) DEF IInv, Base, Answer, PortPid, Replied
  <2>6. Searching'
    BY <1>1, <1>8, <2>1, ZenonT(60) DEF IInv, Searching, Serves, IsServer
  <2> QED BY <2>2, <2>3, <2>4, <2>5, <2>6 DEF IInv
<1> QED BY <1>2, <1>3, <1>4, <1>5, <1>6, <1>7, <1>8 DEF EndWalk

\* A process is looked into.
LEMMA ScanStep == ASSUME IInv, NEW p \in Pid, Scan(p) PROVE IInv'
<1>1. pc = "scan" /\ kept \subseteq holds /\ holds \subseteq held
  BY DEF Scan, IInv, Base
<1>2. CASE (<<conn, p>> \in holds \/ p \in Alike) /\ Search(p)
  <2>1. req.call.op = "pid" => PidOK(p)
    <3>1. p # 0 /\ conn # NULL
      BY <1>1, NetAssumption DEF IInv, Base
    <3> QED BY <1>1, <1>2, <3>1, ZenonT(60) DEF PidOK, IInv, Searching
  <2> QED BY <1>1, <1>2, <2>1, SearchStep
<1>3. CASE /\ <<conn, p>> \notin holds \/ p \in Private
           /\ scanned' = scanned \cup {p}
           /\ UNCHANGED <<req, pc, k, shown, netstat, conn, target, list, pids, res, known>>
           /\ Rest
  <2>1. /\ UNCHANGED <<req, pc, k, shown, target, conn, res, known>>
        /\ UNCHANGED <<info, holds, born, steady, present, kept, held, net_listen, Alive>>
        /\ scanned' = scanned \cup {p}
    BY <1>3 DEF Rest, kernVars, ghostVars, Alive
  <2>2. Base'
    BY <1>1, <2>1 DEF IInv, Base
  <2>3. Sound' /\ Complete'
    BY <2>1, ZenonT(60) DEF IInv, Sound, Complete, Listens, IsTcp, IsServer
  <2>4. ReadSoFar'
    BY <2>1 DEF IInv, ReadSoFar, Seen, Listens, IsTcp, IsServer
  <2>5. Answer' /\ PortPid'
    BY <1>1, <2>1, ZenonT(60) DEF IInv, Base, Answer, PortPid, Replied
  <2>6. Searching'
    BY <1>1, <1>3, <2>1, ZenonT(60) DEF IInv, Searching, Serves, IsServer
  <2> QED BY <2>2, <2>3, <2>4, <2>5, <2>6 DEF IInv
<1> QED BY <1>2, <1>3 DEF Scan

\* None has it.
LEMMA ScanEndStep == ASSUME IInv, ScanEnd PROVE IInv'
<1>1. pc = "scan" /\ scanned = Pid /\ Search(0) /\ conn # NULL
  BY DEF ScanEnd, IInv, Base
<1>2. req.call.op = "pid" => PidOK(0)
  BY <1>1, ZenonT(60) DEF PidOK, IInv, Searching
<1> QED BY <1>1, <1>2, SearchStep

\* Every step keeps the inductive invariant.
LEMMA NextStep == IInv /\ [Next]_vars => IInv'
<1> SUFFICES ASSUME IInv, [Next]_vars PROVE IInv'
  OBVIOUS
<1>1. CASE Kernel
  BY <1>1, KernelStep DEF Kernel
<1>2. CASE Library
  <2>1. CASE SkipTable
    BY <2>1, SkipStep
  <2>2. CASE OpenTable
    BY <2>2, OpenStep
  <2>3. CASE CloseTable
    BY <2>3, CloseStep
  <2>4. CASE EndWalk
    BY <2>4, EndWalkStep
  <2>5. CASE ScanEnd
    BY <2>5, ScanEndStep
  <2>6. CASE \E i \in Inode : ReadLine(i)
    BY <2>6, ReadStep
  <2>7. CASE \E p \in Pid : Scan(p)
    BY <2>7, ScanStep
  <2> QED BY <1>2, <2>1, <2>2, <2>3, <2>4, <2>5, <2>6, <2>7 DEF Library
<1>3. CASE \E r \in Request : Begin(r)
  BY <1>3, BeginStep
<1>4. CASE UNCHANGED vars
  <2>1. /\ UNCHANGED <<req, pc, k, shown, target, conn, scanned, res, known>>
        /\ UNCHANGED <<info, holds, born, steady, present, kept, held, net_listen, Alive>>
    BY <1>4 DEF vars, walkVars, kernVars, ghostVars, Alive
  <2>2. Base'
    BY <2>1 DEF IInv, Base
  <2>3. Sound' /\ Complete'
    BY <2>1, ZenonT(60) DEF IInv, Sound, Complete, Listens, IsTcp, IsServer
  <2>4. ReadSoFar'
    BY <2>1 DEF IInv, ReadSoFar, Seen, Listens, IsTcp, IsServer
  <2>5. Answer'
    BY <2>1 DEF IInv, Answer, Listens, IsTcp, IsServer
  <2>6. Searching'
    BY <2>1 DEF IInv, Searching, Serves, IsServer
  <2>7. PortPid'
    BY <2>1 DEF IInv, PortPid, Replied, Serves, IsServer
  <2> QED BY <2>2, <2>3, <2>4, <2>5, <2>6, <2>7 DEF IInv
<1> QED BY <1>1, <1>2, <1>3, <1>4 DEF Next, Finished

\* sigar_net_listen_address_get, with any sockets that come and go and any
\* calls before: an address was listened on, an IPv6 one is returned only if
\* no IPv4 listener was seen, and ENOENT only if no listener was.
THEOREM ListenAddressHolds == Spec => []ListenAddress
<1>1. IInv => ListenAddress
  BY DEF IInv, Answer, ListenAddress
<1> QED BY <1>1, InitStep, NextStep, PTL DEF Spec

\* sigar_proc_port_get, with sockets passed on and closed between the reading
\* of the tables and of the descriptors: the process held a server socket of
\* the port during the call, and 0 means that no single one was held
\* throughout by a process that may be looked into.
THEOREM PortPidHolds == Spec => []PortPid
<1>1. IInv => PortPid
  BY DEF IInv
<1> QED BY <1>1, InitStep, NextStep, PTL DEF Spec

-----------------------------------------------------------------------------
(* What the walks count and list, over the invariant above: for every set  *)
(* of sockets, in whatever order the tables show them and whatever is      *)
(* opened and closed meanwhile.                                            *)

\* The call in progress asks for i, and the walk has passed its line.
Asked(i) == Protocol[info[i].file] \in Flags(req.call) /\ Wanted(i)
Passed(i) == info[i].file < k \/ (info[i].file = k /\ i \in shown)

\* S is what the walk has handed to the walker: sockets of the call, and all of
\* those that are there all the time.
Covers(S) ==
  /\ S \subseteq present
  /\ \A i \in S : Asked(i) /\ Passed(i)
  /\ \A i \in steady : Asked(i) /\ Passed(i) => i \in S

Servers == {i \in Inode : Listens(i)}
Conns == {i \in Inode : IsTcp(i) /\ ~IsServer(i)}

\* The counters of sigar_net_stat_get after S, with I inbound and O outbound.
Tally(S, I, O) ==
  Counters(Cardinality(S \cap Servers), Cardinality(S \cap Conns),
           Cardinality(I), Cardinality(O), Cardinality(I), Cardinality(O))

StatTally(S, I, O) ==
  /\ netstat = Tally(S, I, O)
  /\ I \cup O = S \cap Conns
  /\ Cardinality(S \cap Conns) = Cardinality(I) + Cardinality(O)
  /\ \A i \in I : net_listen[info[i].lport] # NULL
  /\ \A i \in O : \A a \in req.knew : a[1] # info[i].lport

StatCount ==
  pc # "idle" /\ Caches(req.call) =>
    \E S, I, O \in SUBSET Inode : Covers(S) /\ StatTally(S, I, O)

\* The sockets sigar_net_stat_port_get counts, and its counters after S.
In(r) == {i \in Inode : IsTcp(i) /\ info[i].lport = r.port}
Out(r) == {i \in Inode : IsTcp(i) /\ info[i].lport # r.port /\ info[i].rport = r.port}
To(r) == {i \in Inode : info[i].laddr = r.addr}
From(r) == {i \in Inode : info[i].raddr = r.addr}

PortTally(S, r) ==
  Counters(Cardinality(S \cap ((In(r) \cup Out(r)) \cap Servers)),
           Cardinality(S \cap ((In(r) \cup Out(r)) \ Servers)),
           Cardinality(S \cap (In(r) \cap To(r))), Cardinality(S \cap (Out(r) \cap From(r))),
           Cardinality(S \cap In(r)), Cardinality(S \cap Out(r)))

PortCount ==
  pc # "idle" /\ req.call.op = "port" =>
    \E S \in SUBSET Inode :
      /\ Covers(S) /\ netstat = PortTally(S, req.call)
      /\ netstat.listen + netstat.other = netstat.all_in + netstat.all_out

\* The entries of a list, and what a complete one has.
Entries(l) == {l[n] : n \in DOMAIN l}

Listed(l) ==
  /\ Entries(l) \subseteq present /\ \A i \in Entries(l) : Asked(i)
  /\ \A i \in steady : Asked(i) => i \in Entries(l)

\* The pid x found for the port of the socket j.
Owns(x, j) ==
  x \in Pid \ Alike =>
    \E i \in present : Serves(i, info[j].lport, {"TCP", "UDP"}) /\ <<i, x>> \in held

Listing ==
  pc # "idle" /\ req.call.op \in {"list", "listeners"} =>
    /\ \A m, n \in DOMAIN list : list[m] = list[n] => m = n
    /\ target = NULL => Covers(Entries(list)) /\ pids = << >>
    /\ target # NULL =>
         /\ req.call.op = "listeners" /\ Listed(list) /\ Len(pids) < Len(list)
         /\ target = info[list[Len(pids) + 1]].lport
         /\ conn # NULL => conn \in present /\ Serves(conn, target, {"TCP", "UDP"})
    /\ \A n \in 1..Len(pids) : Owns(pids[n], list[n])

\* The rest of TypeOK, and what belongs to which call.
Fields ==
  /\ born \subseteq Inode /\ present \subseteq born /\ steady \subseteq present
  /\ kept \subseteq held /\ held \subseteq Inode \X Pid
  /\ changes \in 0..MaxChanges /\ calls \in 0..MaxCalls
  /\ net_listen \in [Port -> {NULL} \cup {s.laddr : s \in Kind}]
  /\ known \subseteq Port \X {"inet", "inet6"}
  /\ pc \in {"idle", "open", "read", "scan"}
  /\ shown \subseteq Inode /\ (pc # "read" => shown = {})
  /\ target \in Port \cup {NULL} /\ conn \in Inode \cup {NULL} /\ scanned \subseteq Pid
  /\ list \in Seq(Inode) /\ pids \in Seq(Pid \cup {0, NULL}) /\ Len(pids) <= Len(list)
  /\ IF pc = "idle" THEN req = NULL
     ELSE /\ req.knew \subseteq known
          /\ req.call.op \notin {"pid", "listeners"} => target = NULL
  /\ pc = "idle" \/ ~(Caches(req.call) \/ req.call.op = "port") => netstat = NoStat
  /\ pc = "idle" \/ req.call.op \notin {"list", "listeners"} => list = << >> /\ pids = << >>

\* What a reply says.
Told ==
  /\ InboundOutbound /\ PortCounts /\ ListedOnce
  /\ Replied("stat") => res.val.tcp_out \in Nat

CInv == Fields /\ StatCount /\ PortCount /\ Listing /\ Told

-----------------------------------------------------------------------------
(* Facts about counting.                                                   *)

\* Sets of sockets are finite, and larger ones have no fewer.
LEMMA CountFacts ==
  ASSUME NEW S \in SUBSET Inode
  PROVE  /\ IsFiniteSet(S) /\ Cardinality(S) \in Nat /\ Cardinality(S) \in 0..Cardinality(Inode)
         /\ \A R \in SUBSET S : Cardinality(R) <= Cardinality(S)
<1>1. IsFiniteSet(Inode)
  BY NetAssumption
<1>2. IsFiniteSet(S) /\ Cardinality(S) <= Cardinality(Inode)
  BY <1>1, FS_Subset
<1>3. Cardinality(S) \in Nat /\ Cardinality(Inode) \in Nat
  BY <1>1, <1>2, FS_CardinalityType
<1>4. \A R \in SUBSET S : Cardinality(R) <= Cardinality(S)
  BY <1>2, FS_Subset
<1> QED BY <1>2, <1>3, <1>4, SMTT(60)

\* One socket more is counted once.
LEMMA CountAdd ==
  ASSUME NEW S \in SUBSET Inode, NEW i \in Inode \ S, NEW A
  PROVE  Cardinality((S \cup {i}) \cap A) = Cardinality(S \cap A) + One(i \in A)
<1>1. S \cap A \in SUBSET Inode /\ i \notin S \cap A
  OBVIOUS
<1>2. IsFiniteSet(S \cap A) /\ Cardinality(S \cap A) \in Nat
  BY <1>1, CountFacts
<1>3. CASE i \in A
  <2>1. (S \cup {i}) \cap A = (S \cap A) \cup {i}
    BY <1>3
  <2>2. Cardinality((S \cap A) \cup {i}) = Cardinality(S \cap A) + 1
    BY <1>1, <1>2, FS_AddElement
  <2> QED BY <1>3, <2>1, <2>2 DEF One
<1>4. CASE i \notin A
  <2>1. (S \cup {i}) \cap A = S \cap A
    BY <1>4
  <2> QED BY <1>2, <1>4, <2>1, SMTT(60) DEF One
<1> QED BY <1>3, <1>4

\* A list in which no socket is twice is as long as it has sockets.
LEMMA ListCount ==
  ASSUME NEW l \in Seq(Inode), \A m, n \in DOMAIN l : l[m] = l[n] => m = n
  PROVE  Cardinality(Entries(l)) = Len(l)
<1>1. Len(l) \in Nat /\ DOMAIN l = 1..Len(l) /\ l \in [1..Len(l) -> Entries(l)]
  BY SMTT(60) DEF Entries
<1>2. l \in Bijection(1..Len(l), Entries(l))
  BY <1>1 DEF Bijection, Injection, IsInjective, Surjection, Entries
<1>3. ExistsBijection(1..Len(l), Entries(l))
  BY <1>2 DEF ExistsBijection
<1> QED BY <1>1, <1>3, FS_CountingElements

\* A list with one entry more.
LEMMA ListAdd ==
  ASSUME NEW l \in Seq(Inode), NEW i \in Inode, i \notin Entries(l),
         \A m, n \in DOMAIN l : l[m] = l[n] => m = n
  PROVE  /\ Append(l, i) \in Seq(Inode) /\ Entries(Append(l, i)) = Entries(l) \cup {i}
         /\ \A m, n \in DOMAIN Append(l, i) : Append(l, i)[m] = Append(l, i)[n] => m = n
<1> DEFINE a == Append(l, i)
<1>1. /\ a \in Seq(Inode) /\ Len(l) \in Nat /\ DOMAIN l = 1..Len(l) /\ DOMAIN a = 1..Len(l)+1
      /\ a[Len(l)+1] = i /\ \A n \in 1..Len(l) : a[n] = l[n]
  BY SMTT(60)
<1> HIDE DEF a
<1>2. Entries(a) = Entries(l) \cup {i}
  <2>1. \A n \in DOMAIN a : a[n] \in Entries(l) \cup {i}
    BY <1>1, UpToNext, Zenon DEF Entries
  <2>2. \A n \in DOMAIN l : n \in DOMAIN a /\ a[n] = l[n]
    BY <1>1, SMTT(60)
  <2>3. Len(l)+1 \in DOMAIN a
    BY <1>1, SMTT(60)
  <2>4. Entries(a) \subseteq Entries(l) \cup {i}
    BY <2>1 DEF Entries
  <2>5. Entries(l) \subseteq Entries(a)
    BY <2>2 DEF Entries
  <2>6. i \in Entries(a)
    BY <1>1, <2>3 DEF Entries
  <2> QED BY <2>4, <2>5, <2>6
<1>3. ASSUME NEW m \in DOMAIN a, NEW n \in DOMAIN a, a[m] = a[n] PROVE m = n
  <2>1. \A j \in 1..Len(l) : l[j] # i
    BY <1>1 DEF Entries
  <2> QED BY <1>1, <1>3, <2>1, SMTT(60)
<1> QED BY <1>1, <1>2, <1>3 DEF a

-----------------------------------------------------------------------------
(* What the walk has covered.                                              *)

\* What a socket is does not change, nor what a call asks for.
LEMMA Same ==
  ASSUME UNCHANGED info
  PROVE  /\ \A i : (IsTcp(i)' <=> IsTcp(i)) /\ (IsServer(i)' <=> IsServer(i))
                   /\ (Listens(i)' <=> Listens(i))
         /\ Servers' = Servers /\ Conns' = Conns
         /\ \A r : In(r)' = In(r) /\ Out(r)' = Out(r) /\ To(r)' = To(r) /\ From(r)' = From(r)
         /\ \A i, p, f : Serves(i, p, f)' <=> Serves(i, p, f)
         /\ UNCHANGED req => \A i : Asked(i)' <=> Asked(i)
<1>1. \A i : (IsTcp(i)' <=> IsTcp(i)) /\ (IsServer(i)' <=> IsServer(i))
             /\ (Listens(i)' <=> Listens(i))
  BY DEF IsTcp, IsServer, Listens
<1>2. Servers' = Servers /\ Conns' = Conns
  BY <1>1 DEF Servers, Conns
<1>3. \A r : In(r)' = In(r) /\ Out(r)' = Out(r) /\ To(r)' = To(r) /\ From(r)' = From(r)
  BY <1>1 DEF In, Out, To, From
<1>4. \A i, p, f : Serves(i, p, f)' <=> Serves(i, p, f)
  BY <1>1 DEF Serves
<1>5. UNCHANGED req => \A i : Asked(i)' <=> Asked(i)
  BY <1>1 DEF Asked, Wanted
<1> QED BY <1>1, <1>2, <1>3, <1>4, <1>5

\* A socket's table.
LEMMA TableOf == ASSUME IInv, NEW i \in Inode PROVE info[i].file \in 1..6
BY KindFacts DEF IInv, Base

\* Sockets that come and go meanwhile do not matter.
LEMMA CoverKept ==
  ASSUME UNCHANGED <<info, req, k, shown>>, steady' \subseteq steady, present \subseteq present',
         NEW S, Covers(S)
  PROVE  Covers(S)'
<1>1. \A i : (Asked(i)' <=> Asked(i)) /\ (Passed(i)' <=> Passed(i))
  BY Same DEF Passed
<1> QED BY <1>1 DEF Covers

\* A step from one table to the next: it passes no socket of the call that was
\* not read, and goes back behind none.
LEMMA CoverWalk ==
  ASSUME UNCHANGED <<info, req, steady, present>>, NEW S \in SUBSET Inode, Covers(S),
         \A i \in Inode : Passed(i) => Passed(i)',
         \A i \in steady : Asked(i) /\ Passed(i)' => Passed(i)
  PROVE  Covers(S)'
<1>1. \A i : Asked(i)' <=> Asked(i)
  BY Same
<1> QED BY <1>1 DEF Covers

\* A line that is read.
LEMMA CoverRead ==
  ASSUME IInv, Fields, NEW i \in Inode, ReadLine(i), UNCHANGED k, shown' = shown \cup {i},
         NEW S \in SUBSET Inode, Covers(S)
  PROVE  /\ i \notin S
         /\ IF Wanted(i) THEN Covers(S \cup {i})' ELSE Covers(S)'
<1>1. /\ UNCHANGED <<info, req, steady, present>> /\ info[i].file = k /\ i \notin shown
      /\ i \in present /\ Protocol[k] \in Flags(req.call) /\ steady \subseteq Inode
  BY DEF ReadLine, kernVars, ghostVars, IInv, Base
<1>2. \A j : Asked(j)' <=> Asked(j)
  BY <1>1, Same
<1>3. ~Passed(i) /\ \A j \in Inode : Passed(j)' <=> (Passed(j) \/ j = i)
  <2>1. k \in 1..7
    BY DEF IInv, Base
  <2> QED BY <1>1, <2>1, SMTT(60) DEF Passed
<1>4. i \notin S
  BY <1>3 DEF Covers
<1>5. CASE Wanted(i)
  <2>1. Asked(i)
    BY <1>1, <1>5 DEF Asked
  <2>2. Covers(S \cup {i})'
    BY <1>1, <1>2, <1>3, <2>1 DEF Covers
  <2> QED BY <1>4, <1>5, <2>2
<1>6. CASE ~Wanted(i)
  <2>1. ~Asked(i)
    BY <1>6 DEF Asked
  <2>2. Covers(S)'
    BY <1>1, <1>2, <1>3, <2>1 DEF Covers
  <2> QED BY <1>4, <1>6, <2>2
<1> QED BY <1>5, <1>6

\* At the end of the walk.
LEMMA CoverEnd ==
  ASSUME IInv, k > 6, NEW S, Covers(S)
  PROVE  \A i \in steady : Asked(i) => i \in S
<1>1. k = 7 /\ steady \subseteq Inode
  BY SMTT(60) DEF IInv, Base
<1>2. \A i \in steady : Passed(i)
  BY <1>1, TableOf, SMTT(60) DEF Passed
<1> QED BY <1>2 DEF Covers

-----------------------------------------------------------------------------
(* Steps that go on with a call.                                           *)

\* Nothing is counted or listed.
LEMMA KeepStep ==
  ASSUME IInv, CInv, Fields', pc # "idle", pc' # "idle",
         UNCHANGED <<info, net_listen, req, netstat, list, pids, target>>,
         steady' \subseteq steady, present \subseteq present', held \subseteq held',
         target = NULL => \A S \in SUBSET Inode : Covers(S) => Covers(S)',
         \/ conn' = conn
         \/ req.call.op = "listeners" =>
              conn' \in present /\ Serves(conn', target, {"TCP", "UDP"})
  PROVE  CInv'
<1>1. StatCount'
  <2> SUFFICES ASSUME Caches(req.call) PROVE \E S, I, O \in SUBSET Inode : (Covers(S) /\ StatTally(S, I, O))'
    BY DEF StatCount
  <2>1. PICK S \in SUBSET Inode, I \in SUBSET Inode, O \in SUBSET Inode : Covers(S) /\ StatTally(S, I, O)
    BY DEF CInv, StatCount
  <2>2. target = NULL
    BY DEF IInv, Base
  <2>3. Covers(S)'
    BY <2>1, <2>2
  <2>4. StatTally(S, I, O)'
    BY <2>1, Same DEF StatTally, Tally
  <2> QED BY <2>3, <2>4
<1>2. PortCount'
  <2> SUFFICES ASSUME req.call.op = "port"
               PROVE  \E S \in SUBSET Inode :
                        /\ Covers(S)' /\ netstat' = PortTally(S, req.call)'
                        /\ netstat.listen + netstat.other = netstat.all_in + netstat.all_out
    BY DEF PortCount
  <2>1. PICK S \in SUBSET Inode :
          /\ Covers(S) /\ netstat = PortTally(S, req.call)
          /\ netstat.listen + netstat.other = netstat.all_in + netstat.all_out
    BY DEF CInv, PortCount
  <2>2. target = NULL
    BY DEF CInv, Fields
  <2>3. PortTally(S, req.call)' = PortTally(S, req.call)
    BY Same DEF PortTally
  <2> QED BY <2>1, <2>2, <2>3
<1>3. Listing'
  <2> SUFFICES ASSUME req.call.op \in {"list", "listeners"} PROVE Listing'
    BY DEF Listing
  <2>1. /\ \A m, n \in DOMAIN list : list[m] = list[n] => m = n
        /\ target = NULL => Covers(Entries(list)) /\ pids = << >>
        /\ target # NULL =>
             /\ req.call.op = "listeners" /\ Listed(list) /\ Len(pids) < Len(list)
             /\ target = info[list[Len(pids) + 1]].lport
             /\ conn # NULL => conn \in present /\ Serves(conn, target, {"TCP", "UDP"})
        /\ \A n \in 1..Len(pids) : Owns(pids[n], list[n])
    BY DEF CInv, Listing
  <2>2. Entries(list) \in SUBSET Inode
    BY SMTT(60) DEF CInv, Fields, Entries
  <2>3. \A x, j : Owns(x, j) => Owns(x, j)'
    BY Same DEF Owns
  <2>4. Listed(list) => Listed(list)'
    BY Same DEF Listed, Entries
  <2>5. Covers(Entries(list)) /\ target = NULL => Covers(Entries(list))'
    BY <2>2 DEF Entries
  <2>6. target # NULL /\ conn' # NULL =>
          conn' \in present' /\ Serves(conn, target, {"TCP", "UDP"})'
    BY <2>1, Same
  <2> QED BY <2>1, <2>3, <2>4, <2>5, <2>6 DEF Listing
<1>4. Told'
  BY DEF Told, InboundOutbound, PortCounts, ListedOnce, Replied
<1> QED BY <1>1, <1>2, <1>3, <1>4 DEF CInv

-----------------------------------------------------------------------------
(* Replies.                                                                *)

\* Any reply, if what it says is right.
LEMMA ReplyKeeps ==
  ASSUME IInv, CInv, pc # "idle", NEW s, NEW x, Reply(s, x), Rest,
         known' \subseteq Port \X {"inet", "inet6"},
         Told'
  PROVE  CInv'
<1>1. /\ pc' = "idle" /\ k' = 1 /\ shown' = {} /\ netstat' = NoStat /\ target' = NULL
      /\ conn' = NULL /\ list' = << >> /\ pids' = << >> /\ scanned' = {} /\ req' = NULL
  BY DEF Reply, Clear
<1>2. UNCHANGED <<born, present, steady, kept, held, changes, calls, net_listen>>
  BY DEF Rest, kernVars, ghostVars
<1>3. Fields'
  <2>1. list' \in Seq(Inode) /\ pids' \in Seq(Pid \cup {0, NULL}) /\ Len(pids') <= Len(list')
    BY <1>1, SMTT(60)
  <2> QED BY <1>1, <1>2, <2>1 DEF CInv, Fields
<1>4. StatCount' /\ PortCount' /\ Listing'
  BY <1>1 DEF StatCount, PortCount, Listing
<1> QED BY <1>3, <1>4 DEF CInv

\* A reply of another call, or that it failed, says nothing of counts and lists.
LEMMA OtherReply ==
  ASSUME NEW s, NEW x, Reply(s, x),
         s # "OK" \/ req.call.op \notin {"stat", "port", "list", "listeners"}
  PROVE  Told'
<1>1. res'.status = s /\ res'.req = req
  BY DEF Reply
<1>2. ~Replied("stat")' /\ ~Replied("port")' /\ ~Replied("list")' /\ ~Replied("listeners")'
  BY <1>1 DEF Replied
<1> QED BY <1>2 DEF Told, InboundOutbound, PortCounts, ListedOnce

\* The reply of a list.
LEMMA ListReply ==
  ASSUME req.call.op \in {"list", "listeners"}, list \in Seq(Inode),
         \A m, n \in DOMAIN list : list[m] = list[n] => m = n,
         Listed(list), NEW ps, Reply("OK", [list |-> list, pids |-> ps]), Rest,
         req.call.op = "listeners" =>
           Len(ps) = Len(list) /\ \A n \in DOMAIN list : Owns(ps[n], list[n])
  PROVE  Told'
<1>1. res' = [req |-> req, status |-> "OK", val |-> [list |-> list, pids |-> ps]]
  BY DEF Reply
<1>2. /\ res'.req = req /\ res'.val.list = list /\ res'.val.pids = ps
      /\ UNCHANGED <<info, steady, present, held>>
  BY <1>1 DEF Rest, kernVars, ghostVars
<1>3. ~Replied("stat")' /\ ~Replied("port")'
  BY <1>2 DEF Replied
<1> DEFINE f == Flags(req.call)
           Ask(i) == /\ Protocol[info[i].file] \in f
                     /\ (IF IsServer(i) THEN "SERVER" ELSE "CLIENT") \in f
           AskNext(i) == /\ Protocol[info'[i].file] \in f
                         /\ (IF IsServer(i)' THEN "SERVER" ELSE "CLIENT") \in f
<1>4. \A i : (Ask(i) <=> Asked(i)) /\ (AskNext(i) <=> Asked(i))
  BY <1>2, Same DEF Asked, Wanted
<1>5. Cardinality(Entries(list)) = Len(list)
  BY ListCount
<1>6. /\ {i \in steady' : AskNext(i)} \subseteq Entries(list)
      /\ Entries(list) \subseteq {i \in present' : AskNext(i)}
  BY <1>2, <1>4 DEF Listed
<1>7. ASSUME req.call.op = "listeners", NEW n \in DOMAIN list, ps[n] \in Pid \ Alike
      PROVE  \E i \in present' :
               /\ info'[i].lport = info'[list[n]].lport /\ IsServer(i)'
               /\ Protocol[info'[i].file] \in {"TCP", "UDP"} /\ <<i, ps[n]>> \in held'
  <2>1. PICK i \in present :
          Serves(i, info[list[n]].lport, {"TCP", "UDP"}) /\ <<i, ps[n]>> \in held
    BY <1>7 DEF Owns
  <2> QED BY <1>2, <2>1, Same DEF Serves
<1>8. ListedOnce'
  <2> DEFINE r == res'.val
             g == Flags(res'.req.call)
             AskRes(i) == /\ Protocol[info'[i].file] \in g
                          /\ (IF IsServer(i)' THEN "SERVER" ELSE "CLIENT") \in g
             entries == {r.list[n] : n \in DOMAIN r.list}
  <2>1. entries = Entries(list) /\ r.list = list /\ r.pids = ps /\ g = f
    BY <1>2, SMTT(60) DEF Entries
  <2>2. /\ Cardinality(entries) = Len(r.list)
        /\ {i \in steady' : AskRes(i)} \subseteq entries
        /\ entries \subseteq {i \in present' : AskRes(i)}
    BY <1>5, <1>6, <2>1
  <2>3. res'.req.call.op = "listeners" =>
             /\ Len(r.pids) = Len(r.list)
             /\ \A n \in DOMAIN r.list : r.pids[n] \in Pid \ Alike =>
                  \E i \in present' :
                    /\ info'[i].lport = info'[r.list[n]].lport /\ IsServer(i)'
                    /\ Protocol[info'[i].file] \in {"TCP", "UDP"} /\ <<i, r.pids[n]>> \in held'
    BY <1>2, <1>7, <2>1
  <2> QED BY <2>2, <2>3 DEF ListedOnce, Serves
<1> QED BY <1>3, <1>8 DEF Told, InboundOutbound, PortCounts

\* sigar_proc_port_get returns x: the last of the listeners, or one of them.
LEMMA SearchKeeps ==
  ASSUME IInv, CInv, pc # "idle", target # NULL, NEW x \in Pid \cup {0, NULL}, Search(x),
         req.call.op = "listeners" => Owns(x, list[Len(pids) + 1])
  PROVE  CInv'
<1>1. Rest /\ UNCHANGED known /\ known \subseteq Port \X {"inet", "inet6"}
  BY DEF Search, CInv, Fields
<1>2. CASE req.call.op = "pid"
  <2>1. Reply(IF x = NULL THEN "ERR" ELSE "OK", x)
    BY <1>2 DEF Search
  <2> QED BY <1>1, <1>2, <2>1, ReplyKeeps, OtherReply
<1>3. CASE req.call.op = "listeners"
  <2> DEFINE all == Append(pids, x)
  <2>1. /\ \A m, n \in DOMAIN list : list[m] = list[n] => m = n
        /\ Listed(list) /\ Len(pids) < Len(list)
        /\ \A n \in 1..Len(pids) : Owns(pids[n], list[n])
    BY <1>3 DEF CInv, Listing
  <2>2. list \in Seq(Inode) /\ pids \in Seq(Pid \cup {0, NULL})
    BY DEF CInv, Fields
  <2>3. /\ Len(all) = Len(pids) + 1 /\ Len(pids) \in Nat /\ Len(all) \in Nat
        /\ Len(list) \in Nat /\ Len(all) <= Len(list)
    BY <2>1, <2>2, SMTT(60)
  <2>7. /\ all \in Seq(Pid \cup {0, NULL}) /\ DOMAIN list = 1..Len(list)
         /\ all[Len(pids) + 1] = x /\ \A n \in 1..Len(pids) : all[n] = pids[n]
    BY <2>2, SMTT(60)
  <2> HIDE DEF all
  <2>4. \A n \in 1..Len(all) : Owns(all[n], list[n])
    <3> TAKE n \in 1..Len(all)
    <3>1. n \in 1..Len(pids) \/ n = Len(pids) + 1
      BY <2>3, SMTT(60)
    <3> QED BY <1>3, <2>1, <2>3, <2>7, <3>1
  <2>5. CASE Len(all) = Len(list) /\ Reply("OK", [list |-> list, pids |-> all])
    <3>1. Told'
      BY <1>1, <1>3, <2>1, <2>2, <2>3, <2>7, <2>4, <2>5, ListReply
    <3> QED BY <1>1, <2>5, <3>1, ReplyKeeps
  <2>6. CASE Len(all) # Len(list) /\ pids' = all /\ StartSearch(Len(all) + 1)
    <3>1. /\ target' = info[list[Len(all) + 1]].lport /\ pc' = "open"
          /\ k' = 1 /\ shown' = {} /\ conn' = NULL /\ scanned' = {}
          /\ UNCHANGED <<req, netstat, list, res>>
      BY <2>6 DEF StartSearch
    <3>2. UNCHANGED <<info, holds, born, changes, net_listen, calls, steady, present, kept, held>>
      BY <1>1 DEF Rest, kernVars, ghostVars
    <3>3. Len(all) < Len(list) /\ Len(all) + 1 \in 1..Len(list) /\ list[Len(all) + 1] \in Inode
      <4>1. Len(all) < Len(list) /\ Len(all) + 1 \in 1..Len(list)
        BY <2>3, <2>6, SMTT(60)
      <4>2. list[Len(all) + 1] \in Inode
        BY <2>2, <4>1, SMTT(60)
      <4> QED BY <4>1, <4>2
    <3>4. target' \in Port /\ target' # NULL
      BY <3>1, <3>3, KindFacts, NetAssumption, SMTT(60) DEF IInv, Base
    <3>5. Fields'
      <4>1. Len(pids') <= Len(list') /\ pids' \in Seq(Pid \cup {0, NULL})
        BY <2>3, <2>7, <2>6, <3>1
      <4>2. ~Caches(req.call) /\ req.call.op # "port"
        BY <1>3 DEF Caches
      <4> QED BY <1>1, <1>3, <3>1, <3>2, <3>4, <4>1, <4>2 DEF CInv, Fields
    <3>6. StatCount' /\ PortCount'
      BY <1>3, <3>1 DEF StatCount, PortCount, Caches
    <3>7. Listing'
      <4>1. \A n \in 1..Len(pids') : Owns(pids[n], list[n])'
        BY <2>4, <2>6, <3>1, <3>2, Same DEF Owns
      <4>2. Listed(list)'
        BY <2>1, <3>1, <3>2, Same DEF Listed, Entries
      <4>3. target' = info'[list'[Len(pids') + 1]].lport /\ Len(pids') < Len(list')
        BY <2>6, <3>1, <3>2, <3>3
      <4> QED BY <1>3, <2>1, <3>1, <3>4, <4>1, <4>2, <4>3 DEF Listing
    <3>8. Told'
      BY <3>1 DEF Told, InboundOutbound, PortCounts, ListedOnce, Replied
    <3> QED BY <3>5, <3>6, <3>7, <3>8 DEF CInv
  <2> QED BY <1>3, <2>5, <2>6 DEF Search, all
<1> QED BY <1>2, <1>3 DEF Search

\* A failing call.
LEMMA FailKeeps == ASSUME IInv, CInv, pc # "idle", Fails PROVE CInv'
<1>1. CASE target # NULL /\ Search(NULL)
  <2>1. \A j : Owns(NULL, j)
    BY NetAssumption DEF Owns
  <2> QED BY <1>1, <2>1, SearchKeeps
<1>2. CASE Reply("ERR", NULL) /\ UNCHANGED known /\ Rest
  <2>1. known' \subseteq Port \X {"inet", "inet6"}
    BY <1>2 DEF CInv, Fields
  <2>2. Told'
    BY <1>2, OtherReply
  <2> QED BY <1>2, <2>1, <2>2, ReplyKeeps
<1> QED BY <1>1, <1>2 DEF Fails

-----------------------------------------------------------------------------
(* The properties of the counts, with sets.                                *)

Client(i, f) == IsTcp(i) /\ ~IsServer(i) /\ {"TCP", "CLIENT"} \subseteq f
Clients(T, f) == {i \in T : Client(i, f)}
Listeners(T, f) == {i \in T : Listens(i) /\ {"TCP", "SERVER"} \subseteq f}
Knew(T, f, knew) == {i \in T : Client(i, f) /\ \E a \in knew : a[1] = info[i].lport}
Never(T, f) ==
  {i \in T : Client(i, f) /\ \A j \in born : Listens(j) => info[j].lport # info[i].lport}

\* What InboundOutbound says of the counters n of a call with the flags f.
StatOK(n, f, knew) ==
  /\ Cardinality(Clients(steady, f)) <= n.tcp_in + n.tcp_out
  /\ n.tcp_in + n.tcp_out <= Cardinality(Clients(present, f))
  /\ Cardinality(Clients(steady, f)) <= n.other /\ n.other <= Cardinality(Clients(present, f))
  /\ Cardinality(Listeners(steady, f)) <= n.listen
  /\ n.listen <= Cardinality(Listeners(present, f))
  /\ n.tcp_in >= Cardinality(Knew(steady, f, knew))
  /\ n.tcp_out >= Cardinality(Never(steady, f))
  /\ n.all_in = n.tcp_in /\ n.all_out = n.tcp_out

\* The same as the property.
LEMMA StatOKFacts ==
  /\ InboundOutbound
       <=> (Replied("stat") => StatOK(res.val, res.req.call.flags, res.req.knew))
  /\ InboundOutbound'
       <=> (Replied("stat") => StatOK(res.val, res.req.call.flags, res.req.knew))'
<1>1. InboundOutbound
       <=> (Replied("stat") => StatOK(res.val, res.req.call.flags, res.req.knew))
  BY DEF InboundOutbound, Between, StatOK, Client, Clients, Listeners, Knew, Never
<1>2. InboundOutbound'
       <=> (Replied("stat") => StatOK(res.val, res.req.call.flags, res.req.knew))'
  BY DEF InboundOutbound, Between, StatOK, Client, Clients, Listeners, Knew, Never
<1> QED BY <1>1, <1>2

-----------------------------------------------------------------------------
(* The actions.                                                            *)

\* An open handle.
LEMMA InitCounts == Init => CInv
<1> SUFFICES ASSUME Init PROVE CInv
  OBVIOUS
<1>1. /\ pc = "idle" /\ res = NULL /\ req = NULL /\ shown = {} /\ netstat = NoStat
      /\ target = NULL /\ conn = NULL /\ list = << >> /\ pids = << >> /\ scanned = {}
      /\ steady = {} /\ present = {} /\ kept = {} /\ held = {} /\ known = {}
      /\ net_listen = [p \in Port |-> NULL] /\ changes = 0 /\ calls = 0
  BY DEF Init
<1>2. Fields
  <2>1. born \subseteq Inode
    BY DEF Init
  <2>2. list \in Seq(Inode) /\ pids \in Seq(Pid \cup {0, NULL}) /\ Len(pids) <= Len(list)
    BY <1>1, SMTT(60)
  <2>3. changes \in 0..MaxChanges /\ calls \in 0..MaxCalls
    BY <1>1, NetAssumption, SMTT(60)
  <2>4. net_listen \in [Port -> {NULL} \cup {s.laddr : s \in Kind}]
    BY <1>1, SMTT(60)
  <2> QED BY <1>1, <2>1, <2>2, <2>3, <2>4 DEF Fields
<1>3. StatCount /\ PortCount /\ Listing
  BY <1>1 DEF StatCount, PortCount, Listing
<1>4. Told
  BY <1>1 DEF Told, InboundOutbound, PortCounts, ListedOnce, Replied
<1> QED BY <1>2, <1>3, <1>4 DEF CInv

\* Sockets come and go.  A reply that was given stays right: a port that begins
\* to listen later only makes fewer connections certainly outbound.
LEMMA KernelKeeps ==
  ASSUME IInv, CInv, NEW i \in Inode, NEW p \in Pid,
         OpenSocket(i, p) \/ ShareSocket(i, p) \/ CloseSocket(i, p)
  PROVE  CInv'
<1>0. born' \in {born, born \cup {i}} /\ (i \in Alive \/ i \in born')
  BY SMTT(60) DEF OpenSocket, ShareSocket, CloseSocket, Alive
<1>1. PICK h : Change(h) /\ h \subseteq holds \cup {<<i, p>>}
  BY SMTT(60) DEF OpenSocket, ShareSocket, CloseSocket
<1>2. /\ UNCHANGED <<info, net_listen, req, pc, k, shown, netstat, target, conn, list, pids,
                     scanned, res, calls, known>>
      /\ changes < MaxChanges /\ changes' = changes + 1 /\ holds' = h
      /\ IF pc = "idle" THEN UNCHANGED ghostVars
         ELSE /\ steady' = steady \cap Alive' /\ present' = present \cup Alive'
              /\ kept' = kept \cap h /\ held' = held \cup h
  BY <1>1 DEF Change, walkVars
<1>3. /\ h \subseteq Inode \X Pid /\ born \subseteq born' /\ born' \subseteq Inode
      /\ Alive' \subseteq born' /\ steady \subseteq present
  <2>1. holds \subseteq Inode \X Pid /\ Alive \subseteq born /\ born \subseteq Inode
    BY DEF IInv, Base, CInv, Fields
  <2>2. Alive' \subseteq Alive \cup {i}
    BY <1>1, <1>2 DEF Alive
  <2> QED BY <1>0, <1>1, <2>1, <2>2, SMTT(60) DEF CInv, Fields
<1>4. steady' \subseteq steady /\ present \subseteq present' /\ held \subseteq held'
  BY <1>2 DEF ghostVars
<1>5. Fields'
  <2>1. changes' \in 0..MaxChanges
    BY <1>2, NetAssumption, BelowNext, Zenon DEF CInv, Fields
  <2>2. /\ present' \subseteq born' /\ steady' \subseteq present'
        /\ kept' \subseteq held' /\ held' \subseteq Inode \X Pid
    <3>1. /\ present \subseteq born /\ steady \subseteq present /\ kept \subseteq held
          /\ held \subseteq Inode \X Pid
      BY DEF CInv, Fields
    <3>2. CASE pc = "idle"
      BY <1>2, <1>3, <3>1, <3>2 DEF ghostVars
    <3>3. CASE pc # "idle"
      BY <1>2, <1>3, <3>1, <3>3
    <3> QED BY <3>2, <3>3
  <2> QED BY <1>2, <1>3, <2>1, <2>2 DEF CInv, Fields
<1>6. CASE pc # "idle"
  <2>1. \A S \in SUBSET Inode : Covers(S) => Covers(S)'
    BY <1>2, <1>4, CoverKept
  <2> QED BY <1>2, <1>4, <1>5, <1>6, <2>1, KeepStep
<1>7. CASE pc = "idle"
  <2>1. UNCHANGED <<steady, present, held>>
    BY <1>2, <1>7 DEF ghostVars
  <2>2. StatCount' /\ PortCount' /\ Listing'
    BY <1>2, <1>7 DEF StatCount, PortCount, Listing
  <2>3. PortCounts' /\ ListedOnce'
    BY <1>2, <2>1, Same DEF CInv, Told, PortCounts, ListedOnce, Replied, Between
  <2>4. InboundOutbound'
    <3>1. SUFFICES ASSUME Replied("stat")'
                   PROVE  StatOK(res.val, res.req.call.flags, res.req.knew)'
      BY StatOKFacts
    <3>2. PICK n, f, knew : n = res.val /\ f = res.req.call.flags /\ knew = res.req.knew
      OBVIOUS
    <3>3. StatOK(n, f, knew)
      BY <1>2, <3>1, <3>2, StatOKFacts DEF CInv, Told, Replied
    <3>4. /\ \A T : Clients(T, f)' = Clients(T, f) /\ Listeners(T, f)' = Listeners(T, f)
          /\ Knew(steady, f, knew)' = Knew(steady, f, knew)
      BY <1>2, <2>1, Same DEF Client, Clients, Listeners, Knew
    <3>5. Never(steady, f)' \subseteq Never(steady, f) /\ Never(steady, f) \in SUBSET Inode
      BY <1>2, <1>3, <2>1, Same DEF Client, Never, IInv, Base
    <3>6. n.tcp_out >= Cardinality(Never(steady, f)')
      <4> DEFINE a == Cardinality(Never(steady, f)')
                 b == Cardinality(Never(steady, f))
      <4>1. a <= b /\ a \in Nat /\ b \in Nat
        BY <3>5, CountFacts
      <4>2. n.tcp_out >= b
        BY <3>3 DEF StatOK
      <4>3. n.tcp_out \in Nat
        BY <1>2, <3>1, <3>2 DEF CInv, Told, Replied
      <4> QED BY <4>1, <4>2, <4>3, SMTT(60)
    <3>7. StatOK(n, f, knew)'
      BY <2>1, <3>3, <3>4, <3>6 DEF StatOK
    <3> QED BY <1>2, <3>2, <3>7
  <2>5. (Replied("stat") => res.val.tcp_out \in Nat)'
    BY <1>2 DEF CInv, Told, Replied
  <2> QED BY <1>5, <2>2, <2>3, <2>4, <2>5 DEF CInv, Told
<1> QED BY <1>6, <1>7

\* A call begins: nothing is read yet.
LEMMA BeginKeeps == ASSUME IInv, CInv, NEW r \in Request, Begin(r) PROVE CInv'
<1>1. /\ UNCHANGED <<info, holds, born, changes, net_listen, known, Alive>>
      /\ steady' = Alive /\ present' = Alive /\ kept' = holds /\ held' = holds
      /\ pc = "idle" /\ UNCHANGED <<k, shown, netstat, conn, list, pids, scanned>>
  BY DEF Begin, kernVars, walkVars, Alive
<1>2. /\ k = 1 /\ shown = {} /\ conn = NULL /\ netstat = NoStat /\ list = << >> /\ pids = << >>
      /\ req = NULL /\ target = NULL /\ Alive \subseteq born /\ born \subseteq Inode
      /\ holds \subseteq Inode \X Pid
  BY <1>1 DEF IInv, Base, CInv, Fields
<1>3. calls' \in 0..MaxCalls
  BY NetAssumption, SMTT(60) DEF Begin, CInv, Fields
<1>4. CASE /\ r.op = "address" /\ UNCHANGED <<pc, req, walkVars>>
           /\ res' = [req |-> [call |-> r, knew |-> known], status |-> "OK",
                      val |-> net_listen[r.port]]
  <2>1. Fields'
    BY <1>1, <1>2, <1>3, <1>4 DEF CInv, Fields, walkVars
  <2>2. StatCount' /\ PortCount' /\ Listing'
    BY <1>1, <1>4 DEF StatCount, PortCount, Listing
  <2>3. res'.req.call.op = "address"
    BY <1>4
  <2>4. Told'
    BY <2>3 DEF Told, InboundOutbound, PortCounts, ListedOnce, Replied
  <2> QED BY <2>1, <2>2, <2>4 DEF CInv
<1>5. CASE /\ res' = NULL /\ pc' = "open" /\ req' = [call |-> r, knew |-> known]
           /\ target' = IF r.op = "pid" THEN r.port ELSE NULL
  <2>1. req'.call = r /\ req'.knew = known
    BY <1>5
  <2>2. Fields'
    <3>1. target' \in Port \cup {NULL} /\ (r.op \notin {"pid", "listeners"} => target' = NULL)
      BY <1>5, NetAssumption
    <3> QED BY <1>1, <1>2, <1>3, <1>5, <2>1, <3>1 DEF CInv, Fields
  <2>3. Covers({})'
    <3>1. \A i \in steady' : ~(info'[i].file < k')
      <4>1. \A i \in Inode : info[i].file \in 1..6
        BY TableOf
      <4> QED BY <1>1, <1>2, <4>1, SMTT(60)
    <3> QED BY <1>1, <1>2, <3>1 DEF Covers, Passed
  <2>4. \A A : Cardinality({} \cap A) = 0
    <3>1. \A A : {} \cap A = {}
      OBVIOUS
    <3> QED BY <3>1, FS_EmptySet
  <2>5. Cardinality({}) = 0 /\ 0 + 0 = 0
    BY FS_EmptySet, SMTT(60)
  <2>6. StatCount'
    <3>1. netstat' = Tally({}, {}, {})'
      BY <1>1, <1>2, <2>4, <2>5 DEF Tally, Counters, NoStat
    <3>2. StatTally({}, {}, {})'
      BY <2>4, <2>5, <3>1 DEF StatTally
    <3> QED BY <2>3, <3>2 DEF StatCount
  <2>7. PortCount'
    <3>1. netstat' = PortTally({}, r)'
      BY <1>1, <1>2, <2>4 DEF PortTally, Counters, NoStat
    <3>2. (netstat.listen + netstat.other = netstat.all_in + netstat.all_out)'
      BY <1>1, <1>2 DEF NoStat
    <3> QED BY <2>1, <2>3, <3>1, <3>2 DEF PortCount
  <2>8. Listing'
    <3>1. Entries(<< >>) = {} /\ 1..Len(<< >>) = {} /\ DOMAIN << >> = {}
      BY SMTT(60) DEF Entries
    <3>2. list' = << >> /\ pids' = << >>
      BY <1>1, <1>2
    <3>3. Entries(list)' = {}
      BY <3>1, <3>2 DEF Entries
    <3>4. req'.call.op \in {"list", "listeners"} => target' = NULL
      BY <1>5, <2>1
    <3> QED BY <2>3, <3>1, <3>2, <3>3, <3>4 DEF Listing
  <2>9. Told'
    BY <1>5 DEF Told, InboundOutbound, PortCounts, ListedOnce, Replied
  <2> QED BY <2>2, <2>6, <2>7, <2>8, <2>9 DEF CInv
<1> QED BY <1>4, <1>5 DEF Begin

\* From one table to the next.
LEMMA WalkKeeps ==
  ASSUME IInv, CInv, pc \in {"open", "read"}, pc' \in {"open", "read"}, Walking,
         shown' \subseteq Inode, pc' # "read" => shown' = {},
         \A i \in Inode : Passed(i) => Passed(i)',
         \A i \in steady : Asked(i) /\ Passed(i)' => Passed(i)
  PROVE  CInv'
<1>1. /\ UNCHANGED <<info, holds, born, changes, net_listen, req, netstat, target, conn, list,
                     pids, scanned, res, calls, steady, present, kept, held, known>>
      /\ pc # "idle" /\ pc' # "idle"
  BY DEF Walking, Rest, kernVars, ghostVars
<1>2. Fields'
  BY <1>1 DEF CInv, Fields
<1>3. \A S \in SUBSET Inode : Covers(S) => Covers(S)'
  BY <1>1, CoverWalk
<1> QED BY <1>1, <1>2, <1>3, KeepStep

\* The tables of a protocol that is not asked for.
LEMMA SkipKeeps == ASSUME IInv, CInv, SkipTable PROVE CInv'
<1>1. /\ pc = "open" /\ pc' = "open" /\ k' = k + 2 /\ shown' = shown /\ shown = {} /\ Walking
      /\ k <= 6 /\ Protocol[k] \notin Flags(req.call)
  BY DEF SkipTable, CInv, Fields
<1>2. k \in {1, 3, 5} /\ Protocol[k + 1] = Protocol[k]
  BY <1>1, Protocols, SMTT(60) DEF IInv, Base
<1>3. info' = info
  BY <1>1 DEF Walking, Rest, kernVars
<1>4. \A i \in Inode : Passed(i) => Passed(i)'
  BY <1>1, <1>2, <1>3, TableOf, SMTT(60) DEF Passed
<1>5. ASSUME NEW i \in steady, Asked(i), Passed(i)' PROVE Passed(i)
  <2>1. i \in Inode /\ info[i].file # k /\ info[i].file # k + 1
    BY <1>1, <1>2, <1>5 DEF Asked, IInv, Base
  <2>2. info[i].file < k + 2 /\ info[i].file \in 1..6
    BY <1>1, <1>3, <1>5, <2>1, TableOf DEF Passed
  <2> QED BY <1>2, <2>1, <2>2, SMTT(60) DEF Passed
<1>6. shown' \subseteq Inode /\ shown' = {}
  BY <1>1
<1> QED BY <1>1, <1>4, <1>5, <1>6, WalkKeeps

\* A table is opened, is not there, or cannot be read.
LEMMA OpenKeeps == ASSUME IInv, CInv, OpenTable PROVE CInv'
<1>1. pc = "open" /\ shown = {} /\ k \in 1..7
  BY DEF OpenTable, CInv, Fields, IInv, Base
<1>2. CASE pc' = "read" /\ UNCHANGED <<k, shown>> /\ Walking
  <2>1. \A i : Passed(i)' <=> Passed(i)
    BY <1>2 DEF Passed, Walking, Rest, kernVars
  <2> QED BY <1>1, <1>2, <2>1, WalkKeeps
<1>3. CASE /\ \A i \in Inode : info[i].file # k
           /\ k' = k + 1 /\ UNCHANGED <<pc, shown>> /\ Walking
  <2>1. info' = info /\ steady \subseteq Inode
    BY <1>3 DEF Walking, Rest, kernVars, IInv, Base
  <2>2. \A i \in Inode : Passed(i)' <=> Passed(i)
    BY <1>1, <1>3, <2>1, TableOf, SMTT(60) DEF Passed
  <2> QED BY <1>1, <1>3, <2>1, <2>2, WalkKeeps
<1>4. CASE Fails
  BY <1>1, <1>4, FailKeeps
<1> QED BY <1>2, <1>3, <1>4 DEF OpenTable

\* A table has been read.
LEMMA CloseKeeps == ASSUME IInv, CInv, CloseTable PROVE CInv'
<1>1. /\ pc = "read" /\ pc' = "open" /\ k' = k + 1 /\ shown' = {} /\ Walking /\ k \in 1..7
      /\ \A i \in steady : info[i].file = k => i \in shown
  BY DEF CloseTable, IInv, Base
<1>2. info' = info /\ steady \subseteq Inode
  BY <1>1 DEF Walking, Rest, kernVars, IInv, Base
<1>3. \A i \in Inode : Passed(i) => Passed(i)'
  BY <1>1, <1>2, TableOf, SMTT(60) DEF Passed
<1>4. \A i \in steady : Passed(i)' => Passed(i)
  BY <1>1, <1>2, TableOf, SMTT(60) DEF Passed
<1> QED BY <1>1, <1>3, <1>4, WalkKeeps

-----------------------------------------------------------------------------
(* A line is read.                                                         *)

\* What every line leaves as it is.
LEMMA ReadFacts ==
  ASSUME IInv, CInv, NEW i \in Inode, ReadLine(i)
  PROVE  /\ UNCHANGED <<info, holds, born, changes, req, target, pids, scanned, res, calls,
                        steady, present, kept, held, known>>
         /\ pc = "read" /\ i \in present /\ i \in born /\ info[i].file = k
         /\ info[i] \in Kind /\ info[i].lport \in Port /\ k \in 1..6
         /\ Protocol[k] \in Flags(req.call) /\ res = NULL
<1>1. /\ UNCHANGED <<info, holds, born, changes, req, target, pids, scanned, res, calls,
                     steady, present, kept, held, known>>
      /\ pc = "read" /\ i \in Alive /\ info[i].file = k
  BY DEF ReadLine, kernVars, ghostVars
<1>2. /\ Alive \subseteq present /\ Alive \subseteq born /\ k \in 1..7 /\ k <= 6 /\ res = NULL
      /\ Protocol[k] \in Flags(req.call) /\ info \in [Inode -> Kind]
  BY <1>1 DEF IInv, Base
<1>3. info[i] \in Kind
  BY <1>2
<1>4. info[i].lport \in Port
  BY <1>3, KindFacts
<1>5. k \in 1..6
  BY <1>2, SMTT(60)
<1> QED BY <1>1, <1>2, <1>3, <1>4, <1>5

\* A reply is not due: none says anything.
LEMMA NotTold == ASSUME pc' # "idle" PROVE Told'
BY DEF Told, InboundOutbound, PortCounts, ListedOnce, Replied

\* A line of a kind the flags do not ask for.
LEMMA SkipLine == ASSUME IInv, CInv, NEW i \in Inode, ReadLine(i), ~Wanted(i) PROVE CInv'
<1>1. shown' = shown \cup {i} /\ UNCHANGED <<pc, k, conn, list, netstat, net_listen>>
  BY DEF ReadLine
<1>2. Fields'
  BY <1>1, ReadFacts DEF CInv, Fields
<1>3. \A S \in SUBSET Inode : Covers(S) => Covers(S)'
  BY <1>1, CoverRead DEF CInv
<1> QED BY <1>1, <1>2, <1>3, ReadFacts, KeepStep

Inbound(i) == IsTcp(i) /\ ~IsServer(i) /\ net_listen[info[i].lport] # NULL
Outbound(i) == IsTcp(i) /\ ~IsServer(i) /\ net_listen[info[i].lport] = NULL

\* The counters of an inbound connection.
LEMMA CountInbound ==
  ASSUME NEW i, Inbound(i), NEW a \in Nat, NEW b \in Nat, NEW c \in Nat, NEW d \in Nat,
         netstat = Counters(a, b, c, d, c, d)
  PROVE  net_stat_walker(i) = Counters(a, b + 1, c + 1, d, c + 1, d)
<1>1. PICK n1 : n1 = [netstat EXCEPT !.other = netstat.other + 1]
  OBVIOUS
<1>2. PICK n2 : n2 = [n1 EXCEPT !.tcp_in = netstat.tcp_in + 1]
  OBVIOUS
<1>3. PICK n3 : n3 = [n2 EXCEPT !.all_in = netstat.all_in + 1]
  OBVIOUS
<1>4. net_stat_walker(i) = n3
  BY <1>1, <1>2, <1>3 DEF net_stat_walker, Listens, Inbound
<1>5. n1 = Counters(a, b + 1, c, d, c, d)
  BY <1>1, SMTT(60) DEF Counters
<1>6. n2 = Counters(a, b + 1, c + 1, d, c, d)
  BY <1>2, <1>5, SMTT(60) DEF Counters
<1>7. n3 = Counters(a, b + 1, c + 1, d, c + 1, d)
  BY <1>3, <1>6, SMTT(60) DEF Counters
<1> QED BY <1>4, <1>7

\* The counters of an outbound connection.
LEMMA CountOutbound ==
  ASSUME NEW i, Outbound(i), NEW a \in Nat, NEW b \in Nat, NEW c \in Nat, NEW d \in Nat,
         netstat = Counters(a, b, c, d, c, d)
  PROVE  net_stat_walker(i) = Counters(a, b + 1, c, d + 1, c, d + 1)
<1>1. PICK n1 : n1 = [netstat EXCEPT !.other = netstat.other + 1]
  OBVIOUS
<1>2. PICK n2 : n2 = [n1 EXCEPT !.tcp_out = netstat.tcp_out + 1]
  OBVIOUS
<1>3. PICK n3 : n3 = [n2 EXCEPT !.all_out = netstat.all_out + 1]
  OBVIOUS
<1>4. net_stat_walker(i) = n3
  BY <1>1, <1>2, <1>3 DEF net_stat_walker, Listens, Outbound
<1>5. n1 = Counters(a, b + 1, c, d, c, d)
  BY <1>1, SMTT(60) DEF Counters
<1>6. n2 = Counters(a, b + 1, c, d + 1, c, d)
  BY <1>2, <1>5, SMTT(60) DEF Counters
<1>7. n3 = Counters(a, b + 1, c, d + 1, c, d + 1)
  BY <1>3, <1>6, SMTT(60) DEF Counters
<1> QED BY <1>4, <1>7

\* What net_stat_walker adds.
LEMMA WalkerAdds ==
  ASSUME NEW i, NEW S \in SUBSET Inode, NEW I \in SUBSET Inode, NEW O \in SUBSET Inode,
         netstat = Tally(S, I, O)
  PROVE  net_stat_walker(i) =
           Counters(Cardinality(S \cap Servers) + One(Listens(i)),
                    Cardinality(S \cap Conns) + One(Inbound(i) \/ Outbound(i)),
                    Cardinality(I) + One(Inbound(i)), Cardinality(O) + One(Outbound(i)),
                    Cardinality(I) + One(Inbound(i)), Cardinality(O) + One(Outbound(i)))
<1>1. PICK a, b, c, d : /\ a = Cardinality(S \cap Servers) /\ b = Cardinality(S \cap Conns)
                        /\ c = Cardinality(I) /\ d = Cardinality(O)
  OBVIOUS
<1>2. a \in Nat /\ b \in Nat /\ c \in Nat /\ d \in Nat
  <2>1. S \cap Servers \in SUBSET Inode /\ S \cap Conns \in SUBSET Inode
    OBVIOUS
  <2> QED BY <1>1, <2>1, CountFacts
<1>3. a + 0 = a /\ b + 0 = b /\ c + 0 = c /\ d + 0 = d
  BY <1>2, SMTT(60)
<1>4. netstat = Counters(a, b, c, d, c, d)
  BY <1>1 DEF Tally
<1>5. CASE ~IsTcp(i)
  <2>1. One(Listens(i)) = 0 /\ One(Inbound(i) \/ Outbound(i)) = 0
        /\ One(Inbound(i)) = 0 /\ One(Outbound(i)) = 0
    BY <1>5 DEF Listens, Inbound, Outbound, One
  <2>2. net_stat_walker(i) = netstat
    BY <1>5 DEF net_stat_walker
  <2> QED BY <1>1, <1>3, <1>4, <2>1, <2>2
<1>6. CASE Listens(i)
  <2>1. One(Listens(i)) = 1 /\ One(Inbound(i) \/ Outbound(i)) = 0
        /\ One(Inbound(i)) = 0 /\ One(Outbound(i)) = 0
    BY <1>6 DEF Listens, Inbound, Outbound, One
  <2>2. net_stat_walker(i) = [netstat EXCEPT !.listen = @ + 1]
    BY <1>6 DEF net_stat_walker, Listens
  <2>3. [netstat EXCEPT !.listen = @ + 1] =
          Counters(a + 1, b, c, d, c, d)
    BY <1>2, <1>4, SMTT(60) DEF Counters
  <2> QED BY <1>1, <1>3, <2>1, <2>2, <2>3
<1>7. CASE Inbound(i)
  <2>1. One(Listens(i)) = 0 /\ One(Inbound(i) \/ Outbound(i)) = 1
        /\ One(Inbound(i)) = 1 /\ One(Outbound(i)) = 0
    BY <1>7 DEF Listens, Inbound, Outbound, One
  <2>2. net_stat_walker(i) = Counters(a, b + 1, c + 1, d, c + 1, d)
    BY <1>2, <1>4, <1>7, CountInbound
  <2> QED BY <1>1, <1>3, <2>1, <2>2
<1>8. CASE Outbound(i)
  <2>1. One(Listens(i)) = 0 /\ One(Inbound(i) \/ Outbound(i)) = 1
        /\ One(Inbound(i)) = 0 /\ One(Outbound(i)) = 1
    BY <1>8 DEF Listens, Inbound, Outbound, One
  <2>2. net_stat_walker(i) = Counters(a, b + 1, c, d + 1, c, d + 1)
    BY <1>2, <1>4, <1>8, CountOutbound, SMTT(60)
  <2> QED BY <1>1, <1>3, <2>1, <2>2
<1> QED BY <1>5, <1>6, <1>7, <1>8 DEF Listens, Inbound, Outbound

\* A line for sigar_net_stat_get, or for the cache.
LEMMA StatLine ==
  ASSUME IInv, CInv, NEW i \in Inode, ReadLine(i), Wanted(i), Caches(req.call),
         netstat' = net_stat_walker(i),
         net_listen' = IF Listens(i) THEN listen_address_add(i) ELSE net_listen,
         shown' = shown \cup {i}, UNCHANGED <<pc, k, conn, list>>
  PROVE  CInv'
<1>1. /\ net_listen' \in [Port -> {NULL} \cup {s.laddr : s \in Kind}]
      /\ \A p \in Port : net_listen[p] # NULL => net_listen'[p] # NULL
  <2>1. /\ net_listen \in [Port -> {NULL} \cup {s.laddr : s \in Kind}]
        /\ info[i].lport \in Port /\ info[i].laddr \in {s.laddr : s \in Kind}
        /\ info[i].laddr # NULL
    <3>1. info[i] \in Kind /\ info[i].lport \in Port
      BY ReadFacts
    <3>2. info[i].laddr \in Addr
      BY <3>1, KindFacts
    <3> QED BY <3>1, <3>2, NetAssumption DEF CInv, Fields, Addr
  <2>2. net_listen' = net_listen \/ net_listen' = [net_listen EXCEPT ![info[i].lport] = info[i].laddr]
    BY DEF listen_address_add
  <2>3. PICK q, x, V : q = info[i].lport /\ x = info[i].laddr /\ V = {NULL} \cup {s.laddr : s \in Kind}
    OBVIOUS
  <2>4. ASSUME net_listen' = [net_listen EXCEPT ![q] = x]
        PROVE  net_listen' \in [Port -> V] /\ \A p \in Port : net_listen[p] # NULL => net_listen'[p] # NULL
    <3>1. net_listen \in [Port -> V] /\ q \in Port /\ x \in V /\ x # NULL
      BY <2>1, <2>3
    <3> QED BY <2>4, <3>1
  <2> QED BY <2>1, <2>2, <2>3, <2>4
<1>2. Fields'
  BY <1>1, ReadFacts DEF CInv, Fields
<1>3. StatCount'
  <2>1. PICK S \in SUBSET Inode, I \in SUBSET Inode, O \in SUBSET Inode :
          Covers(S) /\ StatTally(S, I, O)
    BY ReadFacts DEF CInv, StatCount
  <2>2. i \notin S /\ Covers(S \cup {i})'
    BY <2>1, CoverRead DEF CInv
  <2>3. Inbound(i) \/ Outbound(i) <=> IsTcp(i) /\ ~IsServer(i)
    BY DEF Inbound, Outbound
  <2>4. PICK I1, O1 : /\ I1 = (IF Inbound(i) THEN I \cup {i} ELSE I)
                      /\ O1 = (IF Outbound(i) THEN O \cup {i} ELSE O)
    OBVIOUS
  <2>5. /\ I \cup O = S \cap Conns /\ Cardinality(S \cap Conns) = Cardinality(I) + Cardinality(O)
        /\ \A j \in I : net_listen[info[j].lport] # NULL
        /\ \A j \in O : \A a \in req.knew : a[1] # info[j].lport
        /\ netstat = Tally(S, I, O)
    BY <2>1 DEF StatTally
  <2>6. /\ i \notin I /\ i \notin O /\ ~(Inbound(i) /\ Outbound(i))
        /\ (i \in Conns <=> Inbound(i) \/ Outbound(i)) /\ (i \in Servers <=> Listens(i))
    BY <2>2, <2>3, <2>5 DEF Conns, Servers, Inbound, Outbound
  <2>7. /\ Cardinality(S \cap Servers) \in Nat /\ Cardinality(S \cap Conns) \in Nat
        /\ IsFiniteSet(I) /\ Cardinality(I) \in Nat /\ IsFiniteSet(O) /\ Cardinality(O) \in Nat
    <3>1. S \cap Servers \in SUBSET Inode /\ S \cap Conns \in SUBSET Inode
      OBVIOUS
    <3> QED BY <3>1, CountFacts
  <2>8. /\ Cardinality((S \cup {i}) \cap Servers) = Cardinality(S \cap Servers) + One(Listens(i))
        /\ Cardinality((S \cup {i}) \cap Conns) = Cardinality(S \cap Conns) + One(Inbound(i) \/ Outbound(i))
    <3>1. /\ Cardinality((S \cup {i}) \cap Servers) = Cardinality(S \cap Servers) + One(i \in Servers)
          /\ Cardinality((S \cup {i}) \cap Conns) = Cardinality(S \cap Conns) + One(i \in Conns)
      BY <2>2, CountAdd
    <3> QED BY <2>6, <3>1 DEF One
  <2>9. /\ Cardinality(I1) = Cardinality(I) + One(Inbound(i))
        /\ Cardinality(O1) = Cardinality(O) + One(Outbound(i))
    <3>1. /\ Cardinality(I \cup {i}) = Cardinality(I) + 1
          /\ Cardinality(O \cup {i}) = Cardinality(O) + 1
      BY <2>6, <2>7, FS_AddElement
    <3>2. Cardinality(I) + 0 = Cardinality(I) /\ Cardinality(O) + 0 = Cardinality(O)
      BY <2>7, SumNext
    <3> QED BY <2>4, <3>1, <3>2 DEF One
  <2>10. netstat' = Tally(S \cup {i}, I1, O1)
    <3>1. net_stat_walker(i) =
           Counters(Cardinality(S \cap Servers) + One(Listens(i)),
                    Cardinality(S \cap Conns) + One(Inbound(i) \/ Outbound(i)),
                    Cardinality(I) + One(Inbound(i)), Cardinality(O) + One(Outbound(i)),
                    Cardinality(I) + One(Inbound(i)), Cardinality(O) + One(Outbound(i)))
      BY <2>5, WalkerAdds
    <3> QED BY <2>8, <2>9, <3>1 DEF Tally
  <2>11. I1 \in SUBSET Inode /\ O1 \in SUBSET Inode /\ I1 \cup O1 = (S \cup {i}) \cap Conns
    BY <2>4, <2>5, <2>6
  <2>12. Cardinality((S \cup {i}) \cap Conns) = Cardinality(I1) + Cardinality(O1)
    <3>1. PICK x, y : x = Cardinality(I) /\ y = Cardinality(O)
      OBVIOUS
    <3>2. x \in Nat /\ y \in Nat /\ Cardinality(S \cap Conns) = x + y
      BY <2>5, <2>7, <3>1
    <3>3. ~(Inbound(i) /\ Outbound(i))
      BY DEF Inbound, Outbound
    <3>4. CASE Inbound(i)
      <4>1. /\ One(Inbound(i)) = 1 /\ One(Outbound(i)) = 0
            /\ One(Inbound(i) \/ Outbound(i)) = 1 /\ y + 0 = y
        BY <3>2, <3>3, <3>4, SumNext DEF One
      <4>2. /\ Cardinality((S \cup {i}) \cap Conns) = (x + y) + 1
            /\ Cardinality(I1) = x + 1 /\ Cardinality(O1) = y
        BY <2>8, <2>9, <3>1, <3>2, <4>1
      <4>3. (x + y) + 1 = (x + 1) + y
        BY <3>2, SumNext
      <4> QED BY <4>2, <4>3
    <3>5. CASE Outbound(i)
      <4>1. /\ One(Inbound(i)) = 0 /\ One(Outbound(i)) = 1
            /\ One(Inbound(i) \/ Outbound(i)) = 1 /\ x + 0 = x
        BY <3>2, <3>3, <3>5, SumNext DEF One
      <4>2. /\ Cardinality((S \cup {i}) \cap Conns) = (x + y) + 1
            /\ Cardinality(I1) = x /\ Cardinality(O1) = y + 1
        BY <2>8, <2>9, <3>1, <3>2, <4>1
      <4>3. (x + y) + 1 = x + (y + 1)
        BY <3>2, SumNext
      <4> QED BY <4>2, <4>3
    <3>6. CASE ~Inbound(i) /\ ~Outbound(i)
      <4>1. /\ One(Inbound(i)) = 0 /\ One(Outbound(i)) = 0
            /\ One(Inbound(i) \/ Outbound(i)) = 0
        BY <3>6 DEF One
      <4>2. /\ Cardinality((S \cup {i}) \cap Conns) = (x + y) + 0
            /\ Cardinality(I1) = x + 0 /\ Cardinality(O1) = y + 0
        BY <2>8, <2>9, <3>1, <3>2, <4>1
      <4>3. (x + y) + 0 = (x + 0) + (y + 0)
        BY <3>2, SumNext
      <4> QED BY <4>2, <4>3
    <3> QED BY <3>4, <3>5, <3>6
  <2>13. \A j \in I1 : net_listen'[info[j].lport] # NULL
    <3>1. \A j \in Inode : info[j].lport \in Port
      BY KindFacts DEF IInv, Base
    <3>2. CASE Listens(i)
      BY <1>1, <2>4, <2>5, <2>11, <3>1, <3>2 DEF Inbound, Listens
    <3> QED BY <2>4, <2>5, <3>2 DEF Inbound
  <2>14. \A j \in O1 : \A a \in req.knew : a[1] # info[j].lport
    <3>1. req.knew \subseteq known
      BY ReadFacts DEF CInv, Fields
    <3>2. \A a \in req.knew : net_listen[a[1]] # NULL
      BY <3>1 DEF IInv, Complete
    <3> QED BY <2>4, <2>5, <3>2 DEF Outbound
  <2>15. StatTally(S \cup {i}, I1, O1)'
    BY <2>10, <2>11, <2>12, <2>13, <2>14, ReadFacts, Same DEF StatTally, Tally
  <2> QED BY <2>2, <2>11, <2>15 DEF StatCount
<1>4. PortCount' /\ Listing'
  BY ReadFacts DEF Caches, PortCount, Listing
<1> QED BY <1>2, <1>3, <1>4, ReadFacts, NotTold DEF CInv

\* What net_stat_port_walker adds.
LEMMA PortWalkerAdds ==
  ASSUME NEW i \in Inode, NEW S \in SUBSET Inode, NEW r, r = req.call, netstat = PortTally(S, r)
  PROVE  net_stat_port_walker(i) =
           Counters(Cardinality(S \cap ((In(r) \cup Out(r)) \cap Servers))
                      + One(i \in (In(r) \cup Out(r)) \cap Servers),
                    Cardinality(S \cap ((In(r) \cup Out(r)) \ Servers))
                      + One(i \in (In(r) \cup Out(r)) \ Servers),
                    Cardinality(S \cap (In(r) \cap To(r))) + One(i \in In(r) \cap To(r)),
                    Cardinality(S \cap (Out(r) \cap From(r))) + One(i \in Out(r) \cap From(r)),
                    Cardinality(S \cap In(r)) + One(i \in In(r)),
                    Cardinality(S \cap Out(r)) + One(i \in Out(r)))
<1> DEFINE in == info[i].lport = req.call.port
           out == ~in /\ info[i].rport = req.call.port
           toAddr == in /\ info[i].laddr = req.call.addr
           fromAddr == out /\ info[i].raddr = req.call.addr
<1>1. PICK a, b, c, d, e, f :
        /\ a = Cardinality(S \cap ((In(r) \cup Out(r)) \cap Servers))
        /\ b = Cardinality(S \cap ((In(r) \cup Out(r)) \ Servers))
        /\ c = Cardinality(S \cap (In(r) \cap To(r)))
        /\ d = Cardinality(S \cap (Out(r) \cap From(r)))
        /\ e = Cardinality(S \cap In(r)) /\ f = Cardinality(S \cap Out(r))
  OBVIOUS
<1>2. a \in Nat /\ b \in Nat /\ c \in Nat /\ d \in Nat /\ e \in Nat /\ f \in Nat
  <2>1. \A A : S \cap A \in SUBSET Inode
    OBVIOUS
  <2> QED BY <1>1, <2>1, CountFacts
<1>3. netstat = Counters(a, b, c, d, e, f)
  BY <1>1 DEF PortTally
<1>4. /\ i \in In(r) <=> IsTcp(i) /\ in
      /\ i \in Out(r) <=> IsTcp(i) /\ out
      /\ i \in To(r) <=> info[i].laddr = req.call.addr
      /\ i \in From(r) <=> info[i].raddr = req.call.addr
      /\ i \in Servers <=> Listens(i)
  BY DEF In, Out, To, From, Servers
<1>5. CASE ~IsTcp(i) \/ ~(in \/ out)
  <2>1. i \notin In(r) /\ i \notin Out(r)
    BY <1>4, <1>5
  <2>2. /\ One(i \in (In(r) \cup Out(r)) \cap Servers) = 0 /\ One(i \in (In(r) \cup Out(r)) \ Servers) = 0
        /\ One(i \in In(r) \cap To(r)) = 0 /\ One(i \in Out(r) \cap From(r)) = 0
        /\ One(i \in In(r)) = 0 /\ One(i \in Out(r)) = 0
    BY <2>1 DEF One
  <2>3. a + 0 = a /\ b + 0 = b /\ c + 0 = c /\ d + 0 = d /\ e + 0 = e /\ f + 0 = f
    BY <1>2, SMTT(60)
  <2>4. net_stat_port_walker(i) = netstat
    BY <1>5 DEF net_stat_port_walker
  <2> QED BY <1>1, <1>3, <2>2, <2>3, <2>4
<1>6. CASE IsTcp(i) /\ (in \/ out)
  <2>1. /\ One(i \in (In(r) \cup Out(r)) \cap Servers) = One(Listens(i))
        /\ One(i \in (In(r) \cup Out(r)) \ Servers) = One(~Listens(i))
        /\ One(i \in In(r) \cap To(r)) = One(toAddr) /\ One(i \in Out(r) \cap From(r)) = One(fromAddr)
        /\ One(i \in In(r)) = One(in) /\ One(i \in Out(r)) = One(out)
    BY <1>4, <1>6 DEF One
  <2>2. PICK n1 : n1 = [netstat EXCEPT !.all_in = netstat.all_in + One(in)]
    OBVIOUS
  <2>3. PICK n2 : n2 = [n1 EXCEPT !.tcp_in = netstat.tcp_in + One(toAddr)]
    OBVIOUS
  <2>4. PICK n3 : n3 = [n2 EXCEPT !.all_out = netstat.all_out + One(out)]
    OBVIOUS
  <2>5. PICK n4 : n4 = [n3 EXCEPT !.tcp_out = netstat.tcp_out + One(fromAddr)]
    OBVIOUS
  <2>6. PICK n5 : n5 = [n4 EXCEPT !.listen = netstat.listen + One(Listens(i))]
    OBVIOUS
  <2>7. PICK n6 : n6 = [n5 EXCEPT !.other = netstat.other + One(~Listens(i))]
    OBVIOUS
  <2>8. net_stat_port_walker(i) = n6
    BY <1>6, <2>2, <2>3, <2>4, <2>5, <2>6, <2>7 DEF net_stat_port_walker
  <2>9. PICK p, q, s, t, u, v : /\ p = One(in) /\ q = One(toAddr) /\ s = One(out)
                                /\ t = One(fromAddr) /\ u = One(Listens(i)) /\ v = One(~Listens(i))
    OBVIOUS
  <2>10. n1 = Counters(a, b, c, d, e + p, f)
    <3>1. n1 = [netstat EXCEPT !.all_in = netstat.all_in + p]
      BY <2>2, <2>9
    <3> QED BY <1>3, <3>1, SMTT(60) DEF Counters
  <2>11. n2 = Counters(a, b, c + q, d, e + p, f)
    <3>1. n2 = [n1 EXCEPT !.tcp_in = netstat.tcp_in + q]
      BY <2>3, <2>9
    <3> QED BY <1>3, <2>10, <3>1, SMTT(60) DEF Counters
  <2>12. n3 = Counters(a, b, c + q, d, e + p, f + s)
    <3>1. n3 = [n2 EXCEPT !.all_out = netstat.all_out + s]
      BY <2>4, <2>9
    <3> QED BY <1>3, <2>11, <3>1, SMTT(60) DEF Counters
  <2>13. n4 = Counters(a, b, c + q, d + t, e + p, f + s)
    <3>1. n4 = [n3 EXCEPT !.tcp_out = netstat.tcp_out + t]
      BY <2>5, <2>9
    <3> QED BY <1>3, <2>12, <3>1, SMTT(60) DEF Counters
  <2>14. n5 = Counters(a + u, b, c + q, d + t, e + p, f + s)
    <3>1. n5 = [n4 EXCEPT !.listen = netstat.listen + u]
      BY <2>6, <2>9
    <3> QED BY <1>3, <2>13, <3>1, SMTT(60) DEF Counters
  <2>15. n6 = Counters(a + u, b + v, c + q, d + t, e + p, f + s)
    <3>1. n6 = [n5 EXCEPT !.other = netstat.other + v]
      BY <2>7, <2>9
    <3> QED BY <1>3, <2>14, <3>1, SMTT(60) DEF Counters
  <2> QED BY <1>1, <2>1, <2>8, <2>9, <2>15
<1> QED BY <1>5, <1>6

\* A line for sigar_net_stat_port_get.
LEMMA PortLine ==
  ASSUME IInv, CInv, NEW i \in Inode, ReadLine(i), Wanted(i), req.call.op = "port",
         netstat' = net_stat_port_walker(i),
         shown' = shown \cup {i}, UNCHANGED <<pc, k, conn, list, net_listen>>
  PROVE  CInv'
<1>1. Fields'
  BY ReadFacts DEF CInv, Fields
<1>2. PortCount'
  <2>1. PICK r : r = req.call
    OBVIOUS
  <2>2. PICK S \in SUBSET Inode :
          /\ Covers(S) /\ netstat = PortTally(S, r)
          /\ netstat.listen + netstat.other = netstat.all_in + netstat.all_out
    BY <2>1, ReadFacts DEF CInv, PortCount
  <2>3. i \notin S /\ Covers(S \cup {i})'
    BY <2>2, CoverRead DEF CInv
  <2>5. \A A : Cardinality((S \cup {i}) \cap A) = Cardinality(S \cap A) + One(i \in A)
    BY <2>3, CountAdd
  <2>6. netstat' = PortTally(S \cup {i}, r)
    <3>1. net_stat_port_walker(i) =
           Counters(Cardinality(S \cap ((In(r) \cup Out(r)) \cap Servers))
                      + One(i \in (In(r) \cup Out(r)) \cap Servers),
                    Cardinality(S \cap ((In(r) \cup Out(r)) \ Servers))
                      + One(i \in (In(r) \cup Out(r)) \ Servers),
                    Cardinality(S \cap (In(r) \cap To(r))) + One(i \in In(r) \cap To(r)),
                    Cardinality(S \cap (Out(r) \cap From(r))) + One(i \in Out(r) \cap From(r)),
                    Cardinality(S \cap In(r)) + One(i \in In(r)),
                    Cardinality(S \cap Out(r)) + One(i \in Out(r)))
      BY <2>1, <2>2, PortWalkerAdds
    <3>2. /\ Cardinality((S \cup {i}) \cap ((In(r) \cup Out(r)) \cap Servers))
               = Cardinality(S \cap ((In(r) \cup Out(r)) \cap Servers)) + One(i \in (In(r) \cup Out(r)) \cap Servers)
          /\ Cardinality((S \cup {i}) \cap ((In(r) \cup Out(r)) \ Servers))
               = Cardinality(S \cap ((In(r) \cup Out(r)) \ Servers)) + One(i \in (In(r) \cup Out(r)) \ Servers)
          /\ Cardinality((S \cup {i}) \cap (In(r) \cap To(r)))
               = Cardinality(S \cap (In(r) \cap To(r))) + One(i \in In(r) \cap To(r))
          /\ Cardinality((S \cup {i}) \cap (Out(r) \cap From(r)))
               = Cardinality(S \cap (Out(r) \cap From(r))) + One(i \in Out(r) \cap From(r))
          /\ Cardinality((S \cup {i}) \cap In(r))
               = Cardinality(S \cap In(r)) + One(i \in In(r))
          /\ Cardinality((S \cup {i}) \cap Out(r))
               = Cardinality(S \cap Out(r)) + One(i \in Out(r))
      BY <2>5
    <3> QED BY <3>1, <3>2 DEF PortTally
  <2>7. PortTally(S \cup {i}, r)' = PortTally(S \cup {i}, r)
    BY ReadFacts, Same DEF PortTally
  <2>8. netstat'.listen + netstat'.other = netstat'.all_in + netstat'.all_out
    <3>1. PICK a, b, e, f :
            /\ a = Cardinality(S \cap ((In(r) \cup Out(r)) \cap Servers))
            /\ b = Cardinality(S \cap ((In(r) \cup Out(r)) \ Servers))
            /\ e = Cardinality(S \cap In(r)) /\ f = Cardinality(S \cap Out(r))
      OBVIOUS
    <3>2. a \in Nat /\ b \in Nat /\ e \in Nat /\ f \in Nat
      <4>1. \A A : S \cap A \in SUBSET Inode
        OBVIOUS
      <4> QED BY <3>1, <4>1, CountFacts
    <3>3. a + b = e + f
      BY <2>2, <3>1 DEF PortTally, Counters
    <3>4. ~(i \in In(r) /\ i \in Out(r))
      BY DEF In, Out
    <3>5. PICK u, v, p, s : /\ u = One(i \in (In(r) \cup Out(r)) \cap Servers)
                            /\ v = One(i \in (In(r) \cup Out(r)) \ Servers)
                            /\ p = One(i \in In(r)) /\ s = One(i \in Out(r))
      OBVIOUS
    <3>6. \/ p = 0 /\ s = 0 /\ u = 0 /\ v = 0
          \/ ((p = 1 /\ s = 0) \/ (p = 0 /\ s = 1)) /\ ((u = 1 /\ v = 0) \/ (u = 0 /\ v = 1))
      BY <3>4, <3>5 DEF One
    <3>7. (a + u) + (b + v) = (e + p) + (f + s)
      BY <3>2, <3>3, <3>6, SMTT(60)
    <3>8. /\ netstat'.listen = a + u /\ netstat'.other = b + v
          /\ netstat'.all_in = e + p /\ netstat'.all_out = f + s
      <4>1. Counting(netstat', a + u, b + v, Cardinality((S \cup {i}) \cap (In(r) \cap To(r))),
                     Cardinality((S \cup {i}) \cap (Out(r) \cap From(r))), e + p, f + s)
        <5>1. /\ Cardinality((S \cup {i}) \cap ((In(r) \cup Out(r)) \cap Servers)) = a + u
              /\ Cardinality((S \cup {i}) \cap ((In(r) \cup Out(r)) \ Servers)) = b + v
              /\ Cardinality((S \cup {i}) \cap In(r)) = e + p
              /\ Cardinality((S \cup {i}) \cap Out(r)) = f + s
          BY <2>5, <3>1, <3>5
        <5> QED BY <2>6, <5>1 DEF PortTally, Counting
      <4> QED BY <4>1, CountersIs, SMTT(60)
    <3> QED BY <3>7, <3>8
  <2>9. req'.call = r
    BY <2>1, ReadFacts
  <2> QED BY <2>3, <2>6, <2>7, <2>8, <2>9 DEF PortCount
<1>3. StatCount' /\ Listing'
  BY ReadFacts DEF Caches, StatCount, Listing
<1> QED BY <1>1, <1>2, <1>3, ReadFacts, NotTold DEF CInv

\* A line for a list.
LEMMA ListLine ==
  ASSUME IInv, CInv, NEW i \in Inode, ReadLine(i), Wanted(i),
         req.call.op \in {"list", "listeners"}, target = NULL, list' = Append(list, i),
         shown' = shown \cup {i}, UNCHANGED <<pc, k, conn, netstat, net_listen>>
  PROVE  CInv'
<1>1. /\ list \in Seq(Inode) /\ Covers(Entries(list)) /\ pids = << >>
      /\ \A m, n \in DOMAIN list : list[m] = list[n] => m = n
  BY ReadFacts DEF CInv, Fields, Listing
<1>2. PICK S : S = Entries(list)
  OBVIOUS
<1>3. S \in SUBSET Inode
  BY <1>1, <1>2, SMTT(60) DEF Entries
<1>4. i \notin S /\ Covers(S \cup {i})'
  BY <1>1, <1>2, <1>3, CoverRead DEF CInv
<1>5. /\ list' \in Seq(Inode) /\ Entries(list') = S \cup {i}
      /\ \A m, n \in DOMAIN list' : list'[m] = list'[n] => m = n
  BY <1>1, <1>2, <1>4, ListAdd
<1>6. pids' = << >> /\ target' = NULL
  BY <1>1, ReadFacts
<1>7. pids' \in Seq(Pid \cup {0, NULL}) /\ Len(pids') <= Len(list') /\ 1..Len(pids') = {}
  BY <1>5, <1>6, SMTT(60)
<1>8. Fields'
  BY <1>5, <1>7, ReadFacts DEF CInv, Fields
<1>9. Listing'
  <2>1. Entries(list)' = S \cup {i}
    BY <1>5 DEF Entries
  <2> QED BY <1>4, <1>5, <1>6, <1>7, <2>1 DEF Listing
<1>10. StatCount' /\ PortCount'
  BY ReadFacts DEF Caches, StatCount, PortCount
<1> QED BY <1>8, <1>9, <1>10, ReadFacts, NotTold DEF CInv

\* A line for sigar_proc_port_get: the first server socket of the port ends the
\* reading of a table.
LEMMA SearchLine ==
  ASSUME IInv, CInv, NEW i \in Inode, ReadLine(i), Wanted(i), target # NULL,
         IF Matches(i) THEN conn' = i /\ pc' = "open" /\ k' = k + 1 /\ shown' = {}
         ELSE UNCHANGED <<pc, k, conn>> /\ shown' = shown \cup {i},
         UNCHANGED <<list, netstat, net_listen>>
  PROVE  CInv'
<1>1. pc # "idle" /\ pc' # "idle"
  BY ReadFacts
<1>2. Fields'
  BY <1>1, ReadFacts DEF CInv, Fields
<1>3. conn' = conn \/ (req.call.op = "listeners" =>
                         conn' \in present /\ Serves(conn', target, {"TCP", "UDP"}))
  <2>1. SUFFICES ASSUME Matches(i), req.call.op = "listeners"
                 PROVE  conn' \in present /\ Serves(conn', target, {"TCP", "UDP"})
    OBVIOUS
  <2>2. conn' = i
    BY <2>1
  <2>3. Flags(req.call) = {"SERVER", "TCP", "UDP"}
    BY <2>1 DEF Flags
  <2>4. Protocol[info[i].file] \in {"TCP", "UDP"}
    <3>1. Protocol[k] # "SERVER"
      BY ReadFacts, NotServer, Zenon
    <3> QED BY <2>3, <3>1, ReadFacts
  <2> QED BY <2>1, <2>2, <2>4, ReadFacts DEF Matches, Serves
<1> QED BY <1>1, <1>2, <1>3, ReadFacts, KeepStep

\* Each line.
LEMMA ReadKeeps == ASSUME IInv, CInv, NEW i \in Inode, ReadLine(i) PROVE CInv'
<1>1. CASE ~Wanted(i)
  BY <1>1, SkipLine
<1>2. CASE Wanted(i)
  <2>1. add_connection(i)
    BY <1>2 DEF ReadLine
  <2>2. CASE /\ req.call.op \in {"stat", "address"} /\ netstat' = net_stat_walker(i)
             /\ net_listen' = IF Listens(i) THEN listen_address_add(i) ELSE net_listen
             /\ shown' = shown \cup {i} /\ UNCHANGED <<pc, k, conn, list>>
    BY <1>2, <2>2, StatLine DEF Caches
  <2>3. CASE /\ req.call.op = "port" /\ netstat' = net_stat_port_walker(i)
             /\ shown' = shown \cup {i} /\ UNCHANGED <<pc, k, conn, list, net_listen>>
    BY <1>2, <2>3, PortLine
  <2>4. CASE /\ req.call.op \in {"list", "listeners"} /\ target = NULL /\ list' = Append(list, i)
             /\ shown' = shown \cup {i} /\ UNCHANGED <<pc, k, conn, netstat, net_listen>>
    BY <1>2, <2>4, ListLine
  <2>5. CASE /\ target # NULL /\ UNCHANGED <<list, netstat, net_listen>>
             /\ IF Matches(i) THEN conn' = i /\ pc' = "open" /\ k' = k + 1 /\ shown' = {}
                ELSE UNCHANGED <<pc, k, conn>> /\ shown' = shown \cup {i}
    BY <1>2, <2>5, SearchLine
  <2> QED BY <2>1, <2>2, <2>3, <2>4, <2>5 DEF add_connection
<1> QED BY <1>1, <1>2

-----------------------------------------------------------------------------
(* The walk is complete.                                                   *)

\* The counters are right then.
LEMMA StatReply ==
  ASSUME IInv, CInv, pc = "open", k > 6, req.call.op = "stat"
  PROVE  StatOK(netstat, req.call.flags, req.knew) /\ netstat.tcp_out \in Nat
<1>1. PICK f : f = req.call.flags /\ f = Flags(req.call)
  BY DEF Flags
<1>2. PICK S \in SUBSET Inode, I \in SUBSET Inode, O \in SUBSET Inode :
        Covers(S) /\ StatTally(S, I, O)
  BY DEF CInv, StatCount, Caches
<1>3. /\ I \cup O = S \cap Conns /\ Cardinality(S \cap Conns) = Cardinality(I) + Cardinality(O)
      /\ \A j \in I : net_listen[info[j].lport] # NULL
      /\ \A j \in O : \A a \in req.knew : a[1] # info[j].lport
      /\ netstat = Tally(S, I, O)
  BY <1>2 DEF StatTally
<1>4. \A i \in steady : Asked(i) => i \in S
  BY <1>2, CoverEnd
<1>5. /\ S \subseteq present /\ (\A i \in S : Asked(i)) /\ steady \subseteq Inode
      /\ present \subseteq Inode
  BY <1>2 DEF Covers, IInv, Base
<1>6. \A i : /\ IsTcp(i) => (Asked(i) <=> "TCP" \in f /\ Wanted(i))
             /\ IsServer(i) => (Wanted(i) <=> "SERVER" \in f)
             /\ ~IsServer(i) => (Wanted(i) <=> "CLIENT" \in f)
  BY <1>1 DEF Asked, IsTcp, Wanted
<1>7. Clients(steady, f) \subseteq S \cap Conns /\ S \cap Conns \subseteq Clients(present, f)
  BY <1>4, <1>5, <1>6 DEF Clients, Client, Conns
<1>8. Listeners(steady, f) \subseteq S \cap Servers /\ S \cap Servers \subseteq Listeners(present, f)
  BY <1>4, <1>5, <1>6 DEF Listeners, Servers, Listens
<1>9. Knew(steady, f, req.knew) \subseteq I
  <2>1. Knew(steady, f, req.knew) \subseteq Clients(steady, f)
    BY DEF Knew, Clients
  <2>2. \A i \in Knew(steady, f, req.knew) : i \notin O
    BY <1>3 DEF Knew
  <2> QED BY <1>3, <1>7, <2>1, <2>2
<1>10. Never(steady, f) \subseteq O
  <2>1. Never(steady, f) \subseteq Clients(steady, f)
    BY DEF Never, Clients
  <2>2. ASSUME NEW i \in Never(steady, f), i \in I PROVE FALSE
    <3>1. net_listen[info[i].lport] # NULL /\ info[i].lport \in Port
      BY <1>3, <2>2, KindFacts DEF IInv, Base
    <3>2. PICK j \in born : Listens(j) /\ info[j].lport = info[i].lport
      BY <3>1 DEF IInv, Sound
    <3> QED BY <3>2 DEF Never
  <2> QED BY <1>3, <1>7, <2>1, <2>2
<1>11. Clients(present, f) \in SUBSET Inode /\ Listeners(present, f) \in SUBSET Inode
  BY <1>5 DEF Clients, Listeners
<1>12. PICK a, b, c, d : /\ a = Cardinality(S \cap Servers) /\ b = Cardinality(S \cap Conns)
                         /\ c = Cardinality(I) /\ d = Cardinality(O)
  OBVIOUS
<1>13. /\ netstat.listen = a /\ netstat.other = b /\ netstat.tcp_in = c /\ netstat.tcp_out = d
       /\ netstat.all_in = c /\ netstat.all_out = d
  <2>1. netstat = Counters(a, b, c, d, c, d)
    BY <1>3, <1>12 DEF Tally
  <2> QED BY <2>1, SMTT(60) DEF Counters
<1>14. S \cap Servers \in SUBSET Inode /\ S \cap Conns \in SUBSET Inode
  OBVIOUS
<1>15. /\ Cardinality(Clients(steady, f)) <= b /\ b <= Cardinality(Clients(present, f))
       /\ Cardinality(Listeners(steady, f)) <= a /\ a <= Cardinality(Listeners(present, f))
  BY <1>7, <1>8, <1>11, <1>12, <1>14, CountFacts
<1>16. /\ Cardinality(Knew(steady, f, req.knew)) <= c /\ Cardinality(Never(steady, f)) <= d
       /\ Cardinality(Knew(steady, f, req.knew)) \in Nat /\ Cardinality(Never(steady, f)) \in Nat
       /\ c \in Nat /\ d \in Nat
  <2>1. Knew(steady, f, req.knew) \in SUBSET Inode /\ Never(steady, f) \in SUBSET Inode
    BY <1>9, <1>10
  <2> QED BY <1>9, <1>10, <1>12, <2>1, CountFacts
<1>17. c >= Cardinality(Knew(steady, f, req.knew)) /\ d >= Cardinality(Never(steady, f))
  BY <1>16, SMTT(60)
<1>18. b = c + d
  BY <1>3, <1>12
<1> QED BY <1>1, <1>13, <1>15, <1>16, <1>17, <1>18 DEF StatOK

\* The reply of sigar_net_stat_get.
LEMMA StatTold ==
  ASSUME IInv, CInv, pc = "open", k > 6, req.call.op = "stat", Reply("OK", netstat), Rest
  PROVE  Told'
<1>1. PICK n, f, knew : n = netstat /\ f = req.call.flags /\ knew = req.knew
  OBVIOUS
<1>2. res'.val = n /\ res'.req.call.flags = f /\ res'.req.knew = knew /\ res'.req.call.op = "stat"
  BY <1>1 DEF Reply
<1>3. StatOK(n, f, knew) /\ n.tcp_out \in Nat
  BY <1>1, StatReply
<1>4. UNCHANGED <<info, born, steady, present>>
  BY DEF Rest, kernVars, ghostVars
<1>5. /\ \A T : Clients(T, f)' = Clients(T, f) /\ Listeners(T, f)' = Listeners(T, f)
      /\ Knew(steady, f, knew)' = Knew(steady, f, knew) /\ Never(steady, f)' = Never(steady, f)
  BY <1>4, Same DEF Client, Clients, Listeners, Knew, Never
<1>6. StatOK(n, f, knew)'
  BY <1>3, <1>4, <1>5 DEF StatOK
<1>7. InboundOutbound'
  BY <1>2, <1>6, StatOKFacts
<1>8. PortCounts' /\ ListedOnce' /\ (Replied("stat") => res.val.tcp_out \in Nat)'
  BY <1>2, <1>3 DEF PortCounts, ListedOnce, Replied
<1> QED BY <1>7, <1>8 DEF Told

\* The reply of sigar_net_stat_port_get.
LEMMA PortTold ==
  ASSUME IInv, CInv, pc = "open", k > 6, req.call.op = "port", Reply("OK", netstat), Rest
  PROVE  Told'
<1>1. PICK r, n : r = req.call /\ n = netstat
  OBVIOUS
<1>2. res'.val = n /\ res'.req.call = r /\ UNCHANGED <<info, steady, present>>
  BY <1>1 DEF Reply, Rest, kernVars, ghostVars
<1>3. PICK S \in SUBSET Inode :
        Covers(S) /\ n = PortTally(S, r) /\ n.listen + n.other = n.all_in + n.all_out
  BY <1>1 DEF CInv, PortCount
<1>4. ASSUME r.flags = {"TCP", "CLIENT", "SERVER"}, NEW A \in SUBSET Inode, \A i \in A : IsTcp(i)
      PROVE  /\ Cardinality(steady \cap A) <= Cardinality(S \cap A)
             /\ Cardinality(S \cap A) <= Cardinality(present \cap A)
  <2>1. Flags(req.call) = {"TCP", "CLIENT", "SERVER"}
    BY <1>1, <1>4 DEF Flags
  <2>2. \A i \in A : Asked(i)
    BY <1>4, <2>1 DEF Asked, Wanted, IsTcp
  <2>3. \A i \in steady : Asked(i) => i \in S
    BY <1>3, CoverEnd
  <2>4. S \subseteq present
    BY <1>3 DEF Covers
  <2>5. /\ steady \cap A \subseteq S \cap A /\ S \cap A \subseteq present \cap A
        /\ S \cap A \in SUBSET Inode /\ present \cap A \in SUBSET Inode
    BY <2>2, <2>3, <2>4
  <2> QED BY <2>5, CountFacts
<1>5. \A T \in SUBSET Inode :
        /\ {i \in T : IsTcp(i)' /\ info'[i].lport = r.port} = T \cap In(r)
        /\ {i \in T : IsTcp(i)' /\ info'[i].lport # r.port /\ info'[i].rport = r.port} = T \cap Out(r)
        /\ {i \in T : (IsTcp(i)' /\ info'[i].lport = r.port) /\ info'[i].laddr = r.addr}
             = T \cap (In(r) \cap To(r))
        /\ {i \in T : (IsTcp(i)' /\ info'[i].lport # r.port /\ info'[i].rport = r.port)
                        /\ info'[i].raddr = r.addr} = T \cap (Out(r) \cap From(r))
  <2> TAKE T \in SUBSET Inode
  <2>1. info' = info /\ \A i : IsTcp(i)' <=> IsTcp(i)
    BY <1>2, Same
  <2>2. {i \in T : IsTcp(i)' /\ info'[i].lport = r.port} = T \cap In(r)
    BY <2>1 DEF In
  <2>3. {i \in T : IsTcp(i)' /\ info'[i].lport # r.port /\ info'[i].rport = r.port} = T \cap Out(r)
    BY <2>1 DEF Out
  <2>4. {i \in T : (IsTcp(i)' /\ info'[i].lport = r.port) /\ info'[i].laddr = r.addr}
             = T \cap (In(r) \cap To(r))
    BY <2>1 DEF In, To
  <2>5. {i \in T : (IsTcp(i)' /\ info'[i].lport # r.port /\ info'[i].rport = r.port)
                        /\ info'[i].raddr = r.addr} = T \cap (Out(r) \cap From(r))
    BY <2>1 DEF Out, From
  <2> QED BY <2>2, <2>3, <2>4, <2>5
<1>6. /\ n.tcp_in = Cardinality(S \cap (In(r) \cap To(r)))
      /\ n.tcp_out = Cardinality(S \cap (Out(r) \cap From(r)))
      /\ n.all_in = Cardinality(S \cap In(r)) /\ n.all_out = Cardinality(S \cap Out(r))
  <2>1. Counting(n, Cardinality(S \cap ((In(r) \cup Out(r)) \cap Servers)),
                 Cardinality(S \cap ((In(r) \cup Out(r)) \ Servers)),
                 Cardinality(S \cap (In(r) \cap To(r))), Cardinality(S \cap (Out(r) \cap From(r))),
                 Cardinality(S \cap In(r)), Cardinality(S \cap Out(r)))
    BY <1>3 DEF PortTally, Counting
  <2> QED BY <2>1, CountersIs, SMTT(60)
<1>7. /\ In(r) \in SUBSET Inode /\ Out(r) \in SUBSET Inode /\ In(r) \cap To(r) \in SUBSET Inode
      /\ Out(r) \cap From(r) \in SUBSET Inode
      /\ \A i \in In(r) \cup Out(r) : IsTcp(i)
  BY DEF In, Out
<1>8. PortCounts'
  <2>1. SUFFICES ASSUME Replied("port")' PROVE PortCounts'
    BY DEF PortCounts
  <2>2. ASSUME r.flags = {"TCP", "CLIENT", "SERVER"}
        PROVE  /\ Cardinality(steady \cap In(r)) <= n.all_in
               /\ n.all_in <= Cardinality(present \cap In(r))
               /\ Cardinality(steady \cap Out(r)) <= n.all_out
               /\ n.all_out <= Cardinality(present \cap Out(r))
               /\ Cardinality(steady \cap (In(r) \cap To(r))) <= n.tcp_in
               /\ n.tcp_in <= Cardinality(present \cap (In(r) \cap To(r)))
               /\ Cardinality(steady \cap (Out(r) \cap From(r))) <= n.tcp_out
               /\ n.tcp_out <= Cardinality(present \cap (Out(r) \cap From(r)))
    BY <1>4, <1>6, <1>7, <2>2
  <2>3. steady' \in SUBSET Inode /\ present' \in SUBSET Inode
    BY <1>2 DEF IInv, Base
  <2> QED BY <1>2, <1>3, <1>5, <2>2, <2>3 DEF PortCounts, Between
<1>9. InboundOutbound' /\ ListedOnce' /\ (Replied("stat") => res.val.tcp_out \in Nat)'
  BY <1>1, <1>2 DEF InboundOutbound, ListedOnce, Replied
<1> QED BY <1>8, <1>9 DEF Told

\* A complete list.
LEMMA ListComplete ==
  ASSUME IInv, CInv, pc = "open", k > 6, req.call.op \in {"list", "listeners"}, target = NULL
  PROVE  /\ list \in Seq(Inode) /\ Listed(list) /\ pids = << >>
         /\ \A m, n \in DOMAIN list : list[m] = list[n] => m = n
<1>1. /\ list \in Seq(Inode) /\ Covers(Entries(list)) /\ pids = << >>
      /\ \A m, n \in DOMAIN list : list[m] = list[n] => m = n
  BY DEF CInv, Fields, Listing
<1>2. \A i \in steady : Asked(i) => i \in Entries(list)
  BY <1>1, CoverEnd
<1> QED BY <1>1, <1>2 DEF Listed, Covers

\* The first of the searches for the listeners.
LEMMA StartKeeps ==
  ASSUME IInv, CInv, pc = "open", k > 6, req.call.op = "listeners", target = NULL, list # << >>,
         StartSearch(1), UNCHANGED <<pids, known>>, Rest
  PROVE  CInv'
<1>1. /\ list \in Seq(Inode) /\ Listed(list) /\ pids = << >>
      /\ \A m, n \in DOMAIN list : list[m] = list[n] => m = n
  BY ListComplete
<1>2. /\ target' = info[list[1]].lport /\ pc' = "open" /\ k' = 1 /\ shown' = {} /\ conn' = NULL
      /\ scanned' = {} /\ UNCHANGED <<req, netstat, list, res, pids, known>>
      /\ UNCHANGED <<info, holds, born, changes, net_listen, calls, steady, present, kept, held>>
  BY DEF StartSearch, Rest, kernVars, ghostVars
<1>3. list[1] \in Inode /\ Len(pids) = 0 /\ Len(list) > 0 /\ Len(pids) < Len(list) /\ Len(pids) + 1 = 1
      /\ 1..Len(pids) = {}
  <2>1. Len(list) \in Nat /\ Len(list) # 0
    BY <1>1, SMTT(60)
  <2>2. list[1] \in Inode
    BY <1>1, <2>1, SMTT(60)
  <2> QED BY <1>1, <2>1, <2>2, SMTT(60)
<1>4. target' \in Port /\ target' # NULL
  BY <1>2, <1>3, KindFacts, NetAssumption, SMTT(60) DEF IInv, Base
<1>5. Fields'
  BY <1>2, <1>4 DEF CInv, Fields
<1>6. StatCount' /\ PortCount'
  BY <1>2 DEF Caches, StatCount, PortCount
<1>7. Listing'
  <2>1. Listed(list)'
    BY <1>1, <1>2, Same DEF Listed, Entries
  <2>2. target' = info'[list'[Len(pids') + 1]].lport /\ Len(pids') < Len(list') /\ 1..Len(pids') = {}
    BY <1>2, <1>3
  <2> QED BY <1>1, <1>2, <1>4, <2>1, <2>2 DEF Listing
<1> QED BY <1>2, <1>5, <1>6, <1>7, NotTold DEF CInv

\* A pid that was not found.
LEMMA NoOwner == \A j : Owns(0, j) /\ Owns(NULL, j)
BY NetAssumption DEF Owns

\* Each call goes on after its walk.
LEMMA EndWalkKeeps == ASSUME IInv, CInv, EndWalk PROVE CInv'
<1>1. pc = "open" /\ k > 6 /\ pc # "idle" /\ known \subseteq Port \X {"inet", "inet6"}
  BY DEF EndWalk, CInv, Fields
<1>2. Learn => known' \subseteq Port \X {"inet", "inet6"}
  <2>1. \A i \in steady : info[i].lport \in Port /\ info[i].laddr[1] \in {"inet", "inet6"}
    BY KindFacts DEF IInv, Base
  <2>2. \A i \in steady : <<info[i].lport, info[i].laddr[1]>> \in Port \X {"inet", "inet6"}
    BY <2>1
  <2> QED BY <1>1, <2>2 DEF Learn
<1>3. CASE /\ req.call.op = "stat" /\ Reply("OK", netstat) /\ Rest
           /\ (Learn \/ UNCHANGED known)
  <2>1. known' \subseteq Port \X {"inet", "inet6"}
    BY <1>1, <1>2, <1>3
  <2>2. Told'
    BY <1>1, <1>3, StatTold
  <2> QED BY <1>1, <1>3, <2>1, <2>2, ReplyKeeps
<1>4. CASE /\ req.call.op = "address" /\ Learn /\ Rest
           /\ Reply(IF net_listen[req.call.port] = NULL THEN "ENOENT" ELSE "OK",
                    net_listen[req.call.port])
  <2>1. known' \subseteq Port \X {"inet", "inet6"}
    BY <1>2, <1>4
  <2>2. Told'
    BY <1>4, OtherReply
  <2> QED BY <1>1, <1>4, <2>1, <2>2, ReplyKeeps
<1>5. CASE req.call.op = "port" /\ Reply("OK", netstat) /\ UNCHANGED known /\ Rest
  <2>1. Told'
    BY <1>1, <1>5, PortTold
  <2> QED BY <1>1, <1>5, <2>1, ReplyKeeps
<1>6. CASE /\ target = NULL
           /\ req.call.op = "list" \/ (req.call.op = "listeners" /\ list = << >>)
           /\ Reply("OK", [list |-> list, pids |-> << >>]) /\ UNCHANGED known /\ Rest
  <2>1. /\ list \in Seq(Inode) /\ Listed(list)
        /\ \A m, n \in DOMAIN list : list[m] = list[n] => m = n
    BY <1>1, <1>6, ListComplete
  <2>2. list = << >> => Len(<< >>) = Len(list) /\ DOMAIN list = {}
    BY SMTT(60)
  <2>3. Told'
    BY <1>6, <2>1, <2>2, ListReply
  <2> QED BY <1>1, <1>6, <2>3, ReplyKeeps
<1>7. CASE /\ target = NULL /\ req.call.op = "listeners" /\ list # << >>
           /\ StartSearch(1) /\ UNCHANGED <<pids, known>> /\ Rest
  BY <1>1, <1>7, StartKeeps
<1>8. CASE target # NULL /\ conn = NULL /\ Search(0)
  BY <1>1, <1>8, NoOwner, SearchKeeps
<1>9. CASE Fails
  BY <1>1, <1>9, FailKeeps
<1>10. CASE pc' = "scan" /\ UNCHANGED <<req, walkVars, res, known>> /\ Rest
  <2>1. /\ UNCHANGED <<info, holds, born, changes, net_listen, req, k, shown, netstat, target, conn,
                       list, pids, scanned, res, calls, steady, present, kept, held, known>>
        /\ pc' # "idle"
    BY <1>10 DEF walkVars, Rest, kernVars, ghostVars
  <2>2. Fields'
    BY <1>1, <1>10, <2>1 DEF CInv, Fields
  <2>3. \A S \in SUBSET Inode : Covers(S) => Covers(S)'
    BY <2>1, CoverKept
  <2> QED BY <1>1, <2>1, <2>2, <2>3, KeepStep
<1> QED BY <1>3, <1>4, <1>5, <1>6, <1>7, <1>8, <1>9, <1>10 DEF EndWalk

\* The process looked at has the socket, or does not.
LEMMA ScanKeeps == ASSUME IInv, CInv, NEW p \in Pid, Scan(p) PROVE CInv'
<1>1. /\ pc = "scan" /\ pc # "idle" /\ target # NULL /\ conn # NULL /\ holds \subseteq held
  BY DEF Scan, IInv, Base
<1>2. CASE (<<conn, p>> \in holds \/ p \in Alike) /\ Search(p)
  <2>1. ASSUME req.call.op = "listeners" PROVE Owns(p, list[Len(pids) + 1])
    <3>1. /\ target = info[list[Len(pids) + 1]].lport
          /\ conn \in present /\ Serves(conn, target, {"TCP", "UDP"})
      BY <1>1, <2>1 DEF CInv, Listing
    <3> QED BY <1>1, <1>2, <3>1 DEF Owns
  <2> QED BY <1>1, <1>2, <2>1, SearchKeeps
<1>3. CASE /\ scanned' = scanned \cup {p} /\ Rest
           /\ UNCHANGED <<req, pc, k, shown, netstat, conn, target, list, pids, res, known>>
  <2>1. UNCHANGED <<info, holds, born, changes, net_listen, calls, steady, present, kept, held>>
    BY <1>3 DEF Rest, kernVars, ghostVars
  <2>2. Fields'
    BY <1>1, <1>3, <2>1 DEF CInv, Fields
  <2>3. \A S \in SUBSET Inode : Covers(S) => Covers(S)'
    BY <1>3, <2>1, CoverKept
  <2> QED BY <1>1, <1>3, <2>1, <2>2, <2>3, KeepStep
<1> QED BY <1>2, <1>3 DEF Scan

\* No process has it.
LEMMA ScanEndKeeps == ASSUME IInv, CInv, ScanEnd PROVE CInv'
<1>1. pc # "idle" /\ target # NULL /\ Search(0)
  BY DEF ScanEnd, IInv, Base
<1> QED BY <1>1, NoOwner, SearchKeeps

\* Nothing happens.
LEMMA StutterKeeps == ASSUME IInv, CInv, UNCHANGED vars PROVE CInv'
<1>1. UNCHANGED <<info, holds, born, changes, net_listen, req, pc, k, shown, netstat, target, conn,
                  list, pids, scanned, res, calls, steady, present, kept, held, known>>
  BY DEF vars, kernVars, ghostVars, walkVars
<1>2. Fields'
  BY <1>1 DEF CInv, Fields
<1>3. CASE pc # "idle"
  <2>1. \A S \in SUBSET Inode : Covers(S) => Covers(S)'
    BY <1>1, CoverKept
  <2> QED BY <1>1, <1>2, <1>3, <2>1, KeepStep
<1>4. CASE pc = "idle"
  <2>1. StatCount' /\ PortCount' /\ Listing'
    BY <1>1, <1>4 DEF StatCount, PortCount, Listing
  <2>2. PortCounts' /\ ListedOnce' /\ (Replied("stat") => res.val.tcp_out \in Nat)'
    BY <1>1, Same DEF CInv, Told, PortCounts, ListedOnce, Replied, Between
  <2>3. InboundOutbound'
    BY <1>1, Same DEF CInv, Told, InboundOutbound, Replied, Between
  <2> QED BY <1>2, <2>1, <2>2, <2>3 DEF CInv, Told
<1> QED BY <1>3, <1>4

\* Every step keeps the invariant.
LEMMA NextKeeps == IInv /\ CInv /\ [Next]_vars => CInv'
<1> SUFFICES ASSUME IInv, CInv, [Next]_vars PROVE CInv'
  OBVIOUS
<1>1. CASE Kernel
  BY <1>1, KernelKeeps DEF Kernel
<1>2. CASE Library
  <2>1. CASE SkipTable
    BY <2>1, SkipKeeps
  <2>2. CASE OpenTable
    BY <2>2, OpenKeeps
  <2>3. CASE CloseTable
    BY <2>3, CloseKeeps
  <2>4. CASE EndWalk
    BY <2>4, EndWalkKeeps
  <2>5. CASE ScanEnd
    BY <2>5, ScanEndKeeps
  <2>6. CASE \E i \in Inode : ReadLine(i)
    BY <2>6, ReadKeeps
  <2>7. CASE \E p \in Pid : Scan(p)
    BY <2>7, ScanKeeps
  <2> QED BY <1>2, <2>1, <2>2, <2>3, <2>4, <2>5, <2>6, <2>7 DEF Library
<1>3. CASE \E r \in Request : Begin(r)
  BY <1>3, BeginKeeps
<1>4. CASE UNCHANGED vars
  BY <1>4, StutterKeeps
<1> QED BY <1>1, <1>2, <1>3, <1>4 DEF Next, Finished

\* The counters count sockets, each at most once.
LEMMA CountersType ==
  ASSUME IInv, CInv PROVE netstat \in [DOMAIN NoStat -> 0..Cardinality(Inode)]
<1>1. PICK N : N = Cardinality(Inode)
  OBVIOUS
<1>2. N \in Nat
  BY <1>1, NetAssumption, FS_CardinalityType
<1>3. \A a, b, c, d, e, f \in 0..N : Counters(a, b, c, d, e, f) \in [DOMAIN NoStat -> 0..N]
  BY CountersIn, Zenon
<1>4. \A S \in SUBSET Inode : Cardinality(S) \in 0..N
  BY <1>1, CountFacts
<1>5. CASE pc = "idle" \/ ~(Caches(req.call) \/ req.call.op = "port")
  <2>1. netstat = Counters(0, 0, 0, 0, 0, 0)
    BY <1>5 DEF CInv, Fields, NoStat, Counters
  <2>2. 0 \in 0..N
    BY <1>2, SMTT(60)
  <2> QED BY <1>1, <1>3, <2>1, <2>2
<1>6. CASE pc # "idle" /\ Caches(req.call)
  <2>1. PICK S \in SUBSET Inode, I \in SUBSET Inode, O \in SUBSET Inode : netstat = Tally(S, I, O)
    BY <1>6 DEF CInv, StatCount, StatTally
  <2>2. S \cap Servers \in SUBSET Inode /\ S \cap Conns \in SUBSET Inode
    OBVIOUS
  <2> QED BY <1>1, <1>3, <1>4, <2>1, <2>2 DEF Tally
<1>7. CASE pc # "idle" /\ req.call.op = "port"
  <2>1. PICK S \in SUBSET Inode : netstat = PortTally(S, req.call)
    BY <1>7 DEF CInv, PortCount
  <2>2. \A A : S \cap A \in SUBSET Inode
    OBVIOUS
  <2> QED BY <1>1, <1>3, <1>4, <2>1, <2>2 DEF PortTally
<1> QED BY <1>5, <1>6, <1>7

-----------------------------------------------------------------------------

\* sigar_net_stat_get, with any sockets, opened and closed in any order while
\* the tables are read: each TCP connection is counted once, inbound if its
\* port was seen to listen by a call before, outbound if it never listened.
THEOREM InboundOutboundHolds == Spec => []InboundOutbound
<1>1. CInv => InboundOutbound
  BY DEF CInv, Told
<1> QED BY <1>1, InitStep, NextStep, InitCounts, NextKeeps, PTL DEF Spec

\* sigar_net_stat_port_get: the counters of a port are those of its sockets,
\* and the states those of just these.
THEOREM PortCountsHolds == Spec => []PortCounts
<1>1. CInv => PortCounts
  BY DEF CInv, Told
<1> QED BY <1>1, InitStep, NextStep, InitCounts, NextKeeps, PTL DEF Spec

\* sigar_net_connection_list_get and sigar_net_connection_listeners_get: no
\* socket is twice in a list, none that stays is left out, and the pid of each
\* listener is that of a process that held a server socket of its port.
THEOREM ListedOnceHolds == Spec => []ListedOnce
<1>1. CInv => ListedOnce
  BY DEF CInv, Told
<1> QED BY <1>1, InitStep, NextStep, InitCounts, NextKeeps, PTL DEF Spec

\* The walkers stay within their types: no counter exceeds the sockets there
\* are, and there are never more pids than listeners.
THEOREM TypeHolds == Spec => []TypeOK
<1>1. IInv /\ CInv => TypeOK
  <2> SUFFICES ASSUME IInv, CInv PROVE TypeOK
    OBVIOUS
  <2>1. info \in [Inode -> Kind] /\ holds \subseteq Inode \X Pid /\ k \in 1..7
    BY DEF IInv, Base
  <2>2. req = NULL \/ (req.call \in Request /\ req.knew \subseteq known)
    BY DEF IInv, Base, CInv, Fields
  <2>3. netstat \in [DOMAIN NoStat -> 0..Cardinality(Inode)]
    BY CountersType
  <2> QED BY <2>1, <2>2, <2>3 DEF CInv, Fields, TypeOK
<1> QED BY <1>1, InitStep, NextStep, InitCounts, NextKeeps, PTL DEF Spec
=============================================================================
