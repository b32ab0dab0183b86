---------------------------- MODULE SigarNetStat ----------------------------
(***************************************************************************)
(* The network walkers: sigar_net_connection_walk over the tables of       *)
(* /proc/net, and what is built on it: sigar_net_stat_get, which tells     *)
(* inbound from outbound connections by a cache of listening ports that is *)
(* never cleared, sigar_net_listen_address_get, sigar_net_stat_port_get,   *)
(* sigar_net_connection_list_get, sigar_proc_port_get, which looks for the *)
(* process that holds a socket, and sigar_net_connection_listeners_get,    *)
(* which does so for every listener.  Sockets are opened, passed to other  *)
(* processes and closed between any two lines that are read.               *)
(***************************************************************************)
EXTENDS Integers, Sequences, FiniteSets

CONSTANTS
  Inode,       \* the sockets there ever are
  Port, Pid,
  Kind,        \* the sockets considered: [file, lport, laddr, rport, raddr]
  Request,     \* the calls considered
  Private,     \* processes whose descriptors may not be readable
  Alike,       \* processes that may have another file with a socket's inode number
  NULL,
  MaxCalls,    \* calls on the handle: bounds the model
  MaxChanges   \* sockets opened, passed on and closed: bounds the model

\* The tables in the order in which they are read.
Table == <<"tcp", "tcp6", "udp", "udp6", "raw", "raw6">>
Protocol == <<"TCP", "TCP", "UDP", "UDP", "RAW", "RAW">>
Six(k) == k \in {2, 4, 6}

ASSUME NetAssumption ==
  /\ Kind \subseteq [file : 1..6, lport : Port, laddr : {"inet", "inet6"} \X Nat,
                     rport : Port \cup {NULL}, raddr : {"inet", "inet6"} \X Nat]
  /\ \A s \in Kind : s.laddr[1] = (IF Six(s.file) THEN "inet6" ELSE "inet")
  /\ NULL \notin Port /\ NULL \notin Pid /\ NULL \notin Inode
  /\ NULL \notin {"inet", "inet6"} \X Nat
  /\ Private \subseteq Pid /\ Alike \subseteq Pid /\ 0 \notin Pid
  /\ \A r \in Request : r.op \in {"address", "pid"} => r.port \in Port
  /\ IsFiniteSet(Inode) /\ MaxCalls \in Nat /\ MaxChanges \in Nat

VARIABLES
  info,        \* what kind of socket each inode is
  holds,       \* <<inode, pid>>: a process has a descriptor of the socket
  born,        \* the sockets opened so far
  changes,     \* how many sockets were opened, passed on or closed
  net_listen,  \* sigar->net_listen: port |-> NULL or an address
  req,         \* the call in progress, or NULL
  pc,          \* "idle", "open", "read" or "scan"
  k,           \* the table being read
  shown,       \* its lines read so far
  netstat,     \* *netstat
  target,      \* the port sigar_proc_port_get looks for, or NULL
  conn,        \* the connection it found, or NULL
  list, pids,  \* the list, and the pids filled in so far
  scanned,     \* the processes looked at
  res,         \* the last reply, or NULL
  calls,
  \* For the properties: the sockets, and the pairs of holds, that were there
  \* all the time since the call began, and at some time since; what listened
  \* during all of an earlier walk that read the listeners.
  steady, present, kept, held, known

kernVars == <<info, holds, born, changes>>
ghostVars == <<steady, present, kept, held>>
walkVars == <<k, shown, netstat, target, conn, list, pids, scanned>>
vars == <<kernVars, net_listen, req, pc, walkVars, res, calls, ghostVars, known>>

Alive == {i \in Inode : \E p \in Pid : <<i, p>> \in holds}
IsTcp(i) == Protocol[info[i].file] = "TCP"
IsServer(i) == info[i].rport = NULL
Listens(i) == IsTcp(i) /\ IsServer(i)      \* state SIGAR_TCP_LISTEN

NoStat == [listen |-> 0, other |-> 0, tcp_in |-> 0, tcp_out |-> 0,
           all_in |-> 0, all_out |-> 0]

Init ==
  /\ info \in [Inode -> Kind]
  /\ \E up \in SUBSET Inode, own \in [Inode -> Pid] :
       /\ born = up /\ holds = {<<i, own[i]>> : i \in up}
  /\ changes = 0
  /\ net_listen = [p \in Port |-> NULL]
  /\ req = NULL /\ pc = "idle" /\ k = 1 /\ shown = {} /\ netstat = NoStat
  /\ target = NULL /\ conn = NULL /\ list = << >> /\ pids = << >> /\ scanned = {}
  /\ res = NULL /\ calls = 0
  /\ steady = {} /\ present = {} /\ kept = {} /\ held = {} /\ known = {}

-----------------------------------------------------------------------------
(* The kernel.  An inode number is not used again.                         *)

\* The descriptors of the sockets become h.
Change(h) ==
  /\ changes < MaxChanges /\ changes' = changes + 1
  /\ holds' = h
  /\ IF pc = "idle" THEN UNCHANGED ghostVars
     ELSE /\ steady' = steady \cap Alive' /\ present' = present \cup Alive'
          /\ kept' = kept \cap h /\ held' = held \cup h
  /\ UNCHANGED <<info, net_listen, req, pc, walkVars, res, calls, known>>

OpenSocket(i, p) ==
  /\ i \notin born /\ born' = born \cup {i}
  /\ Change(holds \cup {<<i, p>>})

ShareSocket(i, p) ==
  /\ i \in Alive /\ <<i, p>> \notin holds
  /\ Change(holds \cup {<<i, p>>}) /\ UNCHANGED born

CloseSocket(i, p) ==
  /\ <<i, p>> \in holds
  /\ Change(holds \ {<<i, p>>}) /\ UNCHANGED born

Kernel ==
  \E i \in Inode, p \in Pid : OpenSocket(i, p) \/ ShareSocket(i, p) \/ CloseSocket(i, p)

-----------------------------------------------------------------------------
(* The calls.                                                              *)

\* Mutant: the pids of a list outlive it.
ClearKeeps ==
  /\ k' = 1 /\ shown' = {} /\ netstat' = NoStat /\ target' = NULL /\ conn' = NULL
  /\ list' = << >> /\ pids' = pids /\ scanned' = {} /\ req' = NULL

\* The locals of a call, and what it was given to fill in, are gone after it.
Clear ==
  /\ k' = 1 /\ shown' = {} /\ netstat' = NoStat /\ target' = NULL /\ conn' = NULL
  /\ list' = << >> /\ pids' = << >> /\ scanned' = {} /\ req' = NULL

Reply(status, x) ==
  /\ res' = [req |-> req, status |-> status, val |-> x]
  /\ pc' = "idle" /\ Clear

\* sigar_net_connection_walk starts, for the port p if it is not NULL.
StartWalk(p) == k' = 1 /\ shown' = {} /\ conn' = NULL /\ target' = p /\ scanned' = {}

\* Mutant: sigar_proc_port_get looks at both protocols.
FlagsBoth(r) ==
  CASE r.op = "address" -> {"SERVER", "TCP"}
    [] r.op \in {"pid", "listeners"} -> {"SERVER", "TCP", "UDP"}
    [] OTHER -> r.flags

\* walker.flags: sigar_net_listen_address_get and sigar_proc_port_get fix
\* them, and so does the list of listeners.
Flags(r) ==
  CASE r.op = "address" -> {"SERVER", "TCP"}
    [] r.op = "pid" -> {"SERVER"} \cup r.flags
    [] r.op = "listeners" -> {"SERVER", "TCP", "UDP"}
    [] OTHER -> r.flags

\* Only these calls use the handle's cache.  The others read and leave
\* nothing in the handle, so each is considered by itself.
Caches(r) == r.op \in {"stat", "address"}

\* A call begins with its walk, except that a listening address that is
\* cached is returned at once.
Begin(r) ==
  /\ pc = "idle" /\ calls < MaxCalls /\ (Caches(r) \/ calls = 0)
  /\ calls' = IF Caches(r) THEN calls + 1 ELSE MaxCalls
  /\ LET call == [call |-> r, knew |-> known] IN
     \/ /\ r.op = "address" /\ net_listen[r.port] # NULL
        /\ res' = [req |-> call, status |-> "OK", val |-> net_listen[r.port]]
        /\ UNCHANGED <<pc, req, walkVars>>
     \/ /\ r.op = "address" => net_listen[r.port] = NULL
        /\ res' = NULL /\ pc' = "open" /\ req' = call
        /\ target' = IF r.op = "pid" THEN r.port ELSE NULL
        /\ UNCHANGED <<k, shown, netstat, conn, list, pids, scanned>>
  /\ steady' = Alive /\ present' = Alive /\ kept' = holds /\ held' = holds
  /\ UNCHANGED <<kernVars, net_listen, known>>

-----------------------------------------------------------------------------
(* The walkers: what is done with a connection.                            *)

\* Mutant: the last address wins, of whatever family.
listen_address_addAny(i) == [net_listen EXCEPT ![info[i].lport] = info[i].laddr]

\* sigar_net_listen_address_add: "prefer ipv4".
listen_address_add(i) ==
  IF net_listen[info[i].lport] # NULL /\ info[i].laddr[1] = "inet6" THEN net_listen
  ELSE [net_listen EXCEPT ![info[i].lport] = info[i].laddr]

\* Mutant: the listener itself is counted too.
net_stat_walkerAll(i) ==
  LET in == net_listen[info[i].lport] # NULL IN
  IF ~IsTcp(i) THEN netstat
  ELSE [netstat EXCEPT !.listen = IF Listens(i) THEN @ + 1 ELSE @,
                       !.other = IF Listens(i) THEN @ ELSE @ + 1,
                       !.tcp_in = IF in THEN @ + 1 ELSE @, !.tcp_out = IF in THEN @ ELSE @ + 1,
                       !.all_in = IF in THEN @ + 1 ELSE @, !.all_out = IF in THEN @ ELSE @ + 1]

\* net_stat_walker: a connection is inbound if its port was seen listening.
net_stat_walker(i) ==
  IF ~IsTcp(i) THEN netstat
  ELSE IF Listens(i) THEN [netstat EXCEPT !.listen = @ + 1]
  ELSE IF net_listen[info[i].lport] # NULL
  THEN [netstat EXCEPT !.other = @ + 1, !.tcp_in = @ + 1, !.all_in = @ + 1]
  ELSE [netstat EXCEPT !.other = @ + 1, !.tcp_out = @ + 1, !.all_out = @ + 1]

One(cond) == IF cond THEN 1 ELSE 0

\* Mutant: the state of every connection is counted.
net_stat_port_walkerStates(i) ==
  LET s == info[i]
      r == req.call
      in == s.lport = r.port
      out == ~in /\ s.rport = r.port
  IN  IF ~IsTcp(i) THEN netstat
      ELSE [netstat EXCEPT
              !.all_in = @ + One(in), !.tcp_in = @ + One(in /\ s.laddr = r.addr),
              !.all_out = @ + One(out), !.tcp_out = @ + One(out /\ s.raddr = r.addr),
              !.listen = @ + One(Listens(i)), !.other = @ + One(~Listens(i))]

\* net_stat_port_walker: local port first, then remote port.
net_stat_port_walker(i) ==
  LET s == info[i]
      r == req.call
      in == s.lport = r.port
      out == ~in /\ s.rport = r.port
  IN  IF ~IsTcp(i) \/ ~(in \/ out) THEN netstat
      ELSE [netstat EXCEPT
              !.all_in = @ + One(in), !.tcp_in = @ + One(in /\ s.laddr = r.addr),
              !.all_out = @ + One(out), !.tcp_out = @ + One(out /\ s.raddr = r.addr),
              !.listen = @ + One(Listens(i)), !.other = @ + One(~Listens(i))]

\* proc_net_walker, for a port: the first line of a table ends its reading.
Matches(i) == info[i].lport = target /\ IsServer(i)

\* The lines the flags ask for; the others are skipped.
Wanted(i) == IF IsServer(i) THEN "SERVER" \in Flags(req.call) ELSE "CLIENT" \in Flags(req.call)

add_connection(i) ==
  \/ /\ req.call.op \in {"stat", "address"}
     /\ netstat' = net_stat_walker(i)
     /\ net_listen' = IF Listens(i) THEN listen_address_add(i) ELSE net_listen
     /\ shown' = shown \cup {i} /\ UNCHANGED <<pc, k, conn, list>>
  \/ /\ req.call.op = "port"
     /\ netstat' = net_stat_port_walker(i)
     /\ shown' = shown \cup {i} /\ UNCHANGED <<pc, k, conn, list, net_listen>>
  \/ /\ req.call.op \in {"list", "listeners"} /\ target = NULL
     /\ list' = Append(list, i)
     /\ shown' = shown \cup {i} /\ UNCHANGED <<pc, k, conn, netstat, net_listen>>
  \/ /\ target # NULL
     /\ IF Matches(i) THEN conn' = i /\ pc' = "open" /\ k' = k + 1 /\ shown' = {}
                      ELSE UNCHANGED <<pc, k, conn>> /\ shown' = shown \cup {i}
     /\ UNCHANGED <<list, netstat, net_listen>>

-----------------------------------------------------------------------------
(* sigar_net_connection_walk and proc_net_read.                            *)

\* What a step that reads no line leaves as it is.
Rest == UNCHANGED <<kernVars, net_listen, calls, ghostVars>>

\* The next search of the loop over the listeners, for the n-th entry.
StartSearch(n) ==
  /\ target' = info[list[n]].lport /\ pc' = "open"
  /\ k' = 1 /\ shown' = {} /\ conn' = NULL /\ scanned' = {}
  /\ UNCHANGED <<req, netstat, list, res>>

\* Mutant: the port of the entry before is looked for.
SearchAgain(x) ==
  /\ UNCHANGED known /\ Rest
  /\ \/ req.call.op = "pid" /\ Reply(IF x = NULL THEN "ERR" ELSE "OK", x)
     \/ /\ req.call.op = "listeners"
        /\ LET all == Append(pids, x)
           IN  IF Len(all) = Len(list) THEN Reply("OK", [list |-> list, pids |-> all])
               ELSE pids' = all /\ StartSearch(Len(all))

\* sigar_proc_port_get returns x (NULL: it failed, and a pid is not set): to
\* the client, or to the loop over the listeners, which goes on with the next.
Search(x) ==
  /\ UNCHANGED known /\ Rest
  /\ \/ req.call.op = "pid" /\ Reply(IF x = NULL THEN "ERR" ELSE "OK", x)
     \/ /\ req.call.op = "listeners"
        /\ LET all == Append(pids, x)
           IN  IF Len(all) = Len(list) THEN Reply("OK", [list |-> list, pids |-> all])
               ELSE pids' = all /\ StartSearch(Len(all) + 1)

Fails ==
  \/ target # NULL /\ Search(NULL)
  \/ target = NULL /\ Reply("ERR", NULL) /\ UNCHANGED known /\ Rest

\* What reading a table leaves as it is.
Walking == UNCHANGED <<req, netstat, conn, target, list, pids, scanned, res, known>> /\ Rest

\* The tables of a protocol that is not asked for.
SkipTable ==
  /\ pc = "open" /\ k <= 6 /\ Protocol[k] \notin Flags(req.call)
  /\ k' = k + 2
  /\ UNCHANGED <<pc, shown>> /\ Walking

\* A table is opened.  A host without IPv6 has no tables for it, which is no
\* error; any other failure, of the header line too, ends the walk.
OpenTable ==
  /\ pc = "open" /\ k <= 6 /\ Protocol[k] \in Flags(req.call)
  /\ \/ pc' = "read" /\ UNCHANGED <<k, shown>> /\ Walking
     \/ /\ Six(k) /\ \A i \in Inode : info[i].file # k
        /\ k' = k + 1 /\ UNCHANGED <<pc, shown>> /\ Walking
     \/ Fails

\* The kernel shows the sockets of a table in any order, each at most once.
ReadLine(i) ==
  /\ pc = "read" /\ i \in Alive \ shown /\ info[i].file = k
  /\ IF Wanted(i) THEN add_connection(i)
     ELSE shown' = shown \cup {i} /\ UNCHANGED <<pc, k, conn, list, netstat, net_listen>>
  /\ UNCHANGED <<kernVars, req, target, pids, scanned, res, calls, ghostVars, known>>

\* It leaves out none that is there all the time.
CloseTable ==
  /\ pc = "read" /\ \A i \in steady : info[i].file = k => i \in shown
  /\ pc' = "open" /\ k' = k + 1 /\ shown' = {} /\ Walking

\* What listened during the whole walk.
Learn == known' = known \cup {<<info[i].lport, info[i].laddr[1]>> : i \in {j \in steady : Listens(j)}}

\* The walk is complete: each call goes on.
EndWalk ==
  /\ pc = "open" /\ k > 6
  /\ LET op == req.call.op IN
     \/ /\ op = "stat" /\ Reply("OK", netstat) /\ Rest
        /\ IF {"TCP", "SERVER"} \subseteq Flags(req.call) THEN Learn ELSE UNCHANGED known
     \/ /\ op = "address" /\ Learn /\ Rest
        /\ LET a == net_listen[req.call.port]
           IN  Reply(IF a = NULL THEN "ENOENT" ELSE "OK", a)
     \/ op = "port" /\ Reply("OK", netstat) /\ UNCHANGED known /\ Rest
     \/ /\ target = NULL /\ (op = "list" \/ (op = "listeners" /\ list = << >>))
        /\ Reply("OK", [list |-> list, pids |-> << >>]) /\ UNCHANGED known /\ Rest
     \/ /\ target = NULL /\ op = "listeners" /\ list # << >>
        /\ StartSearch(1) /\ UNCHANGED <<pids, known>> /\ Rest
     \/ target # NULL /\ conn = NULL /\ Search(0)
     \/ /\ target # NULL /\ conn # NULL
        /\ \/ Fails
           \/ pc' = "scan" /\ UNCHANGED <<req, walkVars, res, known>> /\ Rest

\* sigar_proc_port_get looks through the descriptors of a process, by stat:
\* inode numbers are compared, not the devices they belong to.
Scan(p) ==
  /\ pc = "scan" /\ p \notin scanned
  /\ \/ (<<conn, p>> \in holds \/ p \in Alike) /\ Search(p)
     \/ /\ <<conn, p>> \notin holds \/ p \in Private
        /\ scanned' = scanned \cup {p}
        /\ UNCHANGED <<req, pc, k, shown, netstat, conn, target, list, pids, res, known>>
        /\ Rest

ScanEnd == pc = "scan" /\ scanned = Pid /\ Search(0)

Library ==
  \/ SkipTable \/ OpenTable \/ CloseTable \/ EndWalk \/ ScanEnd
  \/ \E i \in Inode : ReadLine(i)
  \/ \E p \in Pid : Scan(p)

\* The client has made its calls: the model ends.
Finished == pc = "idle" /\ calls = MaxCalls /\ UNCHANGED vars

Next == Kernel \/ Library \/ Finished \/ \E r \in Request : Begin(r)

Spec == Init /\ [][Next]_vars

-----------------------------------------------------------------------------
(* Properties.                                                             *)

Replied(op) == pc = "idle" /\ res # NULL /\ res.req.call.op = op /\ res.status = "OK"

TypeOK ==
  /\ info \in [Inode -> Kind] /\ holds \subseteq Inode \X Pid /\ born \subseteq Inode
  /\ changes \in 0..MaxChanges /\ calls \in 0..MaxCalls
  /\ net_listen \in [Port -> {NULL} \cup {s.laddr : s \in Kind}]
  /\ (req = NULL \/ (req.call \in Request /\ req.knew \subseteq known))
  /\ pc \in {"idle", "open", "read", "scan"} /\ k \in 1..7
  /\ shown \subseteq Inode /\ netstat \in [DOMAIN NoStat -> 0..Cardinality(Inode)]
  /\ target \in Port \cup {NULL} /\ conn \in Inode \cup {NULL}
  /\ list \in Seq(Inode) /\ pids \in Seq(Pid \cup {0, NULL}) /\ Len(pids) <= Len(list)
  /\ scanned \subseteq Pid
  /\ steady \subseteq present /\ present \subseteq born
  /\ kept \subseteq held /\ held \subseteq Inode \X Pid
  /\ known \subseteq Port \X {"inet", "inet6"}

\* n lies between the number of sockets with P that were there during the
\* whole call and of those that were there at some time.
Between(n, P(_)) ==
  /\ Cardinality({i \in steady : P(i)}) <= n
  /\ n <= Cardinality({i \in present : P(i)})

\* sigar_net_stat_get counts each TCP connection the flags ask for once, as
\* inbound or as outbound.  Whatever the order of the lines, it is inbound if
\* the port was seen to listen by a call before, and outbound if the port
\* never listened: the cache of ports gets stale only towards "inbound".
InboundOutbound ==
  Replied("stat") =>
    LET n == res.val
        f == res.req.call.flags
        Conn(i) == IsTcp(i) /\ ~IsServer(i) /\ {"TCP", "CLIENT"} \subseteq f
        Server(i) == Listens(i) /\ {"TCP", "SERVER"} \subseteq f
        Knew(i) == Conn(i) /\ \E a \in res.req.knew : a[1] = info[i].lport
        Never(i) == Conn(i) /\ \A j \in born : Listens(j) => info[j].lport # info[i].lport
    IN  /\ Between(n.tcp_in + n.tcp_out, Conn) /\ Between(n.other, Conn)
        /\ Between(n.listen, Server)
        /\ n.tcp_in >= Cardinality({i \in steady : Knew(i)})
        /\ n.tcp_out >= Cardinality({i \in steady : Never(i)})
        /\ n.all_in = n.tcp_in /\ n.all_out = n.tcp_out

\* sigar_net_listen_address_get returns an address some socket of the port
\* listened on, an IPv6 one only while no IPv4 listener has been seen, and
\* ENOENT only if no socket of the port was seen to listen, in this call or in
\* one before: sigar_net_stat_get never loses or downgrades an entry.
ListenAddress ==
  pc = "idle" /\ res # NULL /\ res.req.call.op = "address" =>
    LET p == res.req.call.port IN
    /\ res.status = "OK" =>
         /\ \E i \in born : Listens(i) /\ info[i].lport = p /\ info[i].laddr = res.val
         /\ <<p, "inet">> \in known => res.val[1] = "inet"
    /\ res.status = "ENOENT" => \A a \in known : a[1] # p

\* sigar_net_stat_port_get counts the connections of a port once, whatever
\* their tables, those of the address apart, and the state of just these.
PortCounts ==
  Replied("port") =>
    LET n == res.val
        r == res.req.call
        In(i) == IsTcp(i) /\ info[i].lport = r.port
        Out(i) == IsTcp(i) /\ info[i].lport # r.port /\ info[i].rport = r.port
        InAddr(i) == In(i) /\ info[i].laddr = r.addr
        OutAddr(i) == Out(i) /\ info[i].raddr = r.addr
    IN  /\ n.listen + n.other = n.all_in + n.all_out
        /\ r.flags = {"TCP", "CLIENT", "SERVER"} =>
             /\ Between(n.all_in, In) /\ Between(n.all_out, Out)
             /\ Between(n.tcp_in, InAddr) /\ Between(n.tcp_out, OutAddr)

\* A server socket of a port, of one of the protocols in f.
Serves(i, p, f) == info[i].lport = p /\ IsServer(i) /\ Protocol[info[i].file] \in f

\* sigar_proc_port_get, which reads the tables first and the descriptors
\* later, returns a process that held a server socket of the port while it ran
\* (or, on another device, a file with that inode number); it returns 0 only
\* if that socket was not the only one, or not held all the time by a process
\* it could look into.
PortPid ==
  Replied("pid") =>
    LET r == res.req.call
        Mine(i) == Serves(i, r.port, r.flags)
    IN  IF res.val = 0
        THEN \A i \in steady : Mine(i) /\ (\A j \in present \ {i} : ~Mine(j))
                                 => \A p \in Pid \ Private : <<i, p>> \notin kept
        ELSE \E i \in present : Mine(i) /\ (<<i, res.val>> \in held \/ res.val \in Alike)

\* A list has every socket that is there all the time and that the flags ask
\* for, and none twice.  The listeners come with pids: each is a process that
\* held a server socket of the entry's port, of either protocol, unless the
\* search failed, or found none.
ListedOnce ==
  Replied("list") \/ Replied("listeners") =>
    LET f == Flags(res.req.call)
        Asked(i) == /\ Protocol[info[i].file] \in f
                    /\ (IF IsServer(i) THEN "SERVER" ELSE "CLIENT") \in f
        got == res.val.list
        entries == {got[n] : n \in DOMAIN got}
    IN  /\ Cardinality(entries) = Len(got)
        /\ {i \in steady : Asked(i)} \subseteq entries
        /\ entries \subseteq {i \in present : Asked(i)}
        /\ res.req.call.op = "listeners" =>
             /\ Len(res.val.pids) = Len(got)
             /\ \A n \in DOMAIN got : res.val.pids[n] \in Pid \ Alike =>
                  \E i \in present : /\ Serves(i, info[got[n]].lport, {"TCP", "UDP"})
                                     /\ <<i, res.val.pids[n]>> \in held
=============================================================================
