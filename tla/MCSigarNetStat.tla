--------------------------- MODULE MCSigarNetStat ---------------------------
(* Small instances of SigarNetStat: two ports, of which one is asked for,   *)
(* sockets of both families and protocols, and every call; one process can  *)
(* be read, the other one only sometimes.                                  *)
EXTENDS SigarNetStat, TLC

CONSTANTS p1, p2, Peer

ASSUME MCAssumption == Port = {p1, p2} /\ p1 # p2 /\ Peer \in Nat

Four(n) == <<"inet", n>>
SixAddr(n) == <<"inet6", n>>

\* Listeners of p1 in both families and of p2, a connection from p2 to p1,
\* and a UDP socket with the port p1.
MCKind ==
  {[file |-> 1, lport |-> p1, laddr |-> Four(0), rport |-> NULL, raddr |-> Four(0)],
   [file |-> 2, lport |-> p1, laddr |-> SixAddr(0), rport |-> NULL, raddr |-> SixAddr(0)],
   [file |-> 1, lport |-> p2, laddr |-> Four(Peer), rport |-> NULL, raddr |-> Four(0)],
   [file |-> 1, lport |-> p2, laddr |-> Four(Peer), rport |-> p1, raddr |-> Four(0)],
   [file |-> 3, lport |-> p1, laddr |-> Four(0), rport |-> NULL, raddr |-> Four(0)]}

All == {"TCP", "CLIENT", "SERVER"}

MCRequest ==
  {[op |-> "stat", flags |-> All], [op |-> "stat", flags |-> {"TCP", "CLIENT"}],
   [op |-> "address", port |-> p1],
   [op |-> "port", port |-> p1, addr |-> Four(0), flags |-> All],
   [op |-> "pid", port |-> p1, flags |-> {"TCP"}],
   [op |-> "list", flags |-> {"TCP", "UDP", "RAW", "CLIENT", "SERVER"}],
   [op |-> "listeners"]}

Symmetry == Permutations(Inode) \cup Permutations(Pid \ (Private \cup Alike))
=============================================================================
