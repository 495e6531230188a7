--------------------------- MODULE TargetSharding ---------------------------
(***************************************************************************)
(* target/mod.rs and the shares of multiprocess.rs: what a list of targets *)
(* means, how its jobs and its limits are split among worker processes,    *)
(* and what the counts of it are.                                          *)
(*                                                                         *)
(* An address is <<v6, n>>, a net its first address and prefix length in a *)
(* space of Bits bits (32 and 128 in the program, where sums of counts may *)
(* also saturate).  How often a job is generated matters, the order of the *)
(* jobs does not.                                                          *)
(*                                                                         *)
(* Faulty variants used by no other definition: PortModulo, EdgesAgain,    *)
(* RestToFirst.                                                            *)
(***************************************************************************)
EXTENDS Integers, Sequences, FiniteSets, FiniteSetsExt, SequencesExt

CONSTANTS
  Bits,        (* bits of an address                                        *)
  Lines,       (* the target lines: nets [v6, base, len], sockets [ip, port] *)
  Exclusions,  (* the excluded nets                                         *)
  PortSets,    (* the --ports arguments, as sets                            *)
  Limits,      (* the values of a limit that is shared                      *)
  MaxLines, MaxExclusions, MaxProcesses

IsNet(line) == "len" \in DOMAIN line
Powers ==
  LET power[k \in 0..Bits] == IF k = 0 THEN 1 ELSE 2 * power[k - 1]
  IN power
AddressCount(net) == Powers[Bits - net.len]

LastPort == 65535
Port  == 0..LastPort
Space == BOOLEAN \X (0..(Powers[Bits] - 1))
Nets  == {n \in [v6 : BOOLEAN, base : 0..(Powers[Bits] - 1), len : 0..Bits] :
            n.base % AddressCount(n) = 0}

ASSUME ShardingAssumption ==
  /\ Bits \in Nat /\ MaxProcesses \in Nat \ {0}
  /\ MaxLines \in Nat /\ MaxExclusions \in Nat /\ Limits \subseteq Nat
  /\ \A ports \in PortSets : ports \subseteq Port \ {0} /\ ports # {}
  /\ Lines \subseteq Nets \cup [ip : Space, port : Port]

-----------------------------------------------------------------------------
(* Nets.                                                                   *)

Addresses(net) == {net.v6} \X (net.base .. (net.base + AddressCount(net) - 1))

(* The network and broadcast address of an IPv4 net of prefix <= 30.       *)
Edges(net) ==
  IF net.v6 \/ Bits - net.len < 2 THEN {}
  ELSE {<<FALSE, net.base>>, <<FALSE, net.base + AddressCount(net) - 1>>}
Hosts(net) == Addresses(net) \ Edges(net)

(* IpNet::aggregate: the largest nets inside the union of the given ones.  *)
Aggregate(nets) ==
  LET Inside == {n \in Nets : Addresses(n) \subseteq UNION {Addresses(m) : m \in nets}}
  IN {n \in Inside : ~ \E m \in Inside : m # n /\ Addresses(n) \subseteq Addresses(m)}

(* TargetSet::parse: a socket line is one only in probe mode; elsewhere it *)
(* is no net, and the parse fails.  IPv6 nets need probe mode as well.     *)
(* The nets and the sockets keep the numbers of their lines.               *)
Accepted(lines, probe) ==
  /\ lines # <<>>
  /\ probe \/ \A i \in DOMAIN lines : IsNet(lines[i]) /\ ~lines[i].v6
Parse(lines, exclusions) ==
  [nets     |-> Restrict(lines, {i \in DOMAIN lines : IsNet(lines[i])}),
   sockets  |-> Restrict(lines, {i \in DOMAIN lines : ~IsNet(lines[i])}),
   excludes |-> Aggregate(exclusions)]

IsExcluded(t, ip) == \E n \in t.excludes : ip \in Addresses(n)

(* iter_ips and iter_sockets: how often they yield an address, a socket.   *)
IpTimes(t, ip) ==
  IF IsExcluded(t, ip) THEN 0 ELSE Cardinality({i \in DOMAIN t.nets : ip \in Hosts(t.nets[i])})
SocketTimes(t, ip, port) ==
  IF IsExcluded(t, ip) THEN 0
  ELSE Cardinality({i \in DOMAIN t.sockets : t.sockets[i] = [ip |-> ip, port |-> port]})

-----------------------------------------------------------------------------
(* Counts.                                                                 *)

NetSize(net) == AddressCount(net) - Cardinality(Edges(net))

EdgesAgain(net, exclude) ==
  IF Addresses(exclude) \subseteq Addresses(net) THEN AddressCount(exclude)
  ELSE IF Addresses(net) \subseteq Addresses(exclude) THEN AddressCount(net)
  ELSE 0
OverlapHosts(net, exclude) ==
  LET Common(n) == AddressCount(n) - Cardinality(Edges(net) \cap Addresses(n))
  IN IF Addresses(exclude) \subseteq Addresses(net) THEN Common(exclude)
     ELSE IF Addresses(net) \subseteq Addresses(exclude) THEN Common(net) ELSE 0

ExcludedHosts(t, net) == SumFunction([x \in t.excludes |-> OverlapHosts(net, x)])

HostCount(t) ==
  LET total    == SumFunction([i \in DOMAIN t.nets |-> NetSize(t.nets[i])])
      excluded == SumFunction([i \in DOMAIN t.nets |-> ExcludedHosts(t, t.nets[i])])
  IN Max({0, total - excluded})

Sockets(t) == {i \in DOMAIN t.sockets : ~IsExcluded(t, t.sockets[i].ip)}

(* PortSet: the sorted ports merged into ranges.                           *)
AddPort(ranges, p) ==
  IF ranges # <<>> /\ Last(ranges)[2] + 1 = p
    THEN [ranges EXCEPT ![Len(ranges)] = <<@[1], p>>]
    ELSE Append(ranges, <<p, p>>)
Increasing(s) == \A i \in DOMAIN s : \A j \in DOMAIN s : i < j => s[i] < s[j]
Sorted(ports) == CHOOSE s \in [1..Cardinality(ports) -> ports] : Increasing(s)
Merged(s) ==
  LET merged[k \in 0..Len(s)] == IF k = 0 THEN <<>> ELSE AddPort(merged[k - 1], s[k])
  IN merged
Ranges(ports) == Merged(Sorted(ports))[Cardinality(ports)]

RangeLen(r) == r[2] - r[1] + 1
Before(ranges) ==
  LET before[i \in 0..Len(ranges)] ==
        IF i = 0 THEN 0 ELSE before[i - 1] + RangeLen(ranges[i])
  IN before
PortsLen(ranges) == Before(ranges)[Len(ranges)]
PortsIter(ranges) ==
  FlattenSeq([i \in DOMAIN ranges |-> [k \in 1..RangeLen(ranges[i]) |-> ranges[i][1] + k - 1]])

JobCount(t, ranges) == HostCount(t) * PortsLen(ranges) + Cardinality(Sockets(t))

-----------------------------------------------------------------------------
(* Shards.                                                                 *)

PortModulo(ranges, port, workers) == port % workers
ShardForPort(ranges, port, workers) ==
  LET at == {i \in DOMAIN ranges : port \in ranges[i][1]..ranges[i][2]}
  IN IF at = {} THEN port % workers
     ELSE LET i == Min(at)
          IN (Before(ranges)[i - 1] + port - ranges[i][1]) % workers

(* ports.iter().skip(worker).step_by(workers)                              *)
Stride(ranges, worker, workers) ==
  LET all == PortsIter(ranges)
  IN {all[k] : k \in {k \in DOMAIN all : k > worker /\ (k - 1 - worker) % workers = 0}}

(* socket_targets, and socket_targets_shard of a worker 0..workers-1.      *)
JobTimes(t, ranges, ip, port) ==
  SocketTimes(t, ip, port)
  + (IF port \in ToSet(PortsIter(ranges)) THEN IpTimes(t, ip) ELSE 0)
ShardTimes(t, ranges, ip, port, worker, workers) ==
  (IF ShardForPort(ranges, port, workers) = worker THEN SocketTimes(t, ip, port) ELSE 0)
  + (IF port \in Stride(ranges, worker, workers) THEN IpTimes(t, ip) ELSE 0)

(* share_u64, share_usize.                                                 *)
RestToFirst(total, worker, workers) ==
  total \div workers + (IF worker = 0 /\ total % workers > 0 THEN 1 ELSE 0)
Share(total, worker, workers) ==
  total \div workers + (IF worker < total % workers THEN 1 ELSE 0)

-----------------------------------------------------------------------------
(* The parent starts the workers, each with its shard and its share.       *)

VARIABLES
  targets, ports,     (* the parsed targets, the port ranges                *)
  processes, limit,   (* --processes, and a limit that is shared            *)
  started,            (* workers started                                    *)
  given,              (* job |-> how often the started workers generate it  *)
  owners,             (* job |-> the workers that generate it               *)
  shared              (* the shares given out, summed                       *)

input == <<targets, ports, processes, limit>>
vars  == <<input, started, given, owners, shared>>

AllPorts == (UNION PortSets) \cup {l.port : l \in {l \in Lines : ~IsNet(l)}}
Jobs == Space \X AllPorts

(* validate(): no more processes than any of the shared limits.            *)
ValidLimit(workers) == {l \in Limits : workers <= l}

Init ==
  /\ \E lines \in SeqOf(Lines, MaxLines), probe \in BOOLEAN :
     \E exclusions \in {x \in SUBSET Exclusions : Cardinality(x) <= MaxExclusions} :
       /\ Accepted(lines, probe)
       /\ targets = Parse(lines, exclusions)
  /\ \E p \in PortSets : ports = Ranges(p)
  /\ processes \in 1..MaxProcesses /\ limit \in ValidLimit(processes)
  /\ started = 0 /\ shared = 0
  /\ given = [j \in Jobs |-> 0] /\ owners = [j \in Jobs |-> {}]

StartWorker ==
  /\ started < processes
  /\ LET times(j) == ShardTimes(targets, ports, j[1], j[2], started, processes)
     IN /\ given'  = [j \in Jobs |-> given[j] + times(j)]
        /\ owners' = [j \in Jobs |-> owners[j] \cup {w \in {started} : times(j) > 0}]
  /\ shared' = shared + Share(limit, started, processes)
  /\ started' = started + 1
  /\ UNCHANGED input

Next == StartWorker
Spec == Init /\ [][Next]_vars

-----------------------------------------------------------------------------
(* Properties.                                                             *)

(* README.md:440: no two workers scan the same IP:PORT, also when it is an *)
(* explicit target, in the port set or not, and inside a net as well.      *)
OneOwner == \A j \in Jobs : Cardinality(owners[j]) <= 1

(* Together the workers generate exactly what a single process would, as   *)
(* often as it would; their shares add up to the limit, and none of them   *)
(* is started with a limit of zero, which it would refuse.                 *)
NothingLostInShards ==
  /\ shared >= started
  /\ started = processes =>
       /\ \A j \in Jobs : given[j] = JobTimes(targets, ports, j[1], j[2])
       /\ shared = limit

(* host_count and job_count, computed from prefixes, are the numbers of    *)
(* addresses and jobs that iteration yields: overlapping nets count twice, *)
(* excluded addresses never, network and broadcast addresses only once.    *)
CountsExact ==
  started = 0 =>
    /\ HostCount(targets) = SumFunction([ip \in Space |-> IpTimes(targets, ip)])
    /\ JobCount(targets, ports)
         = SumFunction([j \in Jobs |-> JobTimes(targets, ports, j[1], j[2])])
=============================================================================
