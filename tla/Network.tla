------------------------------ MODULE Network ------------------------------
(* modules/processing/network.py: the capture of an analysis is sorted by connection
   in chunks that fit in memory, dissected packet by packet, and later read again from
   the offset of a connection by the web interface.

   A packet is [conn, dir, kind, body]: its connection, its direction in it, what it
   carries, and the payload where that matters.  It is named by its place in the
   capture, which also orders it in time.                                        *)
EXTENDS Naturals, Sequences, FiniteSets, SequencesExt, FiniteSetsExt, TLC

CONSTANTS Packets,     \* the packets that may be captured
          MaxPackets,  \* bound on the length of a capture
          ChunkSize,   \* buffer_size of batch_sort
          FlowRank,    \* [conn -> [dir + 1 -> Nat]]: the order of the flow tuples
          Ends,        \* [conn -> [src, sport, dst, dport]] seen from direction 0
          Private,     \* the addresses in the private blocks
          HostIp,      \* the address of the result server
          Quiet,       \* domains the filters leave out
          SortPcap     \* the values of sort_pcap tried

(* A connection is both its flow tuples, so that no two connections share one. *)
ASSUME NetworkAssumption ==
    /\ ChunkSize \in Nat \ {0}
    /\ \A p \in Packets : p.dir \in {0, 1} /\ \A d \in {1, 2} : FlowRank[p.conn][d] \in Nat
    /\ \A p, q \in Packets : \A d, e \in {1, 2} : FlowRank[p.conn][d] = FlowRank[q.conn][e] => p.conn = q.conn

VARIABLES pcap,    \* the packets of dump.pcap
          nstage, sortIt,
          chunks,  \* the sorted temporary files of batch_sort
          taken,   \* how far heapq.merge has read each of them
          sorted,  \* dump_sorted.pcap
          at,      \* the next packet to dissect
          net      \* what Pcap has found

nvars == <<pcap, nstage, sortIt, chunks, taken, sorted, at, net>>

Src(p) == IF p.dir = 0 THEN Ends[p.conn].src ELSE Ends[p.conn].dst
Dst(p) == IF p.dir = 0 THEN Ends[p.conn].dst ELSE Ends[p.conn].src
Sport(p) == IF p.dir = 0 THEN Ends[p.conn].sport ELSE Ends[p.conn].dport
Dport(p) == IF p.dir = 0 THEN Ends[p.conn].dport ELSE Ends[p.conn].sport

(* flowtuple_from_raw: a payload that is not a TCP or UDP header where the protocol says
   so has no ports, and the AttributeError is caught by nobody in the sort. *)
HasFlow(p) == p.kind # "cut"

(* Variant: the direction of the packet itself. *)
OwnDirection(file, i) == pcap[file[i]].dir
(* SortCap.next gives a packet the direction in which its connection was first seen in
   this file: conns is empty when a file is opened. *)
SeenFirst(file, i) ==
    LET same == {j \in 1..i : pcap[file[j]].conn = pcap[file[i]].conn}
    IN  pcap[file[Min(same)]].dir
Key(file, i) == <<FlowRank[pcap[file[i]].conn][SeenFirst(file, i) + 1], file[i]>>
Before(k, l) == k[1] < l[1] \/ (k[1] = l[1] /\ k[2] < l[2])

NetworkInit ==
    /\ pcap = << >> /\ nstage = "capture" /\ sortIt \in SortPcap
    /\ chunks = << >> /\ taken = << >> /\ sorted = << >> /\ at = 1
    /\ net = [hosts |-> << >>, unique |-> << >>, domains |-> {}, tcp |-> << >>, udp |-> << >>,
              seen |-> {}, last |-> << >>, dead |-> << >>, icmp |-> 0, http |-> << >>, tls |-> {},
              dns |-> << >>, smtp |-> << >>, irc |-> 0, offset |-> 1, reported |-> {}]

Capture(p) ==
    /\ nstage = "capture" /\ Len(pcap) < MaxPackets
    /\ pcap' = Append(pcap, p)
    /\ UNCHANGED <<nstage, sortIt, chunks, taken, sorted, at, net>>

(* NetworkAnalysis.run: nothing but the mitm results without packets, else the capture is
   sorted or dissected as it is. *)
All == [i \in DOMAIN pcap |-> i]
Analyse ==
    /\ nstage = "capture"
    /\ nstage' = CASE pcap = << >> -> "done" [] sortIt -> "sort" [] OTHER -> "dissect"
    /\ sorted' = IF sortIt THEN << >> ELSE All
    /\ UNCHANGED <<pcap, sortIt, chunks, taken, at, net>>

(* batch_sort: the next chunk is read, sorted by its keys, which all differ, and written. *)
ChunkOf(n) == {i \in DOMAIN pcap : i > n * ChunkSize /\ i <= (n + 1) * ChunkSize}
SortedChunk(n) ==
    CHOOSE q \in [1..Cardinality(ChunkOf(n)) -> ChunkOf(n)] :
        \A j, k \in DOMAIN q : j < k => Before(Key(All, q[j]), Key(All, q[k]))
ReadChunk ==
    LET n == Len(chunks) IN
    /\ nstage = "sort" /\ ChunkOf(n) # {}
    /\ IF \A i \in ChunkOf(n) : HasFlow(pcap[i])
       THEN /\ chunks' = Append(chunks, SortedChunk(n))
            /\ taken' = Append(taken, 0)
            /\ UNCHANGED nstage
       ELSE nstage' = "failed" /\ UNCHANGED <<chunks, taken>>
    /\ UNCHANGED <<pcap, sortIt, sorted, at, net>>

(* heapq.merge: the least of the heads.  The chunks are read through a SortCap each, so
   that their keys are computed anew from the packets of the chunk alone. *)
Heads == {c \in DOMAIN chunks : taken[c] < Len(chunks[c])}
HeadKey(c) == Key(chunks[c], taken[c] + 1)
Merge ==
    /\ nstage = "sort" /\ ChunkOf(Len(chunks)) = {} /\ Heads # {}
    /\ LET c == CHOOSE h \in Heads : \A g \in Heads \ {h} : Before(HeadKey(h), HeadKey(g)) IN
       /\ sorted' = Append(sorted, chunks[c][taken[c] + 1])
       /\ taken' = [taken EXCEPT ![c] = @ + 1]
    /\ UNCHANGED <<pcap, nstage, sortIt, chunks, at, net>>
MergeEnds ==
    /\ nstage = "sort" /\ ChunkOf(Len(chunks)) = {} /\ Heads = {}
    /\ nstage' = "dissect"
    /\ UNCHANGED <<pcap, sortIt, chunks, taken, sorted, at, net>>

-----------------------------------------------------------------------------
(* Pcap: one packet.  Its parts are operators from what was found to what is found. *)

(* _add_hosts: an address is remembered once; an outside one only as a destination. *)
AddSource(n, ip) ==
    IF ip \notin ToSet(n.hosts) /\ ip \in Private THEN [n EXCEPT !.hosts = Append(@, ip)] ELSE n
AddDest(n, ip) ==
    IF ip \in ToSet(n.hosts) THEN n
    ELSE [n EXCEPT !.hosts = Append(@, ip), !.unique = IF ip \in Private THEN @ ELSE Append(@, ip)]
AddHosts(n, p) == AddDest(AddSource(n, Src(p)), Dst(p))

Count(f, x) == IF x \in DOMAIN f THEN [f EXCEPT ![x] = @ + 1] ELSE f @@ (x :> 1)

(* _add_http counts a request that is repeated byte by byte. *)
AddHttp(n, p) == IF p.body = "http" THEN [n EXCEPT !.http = Count(@, p.body)] ELSE n
(* _reassemble_smtp strings together what is sent to one address on port 25. *)
Reassemble(n, p) ==
    IF Dport(p) # 25 THEN n
    ELSE [n EXCEPT !.smtp = IF Dst(p) \in DOMAIN @ THEN [@ EXCEPT ![Dst(p)] = Append(@, p.body)]
                            ELSE @ @@ (Dst(p) :> <<p.body>>)]
AddIrc(n, p) == IF Dport(p) # 21 /\ p.body = "irc" THEN [n EXCEPT !.irc = @ + 1] ELSE n
(* _https_identify wants a TLS handshake with a ServerHello. *)
HttpsIdentify(n, p) ==
    IF 443 \in {Dport(p), Sport(p)} /\ p.body = "hello" THEN [n EXCEPT !.tls = @ \union {p.conn}] ELSE n
TcpDissect(n, p) == HttpsIdentify(AddIrc(Reassemble(AddHttp(n, p), p), p), p)

(* _add_domain and _add_dns: answers to a question asked before are appended again, since
   dns_answers stays empty. *)
AddDomain(n, name) == IF name \in Quiet THEN n ELSE [n EXCEPT !.domains = @ \union {name}]
AddDns(n, p) ==
    [AddDomain(n, p.body) EXCEPT !.dns =
        IF p.body \in DOMAIN @ THEN [@ EXCEPT ![p.body] = @ + p.dir] ELSE @ @@ (p.body :> p.dir)]
UdpDissect(n, p) ==
    IF {Dport(p), Sport(p)} \cap {53, 5353} # {} /\ p.body # "junk" THEN AddDns(n, p) ELSE n
IcmpDissect(n, p) == IF Src(p) # HostIp /\ p.body # "" THEN [n EXCEPT !.icmp = @ + 1] ELSE n

(* The first packet with data of a connection, in whichever direction, lists it with the
   offset that was noted after the packet before. *)
Listed(n, p) == [conn |-> p.conn, dir |-> p.dir, offset |-> n.offset]
AddTcp(n, p) ==
    IF p.conn \in n.seen THEN n
    ELSE [n EXCEPT !.tcp = Append(@, Listed(n, p)), !.seen = @ \union {p.conn}]
AddUdp(n, p) ==
    IF p.conn \in n.seen THEN n
    ELSE [n EXCEPT !.udp = Append(@, Listed(n, p)), !.seen = @ \union {p.conn}]

(* Without data: a packet that repeats the numbers of the one before counts as a retry of
   the host it goes to. *)
Retry(n, p) ==
    LET way == <<p.conn, p.dir>>  again == way \in DOMAIN n.last /\ n.last[way] = p.body
        host == <<Dst(p), Dport(p)>> IN
    [n EXCEPT !.last = (way :> p.body) @@ @,
              !.dead = IF ~ again THEN @
                       ELSE IF host \in DOMAIN @ THEN [@ EXCEPT ![host] = @ + 1] ELSE @ @@ (host :> 2)]

Found(n, p) ==
    LET h == AddHosts(n, p) IN
    CASE p.kind = "tcp" -> AddTcp(TcpDissect(h, p), p)
      [] p.kind = "syn" -> Retry(h, p)
      [] p.kind = "udp" -> AddUdp(UdpDissect(h, p), p)
      [] p.kind = "icmp" -> IcmpDissect(h, p)
      [] p.kind = "arp" -> n     \* not IP: nothing but the offset
      [] OTHER -> h              \* the header cannot be read

(* An exception goes on with the next packet, the offset left as it was.  An ICMP header
   that is cut gets here also through the sort, which does not look at it. *)
Unreadable(p) == p.kind \in {"cut", "cutIcmp"}
OffsetNoted(n, p, next) == IF Unreadable(p) THEN n ELSE [n EXCEPT !.offset = next]
Dissect ==
    /\ nstage = "dissect" /\ at <= Len(sorted)
    /\ LET p == pcap[sorted[at]] IN net' = OffsetNoted(Found(net, p), p, at + 1)
    /\ at' = at + 1
    /\ UNCHANGED <<pcap, nstage, sortIt, chunks, taken, sorted>>

(* _process_smtp keeps the flows that begin with a greeting, dead_hosts the addresses that
   were tried three times. *)
Finish ==
    /\ nstage = "dissect" /\ at > Len(sorted)
    /\ net' = [net EXCEPT !.reported = {w \in DOMAIN net.dead : net.dead[w] > 2},
                          !.smtp = Restrict(@, {d \in DOMAIN @ : @[d][1] = "ehlo"})]
    /\ nstage' = "done"
    /\ UNCHANGED <<pcap, sortIt, chunks, taken, sorted, at>>

NetworkNext ==
    \/ \E p \in Packets : Capture(p)
    \/ Analyse \/ ReadChunk \/ Merge \/ MergeEnds \/ Dissect \/ Finish

NetworkSpec == NetworkInit /\ [][NetworkNext]_nvars

-----------------------------------------------------------------------------
(* next_connection_packets: from the offset on, for as long as the packets belong to the
   connection of the first one. *)
Breaks(o) == {i \in o..Len(sorted) : pcap[sorted[i]].conn # pcap[sorted[o]].conn}
StreamAt(o) == LET end == IF Breaks(o) = {} THEN Len(sorted) ELSE Min(Breaks(o)) - 1
               IN  {sorted[i] : i \in o..end}

Connections == ToSet(net.tcp) \union ToSet(net.udp)
PacketsOf(c) == {i \in DOMAIN pcap : pcap[i].conn = c /\ pcap[i].kind \in {"tcp", "udp"}}

(* packets_for_stream gives all packets of a connection that fell in one chunk of the sort,
   however the other connections, turned around by the sort or not, are merged around it,
   unless the packet before it could not be read.  For one that spans two chunks it does
   not: the second chunk may have been given the other direction, and be merged elsewhere. *)
InOneChunk(c) == \E k \in DOMAIN chunks : {i \in DOMAIN pcap : pcap[i].conn = c} \subseteq ToSet(chunks[k])
AfterUnreadable(c) == \E i \in DOMAIN sorted \ {1} : pcap[sorted[i]].conn = c /\ Unreadable(pcap[sorted[i - 1]])
StreamOfChunk ==
    nstage = "done" /\ sortIt =>
        \A s \in Connections :
            InOneChunk(s.conn) /\ ~ AfterUnreadable(s.conn) => PacketsOf(s.conn) \subseteq StreamAt(s.offset)

(* What is dissected are the packets of the capture, each once, whether they were sorted or
   not and wherever the last chunk ended. *)
EachPacketOnce ==
    nstage \in {"dissect", "done"} =>
        /\ ToSet(sorted) = DOMAIN pcap
        /\ \A i, j \in DOMAIN sorted : sorted[i] = sorted[j] => i = j
=============================================================================
