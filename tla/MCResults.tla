----------------------------- MODULE MCResults -----------------------------
(* What becomes of the results of an analysis: the plugins, among them the processing of
   the network capture, of the behaviour logs and of the memory dump, CuckooML, and the stored reports.  These
   share no state: an instance has one of them at work and the others at rest.     *)
EXTENDS Plugins, Network, Behaviour, CuckooML, Memory, MCResultStore

VARIABLE part     \* which of them is at work

-----------------------------------------------------------------------------
(* Two auxiliary, three processing and two reporting modules; one signature class that is
   switched off, one too old, and four that run: a and b look at calls, one of them by
   category, c waits for both and comes before them, d waits for c. *)
SomeMembers ==
    <<[name |-> "Auxiliary", base |-> "Auxiliary"],
      [name |-> "sniffer", base |-> "Auxiliary"], [name |-> "mitm", base |-> "Auxiliary"],
      [name |-> "network", base |-> "Processing"], [name |-> "behavior", base |-> "Processing"],
      [name |-> "debug", base |-> "Processing"],
      [name |-> "d", base |-> "Signature"], [name |-> "c", base |-> "Signature"],
      [name |-> "off", base |-> "Signature"], [name |-> "a", base |-> "Signature"],
      [name |-> "b", base |-> "Signature"], [name |-> "old", base |-> "Signature"],
      [name |-> "mongodb", base |-> "Report"], [name |-> "jsondump", base |-> "Report"]>>
SomeOrders == [network |-> 2, behavior |-> 1, debug |-> 3, mongodb |-> 2, jsondump |-> 1]
SigClass == [enabled |-> TRUE, minimum |-> 20, maximum |-> 0, oldStyle |-> FALSE, platform |-> "windows",
             apis |-> {}, categories |-> {}, severity |-> 1, pattern |-> {}]
SomeClasses ==
    [a |-> [SigClass EXCEPT !.apis = {"x"}, !.severity = 3],
     b |-> [SigClass EXCEPT !.categories = {"file"}, !.pattern = {"exe"}],
     c |-> [SigClass EXCEPT !.severity = 2], d |-> [SigClass EXCEPT !.platform = ""],
     off |-> [SigClass EXCEPT !.enabled = FALSE], old |-> [SigClass EXCEPT !.maximum = Malformed]]
SomeNeeds == [a |-> {}, b |-> {}, c |-> {"a", "b"}, d |-> {"c"}, off |-> {}, old |-> {}]
SomeProcs ==
    <<[pid |-> 1, name |-> "p", calls |-> <<[api |-> "x", category |-> "file"], [api |-> "y", category |-> "net"]>>,
       summary |-> {<<"file_written", "exe">>, <<"mutex", "m">>}],
      [pid |-> 2, name |-> "q", calls |-> <<[api |-> "x", category |-> "file"]>>, summary |-> {}]>>

-----------------------------------------------------------------------------
Packet(c, d, k, b) == [conn |-> c, dir |-> d, kind |-> k, body |-> b]
SomePackets == {Packet("web", 0, "tcp", "http"), Packet("web", 1, "tcp", "hello"), Packet("web", 0, "syn", "1"),
                Packet("dns", 0, "udp", "name"), Packet("dns", 1, "udp", "name"),
                Packet("ping", 0, "cutIcmp", ""), Packet("mail", 1, "tcp", "irc")}
SomeEnds == [web |-> [src |-> "guest", sport |-> 1, dst |-> "out", dport |-> 443],
             dns |-> [src |-> "guest", sport |-> 2, dst |-> "host", dport |-> 53],
             ping |-> [src |-> "guest", sport |-> 0, dst |-> "out", dport |-> 0],
             mail |-> [src |-> "guest", sport |-> 3, dst |-> "mx", dport |-> 25]]
SomeFlowRanks == [ping |-> <<0, 6>>, web |-> <<1, 7>>, dns |-> <<2, 5>>, mail |-> <<3, 8>>]

-----------------------------------------------------------------------------
Message(t, api, key, val) == [type |-> t, api |-> api, key |-> key, val |-> val, ok |-> TRUE, status |-> "", fits |-> TRUE,
                        pid |-> 1, ppid |-> 0, wide |-> FALSE]
SomeMessages == {Message("info", "NtCreateFile", "", ""), Message("call", "NtCreateFile", "h", "path"),
                 Message("call", "NtReadFile", "h", ""), Message("info", "NtReadFile", "", ""), Message("buffer", "", "", "sum"),
                 [Message("process", "", "", "") EXCEPT !.wide = TRUE], Message("cut", "", "", "")}
SomeFiles == [a |-> "bson", b |-> "bson", s |-> "stap"]

-----------------------------------------------------------------------------
Report == [size |-> 5, timestamp |-> Missing, versioninfo |-> << >>, magic |-> [magic_byte |-> <<"P", "E", "3", "2">>],
           signature |-> {}, peid |-> {"UPX 1"}, resources |-> <<<<"ENGLISH", "US">>, <<"ENGLISH", Absent>>>>, dllCount |-> 1,
           imports |-> <<<<"kernel32", {"ReadFile"}>>, <<Absent, {}>>>>,
           processes |-> <<"a.exe", "a.exe">>, tcp |-> <<"ip", Absent>>, udp |-> <<"dns">>,
           summary |-> [file_copied |-> {<<"x", "y">>}, file_moved |-> {<<"y", "z">>}, file_read |-> {"x"}],
           dns |-> <<<<"name", {"ip"}>>, <<"name", {}>>>>, http |-> <<<<"GET", "name">>>>,
           apistats |-> <<[ReadFile |-> 2], [ReadFile |-> 1, Exit |-> 1]>>, matched |-> {<<"packer_upx", "UPX">>, <<Absent, "other">>},
           scans |-> [v \in 1..5 |-> {"zeus"}], virustotal |-> TRUE, torn |-> FALSE, clustering |-> << >>]
Bare == [Report EXCEPT !.versioninfo = [Comments |-> <<"o", "k">>], !.signature = {"md5"},
                       !.summary = [mutex |-> {<<"m", "1", ".">>}],
                       !.scans = [v \in 1..4 |-> {"zeus"}], !.http = << >>, !.matched = {}]
SomeSamples == [a |-> Report, b |-> Bare]
Unlucky == [Report EXCEPT !.http = <<<<"GET", Absent>>>>]
SomeNew == {Report, [Report EXCEPT !.virustotal = FALSE], Unlucky}

Conf == [clustering |-> TRUE, features |-> {"simple"}, filters |-> <<"filter_dataset">>, algorithm |-> "hdbscan",
         parameter |-> 1, abnormal |-> TRUE, anomalies |-> TRUE, test |-> "file", save |-> TRUE, directory |-> FALSE,
         current |-> ""]
SomeSettings ==
    {Conf, [Conf EXCEPT !.directory = TRUE, !.features = {"nominal", "numerical"}, !.filters = <<"none", "other">>],
     [Conf EXCEPT !.algorithm = "dbscan", !.anomalies = FALSE], [Conf EXCEPT !.algorithm = "dbscan"],
     [Conf EXCEPT !.algorithm = "optics"], [Conf EXCEPT !.filters = <<"log_bin">>], [Conf EXCEPT !.clustering = FALSE]}
SomeFits == {[label |-> -1, probability |-> 0, score |-> 100], [label |-> 0, probability |-> 100, score |-> 0],
             [label |-> 0, probability |-> 50, score |-> 60]}

-----------------------------------------------------------------------------
Process(p) == [pid |-> p, active |-> TRUE, token |-> TRUE, injected |-> FALSE, hooked |-> FALSE, service |-> FALSE,
               connected |-> TRUE]
SomeRams == {{Process(4), [Process(8) EXCEPT !.injected = TRUE], [Process(12) EXCEPT !.hooked = TRUE, !.token = FALSE]},
             {Process(4), [Process(8) EXCEPT !.active = FALSE], [Process(12) EXCEPT !.injected = TRUE, !.service = TRUE]}}
SomeProfiles == [WinXPSP2x86 |-> {"winxp", "x86"}, Win7SP1x64 |-> {"win7", "x64"}]
AllPlugins == {PLUGINS[i].name : i \in DOMAIN PLUGINS}
SomePlugins == AllPlugins \ {"handles"}
SomeFilters == AllPlugins \ {"pslist"}

-----------------------------------------------------------------------------
Init == /\ part \in {"plugins", "network", "behaviour", "cuckooml", "memory", "store"}
        /\ PluginsInit /\ NetworkInit /\ BehaviourInit /\ CuckooMLInit /\ MemoryInit /\ ResultStoreInit
        /\ part # "network" => sortIt
        /\ part # "memory" => deleting /\ ram = CHOOSE r \in Rams : TRUE

PluginsWorks   == part = "plugins" /\ PluginsNext /\ UNCHANGED <<part, nvars, bvars, mlvars, memvars, store>>
NetworkWorks   == part = "network" /\ NetworkNext /\ UNCHANGED <<part, pvars, bvars, mlvars, memvars, store>>
BehaviourWorks == part = "behaviour" /\ BehaviourNext /\ UNCHANGED <<part, pvars, nvars, mlvars, memvars, store>>
CuckooMLWorks  == part = "cuckooml" /\ CuckooMLNext /\ UNCHANGED <<part, pvars, nvars, bvars, memvars, store>>
MemoryWorks    == part = "memory" /\ MemoryNext /\ UNCHANGED <<part, pvars, nvars, bvars, mlvars, store>>
StoreWorks     == part = "store" /\ ResultStoreNext /\ UNCHANGED <<part, pvars, nvars, bvars, mlvars, memvars>>

Next == PluginsWorks \/ NetworkWorks \/ BehaviourWorks \/ CuckooMLWorks \/ MemoryWorks \/ StoreWorks
=============================================================================
