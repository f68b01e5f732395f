------------------------------ MODULE MCTopology ------------------------------
(* Processors for Topology. *)
EXTENDS Topology

CONSTANTS twoCcds, noSmt, hidden, oneCcd, small, intel, server

\* Cores of a group, each of so many bits.
MCCores(group, n, threads) ==
  [c \in 1..n |-> [group |-> group, bits |-> threads * (c - 1)..threads * c - 1]]

MCConst(n, value) == [b \in 0..n - 1 |-> value]
MCHalf(n) == [b \in 0..n - 1 |-> IF b < n \div 2 THEN 0 ELSE 1]
MCIds(n) == [b \in 0..n - 1 |-> b]

MCAmd(model, cores, n, node, die26, ccd) ==
  [vendor |-> "AuthenticAMD", model |-> model, groups |-> 1, cores |-> cores,
   packages |-> <<[group |-> 0, bits |-> 0..n - 1]>>, dies |-> <<>>,
   max_ext |-> 38, node |-> node, die26 |-> die26, x2apic |-> MCIds(n), ccd |-> ccd]

\* Two CCDs, with and without SMT, and with the node id zeroed; one CCD with 16
\* logical processors and with 8; modules without CPUID; two processor groups.
MCMachines ==
  [m \in {twoCcds, noSmt, hidden, oneCcd, small, intel, server} |->
     CASE m = twoCcds -> MCAmd(1, MCCores(0, 8, 2), 16, MCHalf(16), MCConst(16, 0), MCHalf(16))
       [] m = noSmt   -> MCAmd(1, MCCores(0, 8, 1), 8, MCHalf(8), MCConst(8, 0), MCHalf(8))
       [] m = hidden  -> MCAmd(2, MCCores(0, 8, 2), 16, MCConst(16, 0), MCHalf(16), MCHalf(16))
       [] m = oneCcd  -> MCAmd(3, MCCores(0, 8, 2), 16, MCConst(16, 0), MCConst(16, 0), MCConst(16, 0))
       [] m = small   -> [MCAmd(4, MCCores(0, 4, 2), 8, MCConst(8, 0), MCConst(8, 0), MCConst(8, 0))
                            EXCEPT !.max_ext = 30]
       [] m = intel   -> [MCAmd(5, MCCores(0, 4, 2), 8, MCConst(8, 0), MCConst(8, 0), MCHalf(8))
                            EXCEPT !.vendor = "GenuineIntel",
                                   !.dies = <<[group |-> 0, bits |-> 0..3],
                                              [group |-> 0, bits |-> 4..7]>>]
       [] m = server  -> [MCAmd(6, MCCores(0, 4, 2) \o MCCores(1, 4, 2), 8,
                                MCConst(8, 0), MCConst(8, 0), <<>>)
                            EXCEPT !.groups = 2,
                                   !.dies = <<[group |-> 0, bits |-> 0..7],
                                              [group |-> 1, bits |-> 0..7]>>]]

\* The server's processor in one socket, and in two.
MCSockets ==
  [m \in {small, server} |->
     IF m = server THEN MCMachines[server] ELSE [MCMachines[small] EXCEPT !.model = 6]]

MCMasks == {0..3, 0..7, 0..15}
=============================================================================
