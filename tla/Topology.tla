------------------------------ MODULE Topology ------------------------------
(***************************************************************************)
(* The topology builder (src/runtime/src/topology.rs): clock domains,      *)
(* components and links are declared in any order, nothing is checked      *)
(* until elaborate, which refuses the topology with the first error it     *)
(* finds or pairs every port with its peer.                                *)
(*                                                                         *)
(* A component is its path and its ports, each with a name, a role and a   *)
(* protocol.  Ids count from 0, as in the code.                            *)
(***************************************************************************)
EXTENDS Checks

CONSTANTS
    Paths,          \* component paths
    PortLists,      \* what Component::ports may return
    Links,          \* the links a topology may declare: their ends a and b, each a
                    \* component id and a port name, and their latency, which may
                    \* name a clock domain
    MaxPorts,       \* most ports a PortId can index
    MaxDomains, MaxComponents, MaxLinks   \* bounds of the declarations

VARIABLES
    domains,     \* the number of clock domains declared
    components,  \* the components declared
    links,       \* the links declared
    elaborated   \* <<>>, or the result of elaborate: an error or the peers

vars == <<domains, components, links, elaborated>>

Init == domains = 0 /\ components = <<>> /\ links = <<>> /\ elaborated = <<>>

add_clock ==
    /\ elaborated = <<>> /\ domains < MaxDomains
    /\ domains' = domains + 1
    /\ UNCHANGED <<components, links, elaborated>>

add_component(path, ports) ==
    /\ elaborated = <<>> /\ Len(components) < MaxComponents
    /\ components' = Append(components, [path |-> path, ports |-> ports])
    /\ UNCHANGED <<domains, links, elaborated>>

connect(link) ==
    /\ elaborated = <<>> /\ Len(links) < MaxLinks
    /\ links' = Append(links, link)
    /\ UNCHANGED <<domains, components, elaborated>>

Ports == {<<c, p>> \in (0..(Len(components) - 1)) \X (0..(MaxPorts - 1)) :
             p < Len(components[c + 1].ports)}
PortSpec(port) == components[port[1] + 1].ports[port[2] + 1]

Duplicate(s) == \E i, j \in DOMAIN s : i # j /\ s[i] = s[j]

(* The components, in declaration order. *)
ComponentError(i) ==
    LET declared == components[i]
        names    == [k \in DOMAIN declared.ports |-> declared.ports[k].name]
    IN  FirstFailure(
            <<<<\E j \in 1..(i - 1) : components[j].path = declared.path, "DuplicatePath">>,
              <<Len(declared.ports) > MaxPorts, "TooManyPorts">>,
              <<Duplicate(names), "DuplicatePortName">>>>)

(* resolve_port: the ids of a link's end, or an error. *)
resolve_port(end) ==
    LET named == {p \in Ports : p[1] = end[1] /\ PortSpec(p).name = end[2]}
    IN  CASE end[1] >= Len(components) -> Err("UnknownComponent")
          [] end[1] < Len(components) /\ named = {} -> Err("UnknownPort")
          [] OTHER -> Ok(CHOOSE p \in named : TRUE)

(* A mutant: only the first end of a link is checked for another link. *)
AlreadyLinkedFirst(peers, a, b) == a \in DOMAIN peers

AlreadyLinked(peers, a, b) == {a, b} \cap DOMAIN peers # {}

(* One link: the peers so far and its own pair, or an error. *)
Link(peers, link) ==
    LET a == resolve_port(link.a)
        b == resolve_port(link.b)
    IN  CASE link.latency # <<>> /\ link.latency[1] >= domains -> Err("UnknownClockDomain")
          [] OTHER ->
                 IF ~IsOk(a) THEN a ELSE IF ~IsOk(b) THEN b
                 ELSE LET error == FirstFailure(
                              <<<<PortSpec(a.ok).role = PortSpec(b.ok).role, "RoleMismatch">>,
                                <<PortSpec(a.ok).protocol # PortSpec(b.ok).protocol, "ProtocolMismatch">>,
                                <<AlreadyLinked(peers, a.ok, b.ok), "PortAlreadyLinked">>>>)
                      IN  IF error # <<>> THEN Err(error[1])
                          ELSE Ok((a.ok :> b.ok) @@ (b.ok :> a.ok) @@ peers)

Elaboration ==
    LET declared == FirstOf([i \in DOMAIN components |-> ComponentError(i)])
        linked   == FoldLeft(LAMBDA result, link : IF IsOk(result) THEN Link(result.ok, link)
                                                   ELSE result,
                             Ok(<<>>), links)
    IN  CASE declared # <<>> -> Err(declared[1])
          [] declared = <<>> /\ IsOk(linked) /\ Ports \ DOMAIN linked.ok # {} ->
                 Err("UnconnectedPort")
          [] OTHER -> linked

elaborate ==
    /\ elaborated = <<>>
    /\ elaborated' = <<Elaboration>>
    /\ UNCHANGED <<domains, components, links>>

Next ==
    \/ add_clock
    \/ \E path \in Paths, ports \in PortLists : add_component(path, ports)
    \/ \E link \in Links : connect(link)
    \/ elaborate

Spec == Init /\ [][Next]_vars

---------------------------------------------------------------------------
(* The ports at the ends of the links, one element for each end. *)
LinkEnds == (DOMAIN links) \X {"a", "b"}
Named(e) == LET end == links[e[1]][e[2]]
            IN  {p \in Ports : p[1] = end[1] /\ PortSpec(p).name = end[2]}

(* Elaboration succeeds exactly when paths and port names are unique and   *)
(* the links pair up all the ports, each port at exactly one end of one    *)
(* link, initiators with targets of the same protocol, on declared clocks. *)
(* Its peers are then that pairing: a message sent from a port arrives at  *)
(* its link's other end, and an answer comes back.                         *)
Wired ==
    elaborated # <<>> =>
        LET result == elaborated[1]
            sound  ==
                /\ \A i, j \in DOMAIN components : components[i].path = components[j].path => i = j
                /\ \A i \in DOMAIN components :
                       LET ports == components[i].ports
                       IN  /\ Len(ports) <= MaxPorts
                           /\ \A k, l \in DOMAIN ports : ports[k].name = ports[l].name => k = l
                /\ \A e \in LinkEnds : Cardinality(Named(e)) = 1
                /\ \A p \in Ports : Cardinality({e \in LinkEnds : p \in Named(e)}) = 1
                /\ \A n \in DOMAIN links :
                       /\ links[n].latency # <<>> => links[n].latency[1] < domains
                       /\ \A a \in Named(<<n, "a">>), b \in Named(<<n, "b">>) :
                              /\ {PortSpec(a).role, PortSpec(b).role} = {"Initiator", "Target"}
                              /\ PortSpec(a).protocol = PortSpec(b).protocol
        IN  /\ IsOk(result) <=> sound
            /\ IsOk(result) =>
                   /\ DOMAIN result.ok = Ports
                   /\ \A n \in DOMAIN links :
                          \A a \in Named(<<n, "a">>), b \in Named(<<n, "b">>) :
                              result.ok[a] = b /\ result.ok[b] = a

=============================================================================
