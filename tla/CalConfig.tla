------------------------------ MODULE CalConfig ------------------------------
(***************************************************************************)
(* Service bus connections and the identity each is given when it is made  *)
(* (src/config/CalConfig.cpp; constructor, getters and entry points of     *)
(* DdsAbstractServiceBusConnection.cpp).                                   *)
(*                                                                         *)
(* The process runs with one environment: the path in ARCAL_CONFIG, the    *)
(* system in ARCAL_SYSTEM, and the document that the path names.  Of a     *)
(* document only what resolveCalIdentity looks at is kept: an array that   *)
(* is absent is empty, NotArray is anything else in its place, and         *)
(* Malformed is an entry that is not an object or lacks a name or (but for *)
(* a system) a UUID that parses.  The names of services, like the labels   *)
(* that clients ask for, are sequences of octets.                          *)
(***************************************************************************)
EXTENDS Uuid, SequencesExt, FiniteSetsExt

CONSTANTS
    Handles,       \* the connections an application holds at a time
    Labels,        \* service labels given to uci_getAbstractServiceBusConnection
    Environments,  \* environments the process may run with
    SystemName,    \* the octets of "system"
    SubsystemName, \* the octets of "subsystem"
    NoName,        \* ARCAL_SYSTEM is unset or empty
    Malformed,     \* an entry that is refused
    NotArray,      \* a value in the place of an array
    Closed         \* a handle without a connection

(* A label is a character string. *)
ASSUME LabelAssumption == \A label \in Labels : label \in Seq(SUBSET Bits)

(* An array of the document, and its entries that are objects.              *)
Arrays(owner, kinds) ==
    \A kind \in kinds : owner[kind] = NotArray \/ owner[kind] \in Seq(ToSet(owner[kind]))
Objects(array) == IF array = NotArray THEN {} ELSE ToSet(array) \ {Malformed}

Kinds == {"services", "components", "capabilities"}

(* Environments are those of a process: arrays are arrays. *)
ASSUME DocumentAssumption ==
    \A e \in Environments :
        /\ Arrays(e, {"systems"})
        /\ \A system \in Objects(e.systems) :
             /\ Arrays(system, Kinds \cup {"subsystems"})
             /\ \A sub \in Objects(system.subsystems) : Arrays(sub, Kinds)

VARIABLES
    env,      \* the environment
    conns,    \* the identity of the connection behind each handle
    refused   \* labels for which the construction has thrown

vars == <<env, conns, refused>>

-----------------------------------------------------------------------------
(* resolveCalIdentity                                                       *)

(* The UUIDs found so far, by name; ok is FALSE once an exception is thrown. *)
NoneFound == [ok |-> TRUE, found |-> <<>>]
Thrown    == [ok |-> FALSE, found |-> <<>>]

SkipsRepeated(found, item) == FALSE
Repeated(found, item)      == item.name \in DOMAIN found

(* What is kept of an entry: for a service, whose owner is <<u>>, also the  *)
(* UUID u of its subsystem.                                                 *)
Value(item, owner) ==
    IF owner = <<>> THEN item.uuid
                    ELSE [serviceUUID |-> item.uuid, subsystemUUID |-> owner[1]]

Enter(known, item, owner) ==
    IF ~known.ok \/ item = Malformed \/ Repeated(known.found, item) THEN Thrown
    ELSE [ok |-> TRUE,
          found |-> [n \in DOMAIN known.found \cup {item.name} |->
                       IF n = item.name THEN Value(item, owner) ELSE known.found[n]]]

(* parseServices, parseNamedUUIDs: the entries of an array are added to     *)
(* those found so far; the first bad or repeated one ends everything.       *)
Parse(entries, known, owner) ==
    IF ~known.ok \/ entries = NotArray THEN Thrown
    ELSE LET upTo[i \in 0 .. Len(entries)] ==
               IF i = 0 THEN known ELSE Enter(upTo[i - 1], entries[i], owner)
         IN  upTo[Len(entries)]

ParseNamed(entries, known) == Parse(entries, known, <<>>)
ParseServices(entries, subsystemUUID, known) == Parse(entries, known, <<subsystemUUID>>)

(* Where the first system of the name asked for is, those after it not      *)
(* being looked at; 0 for an exception.  With no name asked for there must  *)
(* be one system.                                                           *)
FirstMatch(systems, name) ==
    LET stops == {i \in DOMAIN systems : systems[i] = Malformed \/ systems[i].name = name}
    IN  IF stops = {} THEN 0 ELSE Min(stops)

selectSystem(systems, name) ==
    LET i == CASE systems = NotArray -> 0
               [] systems # NotArray /\ name = NoName -> IF Len(systems) = 1 THEN 1 ELSE 0
               [] OTHER -> FirstMatch(systems, name)
    IN  IF i = 0 THEN 0 ELSE IF systems[i] = Malformed THEN 0 ELSE i

(* What is known after the system's own arrays.                             *)
SystemLevel(system) ==
    [services     |-> ParseServices(system.services, NilUUID, NoneFound),
     components   |-> ParseNamed(system.components, NoneFound),
     capabilities |-> ParseNamed(system.capabilities, NoneFound),
     subsystems   |-> IF system.subsystems = NotArray THEN Thrown ELSE NoneFound]

Broken(known) == \E part \in DOMAIN known : ~known[part].ok

AddSubsystem(known, sub) ==
    IF Broken(known) \/ sub = Malformed THEN [known EXCEPT !.subsystems = Thrown]
    ELSE [services     |-> ParseServices(sub.services, sub.uuid, known.services),
          components   |-> ParseNamed(sub.components, known.components),
          capabilities |-> ParseNamed(sub.capabilities, known.capabilities),
          subsystems   |-> Enter(known.subsystems, sub, <<>>)]

AllLevels(system) ==
    IF system.subsystems = NotArray THEN SystemLevel(system)
    ELSE LET upTo[j \in 0 .. Len(system.subsystems)] ==
               IF j = 0 THEN SystemLevel(system)
               ELSE AddSubsystem(upTo[j - 1], system.subsystems[j])
         IN  upTo[Len(system.subsystems)]

makeFallbackIdentity(label) ==
    LET service == createVersion3UUID(getNamespaceUUID, label) IN
    [configured |-> FALSE, system |-> createVersion3UUID(getNamespaceUUID, SystemName),
     label |-> label, service |-> service,
     subsystem |-> createVersion3UUID(service, SubsystemName),
     components |-> <<>>, capabilities |-> <<>>]

Refused == [ok |-> FALSE]
Given(identity) == [ok |-> TRUE, identity |-> identity]

Configured(system, label) ==
    LET known == AllLevels(system) IN
    IF system.uuid = Malformed \/ Broken(known) THEN Refused
    ELSE IF label \notin DOMAIN known.services.found THEN Refused
    ELSE Given([configured |-> TRUE, system |-> system.uuid, label |-> label,
                service |-> known.services.found[label].serviceUUID,
                subsystem |-> known.services.found[label].subsystemUUID,
                components |-> known.components.found,
                capabilities |-> known.capabilities.found])

resolveCalIdentity(e, label) ==
    CASE e.path = "NONE" -> Given(makeFallbackIdentity(label))
      [] e.path = "file" -> LET i == selectSystem(e.systems, e.system)
                            IN  IF i = 0 THEN Refused ELSE Configured(e.systems[i], label)
      [] OTHER -> Refused     \* empty, unreadable or not JSON

-----------------------------------------------------------------------------
Init ==
    /\ env \in Environments
    /\ conns = [h \in Handles |-> Closed]
    /\ refused = {}

(* uci_getAbstractServiceBusConnection: the identity is resolved before the *)
(* participant is created; a failure leaves no connection behind.           *)
Get(h, label) ==
    /\ conns[h] = Closed
    /\ LET resolved == resolveCalIdentity(env, label) IN
         IF resolved.ok
           THEN /\ conns' = [conns EXCEPT ![h] = resolved.identity]
                /\ UNCHANGED refused
           ELSE /\ refused' = refused \cup {label}
                /\ UNCHANGED conns
    /\ UNCHANGED env

Destroy(h) ==
    /\ conns[h] # Closed
    /\ conns' = [conns EXCEPT ![h] = Closed]
    /\ UNCHANGED <<env, refused>>

Next ==
    \E h \in Handles :
       \/ \E label \in Labels : Get(h, label)
       \/ Destroy(h)

Spec == Init /\ [][Next]_vars

-----------------------------------------------------------------------------
(* The reference: what README.md:363-378 says a configuration means, stated *)
(* over the positions of its entries.  Position <<0, i>> is an entry of the *)
(* system, <<j, i>> one of its j-th subsystem.                              *)

Owner(system, j) == IF j = 0 THEN system ELSE system.subsystems[j]

At(system, kind) ==
    UNION {{j} \X DOMAIN Owner(system, j)[kind] : j \in 0..Len(system.subsystems)}

Entry(system, kind, p) == Owner(system, p[1])[kind][p[2]]

WellFormed(system) ==
    /\ system.uuid # Malformed
    /\ system.subsystems # NotArray
    /\ \A j \in DOMAIN system.subsystems : system.subsystems[j] # Malformed
    /\ \A j \in 0..Len(system.subsystems), kind \in Kinds :
         LET entries == Owner(system, j)[kind] IN
         /\ entries # NotArray
         /\ \A i \in DOMAIN entries : entries[i] # Malformed
    /\ \A kind \in Kinds : \A p, q \in At(system, kind) :
         Entry(system, kind, p).name = Entry(system, kind, q).name => p = q
    /\ \A j, k \in DOMAIN system.subsystems :
         system.subsystems[j].name = system.subsystems[k].name => j = k

Means(e, system) ==
    IF e.system = NoName
      THEN e.systems = <<system>>
      ELSE \E i \in DOMAIN e.systems :
             /\ e.systems[i] = system
             /\ system.name = e.system
             /\ \A j \in 1 .. i - 1 :
                  e.systems[j] # Malformed /\ e.systems[j].name # e.system

Candidates(e) ==
    IF e.path = "file" /\ e.systems # NotArray
      THEN {s \in {e.systems[i] : i \in DOMAIN e.systems} :
              s # Malformed /\ Means(e, s) /\ WellFormed(s)}
      ELSE {}

Lists(system, label, p) ==
    p \in At(system, "services") /\ Entry(system, "services", p).name = label

(* README.md:363-378, "Configured mode is strict": a connection is made     *)
(* exactly for the services of the selected system, when nothing in that    *)
(* system is malformed or listed twice, with the UUIDs of the entry and of  *)
(* the subsystem it is under.                                               *)
ConfiguredModeIsStrict ==
    env.path # "NONE" =>
      /\ \A label \in refused : \A s \in Candidates(env) : \A p \in At(s, "services") :
           ~Lists(s, label, p)
      /\ \A h \in Handles : conns[h] # Closed =>
           \E s \in Candidates(env) : \E p \in At(s, "services") :
             /\ Lists(s, conns[h].label, p)
             /\ conns[h].system = s.uuid
             /\ conns[h].service = Entry(s, "services", p).uuid
             /\ conns[h].subsystem = IF p[1] = 0 THEN NilUUID ELSE Owner(s, p[1]).uuid
             /\ \A kind \in {"components", "capabilities"} :
                  conns[h][kind] = [n \in {Entry(s, kind, q).name : q \in At(s, kind)} |->
                                      Entry(s, kind, CHOOSE q \in At(s, kind) :
                                                       Entry(s, kind, q).name = n).uuid]

(* Two names of one length that differ in one character, whose octet keeps  *)
(* all its bits (the seventh and ninth of every sixteen do not), get        *)
(* different UUIDs: no bit is lost on the way (UUID.cpp:17-21).             *)
OneCharacterApart(x, y) ==
    /\ Len(x) = Len(y)
    /\ \E i \in DOMAIN x : /\ x[i] # y[i]
                           /\ (i - 1) % 16 \notin {6, 8}
                           /\ \A j \in DOMAIN x \ {i} : x[j] = y[j]

NamesTellApart ==
    \A g, h \in Handles :
        (/\ conns[g] # Closed /\ conns[h] # Closed
         /\ ~conns[g].configured
         /\ OneCharacterApart(conns[g].label, conns[h].label))
           => conns[g].service # conns[h].service

(* README.md:601, CAL-016015, "Multiple CAL Clients in one address space    *)
(* get distinct UUIDs": connections of different services have different    *)
(* service UUIDs.                                                           *)
DistinctClients ==
    \A g, h \in Handles :
        conns[g] # Closed /\ conns[h] # Closed /\ conns[g].label # conns[h].label
           => conns[g].service # conns[h].service
=============================================================================
