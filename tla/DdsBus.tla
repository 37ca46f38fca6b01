------------------------------- MODULE DdsBus -------------------------------
(***************************************************************************)
(* What applications share over DDS: their connections, the writers and    *)
(* polled readers they create on topics (DdsWriter, DdsReader), the QoS    *)
(* these are created with (QosMapper.h, CalQos.h) and the samples between  *)
(* them.  An application has at most one writer or reader of a topic: the  *)
(* endpoint <<application, topic>>.                                        *)
(*                                                                         *)
(* DDS itself is external: a sample written is on its way to the readers   *)
(* that exist and match at that moment (durability is volatile); it may    *)
(* never arrive; the samples of one writer arrive in the order they were   *)
(* written, and best effort lets one overtake those before it, which are   *)
(* lost; those of two writers arrive in any order.  A reader without       *)
(* listeners is emptied by read only (module DdsReader).                   *)
(***************************************************************************)
EXTENDS Integers, Sequences, FiniteSets, SequencesExt

CONSTANTS
    Apps,       \* processes that make a connection
    Stranger,   \* any other program that publishes, and may read, what it likes
    Topics,     \* topics
    Unlimited   \* dds::core::LENGTH_UNLIMITED

VARIABLES
    asb,        \* the connection of each application
    ends,       \* its reader or writer of each topic
    cache,      \* history cache of each reader, oldest sample first
    net,        \* samples on their way to each reader, by publisher
    overrun     \* history: readers whose cache has dropped a sample not read

busVars == <<asb, ends, cache, net, overrun>>

Endpoints  == Apps \X Topics
Publishers == Apps \cup {Stranger}

Quiet == [p \in Publishers |-> <<>>]

BusInit ==
    /\ asb = [a \in Apps |-> "none"]
    /\ ends = [e \in Endpoints |-> "none"]
    /\ cache = [e \in Endpoints |-> <<>>]
    /\ net = [e \in Endpoints |-> Quiet]
    /\ overrun = {}

-----------------------------------------------------------------------------
(* Quality of service.  createReader and createWriter leave the defaults.   *)

CalQos == [timeBasedFilterMs |-> 0, reliability |-> "BestEffort",
           expirationMs |-> 0, messageBufferDepth |-> 1]

Reliability(cal) == IF cal.reliability = "BestEffort" THEN "BestEffort" ELSE "Reliable"
HistoryDepth(cal) == IF cal.messageBufferDepth > 0 THEN cal.messageBufferDepth ELSE Unlimited

toReaderQos(cal) == [filter |-> cal.timeBasedFilterMs, reliability |-> Reliability(cal),
                     depth |-> HistoryDepth(cal)]
toWriterQos(cal) == [reliability |-> Reliability(cal), lifespan |-> cal.expirationMs,
                     depth |-> HistoryDepth(cal)]

(* DDS matches a reader with writers that offer at least what it requests,  *)
(* and keeps every sample of a match only when both sides are reliable.     *)
Matches(w, r) == r.reliability = "Reliable" => w.reliability = "Reliable"
MayLose(w, r) == "BestEffort" \in {w.reliability, r.reliability}

-----------------------------------------------------------------------------
(* uci_getAbstractServiceBusConnection; shutdown and destruction.           *)
Connect(a) == asb' = [asb EXCEPT ![a] = "up"]
Release(a) == asb' = [asb EXCEPT ![a] = "gone"]

(* The writers and readers of application a on the topics given.            *)
CreateEnds(a, topics, writes) ==
    ends' = [e \in Endpoints |->
               IF e[1] = a /\ e[2] \in topics
                 THEN IF e[2] \in writes THEN "writer" ELSE "reader"
                 ELSE ends[e]]

(* close() or destroyReader, destroyWriter: nobody reads them any more.     *)
EndEnds(a, topics, how) ==
    LET over == {a} \X topics IN
    /\ ends' = [e \in Endpoints |-> IF e \in over THEN how ELSE ends[e]]
    /\ cache' = [e \in Endpoints |-> IF e \in over THEN <<>> ELSE cache[e]]
    /\ net' = [e \in Endpoints |-> IF e \in over THEN Quiet ELSE net[e]]

Readers(e) == {r \in Endpoints : /\ r[2] = e[2]
                                 /\ ends[r] = "reader"
                                 /\ Matches(toWriterQos(CalQos), toReaderQos(CalQos))}

(* DdsWriterCore::write: the payload, its type tag with it, goes to DDS.    *)
Send(e, body) ==
    net' = [r \in Endpoints |-> IF r \in Readers(e)
                                  THEN [net[r] EXCEPT ![e[1]] = Append(@, body)]
                                  ELSE net[r]]

(* DdsWriter::write: refused on a closed writer, else the message is        *)
(* serialized and sent.                                                     *)
Write(e, body) ==
    /\ ends[e] = "writer"
    /\ Send(e, body)

(* A sample arrives: KeepLast(depth).                                       *)
Arrive(r, p) ==
    /\ \E i \in DOMAIN net[r][p] :
         /\ i > 1 => MayLose(toWriterQos(CalQos), toReaderQos(CalQos))
         /\ net' = [net EXCEPT ![r][p] = SubSeq(@, i + 1, Len(@))]
         /\ LET full == Len(cache[r]) = toReaderQos(CalQos).depth IN
              /\ cache' = [cache EXCEPT ![r] =
                             Append(IF full THEN Tail(@) ELSE @, net[r][p][i])]
              /\ overrun' = IF full THEN overrun \cup {r} ELSE overrun
    /\ UNCHANGED <<asb, ends>>

(* DdsReader::read(timeout, 1, listener): everything is taken, the first    *)
(* sample goes to the listener.                                             *)
Has(e) == cache[e] # <<>>
First(e) == Head(cache[e])
TakeAll(e) == cache' = [cache EXCEPT ![e] = <<>>]
=============================================================================
