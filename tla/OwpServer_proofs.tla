-------------------------- MODULE OwpServer_proofs --------------------------
(***************************************************************************)
(* Proofs about OwpServer, for any number of clients, subscriptions, kinds *)
(* of samples and commands: a client's stream has one write outstanding    *)
(* exactly while an open client has lines to write, and a generated        *)
(* subscription id is never announced twice.  Of the lines each client is  *)
(* sent: INFO comes first, the samples of a subscription come in the order *)
(* they were taken, and every generated id has been announced, with the    *)
(* kind it stands for, when the first sample comes under it.               *)
(***************************************************************************)
EXTENDS OwpServer, SequenceTheorems, SetInduction, TLAPS

(***************************************************************************)
(* The inductive invariant.  Of the lines only their being sequences is    *)
(* needed, so their set is left open.                                      *)
(***************************************************************************)

SeqsOK == \E S : /\ posted \in [Clients -> Seq(S)]
                 /\ queue \in [Clients -> Seq(S)]
                 /\ wire \in [Clients -> Seq(S)]

ConnOK ==
    /\ open \in [Clients -> BOOLEAN]
    /\ session \in [Clients -> {"none", "http", "ws", "over"}]
    /\ writing \in [Clients -> Nat]
    /\ okDue \in Clients \cup {NoClient}

(* Inside a delivery there is a current client, and the id it is about to   *)
(* be told has been counted.                                                *)
MonOK ==
    /\ nextSubId \in [Clients -> Nat]
    /\ mpc \in {"idle", "next", "subs", "ensure", "info", "msg"}
    /\ mpc \in {"subs", "ensure", "info", "msg"} => cur \in Clients
    /\ mpc = "info" => found.id \in Nat /\ found.id < nextSubId[cur]

(* A connection that was never accepted has been sent nothing.              *)
WriteOK ==
    \A c \in Clients :
        /\ writing[c] <= 1
        /\ writing[c] = 1 => queue[c] # <<>>
        /\ open[c] /\ queue[c] # <<>> => writing[c] = 1
        /\ session[c] = "none" => /\ ~open[c]
                                  /\ posted[c] = <<>>
                                  /\ queue[c] = <<>>

Announces(line) == line.op = "XSUBINFO"

(* Every id announced so far is below the counter, and is not the one that  *)
(* the monitor thread holds and has yet to announce.                        *)
AnnouncedOK ==
    \A c \in Clients : \A i \in DOMAIN Sent(c) :
        Announces(Sent(c)[i]) =>
            /\ Sent(c)[i].id \in Nat
            /\ Sent(c)[i].id < nextSubId[c]
            /\ mpc = "info" /\ cur = c => Sent(c)[i].id # found.id

IInv == SeqsOK /\ ConnOK /\ MonOK /\ WriteOK /\ AnnouncedOK /\ IdsNeverReused

(***************************************************************************)
(* Lemmas about the queues.                                                *)
(***************************************************************************)

(* Moving the head of one sequence to the end of the one before it does not *)
(* change the two put together.                                             *)
LEMMA MoveHead ==
    ASSUME NEW S, NEW s \in Seq(S), NEW t \in Seq(S), t # <<>>
    PROVE  /\ Append(s, Head(t)) \in Seq(S)
           /\ Tail(t) \in Seq(S)
           /\ Append(s, Head(t)) \o Tail(t) = s \o t
<1> DEFINE a == Append(s, Head(t))
<1>1. /\ Head(t) \in S /\ Tail(t) \in Seq(S) /\ Len(Tail(t)) = Len(t) - 1
      /\ \A i \in 1 .. Len(Tail(t)) : Tail(t)[i] = t[i + 1]
  BY HeadTailProperties
<1>2. /\ a \in Seq(S) /\ Len(a) = Len(s) + 1
      /\ \A i \in 1 .. Len(s) : a[i] = s[i]
      /\ a[Len(s) + 1] = t[1]
  BY <1>1, AppendProperties
<1>3. Len(s) \in Nat /\ Len(t) \in Nat /\ Len(t) > 0
  BY LenProperties, EmptySeq
<1> HIDE DEF a
<1>4. /\ a \o Tail(t) \in Seq(S)
      /\ Len(a \o Tail(t)) = Len(s) + Len(t)
      /\ \A i \in 1 .. Len(s) + Len(t) :
           (a \o Tail(t))[i] = IF i <= Len(s) + 1 THEN a[i] ELSE Tail(t)[i - Len(s) - 1]
  <2>1. /\ a \o Tail(t) \in Seq(S)
        /\ Len(a \o Tail(t)) = Len(a) + Len(Tail(t))
        /\ \A i \in 1 .. Len(a) + Len(Tail(t)) :
             (a \o Tail(t))[i] = IF i <= Len(a) THEN a[i] ELSE Tail(t)[i - Len(a)]
    BY <1>1, <1>2, ConcatProperties
  <2>2. Len(a) + Len(Tail(t)) = Len(s) + Len(t)
    BY <1>1, <1>2, <1>3
  <2>3. \A i \in Int : i - Len(a) = i - Len(s) - 1
    BY <1>2, <1>3
  <2> QED BY <1>2, <2>1, <2>2, <2>3
<1>5. /\ s \o t \in Seq(S)
      /\ Len(s \o t) = Len(s) + Len(t)
      /\ \A i \in 1 .. Len(s) + Len(t) :
           (s \o t)[i] = IF i <= Len(s) THEN s[i] ELSE t[i - Len(s)]
  BY ConcatProperties
<1>6. \A i \in 1 .. Len(s) + Len(t) : (a \o Tail(t))[i] = (s \o t)[i]
  <2> SUFFICES ASSUME NEW i \in 1 .. Len(s) + Len(t)
               PROVE  (a \o Tail(t))[i] = (s \o t)[i]
    OBVIOUS
  <2>1. CASE i <= Len(s)
    BY <2>1, <1>2, <1>3, <1>4, <1>5
  <2>2. CASE i = Len(s) + 1
    BY <2>2, <1>2, <1>3, <1>4, <1>5
  <2>3. CASE i > Len(s) + 1
    <3>1. i - Len(s) - 1 \in 1 .. Len(Tail(t))
      BY <2>3, <1>1, <1>3
    <3>2. Tail(t)[i - Len(s) - 1] = t[(i - Len(s) - 1) + 1]
      BY <3>1, <1>1
    <3>3. (i - Len(s) - 1) + 1 = i - Len(s)
      BY <1>3
    <3> QED BY <2>3, <3>2, <3>3, <1>3, <1>4, <1>5
  <2>4. i <= Len(s) \/ i = Len(s) + 1 \/ i > Len(s) + 1
    BY <1>3
  <2> QED BY <2>1, <2>2, <2>3, <2>4
<1>7. a \o Tail(t) = s \o t
  BY <1>4, <1>5, <1>6, SeqEqual
<1> QED BY <1>1, <1>2, <1>7 DEF a

LEMMA SentType ==
    ASSUME NEW S, NEW c \in Clients, posted \in [Clients -> Seq(S)],
           queue \in [Clients -> Seq(S)], wire \in [Clients -> Seq(S)]
    PROVE  /\ Sent(c) \in Seq(S)
           /\ Sent(c) = wire[c] \o (queue[c] \o posted[c])
<1>0. posted[c] \in Seq(S) /\ queue[c] \in Seq(S) /\ wire[c] \in Seq(S)
  OBVIOUS
<1>1. (wire[c] \o queue[c]) \o posted[c] = wire[c] \o (queue[c] \o posted[c])
  BY <1>0, ConcatAssociative
<1>2. wire[c] \o queue[c] \in Seq(S)
  BY <1>0, ConcatProperties
<1>3. (wire[c] \o queue[c]) \o posted[c] \in Seq(S)
  BY <1>0, <1>2, ConcatProperties
<1> QED BY <1>1, <1>3 DEF Sent

(* Sending a line appends it to what is sent to that client, or does        *)
(* nothing when the client is not open.                                     *)
LEMMA SendGrows ==
    ASSUME SeqsOK, NEW d \in Clients, NEW line, SendLine(d, line), UNCHANGED <<queue, wire>>
    PROVE  /\ SeqsOK'
           /\ \A c \in Clients \ {d} : posted'[c] = posted[c] /\ Sent(c)' = Sent(c)
           /\ ~open[d] => posted' = posted /\ Sent(d)' = Sent(d)
           /\ open[d] => \E S : /\ line \in S /\ Sent(d) \in Seq(S)
                                /\ Sent(d)' = Append(Sent(d), line)
<1>1. PICK S : /\ posted \in [Clients -> Seq(S)]
               /\ queue \in [Clients -> Seq(S)]
               /\ wire \in [Clients -> Seq(S)]
  BY DEF SeqsOK
<1> DEFINE T == S \cup {line}
<1>2. Seq(S) \subseteq Seq(T)
  BY SeqMonotonic
<1>3. /\ posted \in [Clients -> Seq(T)]
      /\ queue \in [Clients -> Seq(T)]
      /\ wire \in [Clients -> Seq(T)]
  BY <1>1, <1>2
<1>4. line \in T
  OBVIOUS
<1> HIDE DEF T
<1>5. /\ Append(posted[d], line) \in Seq(T)
      /\ Append(posted[d], line) = posted[d] \o <<line>>
      /\ <<line>> \in Seq(T)
  BY <1>3, <1>4, AppendProperties, AppendIsConcat
<1>6. posted' \in [Clients -> Seq(T)]
  BY <1>3, <1>5 DEF SendLine
<1>7. SeqsOK'
  BY <1>3, <1>6 DEF SeqsOK
<1>8. \A c \in Clients \ {d} : posted'[c] = posted[c] /\ Sent(c)' = Sent(c)
  BY <1>3 DEF SendLine, Sent
<1>9. CASE ~open[d]
  BY <1>7, <1>8, <1>9 DEF SendLine, Sent
<1>10. CASE open[d]
  <2>1. posted'[d] = posted[d] \o <<line>>
    BY <1>3, <1>5, <1>10 DEF SendLine
  <2> DEFINE w == wire[d] \o queue[d]
  <2>2. w \in Seq(T)
    BY <1>3, ConcatProperties
  <2>3. Sent(d)' = w \o (posted[d] \o <<line>>)
    BY <2>1 DEF Sent
  <2>4. Sent(d)' = (w \o posted[d]) \o <<line>>
    BY <2>2, <2>3, <1>3, <1>5, ConcatAssociative
  <2>5. Sent(d) \in Seq(T)
    BY <2>2, <1>3, ConcatProperties DEF Sent
  <2>6. Sent(d)' = Append(Sent(d), line)
    BY <2>4, <2>5, <1>4, AppendIsConcat DEF Sent
  <2> QED BY <1>4, <1>7, <1>8, <1>10, <2>5, <2>6
<1> QED BY <1>9, <1>10

(* The handler of a posted line and the end of a write move a line on: what *)
(* is sent, and in which order, stays.                                      *)
LEMMA PostedMoves ==
    ASSUME SeqsOK, NEW d \in Clients, RunPosted(d)
    PROVE  /\ SeqsOK'
           /\ \A c \in Clients : Sent(c)' = Sent(c)
           /\ queue'[d] # <<>>
           /\ \A c \in Clients \ {d} : queue'[c] = queue[c] /\ posted'[c] = posted[c]
<1>1. PICK S : /\ posted \in [Clients -> Seq(S)]
               /\ queue \in [Clients -> Seq(S)]
               /\ wire \in [Clients -> Seq(S)]
  BY DEF SeqsOK
<1>2. /\ posted[d] # <<>> /\ wire' = wire
      /\ posted' = [posted EXCEPT ![d] = Tail(@)]
      /\ queue' = [queue EXCEPT ![d] = Append(@, Head(posted[d]))]
  BY DEF RunPosted, Pushed
<1>3. /\ Append(queue[d], Head(posted[d])) \in Seq(S)
      /\ Tail(posted[d]) \in Seq(S)
      /\ Append(queue[d], Head(posted[d])) \o Tail(posted[d]) = queue[d] \o posted[d]
  BY <1>1, <1>2, MoveHead
<1>4. /\ posted' \in [Clients -> Seq(S)]
      /\ queue' \in [Clients -> Seq(S)]
      /\ wire' \in [Clients -> Seq(S)]
  BY <1>1, <1>2, <1>3
<1>5. Head(posted[d]) \in S
  BY <1>1, <1>2, HeadTailProperties
<1>6. queue'[d] # <<>>
  BY <1>1, <1>2, <1>5, AppendProperties
<1>7. \A c \in Clients \ {d} : /\ queue'[c] = queue[c] /\ posted'[c] = posted[c]
                               /\ Sent(c)' = Sent(c)
  BY <1>1, <1>2 DEF Sent
<1>8. queue'[d] \o posted'[d] = queue[d] \o posted[d]
  BY <1>1, <1>2, <1>3
<1>9. Sent(d) = wire[d] \o (queue[d] \o posted[d])
  BY <1>1, SentType
<1>10. Sent(d)' = wire'[d] \o (queue'[d] \o posted'[d])
  BY <1>4, ConcatAssociative DEF Sent
<1>11. Sent(d)' = Sent(d)
  BY <1>2, <1>8, <1>9, <1>10
<1> QED BY <1>4, <1>6, <1>7, <1>11 DEF SeqsOK

LEMMA WriteMoves ==
    ASSUME SeqsOK, NEW d \in Clients, WriteDone(d), queue[d] # <<>>
    PROVE  /\ SeqsOK'
           /\ \A c \in Clients : Sent(c)' = Sent(c)
           /\ queue'[d] = Tail(queue[d])
           /\ \A c \in Clients \ {d} : queue'[c] = queue[c]
<1>1. PICK S : /\ posted \in [Clients -> Seq(S)]
               /\ queue \in [Clients -> Seq(S)]
               /\ wire \in [Clients -> Seq(S)]
  BY DEF SeqsOK
<1>2. /\ posted' = posted
      /\ queue' = [queue EXCEPT ![d] = Tail(@)]
      /\ wire' = [wire EXCEPT ![d] = Append(@, Head(queue[d]))]
  BY DEF WriteDone, sendVars
<1>3. /\ Append(wire[d], Head(queue[d])) \in Seq(S)
      /\ Tail(queue[d]) \in Seq(S)
      /\ Append(wire[d], Head(queue[d])) \o Tail(queue[d]) = wire[d] \o queue[d]
  BY <1>1, MoveHead
<1>4. /\ posted' \in [Clients -> Seq(S)]
      /\ queue' \in [Clients -> Seq(S)]
      /\ wire' \in [Clients -> Seq(S)]
  BY <1>1, <1>2, <1>3
<1>5. \A c \in Clients \ {d} : queue'[c] = queue[c] /\ Sent(c)' = Sent(c)
  BY <1>1, <1>2 DEF Sent
<1>6. Sent(d)' = Sent(d)
  BY <1>1, <1>2, <1>3 DEF Sent
<1> QED BY <1>1, <1>2, <1>4, <1>5, <1>6 DEF SeqsOK

(***************************************************************************)
(* What each kind of step does to the announcements.                       *)
(***************************************************************************)

Announcements == AnnouncedOK /\ IdsNeverReused

(* Nothing is sent, no id is drawn, and no announcement becomes due.        *)
LEMMA Silent ==
    ASSUME Announcements, \A c \in Clients : Sent(c)' = Sent(c),
           UNCHANGED <<nextSubId, found>>, UNCHANGED <<mpc, cur>> \/ mpc' # "info"
    PROVE  Announcements'
BY DEF Announcements, AnnouncedOK, IdsNeverReused, Announces

(* A line that announces nothing is sent.                                   *)
LEMMA OtherLine ==
    ASSUME Announcements, SeqsOK, NEW d \in Clients, NEW line, ~Announces(line),
           SendLine(d, line), UNCHANGED <<queue, wire>>,
           UNCHANGED <<nextSubId, found>>, UNCHANGED <<mpc, cur>> \/ mpc' # "info"
    PROVE  Announcements'
<1>1. \A c \in Clients \ {d} : Sent(c)' = Sent(c)
  BY SendGrows
<1>2. CASE Sent(d)' = Sent(d)
  <2>1. \A c \in Clients : Sent(c)' = Sent(c)
    BY <1>1, <1>2
  <2> QED BY <2>1, Silent
<1>3. ASSUME NEW S, line \in S, Sent(d) \in Seq(S), Sent(d)' = Append(Sent(d), line)
      PROVE  Announcements'
  <2>1. /\ Len(Sent(d)) \in Nat /\ DOMAIN Sent(d) = 1 .. Len(Sent(d))
        /\ DOMAIN Sent(d)' = 1 .. Len(Sent(d)) + 1
        /\ \A i \in DOMAIN Sent(d) : Sent(d)'[i] = Sent(d)[i]
        /\ Sent(d)'[Len(Sent(d)) + 1] = line
    BY <1>3, LenProperties, AppendProperties
  <2>2. \A i \in DOMAIN Sent(d)' : Announces(Sent(d)'[i]) =>
             i \in DOMAIN Sent(d) /\ Sent(d)'[i] = Sent(d)[i]
    BY <2>1
  <2>3. AnnouncedOK'
    BY <1>1, <2>2 DEF Announcements, AnnouncedOK
  <2>4. IdsNeverReused'
    BY <1>1, <2>2 DEF Announcements, IdsNeverReused, Announces
  <2> QED BY <2>3, <2>4 DEF Announcements
<1> QED BY <1>2, <1>3, SendGrows

(* The monitor thread announces the id it holds.                            *)
LEMMA Announcement ==
    ASSUME IInv, mpc = "info", NEW d \in Clients, cur = d, NEW line, line.id = found.id,
           SendLine(d, line), UNCHANGED <<queue, wire>>,
           UNCHANGED <<nextSubId, found>>, mpc' # "info"
    PROVE  Announcements'
<1>1. d \in Clients /\ found.id \in Nat /\ found.id < nextSubId[d]
  BY DEF IInv, MonOK
<1>2. \A c \in Clients \ {d} : Sent(c)' = Sent(c)
  BY <1>1, SendGrows DEF IInv
<1>3. CASE Sent(d)' = Sent(d)
  <2>1. \A c \in Clients : Sent(c)' = Sent(c)
    BY <1>2, <1>3
  <2> QED BY <2>1, Silent DEF IInv, Announcements
<1>4. ASSUME NEW S, line \in S, Sent(d) \in Seq(S), Sent(d)' = Append(Sent(d), line)
      PROVE  Announcements'
  <2> DEFINE n == Len(Sent(d)) + 1
  <2>1. /\ Len(Sent(d)) \in Nat /\ DOMAIN Sent(d) = 1 .. Len(Sent(d))
        /\ DOMAIN Sent(d)' = 1 .. n
        /\ \A i \in DOMAIN Sent(d) : Sent(d)'[i] = Sent(d)[i]
        /\ Sent(d)'[n] = line
    BY <1>4, LenProperties, AppendProperties
  <2>2. \A i \in DOMAIN Sent(d)' : i # n =>
             i \in DOMAIN Sent(d) /\ Sent(d)'[i] = Sent(d)[i]
    BY <2>1
  <2>3. \A i \in DOMAIN Sent(d) : Announces(Sent(d)[i]) => Sent(d)[i].id # line.id
    BY <1>1 DEF IInv, AnnouncedOK
  <2> HIDE DEF n
  <2>4. AnnouncedOK'
    <3>1. ASSUME NEW c \in Clients, NEW i \in DOMAIN Sent(c)', Announces(Sent(c)'[i])
          PROVE  Sent(c)'[i].id \in Nat /\ Sent(c)'[i].id < nextSubId[c]
      <4>1. CASE c = d /\ i = n
        BY <1>1, <2>1, <4>1
      <4>2. CASE ~(c = d /\ i = n)
        <5>1. i \in DOMAIN Sent(c) /\ Sent(c)'[i] = Sent(c)[i]
          BY <1>2, <2>2, <3>1, <4>2
        <5> QED BY <3>1, <5>1 DEF IInv, AnnouncedOK
      <4> QED BY <4>1, <4>2
    <3> QED BY <3>1 DEF AnnouncedOK
  <2>5. IdsNeverReused'
    <3>1. ASSUME NEW c \in Clients, NEW i \in DOMAIN Sent(c)', NEW j \in DOMAIN Sent(c)',
                 Announces(Sent(c)'[i]), Announces(Sent(c)'[j]),
                 Sent(c)'[i].id = Sent(c)'[j].id
          PROVE  i = j
      <4>1. ASSUME NEW k \in DOMAIN Sent(c)', ~(c = d /\ k = n)
            PROVE  k \in DOMAIN Sent(c) /\ Sent(c)'[k] = Sent(c)[k]
        BY <1>2, <2>2, <4>1
      <4>2. CASE c = d /\ (i = n \/ j = n)
        BY <2>1, <2>3, <3>1, <4>1, <4>2
      <4>3. CASE ~(c = d /\ (i = n \/ j = n))
        BY <3>1, <4>1, <4>3 DEF IInv, IdsNeverReused, Announces
      <4> QED BY <4>2, <4>3
    <3> QED BY <3>1 DEF IdsNeverReused, Announces
  <2> QED BY <2>4, <2>5 DEF Announcements
<1> QED BY <1>1, <1>3, <1>4, SendGrows DEF IInv

(***************************************************************************)
(* Steps.                                                                  *)
(***************************************************************************)

(* A line that is sent leaves connections that were never accepted alone.   *)
LEMMA SendKeeps ==
    ASSUME SeqsOK, WriteOK, NEW d \in Clients, NEW line, SendLine(d, line),
           UNCHANGED <<queue, wire, writing, open, session>>
    PROVE  SeqsOK' /\ WriteOK'
BY SendGrows DEF WriteOK

(* What a received line changes beside the client's own subscriptions.      *)
LEMMA CommandStep ==
    ASSUME IInv, NEW c \in Clients, NEW stillOpen \in BOOLEAN, Receive(c, stillOpen),
           UNCHANGED nextSubId, okDue' \in {okDue, c},
           posted' = posted \/ SendLine(c, Ok) \/ SendLine(c, Err) \/ SendLine(c, Info)
    PROVE  IInv'
<1>1. /\ session[c] = "ws"
      /\ open' = [open EXCEPT ![c] = @ /\ stillOpen]
      /\ session' = [session EXCEPT ![c] = IF open'[c] THEN "ws" ELSE "over"]
      /\ UNCHANGED <<queue, writing, wire, mpc, cur, found>>
  BY DEF Receive, monVars
<1>2. ConnOK' /\ MonOK'
  BY <1>1 DEF IInv, ConnOK, MonOK
<1>3. \A d \in Clients : /\ open'[d] => open[d]
                         /\ session'[d] = "none" => d # c /\ session[d] = "none"
  BY <1>1 DEF IInv, ConnOK
<1>4. CASE posted' = posted
  <2>1. SeqsOK' /\ WriteOK'
    BY <1>1, <1>3, <1>4 DEF IInv, SeqsOK, WriteOK
  <2>2. \A d \in Clients : Sent(d)' = Sent(d)
    BY <1>1, <1>4 DEF Sent
  <2> QED BY <1>1, <1>2, <2>1, <2>2, Silent DEF IInv, Announcements
<1>5. ASSUME NEW line, ~Announces(line), SendLine(c, line)
      PROVE  IInv'
  <2>1. SeqsOK' /\ \A d \in Clients \ {c} : posted'[d] = posted[d]
    BY <1>1, <1>5, SendGrows DEF IInv
  <2>2. WriteOK'
    BY <1>1, <1>3, <2>1 DEF IInv, WriteOK
  <2>3. Announcements'
    BY <1>1, <1>5, OtherLine DEF IInv, Announcements
  <2> QED BY <1>2, <2>1, <2>2, <2>3 DEF IInv, Announcements
<1>6. ~Announces(Ok) /\ ~Announces(Err) /\ ~Announces(Info)
  BY DEF Announces, Ok, Err, Info
<1> QED BY <1>4, <1>5, <1>6

LEMMA CommandKeeps ==
    ASSUME IInv, NEW c \in Clients, Command(c)
    PROVE  IInv'
<1> USE DEF stateVars
<1>1. CASE InitAccepted(c)
  BY <1>1, CommandStep DEF InitAccepted
<1>2. CASE EndSession(c)
  BY <1>2, CommandStep DEF EndSession
<1>3. CASE Refuse(c)
  BY <1>3, CommandStep DEF Refuse
<1>4. ASSUME NEW stream \in Streams, NEW pattern \in Patterns, XSub(c, stream, pattern)
      PROVE  IInv'
  BY <1>4, CommandStep DEF XSub
<1>5. ASSUME NEW stream \in Streams, XUnsub(c, stream)
      PROVE  IInv'
  BY <1>5, CommandStep DEF XUnsub
<1>6. ASSUME NEW id \in SubIds, NEW kind \in Kinds, Sub(c, id, kind)
      PROVE  IInv'
  BY <1>6, CommandStep DEF Sub
<1>7. ASSUME NEW id \in SubIds, Unsub(c, id)
      PROVE  IInv'
  BY <1>7, CommandStep DEF Unsub
<1> QED BY <1>1, <1>2, <1>3, <1>4, <1>5, <1>6, <1>7 DEF Command

(* The io thread's steps that change no queue.                              *)
LEMMA ConnectionKeeps ==
    ASSUME IInv, NEW c \in Clients, Accept(c) \/ Upgrade(c) \/ Disconnect(c)
    PROVE  IInv'
<1>1. UNCHANGED <<sendVars, monVars, stateVars, okDue>>
  BY DEF Accept, Upgrade, Disconnect
<1>2. SeqsOK' /\ \A d \in Clients : Sent(d)' = Sent(d)
  BY <1>1 DEF IInv, SeqsOK, sendVars, Sent
<1>3. MonOK' /\ Announcements'
  BY <1>1, <1>2, Silent DEF IInv, Announcements, MonOK, monVars, stateVars
<1>4. ConnOK' /\ WriteOK'
  BY <1>1 DEF IInv, ConnOK, WriteOK, Accept, Upgrade, Disconnect, sendVars
<1> QED BY <1>2, <1>3, <1>4 DEF IInv, Announcements

LEMMA WritingKeeps ==
    ASSUME IInv, NEW c \in Clients, RunPosted(c) \/ WriteDone(c) \/ WriteFails(c)
    PROVE  IInv'
<1>1. UNCHANGED <<monVars, stateVars, okDue, session>>
  BY DEF RunPosted, WriteDone, WriteFails, connVars
<1>2. MonOK'
  BY <1>1 DEF IInv, MonOK, monVars, stateVars
<1>3. CASE RunPosted(c)
  <2>1. /\ SeqsOK'
        /\ \A d \in Clients : Sent(d)' = Sent(d)
        /\ queue'[c] # <<>>
        /\ \A d \in Clients \ {c} : queue'[d] = queue[d] /\ posted'[d] = posted[d]
    BY <1>3, PostedMoves DEF IInv
  <2>2. ConnOK'
    BY <1>3 DEF IInv, ConnOK, RunPosted, connVars
  <2>3. WriteOK'
    BY <1>3, <2>1 DEF IInv, ConnOK, WriteOK, RunPosted, connVars, WriteInProgress
  <2> QED BY <1>1, <1>2, <2>1, <2>2, <2>3, Silent
          DEF IInv, Announcements, monVars, stateVars
<1>4. CASE WriteDone(c)
  <2>1. queue[c] # <<>>
    BY <1>4 DEF IInv, ConnOK, WriteOK, WriteDone
  <2>2. /\ SeqsOK'
        /\ \A d \in Clients : Sent(d)' = Sent(d)
        /\ queue'[c] = Tail(queue[c])
        /\ \A d \in Clients \ {c} : queue'[d] = queue[d]
    BY <1>4, <2>1, WriteMoves DEF IInv
  <2>3. ConnOK'
    BY <1>4 DEF IInv, ConnOK, WriteDone, connVars, GoesOn
  <2>4. WriteOK'
    <3>1. /\ writing[c] = 1 /\ session[c] # "none"
          /\ writing'[c] = IF Tail(queue[c]) # <<>> THEN 1 ELSE 0
          /\ \A d \in Clients \ {c} : writing'[d] = writing[d]
          /\ UNCHANGED <<open, session, posted>>
      BY <1>4, <2>1 DEF IInv, ConnOK, WriteOK, WriteDone, connVars, GoesOn
    <3> DEFINE rest == Tail(queue[c])
    <3>2. /\ queue'[c] = rest
          /\ writing'[c] = IF rest # <<>> THEN 1 ELSE 0
      BY <2>2, <3>1
    <3> HIDE DEF rest
    <3>3. /\ writing'[c] <= 1
          /\ writing'[c] = 1 <=> queue'[c] # <<>>
          /\ session'[c] # "none"
      BY <3>1, <3>2
    <3>4. \A d \in Clients \ {c} :
             /\ writing'[d] = writing[d] /\ queue'[d] = queue[d]
             /\ posted'[d] = posted[d] /\ open'[d] = open[d] /\ session'[d] = session[d]
      BY <2>2, <3>1
    <3> QED BY <3>3, <3>4 DEF IInv, WriteOK
  <2> QED BY <1>1, <1>2, <2>2, <2>3, <2>4, Silent
          DEF IInv, Announcements, monVars, stateVars
<1>5. CASE WriteFails(c)
  <2>1. SeqsOK' /\ \A d \in Clients : Sent(d)' = Sent(d)
    BY <1>5 DEF IInv, SeqsOK, WriteFails, Sent
  <2>2. ConnOK' /\ WriteOK'
    BY <1>5 DEF IInv, ConnOK, WriteOK, WriteFails
  <2> QED BY <1>1, <1>2, <2>1, <2>2, Silent
          DEF IInv, Announcements, monVars, stateVars
<1> QED BY <1>3, <1>4, <1>5

LEMMA ReplyKeeps ==
    ASSUME IInv, Reply
    PROVE  IInv'
<1>1. /\ okDue \in Clients /\ okDue' = NoClient
      /\ UNCHANGED <<queue, wire, writing, open, session, nextSubId, mpc, cur, found>>
  BY DEF IInv, ConnOK, Reply, connVars, stateVars, monVars
<1>2. ConnOK' /\ MonOK'
  BY <1>1 DEF IInv, ConnOK, MonOK
<1>3. CASE SendLine(okDue, Ok)
  <2>1. ~Announces(Ok)
    BY DEF Announces, Ok
  <2> QED BY <1>1, <1>2, <1>3, <2>1, SendKeeps, OtherLine DEF IInv, Announcements
<1>4. CASE posted' = posted
  <2>1. SeqsOK' /\ WriteOK' /\ \A c \in Clients : Sent(c)' = Sent(c)
    BY <1>1, <1>4 DEF IInv, SeqsOK, WriteOK, Sent
  <2> QED BY <1>1, <1>2, <2>1, Silent DEF IInv, Announcements
<1> QED BY <1>3, <1>4 DEF Reply

(* The monitor thread's sends.                                              *)
LEMMA SendingKeeps ==
    ASSUME IInv,
           (\E id \in SubIds : SendToSub(id)) \/ SendXSubInfo \/ SendToXSub
    PROVE  IInv'
<1>1. /\ UNCHANGED <<queue, wire, writing, open, session, okDue, nextSubId, found, cur>>
      /\ cur \in Clients /\ mpc \in {"subs", "info", "msg"}
      /\ mpc' \in {"subs", "msg"}
  BY DEF IInv, MonOK, SendToSub, SendXSubInfo, SendToXSub, connVars, stateVars
<1>2. ConnOK' /\ MonOK'
  BY <1>1 DEF IInv, ConnOK, MonOK
<1>3. PICK d \in Clients : cur = d
  BY <1>1
<1>4. ASSUME NEW line, ~Announces(line), SendLine(d, line)
      PROVE  IInv'
  BY <1>1, <1>2, <1>4, SendKeeps, OtherLine DEF IInv, Announcements
<1>5. \A id : ~Announces(Msg(id, sample))
  BY DEF Announces, Msg
<1>6. CASE SendXSubInfo
  <2> DEFINE line == XSubInfo(Head(xsubsLeft).stream, found.id, sample.kind)
  <2>1. SendLine(d, line) /\ mpc = "info" /\ line.id = found.id
    BY <1>3, <1>6 DEF SendXSubInfo, XSubInfo
  <2> HIDE DEF line
  <2>2. SeqsOK' /\ WriteOK'
    BY <1>1, <2>1, SendKeeps DEF IInv
  <2>3. Announcements'
    BY <1>1, <1>3, <2>1, Announcement
  <2> QED BY <1>2, <2>2, <2>3 DEF IInv, Announcements
<1>7. CASE \E id \in SubIds : SendToSub(id)
  BY <1>3, <1>4, <1>5, <1>7 DEF SendToSub
<1>8. CASE SendToXSub
  BY <1>3, <1>4, <1>5, <1>8 DEF SendToXSub
<1> QED BY <1>6, <1>7, <1>8

(* The monitor thread's other steps: a fresh id is above those announced.   *)
LEMMA MonitorKeeps ==
    ASSUME IInv,
           \/ \E kind \in Kinds : TakeSample(kind)
           \/ \E c \in Clients : CopySubscriptions(c)
           \/ SubsDone \/ Ensure \/ RemoveClosed
    PROVE  IInv'
<1>1. UNCHANGED <<sendVars, open, session, okDue>>
  BY DEF TakeSample, CopySubscriptions, SubsDone, Ensure, RemoveClosed, connVars
<1>2. /\ SeqsOK' /\ ConnOK' /\ WriteOK'
      /\ \A c \in Clients : Sent(c)' = Sent(c)
  BY <1>1 DEF IInv, SeqsOK, ConnOK, WriteOK, sendVars, Sent
<1>3. CASE ~Ensure
  <2>1. UNCHANGED <<nextSubId, found>> /\ mpc' # "info"
    BY <1>3 DEF TakeSample, CopySubscriptions, SubsDone, RemoveClosed, stateVars
  <2>2. MonOK'
    BY <1>3, <2>1 DEF IInv, MonOK, TakeSample, CopySubscriptions, SubsDone, RemoveClosed
  <2> QED BY <1>2, <2>1, <2>2, Silent DEF IInv, Announcements
<1>4. CASE Ensure
  <2>1. cur \in Clients /\ cur' = cur
    BY <1>4 DEF IInv, MonOK, Ensure
  <2>2. CASE mpc' = "msg" /\ nextSubId' = nextSubId
    <3>1. MonOK'
      BY <2>1, <2>2 DEF IInv, MonOK
    <3>2. Announcements'
      BY <1>2, <2>2 DEF IInv, Announcements, AnnouncedOK, IdsNeverReused, Announces
    <3> QED BY <1>2, <3>1, <3>2 DEF IInv, Announcements
  <2>3. CASE /\ mpc' = "info"
             /\ found' = [id |-> FreshId, isNew |-> TRUE]
             /\ nextSubId' = [nextSubId EXCEPT ![cur] = @ + 1]
    <3>1. found'.id = nextSubId[cur]
      BY <2>3 DEF FreshId
    <3>2. /\ nextSubId' \in [Clients -> Nat]
          /\ nextSubId'[cur] = nextSubId[cur] + 1
          /\ \A c \in Clients \ {cur} : nextSubId'[c] = nextSubId[c]
      BY <2>1, <2>3 DEF IInv, MonOK
    <3>3. MonOK'
      BY <2>1, <2>3, <3>1, <3>2 DEF IInv, MonOK
    <3>4. AnnouncedOK'
      BY <1>2, <2>1, <2>3, <3>1, <3>2 DEF IInv, MonOK, AnnouncedOK, Announces
    <3>5. IdsNeverReused'
      BY <1>2 DEF IInv, IdsNeverReused
    <3> QED BY <1>2, <3>3, <3>4, <3>5 DEF IInv
  <2> QED BY <1>4, <2>2, <2>3 DEF Ensure
<1> QED BY <1>3, <1>4

(***************************************************************************)
(* The invariant and its consequences.                                     *)
(***************************************************************************)

LEMMA InitEstablishes == Init => IInv
<1> SUFFICES ASSUME Init PROVE IInv
  OBVIOUS
<1>1. SeqsOK
  BY EmptySeq DEF Init, SeqsOK
<1>2. ConnOK /\ MonOK /\ WriteOK
  BY DEF Init, ConnOK, MonOK, WriteOK
<1>3. \A c \in Clients : Sent(c) = <<>>
  BY ConcatEmptySeq, EmptySeq DEF Init, Sent
<1>4. AnnouncedOK /\ IdsNeverReused
  BY <1>3 DEF AnnouncedOK, IdsNeverReused
<1> QED BY <1>1, <1>2, <1>4 DEF IInv

LEMMA StutterKeeps == ASSUME IInv, UNCHANGED vars PROVE IInv'
<1>1. UNCHANGED <<connVars, stateVars, okDue, sendVars, monVars>>
  BY DEF vars
<1>2. /\ SeqsOK' /\ ConnOK' /\ MonOK' /\ WriteOK'
      /\ \A c \in Clients : Sent(c)' = Sent(c)
  BY <1>1 DEF IInv, SeqsOK, ConnOK, MonOK, WriteOK, Sent,
              connVars, stateVars, sendVars, monVars
<1> QED BY <1>1, <1>2, Silent DEF IInv, Announcements, stateVars, monVars

LEMMA StepKeeps == ASSUME IInv, Next PROVE IInv'
<1>1. ASSUME NEW c \in Clients, Accept(c) \/ Upgrade(c) \/ Disconnect(c)
      PROVE  IInv'
  BY <1>1, ConnectionKeeps
<1>2. ASSUME NEW c \in Clients, Command(c) PROVE IInv'
  BY <1>2, CommandKeeps
<1>3. ASSUME NEW c \in Clients, RunPosted(c) \/ WriteDone(c) \/ WriteFails(c)
      PROVE  IInv'
  BY <1>3, WritingKeeps
<1>4. CASE Reply
  BY <1>4, ReplyKeeps
<1>5. CASE \E kind \in Kinds : TakeSample(kind)
  BY <1>5, MonitorKeeps
<1>6. CASE Deliver
  BY <1>6, MonitorKeeps, SendingKeeps DEF Deliver
<1> QED BY <1>1, <1>2, <1>3, <1>4, <1>5, <1>6 DEF Next

LEMMA Invariance == Spec => []IInv
<1>1. IInv /\ [Next]_vars => IInv'
  BY StepKeeps, StutterKeeps
<1> QED BY InitEstablishes, <1>1, PTL DEF Spec

(* The WebSocket stream of a client never has two writes outstanding, and   *)
(* has one as long as the queue of an open client holds a line              *)
(* (ClientSession.cpp:142-146, 257-269): no line is stuck, none is cut.     *)
THEOREM OneWriteAtATime == Spec => []OneWrite
<1>1. IInv => OneWrite
  BY DEF IInv, ConnOK, WriteOK, OneWrite
<1> QED BY Invariance, <1>1, PTL

(* No generated subscription id is announced to a client twice, whatever    *)
(* XSUB, XUNSUB and the monitor's copy of the subscriptions do              *)
(* (ClientSession.cpp, ensureConcreteSubscription).                         *)
THEOREM FreshIds == Spec => []IdsNeverReused
<1>1. IInv => IdsNeverReused
  BY DEF IInv
<1> QED BY Invariance, <1>1, PTL

-----------------------------------------------------------------------------
(***************************************************************************)
(* What the lines say.                                                     *)
(***************************************************************************)


(***************************************************************************)
(* Within.                                                                 *)
(***************************************************************************)

(* The recursive function that defines it exists.                           *)
LEMMA WithinDef ==
    ASSUME NEW S, NEW s \in Seq(S), NEW T
    PROVE  \E f : /\ f = [i \in 0..Len(s) |-> IF i = 0 THEN <<>>
                      ELSE IF s[i] \in T THEN Append(f[i - 1], s[i]) ELSE f[i - 1]]
                 /\ Within(s, T) = f[Len(s)]
<1> DEFINE Step(v, i) == IF s[i] \in T THEN Append(v, s[i]) ELSE v
           Solves(g, n) == g = [i \in 0..n |-> IF i = 0 THEN <<>> ELSE Step(g[i - 1], i)]
           D == {n \in Nat : \E g : Solves(g, n)}
<1>1. 0 \in D
  <2> DEFINE g == [i \in 0..0 |-> <<>>]
  <2>1. Solves(g, 0)
    OBVIOUS
  <2> QED BY <2>1
<1>2. ASSUME NEW n \in D PROVE n + 1 \in D
  <2>1. n \in Nat /\ \E g : Solves(g, n)
    BY <1>2
  <2>2. PICK g : Solves(g, n)
    BY <2>1
  <2> DEFINE h == [i \in 0..n+1 |-> IF i = n + 1 THEN Step(g[n], n + 1) ELSE g[i]]
  <2> HIDE DEF Step
  <2>3. ASSUME NEW i \in 0..n+1
        PROVE h[i] = IF i = 0 THEN <<>> ELSE Step(h[i - 1], i)
    <3>1. CASE i = 0
      BY <2>2, <3>1
    <3>2. CASE i = n + 1
      <4>1. h[n + 1] = Step(g[n], n + 1)
        BY <2>1
      <4>2. h[n] = g[n]
        BY <2>1
      <4>3. (n + 1) - 1 = n /\ n + 1 # 0
        BY <2>1
      <4> HIDE DEF h
      <4> QED BY <3>2, <4>1, <4>2, <4>3
    <3>3. CASE i \in 1..n
      <4>1. h[i] = g[i] /\ h[i - 1] = g[i - 1]
        BY <2>1, <3>3
      <4>2. g[i] = Step(g[i - 1], i)
        BY <2>2, <3>3
      <4> QED BY <4>1, <4>2, <3>3, <2>1
    <3> QED BY <3>1, <3>2, <3>3
  <2>4. Solves(h, n + 1)
    BY <2>3
  <2> HIDE DEF Solves, h
  <2> QED BY <2>1, <2>4
<1>3. D = Nat
  <2> HIDE DEF D
  <2>1. D \in SUBSET Nat
    BY DEF D
  <2> QED BY <1>1, <1>2, <2>1, NatInd
<1>4. Len(s) \in Nat
  BY LenProperties
<1>5. PICK g : Solves(g, Len(s))
  BY <1>3, <1>4
<1> DEFINE f == CHOOSE h : Solves(h, Len(s))
<1>6. Solves(f, Len(s))
  <2> HIDE DEF Solves
  <2> QED BY <1>5
<1>7. Within(s, T) = f[Len(s)]
  BY DEF Within
<1> QED BY <1>6, <1>7

(* It keeps the elements of T, and only those.                              *)
LEMMA WithinType ==
    ASSUME NEW S, NEW s \in Seq(S), NEW T
    PROVE  /\ Within(s, T) \in Seq(S \cap T)
           /\ Within(s, T) \in Seq(S)
<1>1. PICK f : /\ f = [i \in 0..Len(s) |-> IF i = 0 THEN <<>>
                     ELSE IF s[i] \in T THEN Append(f[i - 1], s[i]) ELSE f[i - 1]]
               /\ Within(s, T) = f[Len(s)]
  BY WithinDef
<1>2. Len(s) \in Nat /\ \A i \in 1..Len(s) : s[i] \in S
  BY LenProperties, ElementOfSeq
<1> DEFINE D == {n \in Nat : n <= Len(s) => f[n] \in Seq(S \cap T)}
<1>3. 0 \in D
  BY <1>1, <1>2, EmptySeq
<1>4. ASSUME NEW n \in D PROVE n + 1 \in D
  <2>1. n \in Nat /\ (n <= Len(s) => f[n] \in Seq(S \cap T))
    BY <1>4
  <2>2. SUFFICES ASSUME n + 1 <= Len(s) PROVE f[n + 1] \in Seq(S \cap T)
    BY <2>1
  <2>3. /\ n + 1 \in 0..Len(s) /\ n + 1 # 0 /\ (n + 1) - 1 = n
        /\ f[n] \in Seq(S \cap T) /\ s[n + 1] \in S
    BY <1>2, <2>1, <2>2
  <2>4. f[n + 1] = IF s[n + 1] \in T THEN Append(f[n], s[n + 1]) ELSE f[n]
    BY <1>1, <2>3
  <2> QED BY <2>3, <2>4, AppendProperties
<1>5. D = Nat
  <2> HIDE DEF D
  <2>1. D \in SUBSET Nat
    BY DEF D
  <2> QED BY <1>3, <1>4, <2>1, NatInd
<1>6. Within(s, T) \in Seq(S \cap T)
  <2>1. Len(s) \in D
    BY <1>2, <1>5
  <2>2. f[Len(s)] \in Seq(S \cap T)
    BY <1>2, <2>1
  <2> QED BY <1>1, <2>2
<1> QED BY <1>6, SeqMonotonic

LEMMA WithinEmpty == ASSUME NEW T PROVE Within(<<>>, T) = <<>>
<1>1. <<>> \in Seq({})
  OBVIOUS
<1>2. Within(<<>>, T) \in Seq({})
  BY <1>1, WithinType
<1>3. Len(Within(<<>>, T)) = 0
  BY <1>2, LenProperties, ElementOfSeq
<1> QED BY <1>2, <1>3, EmptySeq

(***************************************************************************)
(* Type correctness.  IInv is the invariant of OwpServer_proofs, which     *)
(* gives that a write in progress has a line to write.                     *)
(***************************************************************************)

(* Inside a delivery there is a sample, at a wildcard of the copy there is  *)
(* one, and the id held there has been generated.                           *)
DeliveryOK ==
    /\ mpc # "idle" => sample.n \in 1..MaxSamples /\ sample.kind \in Kinds
    /\ mpc \in {"subs", "ensure", "info", "msg"} => cur \in Clients
    /\ mpc \in {"ensure", "info", "msg"} => xsubsLeft # <<>>
    /\ mpc \in {"info", "msg"} => found.id \in GeneratedIds

(* The parts of TypeOK, by the thread that writes them.                     *)
ClientsTyped ==
    /\ open \in [Clients -> BOOLEAN]
    /\ session \in [Clients -> {"none", "http", "ws", "over"}]
    /\ registry \subseteq Clients
    /\ commands \in [Clients -> 0..MaxCommands]
    /\ initialized \in [Clients -> BOOLEAN]
    /\ verbose \in [Clients -> BOOLEAN]
    /\ xsubs \in [Clients -> Seq(XSubs)]
    /\ subs \in [Clients -> [SubIds -> Kinds \cup {NoKind}]]
    /\ okDue \in Clients \cup {NoClient}

IdsTyped ==
    /\ concrete \in [Clients -> [Keys -> Nat]]
    /\ nextSubId \in [Clients -> GeneratedIds]

LinesTyped ==
    /\ posted \in [Clients -> Seq(Lines)]
    /\ queue \in [Clients -> Seq(Lines)]
    /\ writing \in [Clients -> Nat]
    /\ wire \in [Clients -> Seq(Lines)]

MonitorTyped ==
    /\ mpc \in {"idle", "next", "subs", "ensure", "info", "msg"}
    /\ sample.n \in 0..MaxSamples /\ sample.kind \in Kinds \cup {NoKind}
    /\ todo \subseteq Clients
    /\ cur \in Clients \cup {NoClient}
    /\ subsLeft \subseteq SubIds
    /\ xsubsLeft \in Seq(XSubs)
    /\ found \in [id : Nat, isNew : BOOLEAN]
    /\ DeliveryOK

Typed == ClientsTyped /\ IdsTyped /\ LinesTyped /\ MonitorTyped

LEMMA TypedIsTypeOK == Typed => TypeOK
BY DEF Typed, TypeOK, ClientsTyped, IdsTyped, LinesTyped, MonitorTyped

LEMMA ReplyLines == Ok \in Lines /\ Err \in Lines /\ Info \in Lines
BY DEF Ok, Err, Info, Lines

LEMMA SampleLines ==
    ASSUME Typed, mpc \in {"subs", "info", "msg"}
    PROVE  /\ \A id \in SubIds : Msg(id, sample) \in Lines
           /\ mpc = "msg" => Msg(found.id, sample) \in Lines
           /\ mpc = "info" =>
                XSubInfo(Head(xsubsLeft).stream, found.id, sample.kind) \in Lines
<1>1. sample.n \in 1..MaxSamples /\ sample.kind \in Kinds
  BY DEF Typed, MonitorTyped, DeliveryOK
<1>2. mpc \in {"info", "msg"} => found.id \in GeneratedIds
  BY DEF Typed, MonitorTyped, DeliveryOK
<1>3. ASSUME NEW id \in SubIds \cup GeneratedIds
      PROVE  Msg(id, sample) \in Lines
  BY <1>1 DEF Msg, Lines
<1>4. ASSUME mpc = "info"
      PROVE  XSubInfo(Head(xsubsLeft).stream, found.id, sample.kind) \in Lines
  <2>1. Head(xsubsLeft) \in XSubs
    BY <1>4, HeadTailProperties DEF Typed, MonitorTyped, DeliveryOK
  <2> QED BY <1>1, <1>2, <1>4, <2>1 DEF XSubInfo, XSubs, Lines
<1> QED BY <1>2, <1>3, <1>4

LEMMA SendTyped ==
    ASSUME LinesTyped, NEW d \in Clients, NEW line \in Lines, SendLine(d, line)
    PROVE  posted' \in [Clients -> Seq(Lines)]
<1>1. Append(posted[d], line) \in Seq(Lines)
  BY AppendProperties DEF LinesTyped
<1> QED BY <1>1 DEF LinesTyped, SendLine

(* A command writes the state of its client and sends it a line.            *)
LEMMA CommandTyped ==
    ASSUME Typed, NEW c \in Clients, Command(c)
    PROVE  Typed'
<1> USE ServerAssumption DEF stateVars
<1>1. ClientsTyped /\ IdsTyped /\ LinesTyped /\ MonitorTyped
  BY DEF Typed
<1>2. ASSUME NEW stillOpen \in BOOLEAN, Receive(c, stillOpen),
             initialized' \in [Clients -> BOOLEAN], verbose' \in [Clients -> BOOLEAN],
             xsubs' \in [Clients -> Seq(XSubs)],
             subs' \in [Clients -> [SubIds -> Kinds \cup {NoKind}]],
             IdsTyped', okDue' \in {okDue, c},
             posted' = posted \/ SendLine(c, Err) \/ SendLine(c, Info)
      PROVE  Typed'
  <2>1. /\ open' \in [Clients -> BOOLEAN]
        /\ session' \in [Clients -> {"none", "http", "ws", "over"}]
        /\ commands' \in [Clients -> 0..MaxCommands]
        /\ registry' \subseteq Clients
    BY <1>1, <1>2 DEF ClientsTyped, Receive
  <2>2. ClientsTyped'
    BY <1>1, <1>2, <2>1 DEF ClientsTyped
  <2>3. posted' \in [Clients -> Seq(Lines)]
    BY <1>1, <1>2, ReplyLines, SendTyped DEF LinesTyped
  <2>4. LinesTyped'
    BY <1>1, <1>2, <2>3 DEF LinesTyped, Receive
  <2>5. MonitorTyped'
    BY <1>1, <1>2 DEF MonitorTyped, DeliveryOK, Receive, monVars
  <2> QED BY <1>2, <2>2, <2>4, <2>5 DEF Typed
<1>3. /\ initialized \in [Clients -> BOOLEAN] /\ verbose \in [Clients -> BOOLEAN]
      /\ xsubs \in [Clients -> Seq(XSubs)]
      /\ subs \in [Clients -> [SubIds -> Kinds \cup {NoKind}]]
  BY <1>1 DEF ClientsTyped
<1>4. CASE InitAccepted(c)
  <2>1. /\ initialized' \in [Clients -> BOOLEAN] /\ verbose' \in [Clients -> BOOLEAN]
        /\ IdsTyped'
    BY <1>1, <1>3, <1>4 DEF InitAccepted, IdsTyped
  <2> QED BY <1>2, <1>3, <1>4, <2>1 DEF InitAccepted
<1>5. CASE EndSession(c) \/ Refuse(c)
  <2>1. IdsTyped'
    BY <1>1, <1>5 DEF EndSession, Refuse, IdsTyped
  <2> QED BY <1>2, <1>3, <1>5, <2>1 DEF EndSession, Refuse
<1>6. ASSUME NEW stream \in Streams, NEW pattern \in Patterns, XSub(c, stream, pattern)
      PROVE  Typed'
  <2>1. Append(xsubs[c], [stream |-> stream, pattern |-> pattern])
          \in Seq(XSubs)
    BY <1>3, AppendProperties DEF XSubs
  <2>2. xsubs' \in [Clients -> Seq(XSubs)] /\ IdsTyped'
    BY <1>1, <1>3, <1>6, <2>1 DEF XSub, XSubs, IdsTyped
  <2> QED BY <1>2, <1>3, <1>6, <2>2 DEF XSub
<1>7. ASSUME NEW stream \in Streams, XUnsub(c, stream)
      PROVE  Typed'
  <2>1. Within(xsubs[c], {x \in XSubs : x.stream # stream}) \in Seq(XSubs)
    BY <1>3, WithinType
  <2>2. xsubs' \in [Clients -> Seq(XSubs)] /\ IdsTyped'
    BY <1>1, <1>3, <1>7, <2>1 DEF XUnsub, IdsTyped
  <2> QED BY <1>2, <1>3, <1>7, <2>2 DEF XUnsub
<1>8. ASSUME NEW id \in SubIds, NEW kind \in Kinds, Sub(c, id, kind)
      PROVE  Typed'
  <2>1. subs' \in [Clients -> [SubIds -> Kinds \cup {NoKind}]] /\ IdsTyped'
    BY <1>1, <1>3, <1>8 DEF Sub, IdsTyped
  <2> QED BY <1>2, <1>3, <1>8, <2>1 DEF Sub
<1>9. ASSUME NEW id \in SubIds, Unsub(c, id)
      PROVE  Typed'
  <2>1. subs' \in [Clients -> [SubIds -> Kinds \cup {NoKind}]] /\ IdsTyped'
    BY <1>1, <1>3, <1>9 DEF Unsub, IdsTyped
  <2> QED BY <1>2, <1>3, <1>9, <2>1 DEF Unsub
<1> QED BY <1>4, <1>5, <1>6, <1>7, <1>8, <1>9 DEF Command

LEMMA ConnectionTyped ==
    ASSUME Typed, NEW c \in Clients, Accept(c) \/ Upgrade(c) \/ Disconnect(c)
    PROVE  Typed'
<1>1. ClientsTyped'
  BY DEF Typed, ClientsTyped, Accept, Upgrade, Disconnect, stateVars
<1>2. IdsTyped' /\ LinesTyped' /\ MonitorTyped'
  BY DEF Typed, IdsTyped, LinesTyped, MonitorTyped, DeliveryOK, Accept, Upgrade, Disconnect,
         stateVars, sendVars, monVars
<1> QED BY <1>1, <1>2 DEF Typed

LEMMA WritingTyped ==
    ASSUME Typed, IInv, NEW c \in Clients, RunPosted(c) \/ WriteDone(c) \/ WriteFails(c)
    PROVE  Typed'
<1>1. ClientsTyped'
  BY DEF Typed, ClientsTyped, RunPosted, WriteDone, WriteFails, connVars, stateVars
<1>2. IdsTyped' /\ MonitorTyped'
  BY DEF Typed, IdsTyped, MonitorTyped, DeliveryOK, RunPosted, WriteDone, WriteFails,
         stateVars, monVars
<1>3. LinesTyped
  BY DEF Typed
<1>4. CASE RunPosted(c)
  <2>1. Append(queue[c], Head(posted[c])) \in Seq(Lines) /\ Tail(posted[c]) \in Seq(Lines)
    BY <1>3, <1>4, MoveHead DEF LinesTyped, RunPosted
  <2> QED BY <1>1, <1>2, <1>3, <1>4, <2>1
          DEF Typed, LinesTyped, RunPosted, Pushed, WriteInProgress
<1>5. CASE WriteDone(c)
  <2>1. queue[c] # <<>>
    BY <1>5 DEF IInv, ConnOK, WriteOK, WriteDone
  <2>2. Append(wire[c], Head(queue[c])) \in Seq(Lines) /\ Tail(queue[c]) \in Seq(Lines)
    BY <1>3, <2>1, MoveHead DEF LinesTyped
  <2>3. writing' \in [Clients -> Nat]
    BY <1>3, <1>5 DEF LinesTyped, WriteDone
  <2> QED BY <1>1, <1>2, <1>3, <1>5, <2>2, <2>3 DEF Typed, LinesTyped, WriteDone
<1>6. CASE WriteFails(c)
  BY <1>1, <1>2, <1>3, <1>6 DEF Typed, LinesTyped, WriteFails
<1> QED BY <1>4, <1>5, <1>6

LEMMA ReplyTyped ==
    ASSUME Typed, Reply
    PROVE  Typed'
<1>1. okDue \in Clients
  BY DEF Typed, ClientsTyped, Reply
<1>2. ClientsTyped' /\ IdsTyped' /\ MonitorTyped'
  BY DEF Typed, ClientsTyped, IdsTyped, MonitorTyped, DeliveryOK, Reply, connVars,
         stateVars, monVars
<1>3. posted' \in [Clients -> Seq(Lines)]
  BY <1>1, ReplyLines, SendTyped DEF Typed, LinesTyped, Reply
<1> QED BY <1>2, <1>3 DEF Typed, LinesTyped, Reply

LEMMA SendingTyped ==
    ASSUME Typed, (\E id \in SubIds : SendToSub(id)) \/ SendXSubInfo \/ SendToXSub
    PROVE  Typed'
<1>1. /\ mpc \in {"subs", "info", "msg"} /\ cur \in Clients
      /\ UNCHANGED <<connVars, stateVars, okDue, queue, writing, wire, sample, todo, cur, found>>
  BY DEF Typed, MonitorTyped, DeliveryOK, SendToSub, SendXSubInfo, SendToXSub
<1>2. posted' \in [Clients -> Seq(Lines)]
  BY <1>1, SampleLines, SendTyped DEF Typed, SendToSub, SendXSubInfo, SendToXSub
<1>3. MonitorTyped'
  <2>1. mpc' \in {"subs", "msg"} /\ subsLeft' \subseteq SubIds
    BY DEF Typed, MonitorTyped, SendToSub, SendXSubInfo, SendToXSub
  <2>2. mpc' = "msg" => mpc = "info" /\ xsubsLeft' = xsubsLeft
    BY DEF SendToSub, SendXSubInfo, SendToXSub
  <2>3. xsubsLeft' \in Seq(XSubs)
    <3>1. mpc = "msg" => Tail(xsubsLeft) \in Seq(XSubs)
      BY HeadTailProperties DEF Typed, MonitorTyped, DeliveryOK
    <3> QED BY <3>1 DEF Typed, MonitorTyped, SendToSub, SendXSubInfo, SendToXSub
  <2> QED BY <1>1, <2>1, <2>2, <2>3 DEF Typed, MonitorTyped, DeliveryOK
<1> QED BY <1>1, <1>2, <1>3
    DEF Typed, ClientsTyped, IdsTyped, LinesTyped, connVars, stateVars

LEMMA MonitorStepTyped ==
    ASSUME Typed,
           \/ \E kind \in Kinds : TakeSample(kind)
           \/ \E c \in Clients : CopySubscriptions(c)
           \/ SubsDone \/ Ensure \/ RemoveClosed
    PROVE  Typed'
<1> USE ServerAssumption
<1>1. ClientsTyped' /\ LinesTyped'
  BY DEF Typed, ClientsTyped, LinesTyped, TakeSample, CopySubscriptions, SubsDone, Ensure,
         RemoveClosed, connVars, stateVars, sendVars
<1>2. MonitorTyped
  BY DEF Typed
<1>3. CASE ~Ensure
  <2>1. IdsTyped'
    BY <1>3 DEF Typed, IdsTyped, TakeSample, CopySubscriptions, SubsDone, RemoveClosed, stateVars
  <2>2. ASSUME NEW kind \in Kinds, TakeSample(kind) PROVE MonitorTyped'
    <3>1. todo' \subseteq Clients
      BY <2>2 DEF Typed, ClientsTyped, TakeSample
    <3>2. sample'.n \in 1..MaxSamples /\ sample'.kind = kind
      BY <1>2, <2>2 DEF MonitorTyped, TakeSample
    <3> QED BY <1>2, <2>2, <3>1, <3>2 DEF MonitorTyped, DeliveryOK, TakeSample
  <2>3. ASSUME NEW c \in Clients, CopySubscriptions(c) PROVE MonitorTyped'
    <3>1. xsubsLeft' \in Seq(XSubs)
      BY <2>3, WithinType DEF Typed, ClientsTyped, CopySubscriptions
    <3> QED BY <1>2, <2>3, <3>1 DEF MonitorTyped, DeliveryOK, CopySubscriptions
  <2>4. CASE SubsDone
    <3>1. /\ mpc = "subs" /\ mpc' \in {"next", "ensure"}
          /\ mpc' = "ensure" => xsubsLeft # <<>>
          /\ UNCHANGED <<sample, todo, cur, subsLeft, xsubsLeft, found>>
      BY <2>4 DEF SubsDone
    <3>2. DeliveryOK'
      BY <1>2, <3>1 DEF MonitorTyped, DeliveryOK
    <3>3. MonitorTyped'
      BY <1>2, <3>1, <3>2 DEF MonitorTyped
    <3> QED BY <1>1, <2>1, <3>3 DEF Typed
  <2>5. CASE RemoveClosed
    <3>1. /\ mpc' = "idle" /\ cur' = NoClient
          /\ UNCHANGED <<sample, todo, subsLeft, xsubsLeft, found>>
      BY <2>5 DEF RemoveClosed
    <3>2. DeliveryOK'
      BY <3>1 DEF DeliveryOK
    <3>3. MonitorTyped'
      BY <1>2, <3>1, <3>2 DEF MonitorTyped
    <3> QED BY <1>1, <2>1, <3>3 DEF Typed
  <2> QED BY <1>1, <1>3, <2>1, <2>2, <2>3, <2>4, <2>5 DEF Typed
<1>4. CASE Ensure
  <2> DEFINE k == Key(Head(xsubsLeft).stream)
  <2>1. /\ cur \in Clients /\ xsubsLeft # <<>> /\ sample.kind \in Kinds
        /\ UNCHANGED <<sample, todo, cur, subsLeft, xsubsLeft>>
    BY <1>2, <1>4 DEF MonitorTyped, DeliveryOK, Ensure
  <2>2. k \in Keys
    <3>1. Head(xsubsLeft) \in XSubs
      BY <1>2, <2>1, HeadTailProperties DEF MonitorTyped
    <3> QED BY <2>1, <3>1 DEF XSubs, Kinds, Keys, Key
  <2>3. concrete[cur][k] \in Nat /\ nextSubId[cur] \in GeneratedIds
    BY <2>1, <2>2 DEF Typed, IdsTyped
  <2> HIDE DEF k
  <2>4. CASE /\ concrete[cur][k] # 0
             /\ found' = [id |-> concrete[cur][k], isNew |-> FALSE]
             /\ mpc' = "msg"
             /\ UNCHANGED <<concrete, nextSubId>>
    <3>1. IdsTyped'
      BY <2>4 DEF Typed, IdsTyped
    <3>2. found' \in [id : Nat, isNew : BOOLEAN] /\ found'.id \in GeneratedIds
      BY <2>3, <2>4 DEF GeneratedIds
    <3>3. MonitorTyped'
      BY <1>2, <2>1, <2>4, <3>2, <1>4 DEF MonitorTyped, DeliveryOK, Ensure
    <3> QED BY <1>1, <3>1, <3>3 DEF Typed
  <2>5. CASE /\ found' = [id |-> FreshId, isNew |-> TRUE]
             /\ mpc' = "info"
             /\ concrete' = [concrete EXCEPT ![cur][k] = FreshId]
             /\ nextSubId' = [nextSubId EXCEPT ![cur] = @ + 1]
    <3>1. FreshId \in Nat /\ FreshId \in GeneratedIds /\ FreshId + 1 \in GeneratedIds
      BY <2>3 DEF FreshId, GeneratedIds
    <3>2. IdsTyped'
      BY <2>1, <2>2, <2>5, <3>1 DEF Typed, IdsTyped, FreshId
    <3>3. found' \in [id : Nat, isNew : BOOLEAN] /\ found'.id \in GeneratedIds
      BY <2>5, <3>1
    <3>4. MonitorTyped'
      BY <1>2, <2>1, <2>5, <3>3, <1>4 DEF MonitorTyped, DeliveryOK, Ensure
    <3> QED BY <1>1, <3>2, <3>4 DEF Typed
  <2> QED BY <1>4, <2>4, <2>5 DEF Ensure, k
<1> QED BY <1>3, <1>4

LEMMA InitTyped == Init => Typed
<1> SUFFICES ASSUME Init PROVE Typed
  OBVIOUS
<1>1. ClientsTyped
  <2>1. 0 \in 0..MaxCommands /\ NoSubs \in [SubIds -> Kinds \cup {NoKind}] /\ <<>> \in Seq(XSubs)
    BY ServerAssumption, EmptySeq DEF NoSubs
  <2> HIDE DEF NoSubs
  <2> QED BY <2>1 DEF Init, ClientsTyped
<1>2. IdsTyped
  BY DEF Init, IdsTyped, NoConcrete, GeneratedIds
<1>3. LinesTyped
  BY EmptySeq DEF Init, LinesTyped
<1>4. MonitorTyped
  BY EmptySeq, ServerAssumption DEF Init, MonitorTyped, DeliveryOK
<1> QED BY <1>1, <1>2, <1>3, <1>4 DEF Typed

LEMMA TypedStep == Typed /\ IInv /\ [Next]_vars => Typed'
<1> SUFFICES ASSUME Typed, IInv, [Next]_vars PROVE Typed'
  OBVIOUS
<1>1. CASE UNCHANGED vars
  <2>1. UNCHANGED <<connVars, stateVars, okDue, sendVars, monVars>>
    BY <1>1 DEF vars
  <2> QED BY <2>1 DEF Typed, ClientsTyped, IdsTyped, LinesTyped, MonitorTyped, DeliveryOK,
                      connVars, stateVars, sendVars, monVars
<1>2. CASE Next
  BY <1>2, ConnectionTyped, CommandTyped, WritingTyped, ReplyTyped, SendingTyped,
     MonitorStepTyped DEF Next, Deliver
<1> QED BY <1>1, <1>2

(* Every variable of the bridge stays in its domain: among them, each line  *)
(* sent is one of the protocol's, and no write completes on an empty queue  *)
(* (ClientSession.cpp:257-269).                                             *)
THEOREM TypeCorrect == Spec => []TypeOK
<1>1. Spec => []Typed
  BY Invariance, InitTyped, TypedStep, PTL DEF Spec
<1> QED BY <1>1, TypedIsTypeOK, PTL

(***************************************************************************)
(* What a step does to the lines: it sends none, or one line to a client,  *)
(* which gets it as the last one when it is open.                          *)
(***************************************************************************)

Quiet == \A c \in Clients : Sent(c)' = Sent(c)

Extended(c, line) ==
    /\ DOMAIN Sent(c)' = 1 .. Len(Sent(c)) + 1
    /\ \A i \in DOMAIN Sent(c) : Sent(c)'[i] = Sent(c)[i]
    /\ Sent(c)'[Len(Sent(c)) + 1] = line

Sends(d, line) ==
    /\ \A c \in Clients \ {d} : Sent(c)' = Sent(c)
    /\ IF open[d] THEN Extended(d, line) ELSE Sent(d)' = Sent(d)

(* What is sent is a sequence of lines.                                     *)
LEMMA SentLines ==
    ASSUME LinesTyped, NEW c \in Clients
    PROVE  /\ Sent(c) \in Seq(Lines)
           /\ Len(Sent(c)) \in Nat
           /\ DOMAIN Sent(c) = 1 .. Len(Sent(c))
           /\ \A i \in DOMAIN Sent(c) : Sent(c)[i] \in Lines
           /\ Sent(c) = <<>> <=> Len(Sent(c)) = 0
<1>1. Sent(c) \in Seq(Lines)
  BY SentType DEF LinesTyped
<1> QED BY <1>1, LenProperties, ElementOfSeq, EmptySeq

LEMMA LineSent ==
    ASSUME Typed, NEW d \in Clients, NEW line, SendLine(d, line), UNCHANGED <<queue, wire>>
    PROVE  Sends(d, line)
<1>1. SeqsOK
  BY DEF Typed, LinesTyped, SeqsOK
<1>2. \A c \in Clients \ {d} : Sent(c)' = Sent(c)
  BY <1>1, SendGrows
<1>3. CASE open[d]
  <2>1. PICK S : line \in S /\ Sent(d) \in Seq(S) /\ Sent(d)' = Append(Sent(d), line)
    BY <1>1, <1>3, SendGrows
  <2>2. Extended(d, line)
    BY <2>1, AppendProperties, LenProperties DEF Extended
  <2> QED BY <1>2, <1>3, <2>2 DEF Sends
<1>4. CASE ~open[d]
  BY <1>1, <1>2, <1>4, SendGrows DEF Sends
<1> QED BY <1>3, <1>4

(* The steps that send nothing.                                             *)
LEMMA QuietSteps ==
    ASSUME Typed, IInv,
           \/ posted' = posted /\ queue' = queue /\ wire' = wire
           \/ \E c \in Clients : RunPosted(c) \/ WriteDone(c) \/ WriteFails(c)
    PROVE  Quiet
<1>1. SeqsOK
  BY DEF Typed, LinesTyped, SeqsOK
<1>2. CASE posted' = posted /\ queue' = queue /\ wire' = wire
  BY <1>2 DEF Quiet, Sent
<1>3. ASSUME NEW c \in Clients, RunPosted(c) PROVE Quiet
  BY <1>1, <1>3, PostedMoves DEF Quiet
<1>4. ASSUME NEW c \in Clients, WriteDone(c) PROVE Quiet
  <2>1. queue[c] # <<>>
    BY <1>4 DEF IInv, ConnOK, WriteOK, WriteDone
  <2> QED BY <1>1, <1>4, <2>1, WriteMoves DEF Quiet
<1>5. ASSUME NEW c \in Clients, WriteFails(c) PROVE Quiet
  BY <1>5 DEF Quiet, Sent, WriteFails
<1> QED BY <1>2, <1>3, <1>4, <1>5

(***************************************************************************)
(* Samples.                                                                *)
(***************************************************************************)

(* No sample sent is newer than the one being delivered, and none is older  *)
(* than one sent before it.                                                 *)
SamplesOK ==
    \A c \in Clients : \A i \in DOMAIN Sent(c) :
        Sent(c)[i].op = "MSG" =>
            /\ Sent(c)[i].n <= sample.n
            /\ \A j \in DOMAIN Sent(c) :
                 i < j /\ Sent(c)[j].op = "MSG" => Sent(c)[i].n <= Sent(c)[j].n

LEMMA MsgNumber == \A line \in Lines : line.op = "MSG" => line.n \in 1..MaxSamples
BY DEF Lines

LEMMA SamplesQuiet ==
    ASSUME SamplesOK, Typed, Quiet, UNCHANGED sample \/ sample'.n = sample.n + 1
    PROVE  SamplesOK'
<1>1. sample.n \in Nat /\ sample'.n \in Nat /\ sample.n <= sample'.n
  BY DEF Typed, MonitorTyped
<1> SUFFICES ASSUME NEW c \in Clients, NEW i \in DOMAIN Sent(c)', Sent(c)'[i].op = "MSG"
             PROVE  /\ Sent(c)'[i].n <= sample'.n
                    /\ \A j \in DOMAIN Sent(c)' : i < j /\ Sent(c)'[j].op = "MSG"
                                                    => Sent(c)'[i].n <= Sent(c)'[j].n
  BY DEF SamplesOK
<1>2. Sent(c)' = Sent(c)
  BY DEF Quiet
<1>3. Sent(c)[i].n \in Nat
  BY <1>2, SentLines, MsgNumber, ServerAssumption DEF Typed
<1> QED BY <1>1, <1>2, <1>3 DEF SamplesOK

LEMMA SamplesSends ==
    ASSUME SamplesOK, Typed, NEW d \in Clients, NEW line, Sends(d, line),
           UNCHANGED sample, line.op = "MSG" => line.n = sample.n
    PROVE  SamplesOK'
<1> SUFFICES ASSUME NEW c \in Clients, NEW i \in DOMAIN Sent(c)', Sent(c)'[i].op = "MSG"
             PROVE  /\ Sent(c)'[i].n <= sample.n
                    /\ \A j \in DOMAIN Sent(c)' : i < j /\ Sent(c)'[j].op = "MSG"
                                                    => Sent(c)'[i].n <= Sent(c)'[j].n
  BY DEF SamplesOK
<1>1. sample.n \in Nat
  BY DEF Typed, MonitorTyped
<1>2. CASE Sent(c)' = Sent(c)
  BY <1>2 DEF SamplesOK
<1>3. CASE c = d /\ Extended(d, line)
  <2>1. Len(Sent(c)) \in Nat /\ DOMAIN Sent(c) = 1 .. Len(Sent(c))
    BY SentLines DEF Typed
  <2>2. \A k \in DOMAIN Sent(c)' : \/ k \in DOMAIN Sent(c) /\ Sent(c)'[k] = Sent(c)[k]
                                   \/ k = Len(Sent(c)) + 1 /\ Sent(c)'[k] = line
    BY <1>3, <2>1 DEF Extended
  <2>3. CASE i \in DOMAIN Sent(c) /\ Sent(c)'[i] = Sent(c)[i]
    BY <2>2, <2>3, <1>1 DEF SamplesOK
  <2>4. CASE i = Len(Sent(c)) + 1 /\ Sent(c)'[i] = line
    <3>1. \A j \in DOMAIN Sent(c)' : ~(i < j)
      BY <2>1, <2>2, <2>4
    <3> QED BY <2>4, <3>1, <1>1
  <2> QED BY <2>2, <2>3, <2>4
<1> QED BY <1>2, <1>3 DEF Sends

(* A command is answered by at most one line of its own, Err or Info.       *)
LEMMA CommandLines ==
    ASSUME Typed, IInv, NEW c \in Clients, Command(c)
    PROVE  /\ UNCHANGED monVars
           /\ Quiet \/ Sends(c, Err) \/ Sends(c, Info)
<1>1. UNCHANGED <<queue, wire, monVars>>
  BY DEF Command, InitAccepted, EndSession, Refuse, XSub, XUnsub, Sub, Unsub, Receive
<1>2. posted' = posted \/ SendLine(c, Err) \/ SendLine(c, Info)
  BY DEF Command, InitAccepted, EndSession, Refuse, XSub, XUnsub, Sub, Unsub
<1> QED BY <1>1, <1>2, LineSent, QuietSteps

LEMMA SamplesStep == SamplesOK /\ Typed /\ IInv /\ [Next]_vars => SamplesOK'
<1> SUFFICES ASSUME SamplesOK, Typed, IInv, [Next]_vars PROVE SamplesOK'
  OBVIOUS
<1>1. Ok.op # "MSG" /\ Err.op # "MSG" /\ Info.op # "MSG"
  BY DEF Ok, Err, Info
<1>2. CASE UNCHANGED vars
  BY <1>2, QuietSteps, SamplesQuiet DEF vars, sendVars, monVars
<1>3. ASSUME NEW c \in Clients, Accept(c) \/ Upgrade(c) \/ Disconnect(c) PROVE SamplesOK'
  BY <1>3, QuietSteps, SamplesQuiet DEF Accept, Upgrade, Disconnect, sendVars, monVars
<1>4. ASSUME NEW c \in Clients, RunPosted(c) \/ WriteDone(c) \/ WriteFails(c) PROVE SamplesOK'
  BY <1>4, QuietSteps, SamplesQuiet DEF RunPosted, WriteDone, WriteFails, monVars
<1>5. ASSUME NEW c \in Clients, Command(c) PROVE SamplesOK'
  BY <1>1, <1>5, CommandLines, SamplesQuiet, SamplesSends DEF monVars
<1>6. CASE Reply
  <2>1. okDue \in Clients /\ UNCHANGED <<queue, wire, sample>>
    BY <1>6 DEF Typed, ClientsTyped, Reply, monVars
  <2>2. posted' = posted \/ SendLine(okDue, Ok)
    BY <1>6 DEF Reply
  <2> QED BY <1>1, <2>1, <2>2, LineSent, QuietSteps, SamplesQuiet, SamplesSends
<1>7. CASE \E kind \in Kinds : TakeSample(kind)
  BY <1>7, QuietSteps, SamplesQuiet DEF TakeSample, sendVars
<1>8. CASE (\E c \in Clients : CopySubscriptions(c)) \/ SubsDone \/ Ensure \/ RemoveClosed
  BY <1>8, QuietSteps, SamplesQuiet
     DEF CopySubscriptions, SubsDone, Ensure, RemoveClosed, sendVars
<1>9. CASE (\E id \in SubIds : SendToSub(id)) \/ SendXSubInfo \/ SendToXSub
  <2>1. cur \in Clients /\ UNCHANGED <<queue, wire, sample>>
    BY <1>9 DEF Typed, MonitorTyped, DeliveryOK, SendToSub, SendXSubInfo, SendToXSub
  <2>2. ASSUME NEW line, SendLine(cur, line), line.op = "MSG" => line.n = sample.n
        PROVE  SamplesOK'
    BY <2>1, <2>2, LineSent, SamplesSends
  <2>3. CASE SendXSubInfo
    BY <2>2, <2>3 DEF SendXSubInfo, XSubInfo
  <2>4. CASE \E id \in SubIds : SendToSub(id)
    BY <2>2, <2>4 DEF SendToSub, Msg
  <2>5. CASE SendToXSub
    BY <2>2, <2>5 DEF SendToXSub, Msg
  <2> QED BY <1>9, <2>3, <2>4, <2>5
<1> QED BY <1>2, <1>3, <1>4, <1>5, <1>6, <1>7, <1>8, <1>9 DEF Next, Deliver

LEMMA InitSilent == ASSUME Init, NEW c \in Clients PROVE Sent(c) = <<>>
BY ConcatEmptySeq, EmptySeq DEF Init, Sent

LEMMA TypedInvariance == Spec => [](Typed /\ IInv)
BY Invariance, InitTyped, TypedStep, PTL DEF Spec

(* The samples of every subscription, its own or a wildcard's, reach the    *)
(* client in the order in which the monitor thread took them: neither the   *)
(* executor's queue nor writeQueue_ nor a write that fails changes it       *)
(* (ClientSession.cpp:128-146, 257-269; TopicMonitor.cpp, deliver).         *)
THEOREM SamplesInOrder == Spec => []SampleOrder
<1>1. Init => SamplesOK
  BY InitSilent DEF SamplesOK
<1>2. SamplesOK => SampleOrder
  BY DEF SamplesOK, SampleOrder
<1> QED BY <1>1, <1>2, SamplesStep, TypedInvariance, PTL DEF Spec

(***************************************************************************)
(* INFO first.                                                             *)
(***************************************************************************)

(* A client has no subscription before its INIT, and once it is initialized *)
(* its first line is INFO, unless it was closed before it got any line.     *)
Greeted(c) ==
    /\ session[c] = "none" => ~initialized[c] /\ Sent(c) = <<>>
    /\ ~initialized[c] => /\ subs[c] = NoSubs
                          /\ xsubs[c] = <<>>
                          /\ concrete[c] = NoConcrete
    /\ open[c] => IF initialized[c] THEN Sent(c) # <<>> /\ Sent(c)[1] = Info
                                    ELSE Sent(c) = <<>>
    /\ \A j \in DOMAIN Sent(c) : Sent(c)[j] # Err => Sent(c)[1] = Info

(* Replies are due to, and samples in delivery go to, initialized clients.  *)
ServedOK ==
    /\ okDue # NoClient => initialized[okDue]
    /\ mpc = "subs" => initialized[cur] \/ (subsLeft = {} /\ xsubsLeft = <<>>)
    /\ mpc \in {"ensure", "info", "msg"} => initialized[cur]

GreetedOK == (\A c \in Clients : Greeted(c)) /\ ServedOK

(* A line is sent to a client that is initialized, or it is the INFO that   *)
(* initializes it, or the -ERR that ends its session.                       *)
LEMMA GreetedSends ==
    ASSUME Typed, NEW d \in Clients, Greeted(d), NEW line, Sends(d, line),
           session[d] # "none", session'[d] # "none",
           \/ initialized[d] /\ initialized'[d] /\ open'[d] = open[d]
           \/ ~initialized[d] /\ initialized'[d] /\ line = Info /\ open'[d] = open[d]
           \/ line = Err /\ ~open'[d] /\ initialized'[d] = initialized[d],
           ~initialized'[d] => UNCHANGED <<subs, xsubs, concrete>>
    PROVE  Greeted(d)'
<1>1. /\ Len(Sent(d)) \in Nat /\ DOMAIN Sent(d) = 1 .. Len(Sent(d))
      /\ Sent(d) = <<>> <=> Len(Sent(d)) = 0
  BY SentLines DEF Typed
<1>2. ~initialized'[d] => subs'[d] = NoSubs /\ xsubs'[d] = <<>> /\ concrete'[d] = NoConcrete
  BY DEF Greeted
<1>3. CASE ~open[d]
  <2>1. Sent(d)' = Sent(d)
    BY <1>3 DEF Sends
  <2>2. ~open'[d]
    BY <1>3
  <2> QED BY <1>2, <2>1, <2>2 DEF Greeted
<1>4. CASE open[d]
  <2>1. /\ DOMAIN Sent(d)' = 1 .. Len(Sent(d)) + 1
        /\ \A i \in DOMAIN Sent(d) : Sent(d)'[i] = Sent(d)[i]
        /\ Sent(d)'[Len(Sent(d)) + 1] = line
    BY <1>4 DEF Sends, Extended
  <2>2. Sent(d)' # <<>>
    BY <1>1, <2>1
  <2>3. CASE initialized[d]
    <3>1. Sent(d)[1] = Info /\ 1 \in DOMAIN Sent(d)
      BY <1>1, <1>4, <2>3 DEF Greeted
    <3>2. Sent(d)'[1] = Info
      BY <2>1, <3>1
    <3> QED BY <1>2, <2>2, <2>3, <3>2 DEF Greeted
  <2>4. CASE ~initialized[d]
    <3>1. DOMAIN Sent(d)' = 1..1 /\ Sent(d)'[1] = line
      BY <1>1, <1>4, <2>1, <2>4 DEF Greeted
    <3> QED BY <1>2, <2>2, <2>4, <3>1 DEF Greeted
  <2> QED BY <2>3, <2>4
<1> QED BY <1>3, <1>4

(* Nothing is sent.                                                         *)
LEMMA GreetedQuiet ==
    ASSUME NEW d \in Clients, Greeted(d), Sent(d)' = Sent(d), initialized'[d] = initialized[d],
           open'[d] => open[d] \/ session[d] = "none",
           session'[d] = "none" => session[d] = "none",
           ~initialized[d] => /\ subs'[d] = subs[d] /\ xsubs'[d] = xsubs[d]
                              /\ concrete'[d] = concrete[d]
    PROVE  Greeted(d)'
BY DEF Greeted

LEMMA GreetedCommand ==
    ASSUME GreetedOK, Typed, IInv, NEW c \in Clients, Command(c)
    PROVE  GreetedOK'
<1> USE DEF stateVars
<1>1. /\ UNCHANGED <<queue, wire, mpc, cur, subsLeft, xsubsLeft>>
      /\ session[c] = "ws" /\ session'[c] # "none"
      /\ \A d \in Clients \ {c} : session'[d] = session[d] /\ open'[d] = open[d]
  BY DEF Command, InitAccepted, EndSession, Refuse, XSub, XUnsub, Sub, Unsub, Receive, monVars,
         Typed, ClientsTyped
<1>2. \A d \in Clients \ {c} :
          /\ initialized'[d] = initialized[d] /\ subs'[d] = subs[d]
          /\ xsubs'[d] = xsubs[d] /\ concrete'[d] = concrete[d]
  BY DEF Command, InitAccepted, EndSession, Refuse, XSub, XUnsub, Sub, Unsub,
         Typed, ClientsTyped, IdsTyped
<1>3. \A d \in Clients : initialized[d] => initialized'[d]
  BY DEF Command, InitAccepted, EndSession, Refuse, XSub, XUnsub, Sub, Unsub,
         Typed, ClientsTyped
<1>4. okDue' # NoClient => initialized'[okDue']
  <2>1. \/ okDue' = okDue
        \/ okDue' = c /\ initialized'[c]
    BY DEF Command, InitAccepted, EndSession, Refuse, XSub, XUnsub, Sub, Unsub, Ready,
           Typed, ClientsTyped
  <2> QED BY <1>3, <2>1 DEF GreetedOK, ServedOK, Typed, ClientsTyped
<1>5. ServedOK'
  <2>1. mpc \in {"subs", "ensure", "info", "msg"} => cur \in Clients
    BY DEF Typed, MonitorTyped, DeliveryOK
  <2> QED BY <1>1, <1>3, <1>4, <2>1 DEF GreetedOK, ServedOK
<1>6. \A d \in Clients \ {c} : Sent(d)' = Sent(d)
  BY CommandLines DEF Quiet, Sends
<1>7. \A d \in Clients \ {c} : Greeted(d)'
  BY <1>1, <1>2, <1>6, GreetedQuiet DEF GreetedOK
<1>8. Greeted(c)
  BY DEF GreetedOK
<1>9. CASE InitAccepted(c)
  <2>1. Sends(c, Info) /\ initialized'[c] /\ ~initialized[c]
    BY <1>1, <1>9, LineSent DEF InitAccepted, Typed, ClientsTyped
  <2>2. open'[c] = open[c]
    BY <1>9 DEF InitAccepted, Receive, Typed, ClientsTyped
  <2> QED BY <1>1, <1>5, <1>7, <1>8, <2>1, <2>2, GreetedSends DEF GreetedOK
<1>10. CASE EndSession(c)
  <2>1. Sends(c, Err) /\ UNCHANGED <<initialized, subs, xsubs, concrete>>
    BY <1>1, <1>10, LineSent DEF EndSession
  <2>2. ~open'[c]
    BY <1>10 DEF EndSession, Receive, Typed, ClientsTyped
  <2> QED BY <1>1, <1>5, <1>7, <1>8, <2>1, <2>2, GreetedSends DEF GreetedOK
<1>11. CASE Refuse(c)
  <2>1. Sends(c, Err) /\ initialized[c] /\ initialized'[c]
    BY <1>1, <1>11, LineSent DEF Refuse, Ready
  <2>2. open'[c] = open[c]
    BY <1>11 DEF Refuse, Receive, Typed, ClientsTyped
  <2> QED BY <1>1, <1>5, <1>7, <1>8, <2>1, <2>2, GreetedSends DEF GreetedOK
<1>12. CASE \/ \E stream \in Streams, pattern \in Patterns : XSub(c, stream, pattern)
            \/ \E stream \in Streams : XUnsub(c, stream)
            \/ \E id \in SubIds, kind \in Kinds : Sub(c, id, kind)
            \/ \E id \in SubIds : Unsub(c, id)
  <2>1. initialized[c] /\ UNCHANGED <<initialized, posted>> /\ Receive(c, TRUE)
    BY <1>12 DEF XSub, XUnsub, Sub, Unsub, Ready
  <2>2. open'[c] = open[c]
    BY <2>1 DEF Receive, Typed, ClientsTyped
  <2>3. Sent(c)' = Sent(c)
    BY <1>1, <2>1 DEF Sent
  <2> QED BY <1>1, <1>5, <1>7, <1>8, <2>1, <2>2, <2>3, GreetedQuiet DEF GreetedOK
<1> QED BY <1>9, <1>10, <1>11, <1>12 DEF Command

(* Steps of the io thread that send nothing.                                *)
LEMMA GreetedIo ==
    ASSUME GreetedOK, Typed, IInv, NEW c \in Clients,
           \/ Accept(c) \/ Upgrade(c) \/ Disconnect(c)
           \/ RunPosted(c) \/ WriteDone(c) \/ WriteFails(c)
    PROVE  GreetedOK'
<1> USE DEF stateVars
<1>1. Quiet
  BY QuietSteps DEF Accept, Upgrade, Disconnect, sendVars
<1>2. UNCHANGED <<initialized, subs, xsubs, concrete, okDue, mpc, cur, subsLeft, xsubsLeft>>
  BY DEF Accept, Upgrade, Disconnect, RunPosted, WriteDone, WriteFails, monVars
<1>3. ServedOK'
  BY <1>2 DEF GreetedOK, ServedOK
<1>4. \A d \in Clients : /\ open'[d] => open[d] \/ session[d] = "none"
                         /\ session'[d] = "none" => session[d] = "none"
  BY DEF Accept, Upgrade, Disconnect, RunPosted, WriteDone, WriteFails, connVars,
         Typed, ClientsTyped
<1>5. \A d \in Clients : Greeted(d)'
  BY <1>1, <1>2, <1>4, GreetedQuiet DEF GreetedOK, Quiet
<1> QED BY <1>3, <1>5 DEF GreetedOK

LEMMA GreetedReply ==
    ASSUME GreetedOK, Typed, IInv, Reply
    PROVE  GreetedOK'
<1> USE DEF stateVars
<1>0. PICK d \in Clients : d = okDue
  BY DEF Typed, ClientsTyped, Reply
<1>1. /\ okDue' = NoClient /\ initialized[d]
      /\ UNCHANGED <<queue, wire, open, session, initialized, subs, xsubs, concrete,
                     mpc, cur, subsLeft, xsubsLeft>>
  BY <1>0 DEF GreetedOK, ServedOK, Typed, ClientsTyped, Reply, connVars, monVars
<1>2. ServedOK'
  BY <1>1 DEF GreetedOK, ServedOK
<1>3. session[d] # "none"
  BY <1>1 DEF GreetedOK, Greeted
<1>4. Quiet \/ Sends(d, Ok)
  BY <1>0, <1>1, LineSent, QuietSteps DEF Reply
<1>5. CASE Quiet
  BY <1>1, <1>2, <1>5, GreetedQuiet DEF GreetedOK, Quiet
<1>6. CASE Sends(d, Ok)
  <2>1. \A e \in Clients \ {d} : Greeted(e)'
    BY <1>1, <1>6, GreetedQuiet DEF GreetedOK, Sends
  <2>2. Greeted(d)'
    BY <1>1, <1>3, <1>6, GreetedSends DEF GreetedOK
  <2> QED BY <1>2, <2>1, <2>2 DEF GreetedOK
<1> QED BY <1>4, <1>5, <1>6

(* The monitor thread's sends go to the client whose copy it works from.    *)
LEMMA GreetedSending ==
    ASSUME GreetedOK, Typed, IInv,
           (\E id \in SubIds : SendToSub(id)) \/ SendXSubInfo \/ SendToXSub
    PROVE  GreetedOK'
<1> USE DEF stateVars
<1>1. /\ UNCHANGED <<queue, wire, open, session, initialized, subs, xsubs, concrete, okDue, cur>>
      /\ mpc \in {"subs", "info", "msg"} /\ mpc' \in {"subs", "msg"}
  BY DEF SendToSub, SendXSubInfo, SendToXSub, connVars
<1>2. PICK d \in Clients : d = cur
  BY <1>1 DEF Typed, MonitorTyped, DeliveryOK
<1>3. initialized[d]
  BY <1>2 DEF GreetedOK, ServedOK, SendToSub, SendXSubInfo, SendToXSub
<1>4. ServedOK'
  BY <1>1, <1>2, <1>3 DEF GreetedOK, ServedOK
<1>5. session[d] # "none"
  BY <1>3 DEF GreetedOK, Greeted
<1>6. \E line : SendLine(d, line)
  <2>1. CASE \E id \in SubIds : SendToSub(id)
    BY <1>2, <2>1 DEF SendToSub
  <2>2. CASE SendXSubInfo
    BY <1>2, <2>2 DEF SendXSubInfo
  <2>3. CASE SendToXSub
    BY <1>2, <2>3 DEF SendToXSub
  <2> QED BY <2>1, <2>2, <2>3
<1>7. PICK line : Sends(d, line)
  BY <1>1, <1>6, LineSent
<1>8. \A e \in Clients \ {d} : Greeted(e)'
  BY <1>1, <1>7, GreetedQuiet DEF GreetedOK, Sends
<1>9. Greeted(d)'
  BY <1>1, <1>3, <1>5, <1>7, GreetedSends DEF GreetedOK
<1> QED BY <1>4, <1>8, <1>9 DEF GreetedOK

(* Copying the subscriptions of a client that is not initialized finds none. *)
LEMMA GreetedMonitor ==
    ASSUME GreetedOK, Typed, IInv,
           \/ \E kind \in Kinds : TakeSample(kind)
           \/ \E c \in Clients : CopySubscriptions(c)
           \/ SubsDone \/ Ensure \/ RemoveClosed
    PROVE  GreetedOK'
<1> USE DEF stateVars
<1>1. /\ UNCHANGED <<posted, queue, wire, open, session, initialized, subs, xsubs, okDue>>
  BY DEF TakeSample, CopySubscriptions, SubsDone, Ensure, RemoveClosed, connVars, sendVars
<1>2. Quiet
  BY <1>1, QuietSteps
<1>3. CASE ~Ensure
  <2>1. UNCHANGED concrete
    BY <1>3 DEF TakeSample, CopySubscriptions, SubsDone, RemoveClosed
  <2>2. \A c \in Clients : Greeted(c)'
    BY <1>1, <1>2, <2>1, GreetedQuiet DEF GreetedOK, Quiet
  <2>3. ASSUME NEW c \in Clients, CopySubscriptions(c)
        PROVE  initialized[c] \/ (subsLeft' = {} /\ xsubsLeft' = <<>>)
    <3>1. sample.kind # NoKind
      BY <2>3, ServerAssumption DEF Typed, MonitorTyped, DeliveryOK, CopySubscriptions
    <3>2. CASE ~initialized[c]
      <4>1. subs[c] = NoSubs /\ xsubs[c] = <<>>
        BY <3>2 DEF GreetedOK, Greeted
      <4>2. subsLeft' = {}
        BY <2>3, <3>1, <4>1 DEF CopySubscriptions, NoSubs
      <4>3. xsubsLeft' = <<>>
        BY <2>3, <4>1, WithinEmpty DEF CopySubscriptions
      <4> QED BY <4>2, <4>3
    <3> QED BY <3>2
  <2>4. ServedOK'
    <3>1. CASE \E c \in Clients : CopySubscriptions(c)
      <4>1. PICK c \in Clients : CopySubscriptions(c)
        BY <3>1
      <4>2. cur' = c /\ mpc' = "subs"
        BY <4>1 DEF CopySubscriptions
      <4> QED BY <1>1, <2>3, <4>1, <4>2 DEF GreetedOK, ServedOK
    <3>2. CASE SubsDone
      BY <1>1, <3>2 DEF GreetedOK, ServedOK, SubsDone
    <3>3. CASE (\E kind \in Kinds : TakeSample(kind)) \/ RemoveClosed
      BY <1>1, <3>3 DEF GreetedOK, ServedOK, TakeSample, RemoveClosed
    <3> QED BY <1>3, <3>1, <3>2, <3>3
  <2> QED BY <2>2, <2>4 DEF GreetedOK
<1>4. CASE Ensure
  <2>1. cur \in Clients /\ initialized[cur] /\ cur' = cur
    BY <1>4 DEF Typed, MonitorTyped, DeliveryOK, GreetedOK, ServedOK, Ensure
  <2>2. \A c \in Clients \ {cur} : concrete'[c] = concrete[c]
    BY <1>4, <2>1 DEF Typed, IdsTyped, Ensure
  <2>3. \A c \in Clients : Greeted(c)'
    BY <1>1, <1>2, <2>1, <2>2, GreetedQuiet DEF GreetedOK, Quiet
  <2>4. ServedOK'
    BY <1>1, <1>4, <2>1 DEF GreetedOK, ServedOK, Ensure
  <2> QED BY <2>3, <2>4 DEF GreetedOK
<1> QED BY <1>3, <1>4

LEMMA GreetedStep == GreetedOK /\ Typed /\ IInv /\ [Next]_vars => GreetedOK'
<1> SUFFICES ASSUME GreetedOK, Typed, IInv, [Next]_vars PROVE GreetedOK'
  OBVIOUS
<1>1. CASE UNCHANGED vars
  <2>1. UNCHANGED <<connVars, stateVars, okDue, sendVars, monVars>>
    BY <1>1 DEF vars
  <2>2. Quiet
    BY <2>1, QuietSteps DEF sendVars
  <2> QED BY <2>1, <2>2 DEF GreetedOK, Greeted, ServedOK, Quiet, connVars, stateVars, monVars
<1>2. CASE Next
  BY <1>2, GreetedIo, GreetedCommand, GreetedReply, GreetedSending, GreetedMonitor
     DEF Next, Deliver
<1> QED BY <1>1, <1>2

LEMMA InitGreeted == Init => GreetedOK
<1> SUFFICES ASSUME Init PROVE GreetedOK
  OBVIOUS
<1>1. \A c \in Clients : Greeted(c)
  BY InitSilent DEF Init, Greeted
<1>2. ServedOK
  BY DEF Init, ServedOK
<1> QED BY <1>1, <1>2 DEF GreetedOK

LEMMA GreetedInvariance == Spec => [](GreetedOK /\ Typed /\ IInv)
BY TypedInvariance, InitGreeted, GreetedStep, PTL DEF Spec

(* A client that is sent anything but an error was sent INFO first, on      *)
(* whichever thread the other line came: no subscription is made before     *)
(* INIT, so the monitor thread has nothing for it                           *)
(* (ClientSession.cpp, handleLine and handleInit; lacal/README.md:99-102).  *)
THEOREM InfoComesFirst == Spec => []InfoFirst
<1>1. GreetedOK => InfoFirst
  BY DEF GreetedOK, Greeted, InfoFirst
<1> QED BY <1>1, GreetedInvariance, PTL

(***************************************************************************)
(* Ids.                                                                    *)
(***************************************************************************)

AnnouncedIn(lines, id, kind) ==
    \E i \in DOMAIN lines :
        lines[i].op = "XSUBINFO" /\ lines[i].id = id /\ lines[i].kind = kind

(* A sample comes under an id of the client's own, or under one announced   *)
(* earlier for the sample's kind.                                           *)
MappedIn(lines) ==
    \A j \in DOMAIN lines : lines[j].op = "MSG" =>
        \/ lines[j].id \in SubIds
        \/ \E i \in 1 .. j - 1 : /\ lines[i].op = "XSUBINFO"
                                 /\ lines[i].id = lines[j].id
                                 /\ lines[i].kind = lines[j].kind

KindOf(k) == <<k.topic, k.name>>

(* The id of a concrete subscription has been announced for the key's kind, *)
(* or is the one that the monitor thread is about to announce.              *)
Held(c) ==
    open[c] => \A k \in Keys : concrete[c][k] # 0 =>
        \/ AnnouncedIn(Sent(c), concrete[c][k], KindOf(k))
        \/ mpc = "info" /\ cur = c /\ found.id = concrete[c][k] /\ sample.kind = KindOf(k)

MapOK ==
    /\ \A c \in Clients : MappedIn(Sent(c)) /\ Held(c)
    /\ mpc = "msg" /\ open[cur] => AnnouncedIn(Sent(cur), found.id, sample.kind)

(* An announcement stays.                                                   *)
LEMMA AnnouncedStays ==
    ASSUME Typed, NEW c \in Clients, Sent(c)' = Sent(c) \/ (\E line : Extended(c, line))
    PROVE  \A id, kind : AnnouncedIn(Sent(c), id, kind) => AnnouncedIn(Sent(c)', id, kind)
<1>1. CASE Sent(c)' = Sent(c)
  BY <1>1
<1>2. CASE \E line : Extended(c, line)
  <2>1. /\ Len(Sent(c)) \in Nat /\ DOMAIN Sent(c) = 1 .. Len(Sent(c))
        /\ DOMAIN Sent(c)' = 1 .. Len(Sent(c)) + 1
        /\ \A i \in DOMAIN Sent(c) : Sent(c)'[i] = Sent(c)[i]
    BY <1>2, SentLines DEF Typed, Extended
  <2>2. \A i \in DOMAIN Sent(c) : i \in DOMAIN Sent(c)' /\ Sent(c)'[i] = Sent(c)[i]
    BY <2>1
  <2> QED BY <2>2 DEF AnnouncedIn
<1> QED BY <1>1, <1>2

LEMMA MappedExtended ==
    ASSUME Typed, NEW c \in Clients, MappedIn(Sent(c)), NEW line, Extended(c, line),
           line.op = "MSG" => line.id \in SubIds \/ AnnouncedIn(Sent(c), line.id, line.kind)
    PROVE  MappedIn(Sent(c)')
<1> DEFINE s == Sent(c)
           t == Sent(c)'
<1>1. /\ Len(s) \in Nat /\ DOMAIN s = 1 .. Len(s)
      /\ DOMAIN t = 1 .. Len(s) + 1
      /\ \A i \in DOMAIN s : t[i] = s[i]
      /\ t[Len(s) + 1] = line
  BY SentLines DEF Typed, Extended
<1> HIDE DEF s, t
<1>2. SUFFICES ASSUME NEW j \in DOMAIN t, t[j].op = "MSG"
               PROVE  \/ t[j].id \in SubIds
                      \/ \E i \in 1 .. j - 1 : /\ t[i].op = "XSUBINFO"
                                               /\ t[i].id = t[j].id
                                               /\ t[i].kind = t[j].kind
  BY DEF MappedIn, t
<1>3. \A i \in 1 .. j - 1 : i \in DOMAIN s /\ t[i] = s[i]
  BY <1>1
<1>4. CASE j \in DOMAIN s
  <2>1. \/ s[j].id \in SubIds
        \/ \E i \in 1 .. j - 1 : /\ s[i].op = "XSUBINFO"
                                 /\ s[i].id = s[j].id
                                 /\ s[i].kind = s[j].kind
    BY <1>1, <1>2, <1>4 DEF MappedIn, s
  <2> QED BY <1>1, <1>3, <1>4, <2>1
<1>5. CASE j = Len(s) + 1
  <2>1. line.id \in SubIds \/ AnnouncedIn(s, line.id, line.kind)
    BY <1>1, <1>2, <1>5 DEF s
  <2>2. DOMAIN s = 1 .. j - 1
    BY <1>1, <1>5
  <2> QED BY <1>1, <1>5, <2>1, <2>2 DEF AnnouncedIn
<1> QED BY <1>1, <1>4, <1>5

(* Steps that leave the delivery where it is, and send no sample under a    *)
(* generated id.                                                            *)
LEMMA MapOther ==
    ASSUME MapOK, Typed, UNCHANGED <<mpc, cur, found, sample>>,
           \A c \in Clients : open'[c] => open[c] \/ concrete[c] = NoConcrete,
           \A c \in Clients, k \in Keys : concrete'[c][k] \in {0, concrete[c][k]},
           \/ Quiet
           \/ \E d \in Clients : \E line : /\ Sends(d, line)
                                           /\ line.op = "MSG" => line.id \in SubIds,
           mpc = "msg" /\ open'[cur] => open[cur]
    PROVE  MapOK'
<1>1. \A c \in Clients : \A id, kind :
         AnnouncedIn(Sent(c), id, kind) => AnnouncedIn(Sent(c)', id, kind)
  BY AnnouncedStays DEF Quiet, Sends
<1>2. \A c \in Clients : MappedIn(Sent(c)')
  BY MappedExtended DEF MapOK, Quiet, Sends
<1>3. ASSUME NEW c \in Clients, open'[c], NEW k \in Keys, concrete'[c][k] # 0
      PROVE  \/ AnnouncedIn(Sent(c)', concrete'[c][k], KindOf(k))
             \/ /\ mpc' = "info" /\ cur' = c
                /\ found'.id = concrete'[c][k] /\ sample'.kind = KindOf(k)
  <2>1. concrete'[c][k] = concrete[c][k] /\ concrete[c][k] # 0
    BY <1>3
  <2>2. open[c]
    BY <1>3, <2>1 DEF NoConcrete
  <2> QED BY <1>1, <2>1, <2>2 DEF MapOK, Held
<1>4. \A c \in Clients : Held(c)'
  BY <1>3 DEF Held
<1>5. mpc' = "msg" /\ open'[cur'] => AnnouncedIn(Sent(cur)', found'.id, sample'.kind)
  <2>1. mpc = "msg" => cur \in Clients
    BY DEF Typed, MonitorTyped, DeliveryOK
  <2>2. PICK d : d = cur
    OBVIOUS
  <2>3. Sent(cur)' = Sent(d)'
    BY <2>2
  <2> QED BY <1>1, <2>1, <2>2, <2>3 DEF MapOK
<1> QED BY <1>2, <1>4, <1>5 DEF MapOK

LEMMA MapIo ==
    ASSUME MapOK, GreetedOK, Typed, IInv, NEW c \in Clients,
           \/ Accept(c) \/ Upgrade(c) \/ Disconnect(c) \/ Command(c)
           \/ RunPosted(c) \/ WriteDone(c) \/ WriteFails(c)
    PROVE  MapOK'
<1>1. UNCHANGED <<mpc, cur, found, sample>>
  BY CommandLines DEF Accept, Upgrade, Disconnect, RunPosted, WriteDone, WriteFails, monVars
<1>2. \A d \in Clients : open'[d] => open[d] \/ session[d] = "none"
  <2>1. Command(c) => \E stillOpen \in BOOLEAN : Receive(c, stillOpen)
    BY DEF Command, InitAccepted, EndSession, Refuse, XSub, XUnsub, Sub, Unsub
  <2>2. CASE Command(c)
    BY <2>1, <2>2 DEF Receive, Typed, ClientsTyped
  <2>3. CASE ~Command(c)
    BY <2>3 DEF Accept, Upgrade, Disconnect, RunPosted, WriteDone, WriteFails, connVars,
                Typed, ClientsTyped
  <2> QED BY <2>2, <2>3
<1>3. \A d \in Clients : session[d] = "none" => ~initialized[d] /\ concrete[d] = NoConcrete
  BY DEF GreetedOK, Greeted
<1>4. \A d \in Clients, k \in Keys : concrete'[d][k] \in {0, concrete[d][k]}
  <2>1. CASE \E stream \in Streams : XUnsub(c, stream)
    BY <2>1 DEF XUnsub, Typed, IdsTyped
  <2>2. CASE ~\E stream \in Streams : XUnsub(c, stream)
    <3>1. UNCHANGED concrete
      BY <2>2 DEF Accept, Upgrade, Disconnect, RunPosted, WriteDone, WriteFails, Command,
                  InitAccepted, EndSession, Refuse, XSub, Sub, Unsub, stateVars
    <3> QED BY <3>1
  <2> QED BY <2>1, <2>2
<1>5. \/ Quiet
      \/ \E d \in Clients : \E line : /\ Sends(d, line)
                                      /\ line.op = "MSG" => line.id \in SubIds
  <2>1. Err.op # "MSG" /\ Info.op # "MSG"
    BY DEF Err, Info
  <2>2. CASE Command(c)
    BY <2>1, <2>2, CommandLines
  <2>3. CASE ~Command(c)
    BY <2>3, QuietSteps DEF Accept, Upgrade, Disconnect, sendVars
  <2> QED BY <2>2, <2>3
<1>6. mpc = "msg" /\ open'[cur] => open[cur]
  <2>1. mpc = "msg" => cur \in Clients /\ initialized[cur]
    BY DEF Typed, MonitorTyped, DeliveryOK, GreetedOK, ServedOK
  <2> QED BY <1>2, <1>3, <2>1
<1> QED BY <1>1, <1>2, <1>3, <1>4, <1>5, <1>6, MapOther

LEMMA MapReply ==
    ASSUME MapOK, Typed, IInv, Reply \/ (\E id \in SubIds : SendToSub(id))
    PROVE  MapOK'
<1>1. UNCHANGED <<mpc, cur, found, sample, open, concrete, queue, wire>>
  BY DEF Reply, SendToSub, connVars, stateVars, monVars
<1>2. ASSUME NEW d \in Clients, NEW line, SendLine(d, line),
             line.op = "MSG" => line.id \in SubIds
      PROVE  MapOK'
  BY <1>1, <1>2, LineSent, MapOther
<1>3. CASE \E id \in SubIds : SendToSub(id)
  <2>1. cur \in Clients
    BY <1>3 DEF Typed, MonitorTyped, DeliveryOK, SendToSub
  <2> QED BY <1>2, <1>3, <2>1 DEF SendToSub, Msg
<1>4. CASE Reply
  <2>1. okDue \in Clients /\ Ok.op # "MSG"
    BY <1>4 DEF Typed, ClientsTyped, Reply, Ok
  <2>2. CASE SendLine(okDue, Ok)
    BY <1>2, <2>1, <2>2
  <2>3. CASE posted' = posted
    BY <1>1, <2>3, QuietSteps, MapOther
  <2> QED BY <1>4, <2>2, <2>3 DEF Reply
<1> QED BY <1>3, <1>4

(* The announcement that was due is made.                                   *)
LEMMA MapInfo ==
    ASSUME MapOK, Typed, SendXSubInfo
    PROVE  MapOK'
<1> DEFINE line == XSubInfo(Head(xsubsLeft).stream, found.id, sample.kind)
<1>1. /\ SendLine(cur, line) /\ mpc = "info" /\ mpc' = "msg"
      /\ UNCHANGED <<open, concrete, queue, wire, cur, found, sample>>
  BY DEF SendXSubInfo, connVars, stateVars
<1>2. PICK d \in Clients : d = cur
  BY <1>1 DEF Typed, MonitorTyped, DeliveryOK
<1>3. line.op = "XSUBINFO" /\ line.id = found.id /\ line.kind = sample.kind
  BY DEF XSubInfo
<1> HIDE DEF line
<1>4. Sends(d, line)
  BY <1>1, <1>2, LineSent
<1>5. \A c \in Clients : \A id, kind :
         AnnouncedIn(Sent(c), id, kind) => AnnouncedIn(Sent(c)', id, kind)
  BY <1>4, AnnouncedStays DEF Sends
<1>6. \A c \in Clients : MappedIn(Sent(c)')
  BY <1>3, <1>4, MappedExtended DEF MapOK, Sends
<1>7. open[d] => AnnouncedIn(Sent(d)', found.id, sample.kind)
  <2>1. open[d] => /\ Len(Sent(d)) + 1 \in DOMAIN Sent(d)'
                   /\ Sent(d)'[Len(Sent(d)) + 1] = line
    BY <1>4, SentLines DEF Sends, Extended, Typed
  <2> QED BY <1>3, <2>1 DEF AnnouncedIn
<1>8. ASSUME NEW c \in Clients, open'[c], NEW k \in Keys, concrete'[c][k] # 0
      PROVE  AnnouncedIn(Sent(c)', concrete'[c][k], KindOf(k))
  <2>1. open[c] /\ concrete'[c][k] = concrete[c][k] /\ concrete[c][k] # 0
    BY <1>1, <1>8
  <2>2. \/ AnnouncedIn(Sent(c), concrete[c][k], KindOf(k))
        \/ c = d /\ found.id = concrete[c][k] /\ sample.kind = KindOf(k)
    BY <1>2, <2>1 DEF MapOK, Held
  <2> QED BY <1>5, <1>7, <2>1, <2>2
<1>9. \A c \in Clients : Held(c)'
  BY <1>8 DEF Held
<1>10. open'[cur'] => AnnouncedIn(Sent(cur)', found'.id, sample'.kind)
  <2>1. Sent(cur)' = Sent(d)'
    BY <1>1, <1>2
  <2> QED BY <1>1, <1>2, <1>7, <2>1
<1> QED BY <1>6, <1>9, <1>10 DEF MapOK

(* The sample comes under an id that has been announced for its kind.       *)
LEMMA MapMsg ==
    ASSUME MapOK, Typed, SendToXSub
    PROVE  MapOK'
<1> DEFINE line == Msg(found.id, sample)
<1>1. /\ SendLine(cur, line) /\ mpc = "msg" /\ mpc' = "subs"
      /\ UNCHANGED <<open, concrete, queue, wire, cur, found, sample>>
  BY DEF SendToXSub, connVars, stateVars
<1>2. PICK d \in Clients : d = cur
  BY <1>1 DEF Typed, MonitorTyped, DeliveryOK
<1>3. line.id = found.id /\ line.kind = sample.kind
  BY DEF Msg
<1> HIDE DEF line
<1>4. Sends(d, line)
  BY <1>1, <1>2, LineSent
<1>5. \A c \in Clients : \A id, kind :
         AnnouncedIn(Sent(c), id, kind) => AnnouncedIn(Sent(c)', id, kind)
  BY <1>4, AnnouncedStays DEF Sends
<1>6. open[d] => AnnouncedIn(Sent(d), line.id, line.kind)
  BY <1>1, <1>2, <1>3 DEF MapOK
<1>7. \A c \in Clients : MappedIn(Sent(c)')
  BY <1>4, <1>6, MappedExtended DEF MapOK, Sends
<1>8. ASSUME NEW c \in Clients, open'[c], NEW k \in Keys, concrete'[c][k] # 0
      PROVE  AnnouncedIn(Sent(c)', concrete'[c][k], KindOf(k))
  <2>1. open[c] /\ concrete'[c][k] = concrete[c][k] /\ concrete[c][k] # 0
    BY <1>1, <1>8
  <2>2. AnnouncedIn(Sent(c), concrete[c][k], KindOf(k))
    BY <1>1, <2>1 DEF MapOK, Held
  <2> QED BY <1>5, <2>1, <2>2
<1>9. \A c \in Clients : Held(c)'
  BY <1>8 DEF Held
<1> QED BY <1>1, <1>7, <1>9 DEF MapOK

(* The other steps of the monitor thread: an id that is found was announced *)
(* for the sample's kind, and one that is new is announced next.            *)
LEMMA MapMonitor ==
    ASSUME MapOK, Typed, IInv,
           \/ \E kind \in Kinds : TakeSample(kind)
           \/ \E c \in Clients : CopySubscriptions(c)
           \/ SubsDone \/ Ensure \/ RemoveClosed
    PROVE  MapOK'
<1>1. UNCHANGED <<posted, queue, wire, open>>
  BY DEF TakeSample, CopySubscriptions, SubsDone, Ensure, RemoveClosed, connVars, sendVars
<1>2. \A c \in Clients : Sent(c)' = Sent(c)
  BY <1>1, QuietSteps DEF Quiet
<1>3. \A c \in Clients : MappedIn(Sent(c)')
  BY <1>2 DEF MapOK
<1>4. CASE ~Ensure
  <2>1. UNCHANGED concrete /\ mpc \notin {"info", "msg"} /\ mpc' \notin {"info", "msg"}
    BY <1>4 DEF TakeSample, CopySubscriptions, SubsDone, RemoveClosed, stateVars
  <2>2. ASSUME NEW c \in Clients, open'[c], NEW k \in Keys, concrete'[c][k] # 0
        PROVE  AnnouncedIn(Sent(c)', concrete'[c][k], KindOf(k))
    <3>1. open[c] /\ concrete'[c][k] = concrete[c][k] /\ concrete[c][k] # 0
      BY <1>1, <2>1, <2>2
    <3>2. AnnouncedIn(Sent(c), concrete[c][k], KindOf(k))
      BY <2>1, <3>1 DEF MapOK, Held
    <3> QED BY <1>2, <3>1, <3>2
  <2>3. \A c \in Clients : Held(c)'
    BY <2>2 DEF Held
  <2> QED BY <1>3, <2>1, <2>3 DEF MapOK
<1>5. CASE Ensure
  <2> DEFINE k0 == Key(Head(xsubsLeft).stream)
  <2>1. /\ mpc = "ensure" /\ xsubsLeft # <<>> /\ sample.kind \in Kinds
        /\ UNCHANGED <<cur, sample>>
    BY <1>5 DEF Typed, MonitorTyped, DeliveryOK, Ensure
  <2>2. PICK d \in Clients : d = cur
    BY <2>1 DEF Typed, MonitorTyped, DeliveryOK
  <2>3. k0 \in Keys /\ KindOf(k0) = sample.kind
    <3>1. Head(xsubsLeft) \in XSubs
      BY <2>1, HeadTailProperties DEF Typed, MonitorTyped
    <3> QED BY <2>1, <3>1 DEF XSubs, Kinds, Keys, Key, KindOf
  <2> HIDE DEF k0
  <2>4. \A c \in Clients, k \in Keys : open[c] /\ concrete[c][k] # 0 =>
           AnnouncedIn(Sent(c), concrete[c][k], KindOf(k))
    BY <2>1 DEF MapOK, Held
  <2>5. CASE concrete[cur][k0] # 0
    <3>1. /\ found'.id = concrete[d][k0] /\ concrete[d][k0] # 0
          /\ mpc' = "msg" /\ UNCHANGED concrete
      BY <1>5, <2>2, <2>5 DEF Ensure, k0
    <3>2. \A c \in Clients : Held(c)'
      BY <1>1, <1>2, <2>4, <3>1 DEF Held
    <3>3. open[d] => AnnouncedIn(Sent(d), found'.id, sample.kind)
      BY <2>3, <2>4, <3>1
    <3>4. Sent(cur)' = Sent(d)
      BY <1>2, <2>1, <2>2
    <3>5. open'[cur'] => AnnouncedIn(Sent(cur)', found'.id, sample'.kind)
      BY <1>1, <2>1, <2>2, <3>3, <3>4
    <3> QED BY <1>3, <3>2, <3>5 DEF MapOK
  <2>6. CASE concrete[cur][k0] = 0
    <3>1. /\ found'.id = FreshId /\ mpc' = "info"
          /\ concrete' = [concrete EXCEPT ![cur][k0] = FreshId]
      BY <1>5, <2>6 DEF Ensure, k0
    <3>2. /\ concrete'[d][k0] = FreshId
          /\ \A c \in Clients, k \in Keys :
               ~(c = d /\ k = k0) => concrete'[c][k] = concrete[c][k]
      BY <2>2, <2>3, <3>1 DEF Typed, IdsTyped
    <3>3. ASSUME NEW c \in Clients, open'[c], NEW k \in Keys, concrete'[c][k] # 0
          PROVE  \/ AnnouncedIn(Sent(c)', concrete'[c][k], KindOf(k))
                 \/ /\ mpc' = "info" /\ cur' = c
                    /\ found'.id = concrete'[c][k] /\ sample'.kind = KindOf(k)
      <4>1. CASE c = d /\ k = k0
        BY <2>1, <2>2, <2>3, <3>1, <3>2, <4>1
      <4>2. CASE ~(c = d /\ k = k0)
        BY <1>1, <1>2, <2>4, <3>2, <3>3, <4>2
      <4> QED BY <4>1, <4>2
    <3>4. \A c \in Clients : Held(c)'
      BY <3>3 DEF Held
    <3> QED BY <1>3, <3>1, <3>4 DEF MapOK
  <2> QED BY <2>5, <2>6
<1> QED BY <1>4, <1>5

LEMMA MapStep == MapOK /\ GreetedOK /\ Typed /\ IInv /\ [Next]_vars => MapOK'
<1> SUFFICES ASSUME MapOK, GreetedOK, Typed, IInv, [Next]_vars PROVE MapOK'
  OBVIOUS
<1>1. CASE UNCHANGED vars
  <2>1. UNCHANGED <<mpc, cur, found, sample, open, concrete, posted, queue, wire>>
    BY <1>1 DEF vars, connVars, stateVars, sendVars, monVars
  <2>2. Quiet
    BY <2>1, QuietSteps
  <2> QED BY <2>1, <2>2, MapOther
<1>2. CASE Next
  BY <1>2, MapIo, MapReply, MapInfo, MapMsg, MapMonitor DEF Next, Deliver
<1> QED BY <1>1, <1>2

LEMMA InitMap == Init => MapOK
<1> SUFFICES ASSUME Init PROVE MapOK
  OBVIOUS
<1>1. \A c \in Clients : MappedIn(Sent(c))
  BY InitSilent DEF MappedIn
<1>2. (\A c \in Clients : Held(c)) /\ mpc # "msg"
  BY DEF Init, Held
<1> QED BY <1>1, <1>2 DEF MapOK

(* A generated id is announced once, so the only announcement of a sample's *)
(* id is the one for its kind, when ids of the client's own are others.     *)
LEMMA MapsBack ==
    ASSUME SubIds \cap Nat = {}
    PROVE  MapOK /\ Typed /\ IInv => IdMapsBack
<1> SUFFICES ASSUME MapOK, Typed, IInv,
                    NEW c \in Clients, NEW j \in DOMAIN Sent(c), Sent(c)[j].op = "MSG"
             PROVE  LET told == {i \in 1 .. j - 1 : /\ Sent(c)[i].op = "XSUBINFO"
                                                    /\ Sent(c)[i].id = Sent(c)[j].id} IN
                    /\ Sent(c)[j].id \in SubIds \/ told # {}
                    /\ \A i \in told : Sent(c)[i].kind = Sent(c)[j].kind
  BY DEF IdMapsBack
<1> DEFINE told == {i \in 1 .. j - 1 : /\ Sent(c)[i].op = "XSUBINFO"
                                       /\ Sent(c)[i].id = Sent(c)[j].id}
<1>1. \/ Sent(c)[j].id \in SubIds
      \/ \E i \in told : Sent(c)[i].kind = Sent(c)[j].kind
  BY DEF MapOK, MappedIn
<1>2. \A i \in 1 .. j - 1 : i \in DOMAIN Sent(c)
  BY SentLines DEF Typed
<1>3. \A i \in told : Sent(c)[j].id \notin SubIds
  <2>1. \A line \in Lines : line.op = "XSUBINFO" => line.id \in Nat
    BY DEF Lines, GeneratedIds
  <2> QED BY <1>2, <2>1, SentLines DEF Typed
<1>4. \A i, l \in told : i = l
  BY <1>2 DEF IInv, IdsNeverReused
<1> QED BY <1>1, <1>3, <1>4

(* A client can map every id back to the topic and message name it stands   *)
(* for: an id it did not choose has been announced by an XSUBINFO before    *)
(* its first MSG, for the kind of every sample that comes under it, through *)
(* any XUNSUB and XSUB in between (TopicMonitor.cpp, deliver;               *)
(* lacal/README.md:175-178).  The hypothesis is one on clients: handleSub   *)
(* does not refuse an id of the form "xsub.<n>", and a client that chooses  *)
(* one gets two subscriptions of that name.                                 *)
THEOREM IdsMapBack ==
    ASSUME SubIds \cap Nat = {}
    PROVE  Spec => []IdMapsBack
<1>1. Spec => []MapOK
  BY GreetedInvariance, InitMap, MapStep, PTL DEF Spec
<1>2. MapOK /\ Typed /\ IInv => IdMapsBack
  BY MapsBack
<1> QED BY <1>1, <1>2, TypedInvariance, PTL
=============================================================================
