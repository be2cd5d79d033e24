------------------------------ MODULE UipGlue ------------------------------
(* The TCP client of ppos: uip.c driven by uip_glue.c.  A connection of uip   *)
(* is a slot of uip_conns; the glue keeps one receive ring, one buffer of     *)
(* bytes to send and one set of flags for all of them.  Sequence numbers are  *)
(* counted from each side's SYN, which has number 0.                          *)
(*                                                                            *)
(* uip_glue_poll handles one frame, then, once a second, visits every slot.   *)
(* The visits are steps of their own (`at` counts the slots the loop has left *)
(* behind); nothing else of the client happens between them.                  *)
EXTENDS RxRing, Arp

CONSTANTS UIP_CONNS,      \* 4
          UIP_RTO,        \* 3
          UIP_MAXRTX,     \* 8
          UIP_MAXSYNRTX,  \* 5
          UIP_TCP_MSS,    \* 1460
          PENDING_CAP,    \* sizeof(tcp_pending), 2048
          Rtos,           \* what the measurement of the round trip may give
          Gateway,        \* the next hop of every connection
          OpenMax,        \* bound: connections opened
          NetCap          \* bound: frames under way

ASSUME GlueAssumption ==
    /\ UIP_CONNS \in Nat \ {0} /\ UIP_RTO \in Nat /\ UIP_TCP_MSS \in Nat \ {0}
    /\ UIP_MAXRTX \in Nat /\ UIP_MAXSYNRTX \in Nat /\ PENDING_CAP \in Nat
    /\ Rtos \subseteq Nat /\ Rtos # {} /\ Gateway # NoHost
    /\ OpenMax \in Nat /\ NetCap \in Nat

VARIABLES conns,    \* slot -> uip_conn
          glue,     \* conn_established, conn_closed, glue_last_error
          pending,  \* tcp_pending
          rx,       \* rxbuf with its head, tail and full flag
          arp,      \* arp_table and arptime
          at,       \* slots already visited by the loop of uip_glue_poll
          opened,   \* connections opened so far, the last being the command's own
          net,      \* segments on their way, both directions
          arps,     \* ARP frames on their way to ppos
          asked,    \* history: connection -> bytes given to uip_send
          fed,      \* history: connection -> bytes put into the ring
          fedNow    \* history: bytes put into the ring since it was reset

clientVars == <<conns, glue, pending, rx, arp, at, opened, net, arps, asked, fed, fedNow>>
histories == <<asked, fed, fedNow>>

Slots == 1..UIP_CONNS
Connections == 1..OpenMax   \* the local ports uip_connect gives, in their order
Closed == [st |-> "CLOSED", conn |-> 0, snd |-> 0, len |-> 0, rcv |-> 0,
           timer |-> 0, rto |-> 0, nrtx |-> 0]
Live(s) == conns[s].st # "CLOSED"
Outstanding(c) == c.len > 0
NoFlags == [established |-> FALSE, closed |-> FALSE, error |-> FALSE]

ClientInit ==
    /\ conns = [s \in Slots |-> Closed] /\ glue = NoFlags /\ pending = << >>
    /\ rx = Empty /\ arp = [tab |-> ArpInit, now |-> 0] /\ at = 0 /\ opened = 0
    /\ net = {} /\ arps = {}
    /\ asked = [k \in Connections |-> << >>] /\ fed = [k \in Connections |-> << >>]
    /\ fedNow = << >>

-----------------------------------------------------------------------------
(* Frames.  A segment's direction is "in" towards ppos.                       *)

Segment(dir, k, flags, seq, ack, data) ==
    [dir |-> dir, conn |-> k, flags |-> flags, seq |-> seq, ack |-> ack, data |-> data]

Out(c, flags, data) == Segment("out", c.conn, flags, c.snd, c.rcv, data)

WithinBound == Cardinality(net') + Cardinality(arps') <= NetCap

(* What uip leaves in uip_buf goes out, unless uip_arp_out does not know the  *)
(* next hop: then an ARP request takes its place, and the gateway answers it. *)
(* The frame handled (used) may be seen again, and whatever is sent, or comes *)
(* in answer, may be lost.                                                    *)
Transmit(used, out) ==
    LET known == ArpKnows(arp.tab, Gateway)
        sent == IF known THEN out ELSE {}
    IN  /\ \E seen \in {{}, used} :
              net' \in {(net \ used) \cup seen, (net \ used) \cup seen \cup sent}
        /\ IF known \/ out = {} THEN UNCHANGED arps
           ELSE arps' \in {arps, arps \cup {"gateway is here"}}
        /\ WithinBound

AppCall_Silent(k, flags, data) ==    \* mutant: an overflow is dropped without a word
    LET spilt == Len(data) > Free(rx)
    IN  /\ glue' = [established |-> glue.established \/ "CONNECTED" \in flags,
                    closed |-> glue.closed \/ flags \cap {"ABORT", "CLOSE", "TIMEDOUT"} # {},
                    error |-> glue.error]
        /\ IF spilt \/ data = << >> THEN UNCHANGED <<rx, fed, fedNow>>
           ELSE /\ rx' = Put(rx, data)
                /\ fed' = [fed EXCEPT ![k] = @ \o data]
                /\ fedNow' = fedNow \o data

(* uip_appcall for connection k, but for its last part (see TimerPoll).       *)
(* conn_timedout is left out: it is set only together with conn_closed, and   *)
(* tls.pp:234 reads it only as an alternative to it.                          *)
AppCall(k, flags, data) ==
    LET spilt == Len(data) > Free(rx)
    IN  /\ glue' = [established |-> glue.established \/ "CONNECTED" \in flags,
                    closed |-> glue.closed \/ spilt
                               \/ flags \cap {"ABORT", "CLOSE", "TIMEDOUT"} # {},
                    error |-> glue.error \/ spilt]
        /\ IF spilt \/ data = << >> THEN UNCHANGED <<rx, fed, fedNow>>
           ELSE /\ rx' = Put(rx, data)
                /\ fed' = [fed EXCEPT ![k] = @ \o data]
                /\ fedNow' = fedNow \o data

-----------------------------------------------------------------------------
(* uip_glue_connect.  Everything the glue keeps is reset first; a connection  *)
(* opened before and still live keeps its slot.                               *)

Opening(k) == [st |-> "SYN_SENT", conn |-> k, snd |-> 0, len |-> 1, rcv |-> 0,
               timer |-> 1, rto |-> UIP_RTO, nrtx |-> 0]

ResetGlue == /\ glue' = NoFlags /\ pending' = << >> /\ rx' = Reset(rx) /\ fedNow' = << >>

ClosedSlots == {s \in Slots : ~Live(s)}

Connect == /\ at = 0 /\ opened + 1 \in Connections /\ ClosedSlots # {}
           /\ ResetGlue
           /\ opened' = opened + 1
           /\ conns' = [conns EXCEPT ![LowestIn(ClosedSlots)] = Opening(opened + 1)]
           /\ UNCHANGED <<arp, at, net, arps, asked, fed>>

ConnectRefused == /\ at = 0 /\ ClosedSlots = {}
                  /\ ResetGlue
                  /\ UNCHANGED <<conns, arp, at, opened, net, arps, asked, fed>>

(* uip_glue_send appends all of the bytes; it takes none when they do not fit *)
(* (the caller's guard, Accepts).                                             *)
Accepts(data) == Len(pending) + Len(data) <= PENDING_CAP

GlueSend(data) == /\ Accepts(data)
                  /\ pending' = pending \o data
                  /\ UNCHANGED <<conns, glue, rx, arp, at, opened, net, arps>>
                  /\ UNCHANGED histories

(* uip_glue_recv of up to n bytes.                                            *)
GlueRecv(n) == /\ n \in 1..Held(rx)
               /\ rx' = Take(rx, n)
               /\ UNCHANGED <<conns, glue, pending, arp, at, opened, net, arps>>
               /\ UNCHANGED histories
-----------------------------------------------------------------------------
(* The second of uip_glue_poll's loop: uip_process(UIP_TIMER) for the slot it *)
(* has come to.  After the last one, uip_arp_timer when ten seconds are over. *)

Slot == at + 1

LeaveSlot_NoWrap ==    \* mutant: the loop does not stop at UIP_CONNS
    /\ at' = at + 1
    /\ arp' = arp
    /\ UNCHANGED opened

LeaveSlot ==
    /\ at' = (at + 1) % UIP_CONNS
    /\ LET now == ArpTick(arp.now)
           aged == [tab |-> ArpAge(arp.tab, now), now |-> now]
       IN  arp' \in (IF Slot = UIP_CONNS THEN {arp, aged} ELSE {arp})
    /\ UNCHANGED opened

Visit(c) == LeaveSlot /\ conns' = [conns EXCEPT ![Slot] = c]

(* uip_conn_active.                                                           *)
TimerSkip == /\ ~Live(Slot) /\ LeaveSlot
             /\ UNCHANGED <<conns, glue, pending, rx, net, arps>> /\ UNCHANGED histories

TimerWait ==
    /\ Live(Slot) /\ Outstanding(conns[Slot]) /\ conns[Slot].timer # 0
    /\ Visit([conns[Slot] EXCEPT !.timer = @ - 1])
    /\ UNCHANGED <<glue, pending, rx, net, arps>> /\ UNCHANGED histories

TimedOut(c) == /\ Live(Slot) /\ Outstanding(c) /\ c.timer = 0
GivesUp(c) == c.nrtx = UIP_MAXRTX \/ (c.st = "SYN_SENT" /\ c.nrtx = UIP_MAXSYNRTX)

TimerGiveUp ==
    /\ TimedOut(conns[Slot]) /\ GivesUp(conns[Slot])
    /\ Visit(Closed)
    /\ AppCall(conns[Slot].conn, {"TIMEDOUT"}, << >>)
    /\ Transmit({}, {Out(conns[Slot], {"RST", "ACK"}, << >>)})
    /\ UNCHANGED <<pending, asked>>

(* A SYN or a FIN is sent again.  Lost data is not: uip asks the application  *)
(* for it (UIP_REXMIT), and uip_appcall has no answer.                        *)
Again(c) == IF c.st = "SYN_SENT" THEN {Out(c, {"SYN"}, << >>)}
            ELSE IF c.st = "LAST_ACK" THEN {Out(c, {"FIN", "ACK"}, << >>)}
            ELSE {}

TimerResend_NoCount ==    \* mutant: retransmissions are not counted
    /\ TimedOut(conns[Slot]) /\ ~GivesUp(conns[Slot])
    /\ Visit([conns[Slot] EXCEPT !.timer = UIP_RTO])
    /\ Transmit({}, Again(conns[Slot]))
    /\ UNCHANGED <<glue, pending, rx>> /\ UNCHANGED histories

TimerResend ==
    /\ TimedOut(conns[Slot]) /\ ~GivesUp(conns[Slot])
    /\ LET c == conns[Slot]
           backoff == IF c.nrtx > 4 THEN 4 ELSE c.nrtx
       IN  /\ Visit([c EXCEPT !.timer = UIP_RTO * 2 ^ backoff, !.nrtx = @ + 1])
           /\ Transmit({}, Again(c))
    /\ UNCHANGED <<glue, pending, rx>> /\ UNCHANGED histories

(* UIP_POLL: uip_appcall's last part.  Up to an MSS of tcp_pending is sent,   *)
(* on whichever connection is polled first, and forgotten.                    *)
TimerPoll ==
    /\ conns[Slot].st = "ESTABLISHED" /\ ~Outstanding(conns[Slot])
    /\ LET c == conns[Slot]
           n == IF Len(pending) > UIP_TCP_MSS THEN UIP_TCP_MSS ELSE Len(pending)
           data == SubSeq(pending, 1, n)
       IN  /\ Visit([c EXCEPT !.len = n, !.nrtx = 0])
           /\ pending' = SubSeq(pending, n + 1, Len(pending))
           /\ asked' = [asked EXCEPT ![c.conn] = @ \o data]
           /\ Transmit({}, IF n > 0 THEN {Out(c, {"ACK"}, data)} ELSE {})
    /\ UNCHANGED <<glue, rx, fed, fedNow>>

Tick == TimerSkip \/ TimerWait \/ TimerGiveUp \/ TimerResend \/ TimerPoll

-----------------------------------------------------------------------------
(* The card reports an error: it has no frame for the glue but one too long,  *)
(* or too short to have a type; or it has not taken, in time, a frame that    *)
(* was to go out (for the network that frame is lost, see Transmit).          *)

CardFails == /\ glue' = [glue EXCEPT !.error = TRUE]
             /\ UNCHANGED <<conns, pending, rx, arp, at, opened, net, arps>>
             /\ UNCHANGED histories

-----------------------------------------------------------------------------
(* A frame of the card: uip_arp_arpin, or uip_input for slot s.               *)

HeardOf(frame) ==
    /\ at = 0 /\ frame \in arps
    /\ arp' = [arp EXCEPT !.tab = ArpUpdate(@, arp.now, Gateway)]
    /\ arps' = arps \ {frame}
    /\ UNCHANGED <<conns, glue, pending, rx, at, opened, net>> /\ UNCHANGED histories

RecvArpReply == HeardOf("gateway is here")
RecvArpRequest == HeardOf("who has ppos")    \* its answer concerns nobody here

SlotsOf(k) == {s \in Slots : Live(s) /\ conns[s].conn = k}

(* A segment for no connection is answered by a reset, a reset by nothing.    *)
RecvNoConn(f) ==
    /\ SlotsOf(f.conn) = {}
    /\ Transmit({f}, IF "RST" \in f.flags THEN {}
                     ELSE {Segment("out", f.conn, {"RST", "ACK"}, f.ack, f.seq + 1, << >>)})
    /\ UNCHANGED <<conns, glue, pending, rx, arp, at, opened>> /\ UNCHANGED histories

Becomes(s, c) == conns' = [conns EXCEPT ![s] = c]

RecvRst(f, s) ==
    /\ "RST" \in f.flags
    /\ Becomes(s, Closed)
    /\ AppCall(f.conn, {"ABORT"}, << >>)
    /\ Transmit({f}, {})
    /\ UNCHANGED <<pending, arp, at, opened, asked>>

IsSynAck(f) == f.flags = {"SYN", "ACK"}

InOrder_NoCheck(f, c) == TRUE   \* mutant: what arrives is taken as it comes

(* Data, a SYN or a FIN must carry the number expected next, but for the      *)
(* SYN-ACK that is waited for.                                                *)
InOrder(f, c) == \/ c.st = "SYN_SENT" /\ IsSynAck(f)
                 \/ f.data = << >> /\ f.flags \cap {"SYN", "FIN"} = {}
                 \/ f.seq = c.rcv

RecvOutOfOrder(f, s) ==
    /\ "RST" \notin f.flags /\ ~InOrder(f, conns[s])
    /\ Transmit({f}, {Out(conns[s], {"ACK"}, << >>)})
    /\ UNCHANGED <<conns, glue, pending, rx, arp, at, opened>> /\ UNCHANGED histories

Acks_Any(f, c) == "ACK" \in f.flags /\ Outstanding(c)   \* mutant: any number will do

(* Only an acknowledgement of everything outstanding counts.  The timeout is  *)
(* measured unless something was sent again.                                  *)
Acks(f, c) == "ACK" \in f.flags /\ Outstanding(c) /\ f.ack = c.snd + c.len

AfterAck(f, c, r) ==
    IF ~Acks(f, c) THEN c
    ELSE LET rto == IF c.nrtx = 0 THEN r ELSE c.rto
         IN  [c EXCEPT !.snd = @ + c.len, !.len = 0, !.timer = rto, !.rto = rto]

Arrived(f, s) == "RST" \notin f.flags /\ InOrder(f, conns[s])

RecvSynAck(f, s, r) ==
    /\ Arrived(f, s) /\ conns[s].st = "SYN_SENT" /\ IsSynAck(f) /\ Acks(f, conns[s])
    /\ LET c == [AfterAck(f, conns[s], r) EXCEPT
                   !.st = "ESTABLISHED", !.rcv = f.seq + 1, !.nrtx = 0]
       IN  /\ Becomes(s, c)
           /\ Transmit({f}, {Out(c, {"ACK"}, << >>)})
    /\ AppCall(f.conn, {"CONNECTED"}, << >>)
    /\ UNCHANGED <<pending, arp, at, opened, asked>>

(* The peer closes: its FIN is answered by ours at once.  uip_abort of an     *)
(* overflow is overwritten on this path.                                      *)
RecvFin(f, s, r) ==
    /\ Arrived(f, s) /\ conns[s].st = "ESTABLISHED" /\ "FIN" \in f.flags
    /\ LET a == AfterAck(f, conns[s], r)
           c == [a EXCEPT !.rcv = @ + Len(f.data) + 1, !.len = 1,
                          !.st = "LAST_ACK", !.nrtx = 0]
       IN  /\ ~Outstanding(a)
           /\ Becomes(s, c)
           /\ AppCall(f.conn, {"CLOSE"}, f.data)
           /\ Transmit({f}, {Out(c, {"FIN", "ACK"}, << >>)})
    /\ UNCHANGED <<pending, arp, at, opened, asked>>

(* Data and acknowledgements of an open connection.  Data that does not fit   *)
(* in the ring aborts the connection.                                         *)
RecvData(f, s, r) ==
    /\ Arrived(f, s) /\ conns[s].st = "ESTABLISHED" /\ "FIN" \notin f.flags
    /\ f.data # << >> \/ Acks(f, conns[s])
    /\ LET c == [AfterAck(f, conns[s], r) EXCEPT !.rcv = @ + Len(f.data), !.nrtx = 0]
           spilt == Len(f.data) > Free(rx)
       IN  /\ Becomes(s, IF spilt THEN Closed ELSE c)
           /\ Transmit({f}, IF spilt THEN {Out(c, {"RST", "ACK"}, << >>)}
                            ELSE IF f.data # << >> THEN {Out(c, {"ACK"}, << >>)}
                            ELSE {})
    /\ AppCall(f.conn, {}, f.data)
    /\ UNCHANGED <<pending, arp, at, opened, asked>>

RecvLastAck(f, s) ==
    /\ Arrived(f, s) /\ conns[s].st = "LAST_ACK" /\ Acks(f, conns[s])
    /\ Becomes(s, Closed)
    /\ AppCall(f.conn, {"CLOSE"}, << >>)
    /\ Transmit({f}, {})
    /\ UNCHANGED <<pending, arp, at, opened, asked>>

(* What changes nothing: an acknowledgement of nothing, a FIN that comes      *)
(* while our data is outstanding.                                             *)
RecvDropped(f, s) ==
    /\ Arrived(f, s) /\ conns[s].st # "SYN_SENT"
    /\ ~Acks(f, conns[s])
    /\ \/ f.data = << >> /\ f.flags \cap {"SYN", "FIN"} = {}
       \/ "FIN" \in f.flags /\ conns[s].st = "ESTABLISHED" /\ Outstanding(conns[s])
    /\ Transmit({f}, {})
    /\ UNCHANGED <<conns, glue, pending, rx, arp, at, opened>> /\ UNCHANGED histories

(* Urgent data (uip.c:1580-1597) is left out: the server sends none.          *)
RecvFor(f, s) == \/ RecvRst(f, s) \/ RecvOutOfOrder(f, s)
                 \/ RecvLastAck(f, s) \/ RecvDropped(f, s)
                 \/ \E r \in Rtos : RecvSynAck(f, s, r) \/ RecvFin(f, s, r) \/ RecvData(f, s, r)

RecvSegment == /\ at = 0
               /\ \E f \in net : /\ f.dir = "in"
                                 /\ \/ RecvNoConn(f)
                                    \/ \E s \in SlotsOf(f.conn) : RecvFor(f, s)
=============================================================================
