-------------------------------- MODULE Tcp --------------------------------
(* The TCP client of UipGlue between a command of ppos that asks for a page   *)
(* (http_get_host of net.pp) and a server that speaks TCP, over a network     *)
(* that loses, repeats and reorders segments.  The server, the gateway and    *)
(* the network are external: they do what a correct TCP peer may do.          *)
EXTENDS UipGlue, FiniteSetsExt

CONSTANTS Requests,   \* lengths of the pieces a command sends
          RequestMax, \* bound: bytes a command sends on one connection
          AnswerAfter, \* bytes of the request the server waits for before it answers
          AnswerLen   \* bytes the server writes on one connection

ASSUME TcpAssumption == /\ RequestMax \in Nat /\ Requests \subseteq Nat
                        /\ AnswerAfter \in Nat /\ AnswerLen \in Nat

VARIABLES app,    \* the command: phase, bytes sent, bytes got
          srv,    \* connection -> the server's end
          told,   \* history: connection -> bytes the server's program wrote
          heard   \* history: connection -> bytes the server took

vars == <<conns, glue, pending, rx, arp, at, opened, net, arps, asked, fed, fedNow,
          app, srv, told, heard>>

Byte(k, i) == <<k, i>>                      \* the i-th byte meant for connection k
Bytes(k, from, n) == [i \in 1..n |-> Byte(k, from + i)]

NoServer == [st |-> "DEAD", rcv |-> 0, una |-> 0, wrote |-> 0, fin |-> FALSE]

Init == /\ ClientInit
        /\ app = [phase |-> "idle", said |-> 0, got |-> << >>]
        /\ srv = [k \in Connections |-> [NoServer EXCEPT !.st = "LISTEN"]]
        /\ told = [k \in Connections |-> << >>]
        /\ heard = [k \in Connections |-> << >>]

-----------------------------------------------------------------------------
(* The command.                                                               *)

AppConnect ==
    /\ app.phase = "idle"
    /\ \/ Connect /\ app' = [phase |-> "connecting", said |-> 0, got |-> << >>]
       \/ ConnectRefused /\ app' = [phase |-> "idle", said |-> 0, got |-> << >>]
    /\ UNCHANGED <<srv, told, heard>>

AppConnected == /\ at = 0 /\ app.phase = "connecting" /\ glue.established
                /\ app' = [app EXCEPT !.phase = "open"]
                /\ UNCHANGED clientVars /\ UNCHANGED <<srv, told, heard>>

AppSend(n) == /\ at = 0 /\ app.phase = "open" /\ app.said + n <= RequestMax
              /\ GlueSend(Bytes(opened, app.said, n))
              /\ app' = [app EXCEPT !.said = @ + n]
              /\ UNCHANGED <<srv, told, heard>>

AppRecv(n) == /\ at = 0 /\ app.phase = "open"
              /\ GlueRecv(n)
              /\ app' = [app EXCEPT !.got = @ \o SubSeq(Content(rx), 1, n)]
              /\ UNCHANGED <<srv, told, heard>>

(* The command returns: the connection closed, a boundary error, a piece that *)
(* was not accepted, or it polled often enough without news.  It leaves the   *)
(* connection as it is: the glue cannot close one.                            *)
AppEnd == /\ at = 0 /\ app.phase # "idle"
          /\ app' = [app EXCEPT !.phase = "idle"]
          /\ UNCHANGED clientVars /\ UNCHANGED <<srv, told, heard>>

App == \/ AppConnect \/ AppConnected \/ AppEnd
       \/ \E n \in Requests : AppSend(n)
       \/ \E n \in 1..RXBUF_CAP : AppRecv(n)

-----------------------------------------------------------------------------
(* The gateway, external, asks for ppos; what it answers is in Transmit.      *)

GatewayAsks ==
    /\ ~ArpKnows(arp.tab, Gateway) /\ "who has ppos" \notin arps
    /\ UNCHANGED net /\ arps' = arps \cup {"who has ppos"} /\ WithinBound
    /\ UNCHANGED <<conns, glue, pending, rx, arp, at, opened, app, srv, told, heard>>
    /\ UNCHANGED histories

-----------------------------------------------------------------------------
(* The server, external.                                                      *)

SrvSends(used, out) ==
    /\ net' \in {net \ used, (net \ used) \cup out}
    /\ UNCHANGED <<conns, glue, pending, rx, arp, at, opened, arps, app>>
    /\ WithinBound
    /\ UNCHANGED histories

In(k, flags, seq, data) == Segment("in", k, flags, seq, srv'[k].rcv, data)
ServerIs(k, v) == srv' = [srv EXCEPT ![k] = v]

SrvSyn(k, f) ==
    /\ f.flags = {"SYN"} /\ srv[k].st \in {"LISTEN", "SYN_RCVD"}
    /\ ServerIs(k, [srv[k] EXCEPT !.st = "SYN_RCVD", !.rcv = 1])
    /\ SrvSends({f}, {In(k, {"SYN", "ACK"}, 0, << >>)})
    /\ UNCHANGED <<told, heard>>

SrvRst(k, f) == /\ "RST" \in f.flags
                /\ ServerIs(k, NoServer)
                /\ SrvSends({f}, {})
                /\ UNCHANGED <<told, heard>>

(* A segment in order is taken, any other one is answered by what is expected.*)
SrvRecv(k, f) ==
    /\ "RST" \notin f.flags /\ "ACK" \in f.flags /\ srv[k].st \in {"SYN_RCVD", "OPEN"}
    /\ LET v == srv[k]
           last == v.wrote + 1 + (IF v.fin THEN 1 ELSE 0)
           una == IF v.una < f.ack /\ f.ack <= last THEN f.ack ELSE v.una
           inOrder == f.seq = v.rcv
           len == Len(f.data) + (IF "FIN" \in f.flags THEN 1 ELSE 0)
       IN  /\ v.st = "OPEN" \/ f.ack = 1
           /\ ServerIs(k, [v EXCEPT !.st = "OPEN", !.una = una,
                                    !.rcv = IF inOrder THEN @ + len ELSE @])
           /\ UNCHANGED told
           /\ heard' = [heard EXCEPT ![k] = IF inOrder THEN @ \o f.data ELSE @]
           /\ SrvSends({f}, IF len > 0 THEN {In(k, {"ACK"}, 0, << >>)} ELSE {})

(* A dead end answers a segment by a reset.                                   *)
SrvRefuse(k, f) == /\ "RST" \notin f.flags /\ srv[k].st = "DEAD"
                   /\ UNCHANGED srv
                   /\ SrvSends({f}, {In(k, {"RST"}, 0, << >>)})
                   /\ UNCHANGED <<told, heard>>

(* Its program reads what it waits for, writes its answer, byte by byte, and  *)
(* then closes its end; the host may die before that.                         *)
SrvWrite(k) == /\ srv[k].st = "OPEN" /\ srv[k].wrote < AnswerLen
               /\ AnswerAfter <= Len(heard[k])
               /\ ServerIs(k, [srv[k] EXCEPT !.wrote = @ + 1])
               /\ told' = [told EXCEPT ![k] = Append(@, Byte(k, srv[k].wrote + 1))]
SrvFin(k) == /\ srv[k].st = "OPEN" /\ srv[k].wrote = AnswerLen /\ ~srv[k].fin
             /\ ServerIs(k, [srv[k] EXCEPT !.fin = TRUE])
             /\ UNCHANGED told
SrvDies(k) == /\ srv[k].st # "DEAD" /\ ~srv[k].fin
              /\ ServerIs(k, NoServer)
              /\ UNCHANGED told

SrvProgram(k) == /\ SrvWrite(k) \/ SrvFin(k) \/ SrvDies(k)
                 /\ SrvSends({}, {}) /\ UNCHANGED heard

(* Bytes not acknowledged are sent, as often as it likes, with the FIN at the *)
(* end of the last of them.                                                   *)
SrvTransmit(k) ==
    /\ srv[k].st = "OPEN"
    /\ \E p \in srv[k].una..srv[k].wrote + 1, n \in 0..UIP_TCP_MSS, fin \in BOOLEAN :
          /\ p + n <= srv[k].wrote + 1 /\ (n > 0 \/ fin)
          /\ fin => srv[k].fin /\ p + n = srv[k].wrote + 1
          /\ UNCHANGED srv
          /\ SrvSends({}, {In(k, {"ACK"} \cup (IF fin THEN {"FIN"} ELSE {}), p,
                              Bytes(k, p - 1, n))})
    /\ UNCHANGED <<told, heard>>

Server == \/ \E k \in Connections : SrvProgram(k) \/ SrvTransmit(k)
          \/ \E f \in net : /\ f.dir = "out"
                            /\ \/ SrvSyn(f.conn, f) \/ SrvRst(f.conn, f)
                               \/ SrvRecv(f.conn, f) \/ SrvRefuse(f.conn, f)

-----------------------------------------------------------------------------
Poll == /\ Tick \/ CardFails \/ RecvArpReply \/ RecvArpRequest \/ RecvSegment
        /\ UNCHANGED <<app, srv, told, heard>>

(* The loop over the slots reads no frame: what the gateway and the server do *)
(* meanwhile may as well happen after it.                                     *)
Outside == at = 0 /\ (GatewayAsks \/ Server)

Next == App \/ Poll \/ Outside

(* A command at work polls over and over, and the clock of the poll goes on.  *)
(* Between two commands nobody polls: the shell only reads the keyboard.      *)
Fairness == WF_vars(app.phase # "idle" /\ Tick /\ UNCHANGED <<app, srv, told, heard>>)

Spec == Init /\ [][Next]_vars /\ Fairness

-----------------------------------------------------------------------------
Flags == {"SYN", "ACK", "FIN", "RST"}
AllBytes == Connections \X Nat
States == {"CLOSED", "SYN_SENT", "ESTABLISHED", "LAST_ACK"}

(* Types.  A slot that is not CLOSED belongs to a connection that was opened, *)
(* and no connection has two slots.                                           *)
TcpTypeOK ==
    /\ conns \in [Slots -> [st : States, conn : 0..OpenMax, snd : Nat, len : Nat,
                            rcv : Nat, timer : Nat, rto : Nat, nrtx : Nat]]
    /\ \A s \in Slots : Live(s) => conns[s].conn \in 1..opened /\ SlotsOf(conns[s].conn) = {s}
    /\ glue \in [established : BOOLEAN, closed : BOOLEAN, error : BOOLEAN]
    /\ pending \in Seq(AllBytes) /\ Len(pending) <= PENDING_CAP
    /\ rx.head \in 0..RXBUF_CAP - 1 /\ rx.tail \in 0..RXBUF_CAP - 1
    /\ at \in 0..UIP_CONNS - 1 /\ opened \in 0..OpenMax
    /\ \A f \in net : /\ f.dir \in {"in", "out"} /\ f.conn \in 1..opened
                      /\ f.flags \subseteq Flags /\ f.data \in Seq(AllBytes)

(* The receive ring is a queue through every wrap, overflow and reset: what   *)
(* the command got since the last uip_glue_connect, followed by what the ring *)
(* holds, is what uip_appcall put into it since.                              *)
RingIsQueue == app.got \o Content(rx) = fedNow

(* The numbers of an open connection count its bytes, and the two ends agree  *)
(* but for what is under way: the server expects something uip has            *)
(* outstanding or sends next, and counts nothing as received that the glue    *)
(* was not given.                                                             *)
EndsAgree ==
    \A s \in Slots : LET c == conns[s]
                         k == c.conn
                     IN  c.st = "ESTABLISHED" =>
        /\ c.snd + c.len = 1 + Len(asked[k])
        /\ c.rcv = 1 + Len(fed[k])
        /\ srv[k].st = "OPEN" => /\ srv[k].rcv \in c.snd..c.snd + c.len
                                 /\ srv[k].una <= c.rcv

(* uip takes what segment f carries for slot s.                               *)
Takes(f, s) == /\ f.dir = "in" /\ s \in SlotsOf(f.conn)
               /\ \E r \in Rtos : RecvData(f, s, r) \/ RecvFin(f, s, r)

(* The command hears of every byte it will not get and of every end.  What    *)
(* uip takes goes into the ring, all of it, or none of it and glue_last_error *)
(* and conn_closed are set, whether the connection is aborted for that or its *)
(* peer is closing it anyway; no open connection ends, for whatever reason,   *)
(* without conn_closed; and a flag that was set stays so until a command      *)
(* connects again, whatever arrives or is polled before the command looks.    *)
LossReported ==
    [][/\ \A s \in Slots :
            /\ \A f \in net : Takes(f, s) =>
                 IF Len(f.data) > Free(rx)
                 THEN glue'.error /\ glue'.closed /\ UNCHANGED <<rx, fed>>
                 ELSE fed' = [fed EXCEPT ![f.conn] = @ \o f.data]
            /\ conns[s].st = "ESTABLISHED" /\ conns'[s].st # "ESTABLISHED" => glue'.closed
       /\ (glue.error /\ ~glue'.error) \/ (glue.closed /\ ~glue'.closed) => ResetGlue]_vars

(* While a command polls, what is outstanding on a connection is acknowledged *)
(* in the end or the connection is given up: no network and no silent peer    *)
(* keeps uip waiting for as long as it is polled.  A command whose loop ends  *)
(* first (20 rounds without news, net.pp:662) leaves it outstanding, and so   *)
(* it stays.  The answer is finite (AnswerLen): data that arrives sets nrtx   *)
(* back, so a peer that acknowledged nothing but wrote for ever would be      *)
(* waited for.                                                                *)
Waits(s) == Live(s) /\ Outstanding(conns[s])
OutstandingSettles == \A s \in Slots : Waits(s) ~> (~Waits(s) \/ app.phase = "idle")

(* Each connection is two streams (Stream): the server gets a prefix of what  *)
(* the command handed over on it, the ring a prefix of what the server wrote, *)
(* in order and once, and nothing after the connection's end.                 *)
S == INSTANCE Stream WITH over <- [k \in Connections |-> k <= opened /\ SlotsOf(k) = {}]
ImplementsStream == S!StreamSpec

(* Every byte a command gets comes from the connection it opened.             *)
OwnAnswer == \A i \in DOMAIN app.got : app.got[i][1] = opened
=============================================================================
