------------------------------- MODULE MCTcp -------------------------------
(* TLC's instances of Tcp, and the comparisons of its helpers with what they  *)
(* are to compute, on small instances of their own.                           *)
EXTENDS Tcp, UipMath, Libc, TLC

Table == INSTANCE Arp WITH UIP_ARPTAB_SIZE <- 3, UIP_ARP_MAXAGE <- 2, ArpClock <- 8

(* Every table of three entries and two hosts.  A host that is heard of has   *)
(* one entry, stamped now; another host loses its entry only when the table   *)
(* was full, and then the one of largest age goes, or entry 0.                *)
Tables == {tab \in [Table!ArpIndex -> [ip : {NoHost, "g", "h"}, time : 0..7]] :
             \A host \in {"g", "h"} : Cardinality(Table!EntriesOf(tab, host)) <= 1}

ASSUME ArpUpdateRight ==
    \A tab \in Tables, now \in {0, 3, 7}, ip \in {"g", "n"} :
        LET new == Table!ArpUpdate(tab, now, ip)
            gone == {i \in Table!ArpIndex : tab[i].ip \notin {NoHost, ip} /\ new[i] # tab[i]}
        IN  /\ \E i \in Table!ArpIndex :
                  Table!EntriesOf(new, ip) = {i} /\ new[i].time = now
            /\ \A i \in gone : Table!EntriesOf(tab, NoHost) \cup Table!EntriesOf(tab, ip) = {}
            /\ Cardinality(gone) <= 1

(* An entry made at clock value t is dropped at the first call of             *)
(* uip_arp_timer that finds it MAXAGE old, if the clock gets there before it  *)
(* wraps; one made later than that is never dropped (uip_arp.c:150 compares   *)
(* an int that is negative after the wrap).                                   *)
ASSUME ArpAgeing ==
    \A t \in 0..7 :
        LET tab == [i \in Table!ArpIndex |-> [ip |-> "g", time |-> t]]
        IN  (\E now \in 0..7 : ~Table!ArpKnows(Table!ArpAge(tab, now), "g")) <=> t + 2 <= 7

ASSUME SequenceNumbers == Add32IsAddition
ASSUME Checksums == /\ ChksumIsSum(UNION {[1..n -> Octet] : n \in 0..3}) /\ IcmpReplyKeepsSum
ASSUME Copies == CopiesExactly([0..4 -> {0, 1}], 0..4)
=============================================================================
