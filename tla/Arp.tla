-------------------------------- MODULE Arp --------------------------------
(* The address table of uip_arp.c, as operators on a table and its clock.     *)
(* uip_arp_ipin is an empty macro in this tree (uip_arp.h:84), so only ARP    *)
(* frames enter addresses.  A hardware address is left out: a host has one.   *)
EXTENDS Integers, FiniteSets

CONSTANTS UIP_ARPTAB_SIZE,  \* 8
          UIP_ARP_MAXAGE,   \* 120 calls of uip_arp_timer
          ArpClock,         \* 256: arptime is a u8_t
          NoHost            \* the address 0.0.0.0 of an unused entry

ASSUME ArpAssumption == /\ UIP_ARPTAB_SIZE \in Nat \ {0}
                        /\ UIP_ARP_MAXAGE \in Nat /\ ArpClock \in Nat \ {0}

ArpIndex == 0..UIP_ARPTAB_SIZE - 1
Unused == [ip |-> NoHost, time |-> 0]
ArpInit == [i \in ArpIndex |-> Unused]

LowestIn(S) == CHOOSE i \in S : \A j \in S : i <= j

EntriesOf(tab, ip) == {i \in ArpIndex : tab[i].ip = ip}

(* The first entry whose age is the largest above zero, else entry 0.  Ages   *)
(* are differences of bytes taken as ints: negative once arptime has wrapped. *)
OldestEntry(tab, now) ==
    LET Age(i) == now - tab[i].time
        oldest == {i \in ArpIndex : Age(i) > 0 /\ \A j \in ArpIndex : Age(j) <= Age(i)}
    IN  IF oldest = {} THEN 0 ELSE LowestIn(oldest)

(* uip_arp_update: the host's entry, else an unused one, else the oldest.     *)
ArpUpdate(tab, now, ip) ==
    LET place == IF EntriesOf(tab, ip) # {} THEN LowestIn(EntriesOf(tab, ip))
                 ELSE IF EntriesOf(tab, NoHost) # {} THEN LowestIn(EntriesOf(tab, NoHost))
                 ELSE OldestEntry(tab, now)
    IN  [tab EXCEPT ![place] = [ip |-> ip, time |-> now]]

(* uip_arp_timer, now being arptime after its increment.  The time of an      *)
(* unused entry is never read.                                                *)
ArpAge(tab, now) ==
    [i \in ArpIndex |->
        IF tab[i].ip # NoHost /\ now - tab[i].time >= UIP_ARP_MAXAGE
        THEN Unused ELSE tab[i]]

ArpTick(now) == (now + 1) % ArpClock

(* uip_arp_out finds the hardware address of the next hop.                    *)
ArpKnows(tab, ip) == EntriesOf(tab, ip) # {}
=============================================================================
