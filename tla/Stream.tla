------------------------------- MODULE Stream -------------------------------
(* What a TCP connection promises, whatever the network does: two streams of  *)
(* bytes, of which each end is given a prefix of what the other end wrote, in *)
(* order and each byte once; when the client's end is over, it neither takes  *)
(* nor gives any more.                                                        *)
EXTENDS Sequences, SequencesExt

CONSTANT Connections

VARIABLES asked,    \* connection -> bytes the client's stack accepted for it
          heard,    \* connection -> bytes the server's program got
          told,     \* connection -> bytes the server's program wrote
          fed,      \* connection -> bytes the client's program was given
          over      \* connection -> the client's end is gone for good

streamVars == <<asked, heard, told, fed, over>>

StreamInit == /\ asked = [k \in Connections |-> << >>]
              /\ heard = [k \in Connections |-> << >>]
              /\ told = [k \in Connections |-> << >>]
              /\ fed = [k \in Connections |-> << >>]
              /\ over = [k \in Connections |-> FALSE]

(* Stream f gets more bytes on connection k, and nothing else changes in it.  *)
Grows(f, g, k) == /\ g[k] # f[k] /\ IsPrefix(f[k], g[k])
                  /\ g = [f EXCEPT ![k] = g[k]]

Ask(k) == /\ Grows(asked, asked', k) /\ ~over[k]
          /\ UNCHANGED <<heard, told, fed, over>>

Hear(k) == /\ Grows(heard, heard', k) /\ IsPrefix(heard'[k], asked[k])
           /\ UNCHANGED <<asked, told, fed, over>>

Tell(k) == /\ Grows(told, told', k)
           /\ UNCHANGED <<asked, heard, fed, over>>

Feed(k) == /\ Grows(fed, fed', k) /\ ~over[k] /\ IsPrefix(fed'[k], told[k])
           /\ UNCHANGED <<asked, heard, told, over>>

End(k) == /\ ~over[k] /\ over' = [over EXCEPT ![k] = TRUE]
          /\ UNCHANGED <<asked, heard, told, fed>>

StreamNext == \E k \in Connections : Ask(k) \/ Hear(k) \/ Tell(k) \/ Feed(k) \/ End(k)

StreamSpec == StreamInit /\ [][StreamNext]_streamVars
=============================================================================
