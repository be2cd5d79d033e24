-------------------------------- MODULE Input --------------------------------
(* Keyboard input of ppos: keyboard_handler (kernel_irq.pp) puts a key in a   *)
(* ring at 0x400000 from the interrupt, the shell task (kernel_shell.pp)      *)
(* polls the ring, edits the line at 0x400200 and runs it.  The interrupt can *)
(* arrive between any two of the shell's steps, and while a command runs.     *)
EXTENDS Integers, Sequences

CONSTANTS RingSize,    \* 256 slots
          Chars,       \* printable keys
          NewLine, Backspace,
          NUL,         \* the byte 0
          MaxKeys      \* bound: keys pressed

Keys == Chars \cup {NewLine, Backspace}

ASSUME InputAssumption ==
    /\ RingSize \in Nat \ {0} /\ MaxKeys \in Nat
    /\ NewLine # Backspace /\ {NewLine, Backspace, NUL} \cap Chars = {}
    /\ NUL \notin Keys

VARIABLES
    ring, kb_w, kb_r,   \* a slot holds the key and, as history, its number
    pressed,            \* history: keys stored by the interrupt handler
    pc,                 \* the shell's next step
    c,                  \* the key input_read returned
    line, line_len,     \* the command line buffer
    shown,              \* what is after the prompt on the screen
    ran                 \* the last line run: its text, and what was shown

ringVars == <<ring, kb_w, kb_r, pressed>>
lineVars == <<line, line_len, shown, ran>>
vars == <<ringVars, lineVars, pc, c>>

Init == /\ ring = [s \in 0..RingSize - 1 |-> [key |-> NUL, at |-> 0]]
        /\ kb_w = 0 /\ kb_r = 0 /\ pressed = 0
        /\ pc = "poll" /\ c = [key |-> NUL, at |-> 0]
        /\ line = [a \in 0..MaxKeys |-> NUL] /\ line_len = 0
        /\ shown = << >>
        /\ ran = [text |-> << >>, shown |-> << >>]

(* A press the scancode table knows; releases and other keys store nothing.   *)
(* There is no test for a full ring.                                          *)
keyboard_handler ==
    /\ pressed < MaxKeys
    /\ \E k \in Keys : ring' = [ring EXCEPT ![kb_w] = [key |-> k, at |-> pressed + 1]]
    /\ kb_w' = (kb_w + 1) % RingSize
    /\ pressed' = pressed + 1
    /\ UNCHANGED <<kb_r, lineVars, pc, c>>

(* input_read in three steps: the test, the load and the update of kb_r.      *)
Poll == /\ pc = "poll" /\ kb_r # kb_w
        /\ pc' = "load"
        /\ UNCHANGED <<ringVars, lineVars, c>>

Load == /\ pc = "load"
        /\ c' = ring[kb_r] /\ pc' = "advance"
        /\ UNCHANGED <<ringVars, lineVars>>

Advance_Stays == /\ pc = "advance"   \* mutant: kb_r is not moved
                 /\ pc' = "edit"
                 /\ UNCHANGED <<ringVars, lineVars, c>>

Advance == /\ pc = "advance"
           /\ kb_r' = (kb_r + 1) % RingSize /\ pc' = "edit"
           /\ UNCHANGED <<ring, kb_w, pressed, lineVars, c>>

(******************************** the editor *********************************)
(* process_line compares the buffer as a string that ends at its first NUL,   *)
(* and does nothing, not even clear it, when line_len is 0.                   *)
CString == LET end == CHOOSE e \in 0..MaxKeys :
                         line[e] = NUL /\ \A a \in 0..e - 1 : line[a] # NUL
           IN [i \in 1..end |-> line[i - 1]]

process_line ==
    /\ pc = "edit" /\ c.key = NewLine
    /\ ran' = IF line_len = 0 THEN ran ELSE [text |-> CString, shown |-> shown]
    /\ line_len' = 0
    /\ shown' = << >>
    /\ pc' = "poll"
    /\ UNCHANGED <<ringVars, line, c>>

Erase_NoTest ==   \* mutant: erases an empty line too
    /\ pc = "edit" /\ c.key = Backspace
    /\ line_len' = line_len - 1
    /\ shown' = SubSeq(shown, 1, Len(shown) - 1)
    /\ pc' = "poll"
    /\ UNCHANGED <<ringVars, line, ran, c>>

Erase ==
    /\ pc = "edit" /\ c.key = Backspace
    /\ IF line_len > 0
       THEN /\ line_len' = line_len - 1
            /\ shown' = SubSeq(shown, 1, Len(shown) - 1)
       ELSE UNCHANGED <<line_len, shown>>
    /\ pc' = "poll"
    /\ UNCHANGED <<ringVars, line, ran, c>>

Type ==
    /\ pc = "edit" /\ c.key \in Chars
    /\ line' = [line EXCEPT ![line_len] = c.key, ![line_len + 1] = NUL]
    /\ line_len' = line_len + 1
    /\ shown' = Append(shown, c.key)
    /\ pc' = "poll"
    /\ UNCHANGED <<ringVars, ran, c>>

Next == keyboard_handler \/ Poll \/ Load \/ Advance \/ process_line \/ Erase \/ Type
Spec == Init /\ [][Next]_vars

(******************************** properties *********************************)
(* Every key input_read loads was pressed after the one it loaded before: keys *)
(* reach the editor in order and each at most once, although the handler       *)
(* advances kb_w without looking at kb_r.  A ring that fills up looks empty,   *)
(* so the keys between the two are lost a whole ring at a time.                *)
KeysInOrder ==
    [][Load => c'.at > c.at /\ (c'.at - c.at - 1) % RingSize = 0]_vars

(* The buffer up to line_len is what the user sees after the prompt, through  *)
(* any sequence of characters, erasures and line ends.                        *)
LineIsShown ==
    /\ line_len = Len(shown)
    /\ \A i \in 1..Len(shown) : line[i - 1] = shown[i]

(* The command that runs is the line shown on the screen.                     *)
CommandIsShown == ran.text = ran.shown
=============================================================================
