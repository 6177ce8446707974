----------------------------- MODULE ByteStream -----------------------------
(***************************************************************************)
(* What a stream promises its reader, whatever the order, the segmentation *)
(* and the repetition of the frames that arrive: the bytes come out in     *)
(* order and once, none is lost on the way, and the end of the stream is   *)
(* reported after the last byte.  DataIn implements this module.           *)
(***************************************************************************)
EXTENDS Integers

CONSTANT MaxOff     \* the largest final size of a stream

VARIABLES
    final,  \* the peer's stream has the bytes 0..final-1
    got,    \* offsets of the bytes that have arrived
    fin,    \* the final size has arrived
    pos,    \* offset of the next byte to read
    eof     \* the reader was told that the stream has ended

vars == <<final, got, fin, pos, eof>>

Init ==
    /\ final \in 0 .. MaxOff
    /\ got = {}
    /\ fin = FALSE
    /\ pos = 0
    /\ eof = FALSE

(* A frame with the bytes lo..hi-1 arrives. *)
Receive ==
    \E lo \in 0 .. final, hi \in 0 .. final :
        /\ lo <= hi
        /\ got' = got \cup (lo .. hi - 1)
        /\ fin' \in {fin, fin \/ hi = final}
        /\ UNCHANGED <<final, pos, eof>>

(* The reader gets the next n bytes, and the end with the last of them. *)
Deliver ==
    \E n \in 0 .. final - pos :
        /\ ~eof
        /\ pos .. pos + n - 1 \subseteq got
        /\ pos' = pos + n
        /\ eof' = (fin /\ pos' = final)
        /\ UNCHANGED <<final, got, fin>>

Next == Receive \/ Deliver

Spec == Init /\ [][Next]_vars
=============================================================================
