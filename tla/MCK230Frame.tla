---------------------------- MODULE MCK230Frame -----------------------------
(***************************************************************************)
(* Values for model checking K230Frame.  The markers lie above the longest *)
(* payload, as 0x55 and 0xAA lie above 64, and occur in the frames.        *)
(***************************************************************************)
EXTENDS K230Frame

MCFrames ==
  { [cmd |-> 1, seq |-> 0,   payload |-> <<>>],
    [cmd |-> 0, seq |-> STX, payload |-> <<ETX>>],
    [cmd |-> 1, seq |-> ETX, payload |-> <<STX>>] }

\* A checksum that depends on every byte and on their order.
MCCrc(data) ==
  LET n == Len(data)
      at(i) == IF i <= n THEN data[i] ELSE 0
  IN  << (1 + at(1) + 2 * at(2) + at(3)) % 4, (3 + at(1) + at(2) + n) % 4 >>
=============================================================================
