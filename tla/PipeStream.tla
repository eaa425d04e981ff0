----------------------------- MODULE PipeStream -----------------------------
(* What a pipe promises: the bytes written are read once each, in the order *)
(* in which they were written, and no more than Capacity of them wait.      *)
EXTENDS Integers, Sequences, SequencesExt

CONSTANTS Byte, Capacity

VARIABLES stream,   \* the bytes written and not yet read
          out       \* the bytes just handed to a reader

Init == stream = <<>> /\ out = <<>>

(* A writer adds some bytes. *)
Put ==
  /\ stream' \in Seq(Byte) /\ stream' # stream
  /\ IsPrefix(stream, stream')
  /\ Len(stream') <= Capacity
  /\ UNCHANGED out

(* A reader takes some bytes. *)
Get ==
  /\ stream # <<>>
  /\ out' # <<>>
  /\ stream = out' \o stream'

(* The reader goes on; the bytes are its own. *)
Taken == out' = <<>> /\ UNCHANGED stream

Next == Put \/ Get \/ Taken

Spec == Init /\ [][Next]_<<stream, out>>
=============================================================================
