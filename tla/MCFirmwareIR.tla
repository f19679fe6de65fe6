---------------------------- MODULE MCFirmwareIR -----------------------------
(* Codes of two bits in each byte, bytes of four values.  What is sent, what is *)
(* played and what is recorded share the code and the line only, and each has a *)
(* scenario of its own in which the others have little to do; in one more a key *)
(* comes before or after what is played.                                        *)
EXTENDS FirmwareIR

VARIABLE scenario

MCKeys  == {<<1, 0, 1, 0>>, <<0, 0, 1, 1>>}
MCWaves == {[ofs |-> 2, data |-> <<[len |-> 2, level |-> 0], [len |-> 0, level |-> 1]>>],
            [ofs |-> 0, data |-> <<[len |-> 2, level |-> 1]>>]}

MCInit == Init /\ scenario \in {"keys", "buffer", "input", "turns"}

\* Outside their scenario PD3 changes at every tick, CMD_IR_WBUF and BufferCode do not
\* come; one key goes with it, and none with the buffer.
MCNext ==
    /\ Next
    /\ scenario # "input"  => run' <= 1
    /\ scenario # "buffer" => poll'.op \notin {"data", "index"}
    /\ CASE scenario = "keys"   -> key' # BufferCode
         [] scenario = "input"  -> key' \in {NoCode, <<1, 0, 1, 0>>}
         [] scenario = "buffer" -> key' \in {NoCode, BufferCode}
         [] OTHER               -> key' \in {NoCode, <<0, 0, 1, 1>>, BufferCode}
    /\ UNCHANGED scenario

MCSpec == MCInit /\ [][MCNext]_<<vars, scenario>>
=============================================================================
