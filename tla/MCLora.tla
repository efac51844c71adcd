------------------------------- MODULE MCLora -------------------------------
(* An instance of Lora: bytes as small numbers, and a checksum of few values,  *)
(* so that mixtures of bytes do have a matching one.                          *)
EXTENDS Lora

MCCrc(s) == FoldLeft(LAMBDA n, b : (3 * n + b) % 16, 0, s)

Frame(d, b, c, n) == [dev |-> d, building |-> b, cmd |-> c, len |-> n]
\* A report and a command of two detectors, a void address, and a frame of another
\* building that recv_buf has no room for.  (Lengths that are refused arise from
\* frames with bytes missing.)
MCFrames ==
    {Frame(3, Building, CMD_REPORT, 1), Frame(6, Building, CMD_SET, 0),
     Frame(0, Building, CMD_REPORT, 0), Frame(5, Foreign, Other, MaxLen - 1)}
=============================================================================
