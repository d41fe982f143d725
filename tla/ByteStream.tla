----------------------------- MODULE ByteStream -----------------------------
(***************************************************************************)
(* What a caller of connect_stream may expect of the stream it is given:   *)
(* the far end receives what was written, in order and once, then the end  *)
(* of the stream if the caller shut it down.  The stream may fail, and     *)
(* then takes no more.  If a connection is lost and it is in doubt what    *)
(* the far end made of it, the stream may be given again from the start.   *)
(* The k-th item the caller hands over is the number k, whether it is a    *)
(* piece of data or the shutdown.                                          *)
(***************************************************************************)
EXTENDS Naturals, Sequences

VARIABLES
    written,   \* items taken from the caller
    received,  \* items the far end has been given, since the last restart
    doubt,     \* the far end may be given them again
    failed     \* the caller has been told of a failure

bsVars == <<written, received, doubt, failed>>

BSInit == written = 0 /\ received = <<>> /\ doubt = FALSE /\ failed = FALSE

Take == ~failed /\ written' = written + 1 /\ UNCHANGED <<received, doubt, failed>>

Give ==
    /\ Len(received) < written
    /\ received' = Append(received, Len(received) + 1)
    /\ UNCHANGED <<written, doubt, failed>>

Lose == ~doubt /\ doubt' = TRUE /\ UNCHANGED <<written, received, failed>>

Restart ==
    /\ doubt
    /\ doubt' = FALSE
    /\ received' = <<>>
    /\ UNCHANGED <<written, failed>>

Fail == failed' = TRUE /\ UNCHANGED <<written, received, doubt>>

BSNext == Take \/ Give \/ Lose \/ Restart \/ Fail

BSSpec == BSInit /\ [][BSNext]_bsVars
=============================================================================
