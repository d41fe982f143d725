---------------------------- MODULE AnytlsProto ----------------------------
(***************************************************************************)
(* The frames of the AnyTLS protocol, as both ends see them.  A payload is *)
(* its position in its stream: 1, 2, 3 ... in each direction.              *)
(***************************************************************************)
EXTENDS Naturals, Sequences, FiniteSets

CONSTANT Streams  \* the stream ids a session hands out; 0 is the session itself

ASSUME StreamsAssumption == Streams \subseteq Nat \ {0}

\* "Other" stands for the commands an end ignores: WASTE, padding updates,
\* server settings and unknown ones.
Command == {"Syn", "Psh", "Fin", "Settings", "Alert", "SynAck",
            "HeartRequest", "HeartResponse", "Other"}

Frame == [cmd : Command, sid : Streams \cup {0}, n : Nat]

MkFrame(cmd, sid, n) == [cmd |-> cmd, sid |-> sid, n |-> n]

NoFrame == MkFrame("Other", 0, 0)

\* A PSH with payload 0 is the target address or the UoT request; a SYNACK
\* with payload 0 is empty, any other carries an error.
Header == 0
=============================================================================
