----------------------------- MODULE MCOperator -----------------------------
(* Small instances of Operator.                                            *)
EXTENDS Operator

CONSTANTS pod1, pod2

\* Two pods with leader election: crashes and lost Leases, a pod that is
\* terminated, and a Secret or a webhook configuration that is edited, each with
\* a certificate that expires.
Elected == [election |-> TRUE, up |-> Instance, secrets |-> {NoCert, Empty, 1},
            faults |-> 2, stops |-> 0, expiries |-> 1, edits |-> 0, unpatched |-> 0]
Stopped == [Elected EXCEPT !.secrets = {NoCert}, !.faults = 1, !.stops = 1]
Edited == [Elected EXCEPT !.secrets = {1, Malformed}, !.faults = 0, !.edits = 1]

\* One pod without, as the README asks for.
Alone == [Elected EXCEPT !.election = FALSE, !.up = {pod2}, !.stops = 1,
                         !.expiries = 2, !.edits = 2, !.unpatched = 1]

\* Two pods without election, as when one replaces the other.  Both have the
\* same certificate as long as none expires or is deleted.
Overlapping == [election |-> FALSE, up |-> Instance, secrets |-> {NoCert, 1},
                faults |-> 2, stops |-> 2, expiries |-> 0, edits |-> 0, unpatched |-> 0]

AllConfigs == {Elected, Stopped, Edited, Alone, Overlapping}
=============================================================================
