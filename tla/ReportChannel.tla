--------------------------- MODULE ReportChannel ---------------------------
(***************************************************************************)
(* What a projection session promises about the touch surface: while it is *)
(* open, every report that was accepted takes effect at the phone, once    *)
(* and in the order of acceptance.  Reports may be discarded only before   *)
(* the phone has begun to record, and the session may break at any time,   *)
(* which lets go of everything.                                            *)
(***************************************************************************)
EXTENDS Sequences

CONSTANTS
    Report,         \* reports of the touch surface
    Effect(_, _)    \* contacts after a report

VARIABLES
    open,       \* the session takes and delivers reports
    recording,  \* the phone has begun to record
    pipe,       \* reports accepted and not yet delivered
    contacts    \* what the phone holds to be pressed

vars == <<open, recording, pipe, contacts>>

Init == ~open /\ ~recording /\ pipe = <<>> /\ contacts = {}

Open == ~open /\ open' = TRUE /\ UNCHANGED <<recording, pipe, contacts>>

Record == open /\ ~recording /\ recording' = TRUE /\ UNCHANGED <<open, pipe, contacts>>

Accept(r) == open /\ pipe' = Append(pipe, r) /\ UNCHANGED <<open, recording, contacts>>

Deliver ==
    /\ recording /\ pipe # <<>>
    /\ contacts' = Effect(contacts, Head(pipe)) /\ pipe' = Tail(pipe)
    /\ UNCHANGED <<open, recording>>

Discard ==
    /\ ~recording /\ pipe # <<>>
    /\ pipe' = Tail(pipe) /\ UNCHANGED <<open, recording, contacts>>

Break ==
    /\ open
    /\ open' = FALSE /\ recording' = FALSE /\ pipe' = <<>> /\ contacts' = {}

Next == Open \/ Record \/ (\E r \in Report : Accept(r)) \/ Deliver \/ Discard \/ Break

Spec == Init /\ [][Next]_vars
=============================================================================
