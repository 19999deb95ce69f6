------------------------------- MODULE MCHost -------------------------------
(* The adapter between host and machine. Its parts share no state: a         *)
(* behaviour is one part's, chosen at the start, with the others at rest.    *)
EXTENDS HostInput, Pointer, Picture

VARIABLE part

vars == <<part, inputVars, pointerVars, pictureVars>>

\* A part at rest starts in one of its initial states.
Init ==
    /\ InputInit /\ PointerInit /\ PictureInit
    /\ part \in {"input", "pointer", "picture"}
    /\ part # "input" => settings = <<FALSE, FALSE, 0>>
    /\ part # "pointer" => range = CHOOSE r \in Ranges : TRUE
    /\ part # "picture" =>
        ~vga_render_on_demand /\ cache = All(shown) /\ shown = (CHOOSE c \in Contents : TRUE)

Next ==
    /\ UNCHANGED part
    /\ \/ part = "input" /\ InputNext /\ UNCHANGED <<pointerVars, pictureVars>>
       \/ part = "pointer" /\ PointerNext /\ UNCHANGED <<inputVars, pictureVars>>
       \/ part = "picture" /\ PictureNext /\ UNCHANGED <<inputVars, pointerVars>>

Spec == Init /\ [][Next]_vars

\* Each part keeps its types; the rows drawn and the rows the beam has passed
\* stay within the mode.
HostTypeOK == InputTypeOK /\ PointerTypeOK /\ PictureTypeOK
=============================================================================
